CONSTANTS
    Kernel = Kernel
    User = User
    Threads = {t1, t2}
    Main = t1
    Handles = {p1, p2, p3}
    Lens = {1, 2}
    Hdr = 2
    KSize = 20
    USize = 10
    Limit = 20
    Mapped = 13
    WordMod = 40
    Null = Null
    None = None
CONSTRAINT OneSide
SYMMETRY Symmetries
SPECIFICATION Spec
INVARIANTS
    ApartUntilTight
    UsedCoversHeld
    HeapInv
CHECK_DEADLOCK FALSE
