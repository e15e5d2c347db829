CONSTANTS
    Keys = {"a", ".", "+"}
    Packets <- MCPackets
    MaxX = 20
    MaxY = 6
    Overread = {"NUL", "a"}
    MaxCodes = 3
    MaxPackets = 2
SPECIFICATION Spec
INVARIANTS
    TypeOK
    KeysInOrder
    PointerFollows
CHECK_DEADLOCK FALSE
