CONSTANTS
    BlockLen = 4
    WordBits = 4
    MaxBlocks = 24
    BitmapBlocks = 64
    MemsetBlocks = 32
    KernelBlocks = 5
    CountMod = 128
    Regions <- MemoryMap
    Programs <- WellFormed
    HeapPages = 4
    Stride = 6
    TableBlocks = 18
    MaxThreads = 4
    LastPage = 60
    MaxFile = 2
SPECIFICATION Spec
INVARIANTS
    LeaseInv
    CountExact
    StackAfterImage
PROPERTIES
    ImplementsLease
