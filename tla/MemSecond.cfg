CONSTANTS
    BlockLen = 4
    WordBits = 4
    MaxBlocks = 28
    BitmapBlocks = 64
    MemsetBlocks = 32
    KernelBlocks = 5
    CountMod = 128
    Regions <- MemoryMap
    Programs <- OnePageOnly
    HeapPages = 4
    Stride = 6
    TableBlocks = 14
    MaxThreads = 2
    LastPage = 60
    MaxFile = 2
SPECIFICATION Spec
INVARIANTS
    UserReachesPages
