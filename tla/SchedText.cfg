CONSTANTS
    MaxPid = 5
    TimeSlice = 1
    TickMod = 4
    TextMode = TRUE
    KmallocFails = FALSE
SPECIFICATION Spec
INVARIANTS
    TypeOK
    TextInv
    ProcRing
    ThreadRing
    SavedContextOwn
    CpuMatchesList
    LoadsOnlyLive
    ReapedCompletely
    SchedOffOnlyInGets
PROPERTIES
    ImplementsLife
