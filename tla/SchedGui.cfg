CONSTANTS
    MaxPid = 4
    TimeSlice = 1
    TickMod = 4
    TextMode = FALSE
    KmallocFails = TRUE
SPECIFICATION Spec
INVARIANTS
    ProcRing
    ContextsBeforeRemoval
