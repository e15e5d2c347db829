CONSTANTS
    MaxPid = 4
    TimeSlice = 1
    TickMod = 4
    TextMode = TRUE
    KmallocFails = FALSE
SPECIFICATION Spec
INVARIANTS
    PolledPidKnown
