CONSTANTS
    MaxPid = 4
    TimeSlice = 1
    TickMod = 4
    TextMode = TRUE
    KmallocFails = TRUE
SPECIFICATION FairSpec
PROPERTIES
    EndedIsReaped
    ScheduleReturns
    EveryThreadRuns
