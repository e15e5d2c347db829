CONSTANTS
    W = 4
    H = 3
    Chars = {"c", "s"}
    Prompt <- MCPrompt
    Outputs <- MCOutputs
    Start <- MCStart
    Clear <- MCClear
    Halt <- MCHalt
    MaxLine = 6
    MaxBack = 1
SPECIFICATION Spec
INVARIANTS
    LineShown
PROPERTIES
    StaysInVideoMemory
CHECK_DEADLOCK FALSE
