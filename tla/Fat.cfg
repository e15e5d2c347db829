CONSTANTS
    Typed <- MCTyped
    Dos <- MCDos
    Values = {"w", "d2", "d3", "d4", "d5"}
    Texts = {"w"}
    Lines <- MCLines
    Machines <- MCMachines
    HardDisks = {"hda", "hdb"}
    SecLen = 5
    EntryLen = 2
    Limit12 = 5
    Limit16 = 20
    Limit32 = 40
    WordMod = 64
    RootSecs = 2
    PerSec = 2
    LastCluster = 5
    Phys = 4
    Links <- MCLinks
    Junk = "?"
    MaxOut = 6
SPECIFICATION FairSpec
INVARIANTS
    ReadsContents
PROPERTIES
    
    
    ReadingEnds
CHECK_DEADLOCK FALSE
