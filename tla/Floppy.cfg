CONSTANTS
    Channel = 2
    Bytes = {"a0", "a1", "a2", "c0", "c1"}
    SPT = 3
    Tracks = 2
    MaxTries = 2
    Configs <- MCConfigs
    Asked = {0, 2, 10}
    Cuts = {1}
    MaxWrites = 1
SPECIFICATION FairSpec
INVARIANTS
    AtRest
    ReadGetsSector
PROPERTIES
    UpdateIsLocal
    CallReturns
CHECK_DEADLOCK FALSE
