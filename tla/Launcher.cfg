SPECIFICATION FairSpec
CONSTANTS
    MaxLoads = 2
    MaxPolls = 1
    MaxPosts = 2
    MaxStops = 2
    Clients = {a, b}
    Configs = {{s}, {}}
    DefaultRoots = {r}
INVARIANTS EveryRuntimeIsOwned 
PROPERTIES RecordGoesWithItsProcess RequestsReturn DeadRecordsGo
CHECK_DEADLOCK FALSE
