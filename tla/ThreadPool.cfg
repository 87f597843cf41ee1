CONSTANTS
    NumWorkers = 3
    Callers = {c1}
    Sizes = {0, 1, 5}
    MaxCalls = 2
    MaxSpurious = 1
SPECIFICATION FairSpec
INVARIANTS TypeOK IndInv NoUseAfterDestroy EveryIndexOnce NoDoneStateLeak
PROPERTIES ImplementsForkJoin CallsReturn ShutdownCompletes
