CONSTANTS
    MaxText = 5
    MaxWord = 8
    MaxReply = 4
    Numbers <- MCNumbers
SPECIFICATION Spec
INVARIANTS
    PretokensFollowTheAlternation
    HeapMergesBestPair
    DecodingInvertsEncoding
    StreamedProseIsStable
    EveryCallIsFound
    SavedPlanIsThePlan
    TheMostLikelySurvive
    
    ScratchHolds
CHECK_DEADLOCK FALSE
