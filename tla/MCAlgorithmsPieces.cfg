CONSTANTS
    MaxText = 2
    MaxWord = 2
    MaxReply = 3
    Numbers <- MCNumbers
SPECIFICATION Spec
INVARIANT PiecesAreWholeCodepoints
CHECK_DEADLOCK FALSE
