CONSTANTS
    MaxWorkers = 5
    MaxRows = 13
    TokenCounts = {1, 2}
    SizeModulus = 128
SPECIFICATION Spec
INVARIANTS RowsStayInside
