CONSTANTS
    MaxWorkers = 5
    MaxRows = 13
    TokenCounts = {0, 1, 3, 4}
    SizeModulus = 128
SPECIFICATION Spec
INVARIANTS EachRowOnce
