CONSTANTS
    MaxKey = 6
    RecordSizes <- MCRecordSizes
    SSTDataBlockSize = 3
    Bytes <- MCBytes
    HashFunctions <- MCHashFunctions
    High = 8
    Low = 2
    m = 10
    maxK = 5
SPECIFICATION Spec
INVARIANTS IndexTiles BlocksReadBack NoFalseNegative GetExact GetRangeExactAboveStart
CHECK_DEADLOCK FALSE
