CONSTANTS
    MaxKey = 6
    RecordSizes <- MCRecordSizes
    SSTDataBlockSize = 3
    Bytes <- MCBytes
    HashFunctions <- MCHashFunctions
    High = 8
    Low = 2
    m = 10
    maxK = 5
SPECIFICATION Spec
INVARIANTS ExcludedIsDisjoint
CHECK_DEADLOCK FALSE
