CONSTANTS
    v1 = v1
    Keys <- MCKeys2
    Vals <- MCVals1
    KeyLen <- MCKeyLen2
    ValLen <- MCValLen1
    Nil = Nil
    Empty = Empty
    Missing = Missing
    MaxLevel = 3
    SSTSize = 3
    SSTNumPerLevel = 2
    BlockLen = 2
    BitmapMode = FALSE
    Faults = {}
    MaxSeq = 4
SPECIFICATION Spec
PROPERTIES DeletedStaysDeleted
CHECK_DEADLOCK FALSE
