CONSTANTS
    Docs <- MCDocs
    Features <- MCFeatures
    FeatureLists <- MCFeatureLists
    blockSize = 2
    NumBlocks = 2
    NumFeatures = 4
    NoDoc = NoDoc
    Keys <- MCKeys
    Vals <- MCVals
    KeyLen <- MCKeyLen
    ValLen <- MCValLen
    Nil = Nil
    Empty = Empty
    Missing = Missing
    MaxLevel = 3
    SSTSize = 3
    SSTNumPerLevel = 2
    BlockLen = 2
    BitmapMode = TRUE
    Faults = {"flushReader", "compactMerge", "compactReader"}
    MaxSeq = 3
    ReadErrors = TRUE
SPECIFICATION IndexSpec
INVARIANTS IndexTypeOK BitmapsMatchMem BitmapsGrow NothingLost NoFalsePosting
INVARIANTS QueriesComplete
PROPERTIES PostingsKept
CHECK_DEADLOCK FALSE
