CONSTANTS
    Docs <- MCDocs
    Features <- MCFeatures
    FeatureLists <- MCFeatureLists
    blockSize = 2
    NumBlocks = 2
    NumFeatures = 4
    NoDoc = NoDoc
    Keys <- MCKeys
    Vals <- MCVals
    KeyLen <- MCKeyLen
    ValLen <- MCValLen
    Nil = Nil
    Empty = Empty
    Missing = Missing
    MaxLevel = 3
    SSTSize = 3
    SSTNumPerLevel = 2
    BlockLen = 2
    BitmapMode = TRUE
    Faults = {"compactReader"}
    MaxSeq = 3
    ReadErrors = FALSE
SPECIFICATION IndexSpec
PROPERTIES CompactionKeepsPostings
CHECK_DEADLOCK FALSE
