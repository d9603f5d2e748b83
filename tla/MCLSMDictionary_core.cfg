CONSTANTS
    Batches <- MCBatches
    Prefixes <- MCPrefixes
    EmptyPrefix <- MCEmptyPrefix
    Keys <- MCKeys
    Vals <- MCVals
    KeyLen <- MCKeyLen
    ValLen <- MCValLen
    Nil = Nil
    Empty = Empty
    Missing = Missing
    MaxLevel = 3
    SSTSize = 6
    SSTNumPerLevel = 2
    BlockLen = 2
    BitmapMode = FALSE
    Faults = {"flushOpen", "flushReader", "compactOpen", "compactMerge", "compactReader"}
    MaxSeq = 4
    ReadErrors = TRUE
SPECIFICATION DictSpec
INVARIANTS DictTypeOK AgreesWithMem IdsUnique PrefixExact
CHECK_DEADLOCK FALSE
