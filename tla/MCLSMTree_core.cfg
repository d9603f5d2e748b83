CONSTANTS
    v1 = v1
    Keys <- MCKeys3
    Vals <- MCVals1
    KeyLen <- MCKeyLen3
    ValLen <- MCValLen1
    Nil = Nil
    Empty = Empty
    Missing = Missing
    MaxLevel = 3
    SSTSize = 3
    SSTNumPerLevel = 2
    BlockLen = 2
    BitmapMode = FALSE
    Faults = {}
    MaxSeq = 4
SPECIFICATION Spec
INVARIANTS IInv LevelsBounded SSTsConserved DiskIsLive NoEmptySST ScanToEndMatchesGet MemSizeExact
PROPERTIES Implements SSTEntriesPersist
CHECK_DEADLOCK FALSE
