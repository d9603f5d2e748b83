CONSTANTS
    SSTs = 3
    Keys <- MCKeys
    Vals <- MCVals
    Corrupt = Corrupt
    Inputs <- MCInputsCorrupt
    BitmapModes = {TRUE, FALSE}
    ReadErrors = TRUE
SPECIFICATION FairSpec
INVARIANTS OutputIsMergedPrefix EndMeansComplete
PROPERTIES Terminates
CHECK_DEADLOCK FALSE
