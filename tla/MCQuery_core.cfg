CONSTANTS
    Runes <- MCRunes
    Star = "*"
    Marker = "$"
    k = 2
    FeatureIDs <- MCFeatureIDs
    SomeTerms <- MCSomeTerms
    MaxDocs = 3
    MaxWords = 3
    SecondsPerDay = 2
    Words <- MCWords
    NormalForms <- MCNormalForms
    Cyrillic <- MCCyrillic
    Normalized <- MCNormalized
    StopWordsOf <- MCStopWordsOf
    Stemmed <- MCStemmed
    Setups <- MCSetups
    DefaultSizes <- MCDefaultSizes
    Times <- MCTimes
    NoTime = NoTime
    BadDate = BadDate
    Lower <- MCLower
    TextQueries <- MCTextQueries
    Wildcards <- MCWildcards
    QueryDays <- MCQueryDays
    LinesAbout <- MCLinesAbout
SPECIFICATION Spec
INVARIANTS EngineTypeOK KgramInv SearchExact WildcardExact NoFalseResult
INVARIANTS DateRangesExact ValidityExact ExecuteExact
CHECK_DEADLOCK FALSE
