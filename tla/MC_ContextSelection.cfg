SPECIFICATION SelectSpec
CONSTANTS
    a = a
    b = b
    c = c
    x = x
    logE = logE
    logI = logI
    NoFile = NoFile
    Requests <- Calls
    Policies <- SmallPolicies
    ExcludedPaths = {x}
    TestPaths = {b}
    SourcePaths = {a, c}
    KeywordPaths = {a}
    KeywordInTitle = TRUE
    ImportedPaths = {c}
    NearPaths = {c}
    ErrorLogs = {logE}
CHECK_DEADLOCK FALSE
INVARIANTS
    CapsRespected
    BestOfKindSelected
    EveryCandidateDecided
    FilesDecidedOnce
    DroppedOnlyByOwnCap
    DroppedOnlyWhenFull
