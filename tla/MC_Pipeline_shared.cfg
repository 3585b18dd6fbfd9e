SPECIFICATION PipelineSpec
CONSTANTS
    GuardName <- DefaultGuards
    NoPolicy = NoPolicy
    NoInput = NoInput
    NoResult = NoResult
    Machines <- DefaultOnly
    MaxHistory <- NoHistoryBound
    Policies <- FewPolicies
    Criteria <- OneCriterion
    Blanks <- BlankTexts
    MaxRuns = 2
    MaxMeddles = 4
CHECK_DEADLOCK FALSE
INVARIANTS
    PipelineTypeOK
    VerdictsAgree
    UndisturbedRunReturns
    OneResultPerDriver
    ClearanceIsOnTheTrail
    VerdictIsOnTheTrail
PROPERTIES
    EveryRunEnds
