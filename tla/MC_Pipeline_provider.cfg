SPECIFICATION PipelineSpec
CONSTANTS
    GuardName <- DefaultGuards
    NoPolicy = NoPolicy
    NoInput = NoInput
    NoResult = NoResult
    Machines <- DefaultOnly
    MaxHistory <- NoHistoryBound
    Policies <- FewPolicies
    Criteria <- OneCriterion
    Blanks <- NoBlanks
    MaxRuns = 1
    MaxMeddles = 0
CHECK_DEADLOCK FALSE
INVARIANTS
    ProviderFailureReturns
