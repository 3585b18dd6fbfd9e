SPECIFICATION PipelineSpec
CONSTANTS
    GuardName <- DefaultGuards
    NoPolicy = NoPolicy
    NoInput = NoInput
    NoResult = NoResult
    Machines <- PartialMachines
    MaxHistory <- NoHistoryBound
    Policies <- AnyPolicies
    Criteria <- TwoCriteria
    Blanks <- BlankTexts
    MaxRuns = 1
    MaxMeddles = 1
CHECK_DEADLOCK FALSE
INVARIANTS
    SuccessIsEarned
    DeadRulesAreShadowed
PROPERTIES
    ImplementsGovernedRun
