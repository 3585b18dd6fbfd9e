SPECIFICATION LifecycleSpec
CONSTANTS
    a1 = a1
    a2 = a2
    g1 = g1
    p1 = p1
    p2 = p2
    r1 = r1
    r2 = r2
    c1 = c1
    c2 = c2
    f1 = f1
    f2 = f2
    s1 = s1
    s2 = s2
    t1 = t1
    t2 = t2
    Nothing = Nothing
    NoAgent = NoAgent
    NoRoute = NoRoute
    Blank = Blank
    Never = Never
    NaN = NaN
    MaxAttempts = 2
    MaxCycles = 3
    ActionId <- Actions
    OfferedRetries <- SomeRetries
    OfferedActions <- SomeActions
    AgentId <- Agents
    ReturnId <- Requests
    OfferedHandoffs <- SomeHandoffs
    Place <- Places
    OfferedRisks <- SomeRisks
    RequirementId <- Requests
    GapId <- Agents
    OfferedNegotiations <- SomeNegotiations
    OfferedRequirements <- SomeRequirements
    RequestId <- Requests
    OfferedSkills <- SomeSkills
    CandidateId <- Candidates
    OfferedRoutes <- SomeRoutes
    FieldName <- Fields
    OfferedIntakes <- SomeIntakes
    SourceId <- Sources
    ConflictId <- Fields
    OfferedSyntheses <- SomeSyntheses
    Target <- Targets
    OfferedMessages <- SomeMessages
    OfferedSteps <- SomeSteps
    Tool <- Targets
    OfferedRoles <- SomeRoles
    OfferedLoops <- SomeLoops
INVARIANTS
    RefusedRangesAreEmpty
