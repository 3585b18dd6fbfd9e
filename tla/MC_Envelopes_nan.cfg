SPECIFICATION ConstructSpec
CONSTANTS
    g1 = g1
    g2 = g2
    q1 = q1
    q2 = q2
    c1 = c1
    c2 = c2
    k1 = k1
    k2 = k2
    b1 = b1
    b2 = b2
    l1 = l1
    l2 = l2
    n1 = n1
    n2 = n2
    n3 = n3
    e1 = e1
    e2 = e2
    s1 = s1
    s2 = s2
    w1 = w1
    w2 = w2
    r1 = r1
    r2 = r2
    Nothing = Nothing
    Refused = Refused
    NoRef = NoRef
    NaN = NaN
    NoNode = NoNode
    NoCount = NoCount
    GapId <- Gaps
    QuestionId <- Questions
    OfferedClarifications <- SomeClarifications
    CriterionId <- Criteria
    CheckId <- Checks
    OfferedAcceptances <- SomeAcceptances
    BudgetId <- Budgets
    LineId <- Lines
    OfferedBudgets <- SomeBudgets
    NodeId <- Nodes
    EdgeId <- Edges
    GraphId <- GraphIds
    OfferedGraphs <- SomeGraphs
    BranchId <- Branches
    OfferedParallelWork <- SomeParallelWork
    ReturnId <- Returns
    OfferedDelegations <- SomeDelegations
INVARIANTS
    AmountsAreNumbers
