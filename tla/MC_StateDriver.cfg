SPECIFICATION DriverSpec
CONSTANTS
    GuardName <- DefaultGuards
    Machines <- AllMachines
    MaxHistory <- FourteenOrTwo
INVARIANTS
    TypeOK
    AuditTrailReplays
    TerminalEndsHistory
    NeverStuck
    EachExecutionIsRequested
PROPERTIES
    ImplementsLifecycle
