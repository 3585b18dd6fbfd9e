SPECIFICATION DriverSpec
CONSTANTS
    GuardName <- DefaultGuards
    Machines <- DefaultOnly
    MaxHistory <- UpTo9
INVARIANTS
    GuardsAreEvaluated
