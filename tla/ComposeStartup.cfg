SPECIFICATION Spec
CONSTANTS
    Migrations = 2
    MaxTries = 2
    MaxBacklog = 1
    MaxFaults <- AllFaults
    FaultMixes <- OneOfThem
CHECK_DEADLOCK FALSE
INVARIANTS
    GatewayFindsAll
    DirtyMeansInterrupted
    BlindNeedsRestart
PROPERTIES
    ServesInTheEnd
