SPECIFICATION Spec
CONSTANTS
    MaxTests = 2
    MaxFaults <- AnyFault
    FaultMixes <- AnyMix
INVARIANTS
    VerdictExplained
    DirsAccounted
    LeftoversExplained
PROPERTIES
    JudgingEnds
