SPECIFICATION Spec
CONSTANTS
    v1 = v1  v2 = v2  v3 = v3  r1 = r1  r2 = r2
    Versions <- MCVersions
    Runtimes <- MCRuntimes
    Embedded <- MCEmbedded
    NoImage = NoImage
    WorkerCount = 2
    MaxFaults <- AnyFault
    FaultMixes <- AnyMix
INVARIANTS
    PoolIsFresh
    CleanStart
    ContainersBounded
    RuntimeIsOursOrCut
PROPERTIES
    ServesInTheEnd
