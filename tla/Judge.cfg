SPECIFICATION Spec
CONSTANTS
    w1 = w1  w2 = w2  c1 = c1  c2 = c2  s1 = s1  s2 = s2  s3 = s3
    Workers <- MCWorkers2
    Containers <- MCContainers2
    Ids <- MCIds3
    Garbage = Garbage
    NoContainer = NoContainer
    Verdicts = {"AC"}
    MaxRecords = 3
    MaxAttempts = 2
    MaxFaults <- AllFaults
    FaultMixes <- LosingOrRepeating
SYMMETRY Symmetry
INVARIANTS
    CommittedRecordFinished
    LossBounded
    ContainersConserved
    NeverWaitsForContainer
    NoRecordSkipped
    NoDuplicateResult
