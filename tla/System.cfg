SPECIFICATION Spec
CONSTANTS
    s1 = s1  s2 = s2  w1 = w1  w2 = w2  c1 = c1  c2 = c2  u1 = u1  g1 = g1
    Ids <- MCIds2
    Garbage = Garbage
    Verdicts = {"AC"}
    Workers <- MCWorkers2
    Containers <- MCContainers2
    NoContainer = NoContainer
    MaxRecords = 4
    MaxAttempts = 2
    Users <- MCUsers
    UserOf <- MCUserOf
    Malformed = Malformed
    Goroutines <- MCGoroutines1
    Readers = {}
    MaxResults = 4
    MaxFaults <- AnyFault
    FaultMixes <- OneOfThem
INVARIANTS
    UpdateFindsRow
PROPERTIES
    LifecycleSpec
