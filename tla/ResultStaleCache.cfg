SPECIFICATION Spec
CONSTANTS
    s1 = s1  s2 = s2  u1 = u1  u2 = u2
    g1 = g1  g2 = g2  r1 = r1
    Ids <- MCIds1
    Users <- MCUsers1
    UserOf <- OneUser
    Verdicts = {"AC"}
    Malformed = Malformed
    Goroutines <- MCGoroutines2
    Readers <- MCReaders1
    MaxResults = 2
    MaxFaults <- NoFaults
    FaultMixes <- AnyMix
INVARIANTS
    CacheFreshWhenQuiet
