SPECIFICATION Spec
CONSTANTS
    s1 = s1  s2 = s2  u1 = u1  u2 = u2
    g1 = g1  g2 = g2  r1 = r1
    Ids <- MCIds2
    Users <- MCUsers2
    UserOf <- OneUserEach
    Verdicts = {"AC"}
    Malformed = Malformed
    Goroutines <- MCGoroutines2
    Readers <- MCReaders1
    MaxResults = 2
    MaxFaults <- AllFaults
    FaultMixes <- LosingOrSurvived
INVARIANTS
    TypeOK
    VerdictAnnounced
    CacheNeverAhead
    NoResultDropped
PROPERTIES
    CacheEventuallyFresh
