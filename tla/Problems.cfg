SPECIFICATION Spec
CONSTANTS
    a1 = a1  a2 = a2  p1 = p1  p2 = p2  t1 = t1  t2 = t2  t3 = t3  s1 = s1
    ProblemIds = {p1, p2}
    TestIds = {t1, t2, t3}
    Authors = {a1, a2}
    TestsPerProblem = 2
    Submissions = {s1}
    Outcome <- MCOutcome
    NoProblem = NoProblem
    Unlisted = Unlisted
    ProblemEventsTopic = "problem_events"
    MaxFaults <- AllFaults
    FaultMixes <- AnyMix
INVARIANTS
    TypeOK
    AcceptedPassedKnownTests
    OrderDecidesNoAccept
    DoneMeansComplete
PROPERTIES
    EverySubmissionJudged
