----------------------------- MODULE MCProblems -----------------------------
(* A small instance of Problems for TLC: two authors, two problems, three  *)
(* test cases, and a submission whose program passes only t1.              *)
EXTENDS Problems

CONSTANTS a1, a2, p1, p2, t1, t2, t3, s1

MCOutcome == s1 :> (t1 :> "pass" @@ t2 :> "WA" @@ t3 :> "RE")

AllFaults == [k \in {"author_error", "late_test", "redelivery", "tests_error"} |-> 1]
=============================================================================
