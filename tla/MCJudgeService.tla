--------------------------- MODULE MCJudgeService ---------------------------
(* Small instances of JudgeService for TLC. *)
EXTENDS JudgeService, TLC

CONSTANTS w1, w2, c1, c2, s1, s2, s3

MCWorkers2    == {w1, w2}
MCContainers2 == {c1, c2}
MCIds3        == {s1, s2, s3}

\* Workers, containers and ids are interchangeable.
Symmetry == Permutations(MCWorkers2) \cup Permutations(MCContainers2)
               \cup Permutations(MCIds3)

AllFaults == [k \in {"judge_crash", "write_error", "rebalance", "fetch_error", "lost_ack"} |->
                 IF k = "judge_crash" THEN 2 ELSE 1]
\* A restart may skip a record after the first two, the others make records
\* and results repeat.
LosingOrRepeating == {{"judge_crash", "write_error"}, {"rebalance", "fetch_error"},
                      {"lost_ack"}}
=============================================================================
