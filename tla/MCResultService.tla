--------------------------- MODULE MCResultService ---------------------------
(* Small instances of ResultService for TLC. *)
EXTENDS ResultService, TLC

CONSTANTS s1, s2, u1, u2, g1, g2, r1

MCIds1        == {s1}
MCIds2        == {s1, s2}
MCUsers1      == {u1}
MCUsers2      == {u1, u2}
MCGoroutines2 == {g1, g2}
MCReaders1    == {r1}

OneUser    == [id \in Ids |-> u1]
OneUserEach == [id \in Ids |-> IF id = s1 THEN u1 ELSE u2]

NoFaults == <<>>
AllFaults == [k \in {"result_crash", "db_error", "cache_error", "result_rebalance",
                     "commit_error", "read_error"} |-> 1]
\* Kills and stores that fail, or the faults the service survives without
\* losing an event.
LosingOrSurvived == {{"result_crash", "db_error"}, {"db_error", "cache_error"},
                     {"result_rebalance", "commit_error"}, {"cache_error", "commit_error"},
                     {"read_error", "cache_error"}, {"read_error", "result_crash"}}
=============================================================================
