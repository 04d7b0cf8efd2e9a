---------------------------- MODULE MCCodeChecker ----------------------------
(* Small instances of CodeChecker for TLC. *)
EXTENDS CodeChecker, TLC

CONSTANTS s1, s2, w1, w2, c1, c2, u1, g1

MCIds2        == {s1, s2}
MCWorkers2    == {w1, w2}
MCContainers2 == {c1, c2}
MCUsers       == {u1}
MCUserOf      == [id \in Ids |-> u1]
MCGoroutines1 == {g1}

\* Faults of every service.
AnyFault == [k \in {"stream_error", "insert_error", "event_write_error", "event_lost_ack",
                    "client_cancel", "submission_crash", "judge_crash", "write_error",
                    "fetch_error", "rebalance", "result_rebalance",
                    "result_crash", "db_error", "commit_error"} |-> 1]
\* One fault in a behaviour, or an answer given up and a record read again.
OneOfThem == {{k} : k \in DOMAIN AnyFault} \cup {{"client_cancel", "result_rebalance"}}
OnlyJudgeCrash  == [k \in {"judge_crash"} |-> 1]
=============================================================================
