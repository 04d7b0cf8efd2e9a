------------------------------ MODULE MCUpload ------------------------------
(* A small instance of Upload for TLC: no byte, a chunk and a half, a file *)
(* that is no text, and two chunks that are too long for an event.         *)
EXTENDS Upload, TLC

CONSTANTS s1, s2

MCIds      == {s1, s2}
MCFiles    == {<<>>, <<"a", "b", "c">>, <<"nul">>, <<"a", "b", "c", "d">>}
MCEventSize == [f \in Files |-> Len(f) + 1]

AllFaults == [k \in {"open_error", "client_gone", "submission_crash", "insert_error",
                     "event_lost_ack", "event_write_error"} |-> 1]
\* A client that goes away while the service is killed, and each other fault.
OneOfThem == {{"client_gone", "submission_crash"}} \cup {{k} : k \in DOMAIN AllFaults}
=============================================================================
