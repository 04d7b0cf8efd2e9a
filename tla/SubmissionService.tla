-------------------------- MODULE SubmissionService --------------------------
(***************************************************************************)
(* submission_service: the CreateSubmission call, from the stream of code  *)
(* chunks the gateway sends to the answer the gateway turns into 202.  The *)
(* service stores the row first and writes the event to Kafka second; the  *)
(* two are not one transaction.                                            *)
(*   internal/handler/grpc_handler.go  the stream                          *)
(*   internal/service/service.go       insert, then publish                *)
(*   internal/store/store.go           the INSERT                          *)
(* A submission id is chosen by the service for each call, so a call is    *)
(* named by the id it will use.                                            *)
(***************************************************************************)
EXTENDS Faults, Integers, Sequences

CONSTANTS
    Ids,         \* submission ids, one per CreateSubmission call
    MaxAttempts  \* kafka.Writer's MaxAttempts

VARIABLES
    calls,        \* state of each call, see CallStates
    rows,         \* the submissions table: status of each row, "none" if absent
    submissions   \* the submission topic, append only

\* "none": not made yet.  "insert", "publish": before the INSERT, before the
\* write to Kafka.  "abandoned": answered with an error while the write is
\* still under way.  "accepted", "rejected": answered.
CallStates == {"none", "insert", "publish", "abandoned", "accepted", "rejected"}

vars == <<calls, rows, submissions, faults>>

Goto(id, state) == calls' = [calls EXCEPT ![id] = state]
-----------------------------------------------------------------------------
SubmissionInit == calls = [id \in Ids |-> "none"]

Init ==
    /\ SubmissionInit
    /\ rows = [id \in Ids |-> "none"]
    /\ submissions = <<>>
    /\ FaultsInit

\* The first message is the info and the chunks end with EOF.
Receive(id) ==
    /\ calls[id] = "none"
    /\ Goto(id, "insert")
    /\ UNCHANGED <<rows, submissions, faults>>

\* The first message is not the info, or the stream breaks before EOF: the
\* call is answered with an error and nothing was stored.
ReceiveFailed(id) ==
    /\ calls[id] = "none"
    /\ Fails("stream_error")
    /\ Goto(id, "rejected")
    /\ UNCHANGED <<rows, submissions>>

\* INSERT ... VALUES (id, ..., 'Pending', ...)
InsertRow(id) ==
    /\ calls[id] = "insert"
    /\ rows' = [rows EXCEPT ![id] = "Pending"]
    /\ Goto(id, "publish")
    /\ UNCHANGED <<submissions, faults>>

\* Mutant of InsertFailed: the error of the store is only logged.
InsertFailedGoesOn(id) ==
    /\ calls[id] = "insert"
    /\ Fails("insert_error")
    /\ Goto(id, "publish")
    /\ UNCHANGED <<rows, submissions>>

\* The INSERT returns an error, before or after the row was stored.
InsertFailed(id) ==
    /\ calls[id] = "insert"
    /\ Fails("insert_error")
    /\ rows' \in {rows, [rows EXCEPT ![id] = "Pending"]}
    /\ Goto(id, "rejected")
    /\ UNCHANGED submissions

\* The broker appends n copies of the event; more than one when kafka.Writer
\* repeats an attempt whose acknowledgement was lost.
AppendEvent(id, n) == submissions' = submissions \o [i \in 1 .. n |-> id]

PublishEvent(id) ==
    /\ calls[id] = "publish"
    /\ AppendEvent(id, 1)
    /\ Goto(id, "accepted")
    /\ UNCHANGED <<rows, faults>>

PublishRetried(id) ==
    /\ calls[id] = "publish"
    /\ Fails("event_lost_ack")
    /\ \E n \in 2 .. MaxAttempts : AppendEvent(id, n)
    /\ Goto(id, "accepted")
    /\ UNCHANGED rows

\* WriteMessages gave up: the call fails, the row stays.
PublishFailed(id) ==
    /\ calls[id] = "publish"
    /\ Fails("event_write_error")
    /\ \E n \in 0 .. MaxAttempts : AppendEvent(id, n)
    /\ Goto(id, "rejected")
    /\ UNCHANGED rows

\* The client goes away while WriteMessages waits: it returns the context's
\* error, but the batch it handed over is written or dropped later on.
Cancel(id) ==
    /\ calls[id] = "publish"
    /\ Fails("client_cancel")
    /\ Goto(id, "abandoned")
    /\ UNCHANGED <<rows, submissions>>

LateWrite(id) ==
    /\ calls[id] = "abandoned"
    /\ \E n \in {0, 1} : AppendEvent(id, n)
    /\ Goto(id, "rejected")
    /\ UNCHANGED <<rows, faults>>

\* The process is killed: the calls it was serving fail with it.  A row or an
\* event written before stays.
Crash ==
    /\ Fails("submission_crash")
    /\ calls' = [id \in Ids |-> IF calls[id] \in {"insert", "publish", "abandoned"}
                                THEN "rejected" ELSE calls[id]]
    /\ UNCHANGED <<rows, submissions>>

SubmissionStep(id) ==
    InsertRow(id) \/ PublishEvent(id) \/ LateWrite(id)

SubmissionNext ==
    \/ Crash
    \/ \E id \in Ids :
          \/ Receive(id) \/ ReceiveFailed(id)
          \/ SubmissionStep(id)
          \/ InsertFailed(id) \/ PublishRetried(id) \/ PublishFailed(id)
          \/ Cancel(id)

\* Every call was answered: nothing is left to do.
Answered ==
    /\ \A id \in Ids : calls[id] \in {"accepted", "rejected"}
    /\ UNCHANGED vars

Next == SubmissionNext \/ Answered

SubmissionFairness == \A id \in Ids : WF_vars(SubmissionStep(id))

Spec == Init /\ [][Next]_vars /\ SubmissionFairness
-----------------------------------------------------------------------------
(* Properties *)

InTopic(id) == \E i \in DOMAIN submissions : submissions[i] = id

\* Every variable has its type.
TypeOK ==
    /\ calls \in [Ids -> CallStates]
    /\ rows \in [Ids -> {"none", "Pending"}]
    /\ submissions \in Seq(Ids)
    /\ FaultsType

(* An event never overtakes its row: whatever fails, a submission that can *)
(* be judged has a row that its result can update (service.go: the store   *)
(* first, Kafka second).                                                   *)
EventHasRow == \A id \in Ids : InTopic(id) => rows[id] # "none"

(* 202 is only answered for a submission whose row is stored and whose     *)
(* event is in the topic, so it will be judged without the client's help.  *)
AcceptedIsDurable ==
    \A id \in Ids : calls[id] = "accepted" => rows[id] # "none" /\ InTopic(id)

=============================================================================
