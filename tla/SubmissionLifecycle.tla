------------------------- MODULE SubmissionLifecycle -------------------------
(***************************************************************************)
(* What code-checker promises of a submission, without the services:       *)
(* it is stored, handed over for judging, answered, and given a verdict.   *)
(*   - Only a stored submission is handed over, and only one that was      *)
(*     handed over is accepted or judged.                                  *)
(*   - A verdict may be replaced by that of another judging, never by      *)
(*     "Pending", and a submission is answered once.                       *)
(*   - A submission that was handed over eventually has a verdict, unless  *)
(*     the environment made the system give up something.                  *)
(***************************************************************************)
CONSTANTS Ids, Verdicts

VARIABLES
    status,  \* "none" (not stored), "Pending" or a verdict
    handed,  \* the submissions handed over for judging
    answer,  \* what the client was told: "none", "accepted" or "rejected"
    excused  \* whether the system had to give up something; the environment's

vars == <<status, handed, answer>>

TypeOK ==
    /\ status \in [Ids -> {"none", "Pending"} \cup Verdicts]
    /\ handed \subseteq Ids
    /\ answer \in [Ids -> {"none", "accepted", "rejected"}]
    /\ excused \in BOOLEAN

Init ==
    /\ status = [id \in Ids |-> "none"]
    /\ handed = {}
    /\ answer = [id \in Ids |-> "none"]

\* The client of a submission is told something, unless it already was.
MayAnswer(id, answers) ==
    \/ UNCHANGED answer
    \/ /\ answer[id] = "none"
       /\ \E a \in answers : answer' = [answer EXCEPT ![id] = a]

\* The submission is stored; the client may be told that this failed.
Store(id) ==
    /\ status[id] = "none"
    /\ status' = [status EXCEPT ![id] = "Pending"]
    /\ MayAnswer(id, {"rejected"})
    /\ UNCHANGED handed

\* A stored submission is handed over for judging.
HandOver(id) ==
    /\ status[id] # "none"
    /\ handed' = handed \cup {id}
    /\ MayAnswer(id, {"accepted", "rejected"})
    /\ UNCHANGED status

\* Some clients are told that their submissions failed.
Reject ==
    /\ \E failed \in SUBSET {id \in Ids : answer[id] = "none"} :
          answer' = [id \in Ids |-> IF id \in failed THEN "rejected" ELSE answer[id]]
    /\ UNCHANGED <<status, handed>>

Judge(id, v) ==
    /\ id \in handed
    /\ status' = [status EXCEPT ![id] = v]
    /\ UNCHANGED <<handed, answer>>

Next ==
    \/ Reject
    \/ \E id \in Ids :
          \/ Store(id) \/ HandOver(id)
          \/ \E v \in Verdicts : Judge(id, v)

FirstVerdict(id) ==
    /\ ~excused
    /\ status[id] = "Pending"
    /\ \E v \in Verdicts : Judge(id, v)

Safety == Init /\ [][Next]_vars

Spec == Safety /\ \A id \in Ids : WF_vars(FirstVerdict(id))

=============================================================================
