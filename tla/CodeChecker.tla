----------------------------- MODULE CodeChecker -----------------------------
(***************************************************************************)
(* The path of a submission through code-checker: submission_service,      *)
(* judge_service and result_service composed over what they share, the two *)
(* Kafka topics and the submissions table in PostgreSQL.                   *)
(*                                                                         *)
(*   submission_service --rows--> PostgreSQL <--rows-- result_service      *)
(*          `--submissions--> judge_service --results--'                   *)
(*                                                                         *)
(* Every step is a step of one service; a fault hits one service.          *)
(***************************************************************************)
EXTENDS SubmissionCalls, FiniteSets

CONSTANTS
    Garbage, Verdicts, Workers, Containers, NoContainer, MaxRecords,
    Users, UserOf, Malformed, Goroutines, Readers, MaxResults

\* The statuses judge() returns are not those of a row before its first UPDATE.
ASSUME VerdictConstants == {"none", "Pending"} \cap Verdicts = {}

VARIABLES
    results,                                     \* shared, like submissions and rows
    committed, stash, position, loop, msg, jobs, \* judge_service
    wstate, wmsg, workerID, workerPool,
    rcommitted, rposition, rloop, rmsg,          \* result_service
    gstate, gevent, cache, rdstate, rduser, rdhistory

J == INSTANCE JudgeService
R == INSTANCE ResultService

sharedVars == <<submissions, results, rows>>
judgeVars  == <<committed, stash, position, loop, msg, jobs,
                wstate, wmsg, workerID, workerPool>>
resultVars == <<rcommitted, rposition, rloop, rmsg,
                gstate, gevent, cache, rdstate, rduser, rdhistory>>
vars       == <<sharedVars, calls, judgeVars, resultVars, faults>>
-----------------------------------------------------------------------------
Init ==
    /\ submissions = <<>>
    /\ results = <<>>
    /\ rows = [id \in Ids |-> "none"]
    /\ S!SubmissionInit
    /\ J!JudgeInit
    /\ R!ResultInit
    /\ FaultsInit

\* What a step of one service leaves alone.
OnlySubmissionService == UNCHANGED <<results, judgeVars, resultVars>>
OnlyJudgeService      == UNCHANGED <<rows, calls, resultVars>>
OnlyResultService     == UNCHANGED <<submissions, calls, judgeVars>>

SubmissionServiceStep == S!SubmissionNext /\ OnlySubmissionService
JudgeServiceStep      == J!JudgeNext /\ OnlyJudgeService
ResultServiceStep     == R!ResultNext /\ OnlyResultService

\* Every call was answered and both consumers wait for a record.
Quiescent ==
    /\ \A id \in Ids : calls[id] \in {"accepted", "rejected"}
    /\ loop = "fetch" /\ position = Len(submissions)
    /\ jobs = <<>> /\ \A w \in Workers : wstate[w] = "idle"
    /\ stash = 0
    /\ rloop = "fetch" /\ rposition = Len(results)
    /\ \A g \in Goroutines : gstate[g] = "free"
    /\ UNCHANGED vars

Next ==
    \/ SubmissionServiceStep \/ JudgeServiceStep \/ ResultServiceStep
    \/ Quiescent

\* The fairness of each service; its module says why the code justifies it.
Fairness ==
    /\ \A id \in Ids : WF_vars(S!SubmissionStep(id) /\ OnlySubmissionService)
    /\ WF_vars(J!LoopStep /\ OnlyJudgeService)
    /\ WF_vars(J!FlushCommits /\ OnlyJudgeService)
    /\ \A w \in Workers : WF_vars(J!WorkerProgress(w) /\ OnlyJudgeService)
    /\ WF_vars(R!ConsumerStep /\ OnlyResultService)
    /\ \A g \in Goroutines : WF_vars(R!UpdateStep(g) /\ OnlyResultService)
    /\ \A r \in Readers : WF_vars(R!ReadStep(r) /\ OnlyResultService)
    /\ \A u \in Users : WF_vars(R!Expire(u) /\ OnlyResultService)

Spec == Init /\ [][Next]_vars /\ Fairness
-----------------------------------------------------------------------------
(* What the services promise together *)

AnswerOf(id) ==
    CASE calls[id] = "accepted" -> "accepted"
      [] calls[id] \in {"abandoned", "rejected"} -> "rejected"
      [] OTHER -> "none"

\* The faults after which a service may give up a record for good: a kill
\* between fetch and commit, and a write or an UPDATE that fails.
LosingFaults == {"judge_crash", "write_error", "result_crash", "db_error"}

Lifecycle == INSTANCE SubmissionLifecycle WITH
    status <- rows,
    handed <- {submissions[i] : i \in DOMAIN submissions},
    answer <- [id \in Ids |-> AnswerOf(id)],
    excused <- \E kind \in LosingFaults : Failed(kind) > 0

(* Under every fault the composed services only take steps of the abstract *)
(* lifecycle: no event without a row, no 202 without an event, no verdict  *)
(* without an event, and a verdict is never taken back.  And while no      *)
(* record is given up, they implement its liveness: a submission in the    *)
(* topic gets its verdict, through rebalances, shutdowns after a fetch     *)
(* error, repeated writes and failed commits.                              *)
LifecycleSpec == Lifecycle!Spec

(* A result event is only ever about a submission with a row: the UPDATE   *)
(* of result_service finds it, although three services and two topics lie  *)
(* between the INSERT and it (store.go: RETURNING user_id).                *)
UpdateFindsRow ==
    \A g \in Goroutines : gstate[g] = "update" => rows[gevent[g].id] # "none"

(* A submission that was answered with 202 eventually has a verdict.       *)
AcceptedGetsVerdict ==
    \A id \in Ids : calls[id] = "accepted" ~> rows[id] \in Verdicts

=============================================================================
