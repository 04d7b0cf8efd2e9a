------------------------- MODULE CodeChecker_proofs -------------------------
(***************************************************************************)
(* The composed services implement SubmissionLifecycle, step by step, for  *)
(* any number of submissions, workers, goroutines, readers and faults; and *)
(* what that needs from each service.  Then the upload: what it stores is  *)
(* the client's file, and it implements submission_service, for files and  *)
(* buffers of any size.  The variables of submission_service are those of  *)
(* SubmissionCalls in both parts; a theorem names the specification it is  *)
(* about: Spec is CodeChecker's, UploadSpec is Upload's.                   *)
(***************************************************************************)
EXTENDS CodeChecker, Upload, SequenceTheorems, FiniteSetTheorems, WellFoundedInduction, TLAPS

-----------------------------------------------------------------------------
(* submission_service *)

\* Inductive, alone or beside services that only replace the status of a row
\* by a verdict: what is stored, handed over and answered, in this order.
StoredFirst ==
    /\ calls \in [Ids -> S!CallStates]
    /\ rows \in [Ids -> {"none", "Pending"} \cup Verdicts]
    /\ submissions \in Seq(Ids)
    /\ \A id \in Ids : calls[id] \in {"none", "insert"} => rows[id] = "none"
    /\ \A id \in Ids : calls[id] \in {"publish", "abandoned"} => rows[id] # "none"
    /\ S!EventHasRow
    /\ S!AcceptedIsDurable

\* n copies of an event put its id into the topic, behind what is there, and
\* nothing else.
LEMMA EventAppended ==
  ASSUME submissions \in Seq(Ids), NEW id \in Ids, NEW n \in Nat, S!AppendEvent(id, n)
  PROVE  /\ submissions' \in Seq(Ids)
         /\ Len(submissions') = Len(submissions) + n
         /\ \A x \in Ids : S!InTopic(x)' <=> S!InTopic(x) \/ (n > 0 /\ x = id)
  <1> DEFINE copies == [i \in 1 .. n |-> id]
  <1>1. copies \in Seq(Ids) /\ Len(copies) = n
    BY SeqDef
  <1>2. submissions' = submissions \o copies
    BY DEF S!AppendEvent
  <1>3. submissions' \in Seq(Ids) /\ Len(submissions') = Len(submissions) + n
    BY <1>1, <1>2
  <1>4. \A i \in 1 .. Len(submissions) : submissions'[i] = submissions[i]
    BY <1>1, <1>2
  <1>5. \A i \in Len(submissions) + 1 .. Len(submissions) + n : submissions'[i] = id
    BY <1>1, <1>2
  <1>6. ASSUME NEW x \in Ids
        PROVE  S!InTopic(x)' <=> S!InTopic(x) \/ (n > 0 /\ x = id)
    <2>1. ASSUME S!InTopic(x)' PROVE S!InTopic(x) \/ (n > 0 /\ x = id)
      <3>1. PICK i \in 1 .. Len(submissions) + n : submissions'[i] = x
        BY <1>3, <2>1 DEF S!InTopic
      <3>2. CASE i <= Len(submissions)
        BY <1>4, <3>1, <3>2 DEF S!InTopic
      <3>3. CASE i > Len(submissions)
        BY <1>5, <3>1, <3>3
      <3> QED BY <3>1, <3>2, <3>3
    <2>2. ASSUME S!InTopic(x) PROVE S!InTopic(x)'
      <3>1. PICK i \in 1 .. Len(submissions) : submissions[i] = x
        BY <2>2 DEF S!InTopic
      <3>2. submissions'[i] = x /\ i \in 1 .. Len(submissions')
        BY <1>3, <1>4, <3>1
      <3> QED BY <1>3, <3>2 DEF S!InTopic
    <2>3. ASSUME n > 0, x = id PROVE S!InTopic(x)'
      <3>1. submissions'[Len(submissions) + 1] = x
        BY <1>5, <2>3
      <3>2. Len(submissions) + 1 \in 1 .. Len(submissions')
        BY <1>3, <2>3
      <3> QED BY <1>3, <3>1, <3>2 DEF S!InTopic
    <2> QED BY <2>1, <2>2, <2>3
  <1> QED BY <1>3, <1>6

\* A step that appends nothing.
LEMMA QuietStep ==
  ASSUME StoredFirst, UNCHANGED submissions,
         calls' \in [Ids -> S!CallStates],
         rows' \in [Ids -> {"none", "Pending"} \cup Verdicts],
         \A id \in Ids : rows[id] # "none" => rows'[id] # "none",
         \A id \in Ids : calls'[id] \in {"none", "insert"} => rows'[id] = "none",
         \A id \in Ids : calls'[id] \in {"publish", "abandoned"} => rows'[id] # "none",
         \A id \in Ids : calls'[id] = "accepted" => calls[id] = "accepted"
  PROVE  StoredFirst'
  <1>1. \A id \in Ids : S!InTopic(id)' <=> S!InTopic(id)
    BY DEF S!InTopic
  <1> QED
    BY <1>1 DEF StoredFirst, S!EventHasRow, S!AcceptedIsDurable

\* A step that appends n copies of the event of a call that is past its INSERT.
LEMMA AppendStep ==
  ASSUME StoredFirst, NEW id \in Ids, NEW n \in Nat, S!AppendEvent(id, n),
         calls[id] \in {"publish", "abandoned"}, UNCHANGED rows,
         NEW state \in {"accepted", "rejected"}, S!Goto(id, state),
         state = "accepted" => n > 0
  PROVE  StoredFirst'
  <1>1. /\ submissions' \in Seq(Ids)
        /\ \A x \in Ids : S!InTopic(x)' <=> S!InTopic(x) \/ (n > 0 /\ x = id)
    BY EventAppended DEF StoredFirst
  <1>2. calls' \in [Ids -> S!CallStates]
    BY DEF StoredFirst, S!Goto, S!CallStates
  <1>3. \A x \in Ids : calls'[x] = IF x = id THEN state ELSE calls[x]
    BY DEF StoredFirst, S!Goto
  <1>4. rows[id] # "none"
    BY DEF StoredFirst
  <1>5. S!EventHasRow' /\ S!AcceptedIsDurable'
    BY <1>1, <1>3, <1>4 DEF StoredFirst, S!EventHasRow, S!AcceptedIsDurable
  <1> QED BY <1>1, <1>2, <1>3, <1>5 DEF StoredFirst

LEMMA SubmissionStep ==
  ASSUME StoredFirst, S!SubmissionNext
  PROVE  StoredFirst'
  <1> USE DEF S!CallStates
  <1>1. CASE S!Crash
    BY <1>1, QuietStep DEF S!Crash, StoredFirst
  <1>2. ASSUME NEW id \in Ids, S!Receive(id) \/ S!ReceiveFailed(id) \/ S!Cancel(id)
        PROVE  StoredFirst'
    BY <1>2, QuietStep DEF S!Receive, S!ReceiveFailed, S!Cancel, S!Goto, StoredFirst
  <1>3. ASSUME NEW id \in Ids, S!InsertRow(id) PROVE StoredFirst'
    BY <1>3, QuietStep DEF S!InsertRow, S!Goto, StoredFirst
  <1>4. ASSUME NEW id \in Ids, S!InsertFailed(id) PROVE StoredFirst'
    BY <1>4, QuietStep DEF S!InsertFailed, S!Goto, StoredFirst
  <1>5. ASSUME NEW id \in Ids, S!PublishEvent(id) PROVE StoredFirst'
    BY <1>5, AppendStep DEF S!PublishEvent
  <1>6. ASSUME NEW id \in Ids, S!PublishRetried(id) PROVE StoredFirst'
    <2>1. PICK n \in 2 .. MaxAttempts : S!AppendEvent(id, n)
      BY <1>6 DEF S!PublishRetried
    <2> QED BY <1>6, <2>1, AppendStep DEF S!PublishRetried
  <1>7. ASSUME NEW id \in Ids, S!PublishFailed(id) PROVE StoredFirst'
    <2>1. PICK n \in 0 .. MaxAttempts : S!AppendEvent(id, n)
      BY <1>7 DEF S!PublishFailed
    <2> QED BY <1>7, <2>1, AppendStep DEF S!PublishFailed
  <1>8. ASSUME NEW id \in Ids, S!LateWrite(id) PROVE StoredFirst'
    <2>1. PICK n \in {0, 1} : S!AppendEvent(id, n)
      BY <1>8 DEF S!LateWrite
    <2> QED BY <1>8, <2>1, AppendStep DEF S!LateWrite
  <1> QED
    BY <1>1, <1>2, <1>3, <1>4, <1>5, <1>6, <1>7, <1>8
    DEF S!SubmissionNext, S!SubmissionStep

LEMMA SubmissionStart ==
  ASSUME S!SubmissionInit, rows = [id \in Ids |-> "none"], submissions = <<>>
  PROVE  StoredFirst
  BY DEF S!SubmissionInit, S!CallStates, S!InTopic, S!EventHasRow, S!AcceptedIsDurable,
         StoredFirst

\* Of submission_service alone.
LEMMA StoredFirstAlone == S!Spec => []StoredFirst
  <1>1. S!Init => StoredFirst
    BY SubmissionStart DEF S!Init
  <1>2. StoredFirst /\ [S!Next]_S!vars => StoredFirst'
    <2> SUFFICES ASSUME StoredFirst, [S!Next]_S!vars PROVE StoredFirst'
      OBVIOUS
    <2>1. CASE S!SubmissionNext
      BY <2>1, SubmissionStep
    <2>2. CASE UNCHANGED S!vars
      BY <2>2, QuietStep DEF S!vars, StoredFirst
    <2> QED BY <2>1, <2>2 DEF S!Next, S!Answered
  <1> QED BY <1>1, <1>2, PTL DEF S!Spec

(* In submission_service alone an event never overtakes its row, whatever  *)
(* fails and however often.                                                *)
THEOREM NoEventWithoutRow == S!Spec => []S!EventHasRow
  <1>1. StoredFirst => S!EventHasRow
    BY DEF StoredFirst
  <1> QED BY StoredFirstAlone, <1>1, PTL

(* In submission_service alone 202 means a row and an event.               *)
THEOREM AcceptedHasBoth == S!Spec => []S!AcceptedIsDurable
  <1>1. StoredFirst => S!AcceptedIsDurable
    BY DEF StoredFirst
  <1> QED BY StoredFirstAlone, <1>1, PTL
-----------------------------------------------------------------------------
(* judge_service *)

\* Inductive beside a topic that grows: what the process has, it read from the
\* topic.
ReadFromTopic ==
    /\ position \in Nat /\ committed \in Nat /\ stash \in Nat
    /\ loop = "send" => msg \in Nat /\ msg < Len(submissions)
    /\ jobs \in Seq(Nat)
    /\ \A i \in DOMAIN jobs : jobs[i] < Len(submissions)
    /\ wstate \in [Workers -> J!WorkerStates]
    /\ wmsg \in [Workers -> Nat]
    /\ \A w \in Workers : J!Busy(w) => wmsg[w] < Len(submissions)

\* A result event that is about a submission in the topic.
Judged(e) == e.id \in Ids /\ S!InTopic(e.id) /\ e.status \in Verdicts

\* Inductive beside judge_service.
ResultsJudged ==
    /\ results \in Seq(J!Result)
    /\ \A i \in DOMAIN results : Judged(results[i])

LEMMA JobsTail ==
  ASSUME jobs \in Seq(Nat), jobs # <<>>, jobs' = Tail(jobs)
  PROVE  /\ jobs' \in Seq(Nat)
         /\ \A i \in DOMAIN jobs' : i + 1 \in DOMAIN jobs /\ jobs'[i] = jobs[i + 1]
         /\ 1 \in DOMAIN jobs /\ Head(jobs) = jobs[1] /\ jobs[1] \in Nat
  OBVIOUS

LEMMA JobsAppended ==
  ASSUME jobs \in Seq(Nat), NEW m \in Nat, jobs' = Append(jobs, m)
  PROVE  /\ jobs' \in Seq(Nat)
         /\ \A i \in DOMAIN jobs' : jobs'[i] = m \/ (i \in DOMAIN jobs /\ jobs'[i] = jobs[i])
  OBVIOUS

LEMMA JudgeReads ==
  ASSUME ReadFromTopic, submissions \in Seq(Ids), J!JudgeNext
  PROVE  ReadFromTopic' /\ UNCHANGED submissions
  <1> USE DEF J!brokerVars, J!readerVars, J!workerVars
  <1>0. Len(submissions) \in Nat
    OBVIOUS
  <1>1. CASE J!Start
    BY <1>1 DEF J!Start, ReadFromTopic, J!WorkerStates, J!Busy
  <1>2. CASE J!Fetch
    BY <1>2 DEF J!Fetch, ReadFromTopic, J!Busy
  <1>3. CASE J!Send
    <2>1. jobs' \in Seq(Nat) /\ \A i \in DOMAIN jobs' : jobs'[i] < Len(submissions)
      BY <1>3, JobsAppended DEF J!Send, ReadFromTopic
    <2> QED BY <1>3, <2>1 DEF J!Send, ReadFromTopic, J!Busy
  <1>4. CASE J!Shutdown \/ J!Crash
    <2>1. /\ UNCHANGED submissions /\ J!Gone /\ stash' = 0
          /\ committed' \in {committed, stash}
      BY <1>4 DEF J!Shutdown, J!Crash, J!FinalCommit
    <2> QED BY <2>1 DEF J!Gone, ReadFromTopic, J!WorkerStates, J!Busy
  <1>5. CASE J!FetchError
    BY <1>5 DEF J!FetchError, ReadFromTopic, J!Busy
  <1>6. CASE J!FlushCommits \/ J!Rebalance
    BY <1>6 DEF J!FlushCommits, J!Rebalance, J!FinalCommit, ReadFromTopic, J!Busy
  <1>7. ASSUME NEW w \in Workers, J!WorkerStep(w)
        PROVE  ReadFromTopic' /\ UNCHANGED submissions
    <2>1. CASE J!Receive(w)
      <3>1. /\ jobs' \in Seq(Nat) /\ \A i \in DOMAIN jobs' : jobs'[i] < Len(submissions)
            /\ Head(jobs) \in Nat /\ Head(jobs) < Len(submissions)
        BY <2>1, JobsTail DEF J!Receive, ReadFromTopic
      <3> QED BY <2>1, <3>1 DEF J!Receive, J!Goto, ReadFromTopic, J!WorkerStates, J!Busy
    <2>2. CASE J!Acquire(w) \/ J!Exit(w) \/ J!WriteResult(w) \/ J!WriteRetried(w)
      BY <2>2 DEF J!Acquire, J!Exit, J!WriteResult, J!WriteRetried, J!Goto, ReadFromTopic,
                  J!WorkerStates, J!Busy
    <2>3. CASE J!WriteFailed(w)
      BY <2>3 DEF J!WriteFailed, J!Goto, ReadFromTopic, J!WorkerStates, J!Busy
    <2>4. CASE J!CommitMessages(w)
      BY <2>4 DEF J!CommitMessages, J!MergeOffset, J!Goto, ReadFromTopic, J!WorkerStates, J!Busy
    <2> QED BY <1>7, <2>1, <2>2, <2>3, <2>4 DEF J!WorkerStep
  <1> QED
    BY <1>1, <1>2, <1>3, <1>4, <1>5, <1>6, <1>7 DEF J!JudgeNext, J!LoopStep

\* What judge_service writes is about a submission it read.
LEMMA JudgeWrites ==
  ASSUME ReadFromTopic, ResultsJudged, submissions \in Seq(Ids), J!JudgeNext
  PROVE  /\ ResultsJudged'
         /\ Len(results) <= Len(results')
         /\ \A i \in DOMAIN results : results'[i] = results[i]
  <1>0. UNCHANGED submissions
    BY JudgeReads
  <1>1. CASE UNCHANGED results
    <2>1. Len(results) \in Nat
      BY DEF ResultsJudged
    <2> QED BY <1>0, <1>1, <2>1 DEF ResultsJudged, Judged, S!InTopic
  <1>2. ASSUME NEW w \in Workers, wstate[w] = "judge", NEW v \in Verdicts, NEW n \in Nat,
               J!AppendResult(w, v, n)
        PROVE  /\ ResultsJudged'
               /\ Len(results) <= Len(results')
               /\ \A i \in DOMAIN results : results'[i] = results[i]
    <2> DEFINE r == [id |-> J!SubmissionAt(wmsg[w]), status |-> v]
               copies == [i \in 1 .. n |-> r]
    <2>1. /\ J!SubmissionAt(wmsg[w]) \in Ids
          /\ \E i \in DOMAIN submissions : submissions[i] = J!SubmissionAt(wmsg[w])
      <3>1. wmsg[w] + 1 \in 1 .. Len(submissions)
        BY <1>2 DEF ReadFromTopic, J!Busy
      <3> QED BY <3>1, ElementOfSeq DEF J!SubmissionAt
    <2>2. r \in J!Result /\ Judged(r)
      BY <2>1 DEF J!Result, Judged, S!InTopic
    <2>3. copies \in Seq(J!Result) /\ Len(copies) = n /\ \A i \in 1 .. n : copies[i] = r
      BY <2>2, SeqDef
    <2>4. results' = results \o copies /\ results \in Seq(J!Result)
      BY <1>2 DEF J!AppendResult, ResultsJudged
    <2> HIDE DEF copies, r
    <2>5. /\ results' \in Seq(J!Result) /\ Len(results') = Len(results) + n
          /\ Len(results) \in Nat
          /\ DOMAIN results = 1 .. Len(results) /\ DOMAIN results' = 1 .. (Len(results) + n)
          /\ \A i \in 1 .. Len(results) : results'[i] = results[i]
          /\ \A i \in Len(results) + 1 .. Len(results) + n : results'[i] = r
      <3>1. /\ results' \in Seq(J!Result) /\ Len(results') = Len(results) + n
            /\ Len(results) \in Nat
        BY <2>3, <2>4, ConcatProperties, LenProperties
      <3>2. DOMAIN results = 1 .. Len(results) /\ DOMAIN results' = 1 .. (Len(results) + n)
        BY <2>4, <3>1, LenProperties
      <3>3. \A i \in 1 .. Len(results) : results'[i] = results[i]
        BY <2>3, <2>4
      <3>4. \A i \in Len(results) + 1 .. Len(results) + n : results'[i] = copies[i - Len(results)]
        BY <2>3, <2>4, <3>1
      <3>5. \A i \in Len(results) + 1 .. Len(results) + n : i - Len(results) \in 1 .. n
        BY <3>1
      <3> QED BY <2>3, <3>1, <3>2, <3>3, <3>4, <3>5
    <2>6. \A i \in DOMAIN results' : Judged(results'[i])
      BY <2>2, <2>5 DEF ResultsJudged
    <2> QED BY <1>0, <2>5, <2>6 DEF ResultsJudged, Judged, S!InTopic
  <1>3. \/ UNCHANGED results
        \/ \E w \in Workers, v \in Verdicts, n \in Nat :
              wstate[w] = "judge" /\ J!AppendResult(w, v, n)
    BY DEF J!JudgeNext, J!LoopStep, J!WorkerStep, J!Start, J!Fetch, J!Send, J!Shutdown,
           J!FetchError, J!Crash, J!FlushCommits, J!Rebalance, J!Receive, J!Acquire,
           J!WriteResult, J!WriteRetried, J!WriteFailed, J!CommitMessages, J!Exit,
           J!brokerVars
  <1> QED BY <1>1, <1>2, <1>3
-----------------------------------------------------------------------------
(* result_service *)

\* Inductive beside a topic of such events: what a goroutine applies is one.
AppliesJudged ==
    /\ rposition \in Nat /\ rcommitted \in Nat
    /\ rmsg \in Nat
    /\ rloop = "process" => rmsg < Len(results)
    /\ gstate \in [Goroutines -> {"free", "update", "invalidate"}]
    /\ gevent = [g \in Goroutines |-> gevent[g]]
    /\ \A g \in Goroutines : gstate[g] = "update" => Judged(gevent[g])

\* The row an UPDATE or a failed UPDATE may change, and to what.
Updates(g) ==
    /\ gstate[g] = "update"
    /\ rows' \in {rows, [rows EXCEPT ![gevent[g].id] = gevent[g].status]}
    /\ rows[gevent[g].id] = "none" => rows' = rows

LEMMA ResultStep ==
  ASSUME AppliesJudged, ResultsJudged, rows \in [Ids -> {"none", "Pending"} \cup Verdicts],
         R!ResultNext, UNCHANGED submissions
  PROVE  /\ AppliesJudged' /\ UNCHANGED results
         /\ UNCHANGED rows \/ \E g \in Goroutines : Updates(g)
  <1> USE DEF R!resultVars, R!consumerVars, R!updateVars, R!readerVars, R!vars
  <1>0. \A e : Judged(e)' <=> Judged(e)
    BY DEF Judged, S!InTopic
  <1>1. CASE R!Start \/ R!Fetch \/ R!CommitMessages \/ R!CommitFailed \/ R!Rebalance
    BY <1>0, <1>1 DEF R!Start, R!Fetch, R!CommitMessages, R!CommitFailed, R!Rebalance,
                      AppliesJudged, ResultsJudged
  <1>2. ASSUME NEW g \in Goroutines, R!ProcessResult(g)
        PROVE  AppliesJudged' /\ UNCHANGED <<results, rows>>
    <2>1. rmsg + 1 \in DOMAIN results
      BY <1>2 DEF R!ProcessResult, AppliesJudged, ResultsJudged
    <2>2. Judged(results[rmsg + 1])
      BY <2>1 DEF ResultsJudged
    <2> QED BY <1>0, <1>2, <2>2 DEF R!ProcessResult, AppliesJudged
  <1>3. CASE R!Crash
    BY <1>3 DEF R!Crash, AppliesJudged
  <1>4. ASSUME NEW g \in Goroutines, R!UpdateRow(g)
        PROVE  AppliesJudged' /\ UNCHANGED results /\ Updates(g)
    <2>1. AppliesJudged' /\ UNCHANGED results
      BY <1>0, <1>4 DEF R!UpdateRow, AppliesJudged
    <2>2. Updates(g)
      BY <1>4 DEF R!UpdateRow, Updates
    <2> QED BY <2>1, <2>2
  <1>5. ASSUME NEW g \in Goroutines, R!UpdateFailed(g)
        PROVE  AppliesJudged' /\ UNCHANGED results /\ Updates(g)
    <2>1. AppliesJudged' /\ UNCHANGED results
      BY <1>0, <1>5 DEF R!UpdateFailed, R!Finish, AppliesJudged
    <2>2. Updates(g)
      BY <1>5 DEF R!UpdateFailed, Updates
    <2> QED BY <2>1, <2>2
  <1>6. ASSUME NEW g \in Goroutines, R!Invalidate(g) \/ R!InvalidateFailed(g)
        PROVE  AppliesJudged' /\ UNCHANGED <<results, rows>>
    BY <1>0, <1>6 DEF R!Invalidate, R!InvalidateFailed, R!Finish, AppliesJudged
  <1>7. CASE UNCHANGED <<results, rows, rposition, rcommitted, rmsg, rloop, gstate, gevent>>
    BY <1>0, <1>7 DEF AppliesJudged
  <1>8. ASSUME \/ \E r \in Readers :
                    \/ R!ReadStep(r) \/ R!QueryFailed(r) \/ R!QueryCut(r) \/ R!FillFailed(r)
                    \/ \E u \in Users : R!ReadHit(r, u) \/ R!ReadMiss(r, u)
                                        \/ R!ReadCacheError(r, u)
               \/ \E u \in Users : R!Expire(u)
        PROVE  UNCHANGED <<results, rows, rposition, rcommitted, rmsg, rloop, gstate, gevent>>
    BY <1>8 DEF R!ReadStep, R!Query, R!Fill, R!QueryFailed, R!QueryCut, R!FillFailed, R!ReadHit,
                R!ReadMiss, R!ReadCacheError, R!Expire
  <1>9. CASE UNCHANGED <<results, rows>> /\ AppliesJudged'
    BY <1>9
  <1> QED
    BY <1>1, <1>2, <1>3, <1>4, <1>5, <1>6, <1>7, <1>8
    DEF R!ResultNext, R!ConsumerStep, R!UpdateStep, R!Start, R!Fetch, R!CommitMessages,
        R!CommitFailed, R!Rebalance, R!Crash
-----------------------------------------------------------------------------
(* The services together *)

SystemInv == StoredFirst /\ ReadFromTopic /\ ResultsJudged /\ AppliesJudged

\* The submission topic only grows.
LEMMA TopicGrows ==
  ASSUME StoredFirst, S!SubmissionNext
  PROVE  /\ Len(submissions) \in Nat /\ Len(submissions') \in Nat
         /\ Len(submissions) <= Len(submissions')
         /\ \A x \in Ids : S!InTopic(x) => S!InTopic(x)'
  <1>1. \/ UNCHANGED submissions
        \/ \E id \in Ids, n \in Nat : S!AppendEvent(id, n)
    BY DEF S!SubmissionNext, S!SubmissionStep, S!Crash, S!Receive, S!ReceiveFailed,
           S!InsertRow, S!InsertFailed, S!PublishEvent, S!PublishRetried, S!PublishFailed,
           S!Cancel, S!LateWrite
  <1>2. CASE UNCHANGED submissions
    BY <1>2 DEF StoredFirst, S!InTopic
  <1>3. ASSUME NEW id \in Ids, NEW n \in Nat, S!AppendEvent(id, n)
        PROVE  /\ Len(submissions) \in Nat /\ Len(submissions') \in Nat
               /\ Len(submissions) <= Len(submissions')
               /\ \A x \in Ids : S!InTopic(x) => S!InTopic(x)'
    <2>1. Len(submissions') = Len(submissions) + n
          /\ \A x \in Ids : S!InTopic(x) => S!InTopic(x)'
      BY <1>3, EventAppended DEF StoredFirst
    <2>2. Len(submissions) \in Nat
      BY DEF StoredFirst
    <2> QED BY <2>1, <2>2
  <1> QED BY <1>1, <1>2, <1>3

LEMMA SystemStep ==
  ASSUME SystemInv, [Next]_vars
  PROVE  SystemInv'
  <1> USE DEF sharedVars, judgeVars, resultVars
  <1>1. CASE SubmissionServiceStep
    <2>1. StoredFirst' /\ UNCHANGED <<results, judgeVars, resultVars>>
      BY <1>1, SubmissionStep DEF SystemInv, SubmissionServiceStep, OnlySubmissionService
    <2>2. /\ Len(submissions) \in Nat /\ Len(submissions') \in Nat
          /\ Len(submissions) <= Len(submissions')
          /\ \A x \in Ids : S!InTopic(x) => S!InTopic(x)'
      BY <1>1, TopicGrows DEF SystemInv, SubmissionServiceStep
    <2>3. ReadFromTopic'
      BY <2>1, <2>2 DEF SystemInv, ReadFromTopic, J!Busy
    <2>4. ResultsJudged'
      BY <2>1, <2>2 DEF SystemInv, ResultsJudged, Judged
    <2>5. AppliesJudged'
      BY <2>1, <2>2 DEF SystemInv, AppliesJudged, Judged
    <2> QED BY <2>1, <2>3, <2>4, <2>5 DEF SystemInv
  <1>2. CASE JudgeServiceStep
    <2>1. J!JudgeNext /\ UNCHANGED <<rows, calls, resultVars>> /\ submissions \in Seq(Ids)
      BY <1>2 DEF JudgeServiceStep, OnlyJudgeService, SystemInv, StoredFirst
    <2>2. ReadFromTopic' /\ UNCHANGED submissions
      BY <2>1, JudgeReads DEF SystemInv
    <2>3. ResultsJudged' /\ Len(results) <= Len(results')
      BY <2>1, JudgeWrites DEF SystemInv
    <2>4. StoredFirst'
      BY <2>1, <2>2 DEF SystemInv, StoredFirst, S!EventHasRow, S!AcceptedIsDurable, S!InTopic
    <2>5. Len(results) \in Nat /\ Len(results') \in Nat
      BY <2>3 DEF SystemInv, ResultsJudged
    <2>6. AppliesJudged'
      BY <2>1, <2>2, <2>3, <2>5 DEF SystemInv, AppliesJudged, Judged, S!InTopic
    <2> QED BY <2>2, <2>3, <2>4, <2>6 DEF SystemInv
  <1>3. CASE ResultServiceStep
    <2>1. R!ResultNext /\ UNCHANGED <<submissions, calls, judgeVars>>
      BY <1>3 DEF ResultServiceStep, OnlyResultService
    <2>2. /\ AppliesJudged' /\ UNCHANGED results
          /\ UNCHANGED rows \/ \E g \in Goroutines : Updates(g)
      BY <2>1, ResultStep DEF SystemInv, StoredFirst
    <2>3. StoredFirst'
      <3>1. CASE UNCHANGED rows
        BY <2>1, <3>1 DEF SystemInv, StoredFirst, S!EventHasRow, S!AcceptedIsDurable, S!InTopic
      <3>2. ASSUME NEW g \in Goroutines, Updates(g) PROVE StoredFirst'
        <4>1. Judged(gevent[g])
          BY <3>2 DEF SystemInv, AppliesJudged, Updates
        <4>2. /\ rows' \in [Ids -> {"none", "Pending"} \cup Verdicts]
              /\ \A id \in Ids : rows'[id] = "none" <=> rows[id] = "none"
          BY <3>2, <4>1, VerdictConstants DEF SystemInv, StoredFirst, Updates, Judged
        <4> QED BY <2>1, <4>2
            DEF SystemInv, StoredFirst, S!EventHasRow, S!AcceptedIsDurable, S!InTopic
      <3> QED BY <2>2, <3>1, <3>2
    <2>4. ReadFromTopic' /\ ResultsJudged'
      BY <2>1, <2>2 DEF SystemInv, ReadFromTopic, ResultsJudged, Judged, J!Busy, S!InTopic
    <2> QED BY <2>2, <2>3, <2>4 DEF SystemInv
  <1>4. CASE UNCHANGED vars
    BY <1>4 DEF vars, SystemInv, StoredFirst, S!EventHasRow, S!AcceptedIsDurable, S!InTopic,
                ReadFromTopic, J!Busy, ResultsJudged, AppliesJudged, Judged
  <1> QED BY <1>1, <1>2, <1>3, <1>4 DEF Next, Quiescent

LEMMA SystemStart == Init => SystemInv
  <1> SUFFICES ASSUME Init PROVE SystemInv
    OBVIOUS
  <1>1. StoredFirst
    BY SubmissionStart DEF Init
  <1>2. ReadFromTopic
    BY DEF Init, J!JudgeInit, ReadFromTopic, J!WorkerStates, J!Busy
  <1>3. ResultsJudged
    BY DEF Init, ResultsJudged
  <1>4. AppliesJudged
    BY DEF Init, R!ResultInit, AppliesJudged
  <1> QED BY <1>1, <1>2, <1>3, <1>4 DEF SystemInv

LEMMA SystemInvariance == Spec => []SystemInv
  BY SystemStart, SystemStep, PTL DEF Spec

(* However many services, workers and goroutines are at work and whatever  *)
(* fails, the UPDATE of a result finds the row of its submission.          *)
THEOREM ResultHasRow == Spec => []UpdateFindsRow
  <1>1. SystemInv => UpdateFindsRow
    BY DEF SystemInv, StoredFirst, S!EventHasRow, AppliesJudged, Judged, UpdateFindsRow
  <1> QED BY SystemInvariance, <1>1, PTL
-----------------------------------------------------------------------------
(* The abstract lifecycle *)

Answers == [id \in Ids |-> AnswerOf(id)]
Handed  == {submissions[i] : i \in DOMAIN submissions}

LEMMA HandedIsTopic ==
  ASSUME submissions \in Seq(Ids)
  PROVE  Handed = {x \in Ids : S!InTopic(x)}
  BY ElementOfSeq DEF Handed, S!InTopic

LEMMA AnswerCases ==
  ASSUME NEW id \in Ids
  PROVE  AnswerOf(id) = IF calls[id] = "accepted" THEN "accepted"
                        ELSE IF calls[id] \in {"abandoned", "rejected"} THEN "rejected"
                        ELSE "none"
  BY DEF AnswerOf

\* One call goes to another state.
LEMMA OneAnswer ==
  ASSUME StoredFirst, NEW id \in Ids, NEW state, S!Goto(id, state)
  PROVE  /\ state = "accepted" => Answers' = [Answers EXCEPT ![id] = "accepted"]
         /\ state \in {"abandoned", "rejected"} =>
               Answers' = [Answers EXCEPT ![id] = "rejected"]
         /\ state \in {"none", "insert", "publish"} =>
               Answers' = [Answers EXCEPT ![id] = "none"]
  <1> DEFINE told(s) == IF s = "accepted" THEN "accepted"
                        ELSE IF s \in {"abandoned", "rejected"} THEN "rejected"
                        ELSE "none"
  <1>1. Answers = [x \in Ids |-> told(calls[x])]
    BY AnswerCases DEF Answers
  <1>2. Answers' = [x \in Ids |-> told(calls'[x])]
    BY AnswerCases DEF Answers, AnswerOf
  <1>3. \A x \in Ids : calls'[x] = IF x = id THEN state ELSE calls[x]
    BY DEF StoredFirst, S!Goto
  <1>4. Answers' = [Answers EXCEPT ![id] = told(state)]
    <2> HIDE DEF told
    <2> QED BY <1>1, <1>2, <1>3
  <1> QED BY <1>4

\* A client that was told nothing is told that the submission failed.
LEMMA RejectOne ==
  ASSUME NEW id \in Ids, Answers[id] = "none",
         Answers' = [Answers EXCEPT ![id] = "rejected"], UNCHANGED <<rows, Handed>>
  PROVE  Lifecycle!Next
  <1>1. Answers' = [x \in Ids |-> IF x \in {id} THEN "rejected" ELSE Answers[x]]
    BY DEF Answers
  <1>2. {id} \in SUBSET {x \in Ids : Answers[x] = "none"}
    OBVIOUS
  <1>3. Lifecycle!Reject
    BY <1>1, <1>2 DEF Lifecycle!Reject, Answers, Handed
  <1> QED BY <1>3 DEF Lifecycle!Next

\* Copies of an event hand its submission over; the client may be told of it.
LEMMA AppendHandsOver ==
  ASSUME StoredFirst, NEW id \in Ids, NEW n \in Nat, S!AppendEvent(id, n), UNCHANGED rows,
         calls[id] \in {"publish", "abandoned"},
         NEW state \in {"accepted", "rejected"}, S!Goto(id, state),
         state = "accepted" => n > 0 /\ calls[id] = "publish"
  PROVE  Lifecycle!Next \/ UNCHANGED <<rows, Handed, Answers>>
  <1>1. /\ submissions \in Seq(Ids) /\ submissions' \in Seq(Ids)
        /\ \A x \in Ids : S!InTopic(x)' <=> S!InTopic(x) \/ (n > 0 /\ x = id)
    BY EventAppended DEF StoredFirst
  <1>2. Handed' = IF n > 0 THEN Handed \cup {id} ELSE Handed
    <2>1. Handed = {x \in Ids : S!InTopic(x)}
      BY <1>1, HandedIsTopic
    <2>2. Handed' = {x \in Ids : S!InTopic(x)'}
      BY <1>1, ElementOfSeq DEF Handed, S!InTopic
    <2> QED BY <1>1, <2>1, <2>2
  <1>3. Answers' = [Answers EXCEPT ![id] = state]
    BY OneAnswer
  <1>4. Answers[id] = IF calls[id] = "publish" THEN "none" ELSE "rejected"
    BY AnswerCases DEF Answers
  <1>5. UNCHANGED Answers \/ (Answers[id] = "none" /\ Answers' = [Answers EXCEPT ![id] = state])
    <2>1. CASE calls[id] = "publish"
      BY <1>3, <1>4, <2>1
    <2>2. CASE calls[id] = "abandoned"
      BY <1>3, <1>4, <2>2 DEF Answers
    <2> QED BY <2>1, <2>2
  <1>6. CASE n > 0
    <2>1. rows[id] # "none" /\ Handed' = Handed \cup {id}
      BY <1>2, <1>6 DEF StoredFirst
    <2>2. Lifecycle!MayAnswer(id, {"accepted", "rejected"})
      BY <1>5 DEF Lifecycle!MayAnswer, Answers
    <2>3. Lifecycle!HandOver(id)
      BY <2>1, <2>2 DEF Lifecycle!HandOver, Handed
    <2> QED BY <2>3 DEF Lifecycle!Next
  <1>7. CASE n = 0
    <2>1. UNCHANGED Handed /\ state = "rejected"
      BY <1>2, <1>7
    <2> QED BY <1>5, <2>1, RejectOne
  <1> QED BY <1>6, <1>7

\* Every step of submission_service is one of the lifecycle or none.
LEMMA SubmissionSimulates ==
  ASSUME StoredFirst, S!SubmissionNext
  PROVE  Lifecycle!Next \/ UNCHANGED <<rows, Handed, Answers>>
  <1>0. /\ UNCHANGED submissions => UNCHANGED Handed
        /\ \A id \in Ids : calls[id] \in {"none", "insert", "publish"} => Answers[id] = "none"
    BY AnswerCases DEF Handed, Answers
  <1>1. CASE S!Crash
    <2> DEFINE failed == {id \in Ids : calls[id] \in {"insert", "publish"}}
    <2>1. failed \in SUBSET {id \in Ids : Answers[id] = "none"}
      BY <1>0
    <2>2. Answers' = [id \in Ids |-> IF id \in failed THEN "rejected" ELSE Answers[id]]
      <3>1. ASSUME NEW id \in Ids
            PROVE  AnswerOf(id)' = IF id \in failed THEN "rejected" ELSE AnswerOf(id)
        BY <1>1, AnswerCases DEF S!Crash, AnswerOf
      <3> QED BY <3>1 DEF Answers
    <2>3. UNCHANGED <<rows, Handed>>
      BY <1>0, <1>1 DEF S!Crash
    <2> HIDE DEF failed
    <2>4. Lifecycle!Reject
      BY <2>1, <2>2, <2>3 DEF Lifecycle!Reject, Answers, Handed
    <2> QED BY <2>4 DEF Lifecycle!Next
  <1>2. ASSUME NEW id \in Ids, S!Receive(id)
        PROVE  UNCHANGED <<rows, Handed, Answers>>
    <2>1. Answers' = [Answers EXCEPT ![id] = "none"] /\ Answers[id] = "none"
      BY <1>0, <1>2, OneAnswer DEF S!Receive
    <2> QED BY <1>0, <1>2, <2>1 DEF S!Receive, Answers
  <1>3. ASSUME NEW id \in Ids, S!ReceiveFailed(id) \/ S!Cancel(id)
        PROVE  Lifecycle!Next
    <2>1. Answers' = [Answers EXCEPT ![id] = "rejected"] /\ Answers[id] = "none"
      BY <1>0, <1>3, OneAnswer DEF S!ReceiveFailed, S!Cancel
    <2> QED BY <1>0, <1>3, <2>1, RejectOne DEF S!ReceiveFailed, S!Cancel
  <1>4. ASSUME NEW id \in Ids, S!InsertRow(id)
        PROVE  Lifecycle!Next
    <2>1. Answers' = [Answers EXCEPT ![id] = "none"] /\ Answers[id] = "none"
      BY <1>0, <1>4, OneAnswer DEF S!InsertRow
    <2>2. UNCHANGED Answers
      BY <2>1 DEF Answers
    <2>3. rows[id] = "none" /\ rows' = [rows EXCEPT ![id] = "Pending"] /\ UNCHANGED Handed
      BY <1>0, <1>4 DEF S!InsertRow, StoredFirst
    <2>4. Lifecycle!Store(id)
      BY <2>2, <2>3 DEF Lifecycle!Store, Lifecycle!MayAnswer, Answers, Handed
    <2> QED BY <2>4 DEF Lifecycle!Next
  <1>5. ASSUME NEW id \in Ids, S!InsertFailed(id)
        PROVE  Lifecycle!Next
    <2>1. Answers' = [Answers EXCEPT ![id] = "rejected"] /\ Answers[id] = "none"
      BY <1>0, <1>5, OneAnswer DEF S!InsertFailed
    <2>2. rows[id] = "none" /\ UNCHANGED Handed
      BY <1>0, <1>5 DEF S!InsertFailed, StoredFirst
    <2>3. CASE UNCHANGED rows
      BY <2>1, <2>2, <2>3, RejectOne
    <2>4. CASE rows' = [rows EXCEPT ![id] = "Pending"]
      <3>1. Lifecycle!MayAnswer(id, {"rejected"})
        BY <2>1 DEF Lifecycle!MayAnswer, Answers
      <3>2. Lifecycle!Store(id)
        BY <2>2, <2>4, <3>1 DEF Lifecycle!Store, Handed
      <3> QED BY <3>2 DEF Lifecycle!Next
    <2> QED BY <1>5, <2>3, <2>4 DEF S!InsertFailed
  <1>6. ASSUME NEW id \in Ids,
               S!PublishEvent(id) \/ S!PublishRetried(id) \/ S!PublishFailed(id) \/ S!LateWrite(id)
        PROVE  Lifecycle!Next \/ UNCHANGED <<rows, Handed, Answers>>
    <2>1. CASE S!PublishEvent(id)
      BY <2>1, AppendHandsOver DEF S!PublishEvent
    <2>2. CASE S!PublishRetried(id)
      <3>1. PICK n \in 2 .. MaxAttempts : S!AppendEvent(id, n)
        BY <2>2 DEF S!PublishRetried
      <3> QED BY <2>2, <3>1, AppendHandsOver DEF S!PublishRetried
    <2>3. CASE S!PublishFailed(id)
      <3>1. PICK n \in 0 .. MaxAttempts : S!AppendEvent(id, n)
        BY <2>3 DEF S!PublishFailed
      <3> QED BY <2>3, <3>1, AppendHandsOver DEF S!PublishFailed
    <2>4. CASE S!LateWrite(id)
      <3>1. PICK n \in {0, 1} : S!AppendEvent(id, n)
        BY <2>4 DEF S!LateWrite
      <3> QED BY <2>4, <3>1, AppendHandsOver DEF S!LateWrite
    <2> QED BY <1>6, <2>1, <2>2, <2>3, <2>4
  <1> QED
    BY <1>1, <1>2, <1>3, <1>4, <1>5, <1>6 DEF S!SubmissionNext, S!SubmissionStep

LEMMA Simulation ==
  ASSUME SystemInv, [Next]_vars
  PROVE  [Lifecycle!Next]_Lifecycle!vars
  <1>1. SUFFICES Lifecycle!Next \/ UNCHANGED <<rows, Handed, Answers>>
    BY DEF Lifecycle!vars, Handed, Answers
  <1>2. CASE SubmissionServiceStep
    BY <1>2, SubmissionSimulates DEF SubmissionServiceStep, SystemInv
  <1>3. ASSUME UNCHANGED <<submissions, calls>>
        PROVE  UNCHANGED <<Handed, Answers>>
    BY <1>3 DEF Handed, Answers, AnswerOf
  <1>4. CASE JudgeServiceStep
    <2>1. UNCHANGED <<rows, calls, submissions>>
      BY <1>4, JudgeReads DEF JudgeServiceStep, OnlyJudgeService, SystemInv, StoredFirst
    <2> QED BY <1>3, <2>1
  <1>5. CASE ResultServiceStep
    <2>1. /\ UNCHANGED <<submissions, calls>>
          /\ UNCHANGED rows \/ \E g \in Goroutines : Updates(g)
      BY <1>5, ResultStep DEF ResultServiceStep, OnlyResultService, SystemInv, StoredFirst
    <2>2. ASSUME NEW g \in Goroutines, Updates(g)
          PROVE  Lifecycle!Next \/ UNCHANGED rows
      <3>1. /\ gevent[g].id \in Ids /\ gevent[g].status \in Verdicts
            /\ S!InTopic(gevent[g].id)
        BY <2>2 DEF SystemInv, AppliesJudged, Updates, Judged
      <3>2. gevent[g].id \in Handed
        BY <3>1, HandedIsTopic DEF SystemInv, StoredFirst
      <3>3. rows' = [rows EXCEPT ![gevent[g].id] = gevent[g].status]
               => Lifecycle!Judge(gevent[g].id, gevent[g].status)
        BY <1>3, <2>1, <3>2 DEF Lifecycle!Judge, Handed, Answers
      <3> QED BY <2>2, <3>1, <3>3 DEF Updates, Lifecycle!Next
    <2> QED BY <1>3, <2>1, <2>2
  <1>6. CASE UNCHANGED vars
    BY <1>3, <1>6 DEF vars, sharedVars
  <1> QED BY <1>2, <1>4, <1>5, <1>6 DEF Next, Quiescent

(* For any number of submissions, workers, goroutines, readers and faults  *)
(* of any mix, every step of the composed services is a step of the        *)
(* lifecycle that code-checker promises, or changes nothing in it.         *)
THEOREM ImplementsLifecycle == Spec => Lifecycle!Safety
  <1>1. Init => Lifecycle!Init
    <2> SUFFICES ASSUME Init PROVE Lifecycle!Init
      OBVIOUS
    <2>1. rows = [id \in Ids |-> "none"] /\ submissions = <<>>
          /\ \A id \in Ids : calls[id] = "none"
      BY DEF Init, S!SubmissionInit
    <2>2. Answers = [id \in Ids |-> "none"] /\ Handed = {}
      BY <2>1, AnswerCases DEF Answers, Handed
    <2> QED BY <2>1, <2>2 DEF Lifecycle!Init, Answers, Handed
  <1>2. SystemInv /\ [Next]_vars => [Lifecycle!Next]_Lifecycle!vars
    BY Simulation
  <1> QED BY <1>1, <1>2, SystemInvariance, PTL DEF Spec, Lifecycle!Safety
-----------------------------------------------------------------------------
(* What the lifecycle promises *)

\* Who was told that a submission is accepted has it handed over, with a row;
\* and a verdict is only given to a submission that was handed over.
Promised ==
    \A id \in Ids :
        /\ Answers[id] = "accepted" => id \in Handed
        /\ id \in Handed => rows[id] # "none"
        /\ rows[id] \in Verdicts => id \in Handed

LifecycleInv ==
    /\ rows \in [Ids -> {"none", "Pending"} \cup Verdicts]
    /\ Answers \in [Ids -> {"none", "accepted", "rejected"}]
    /\ Promised

\* The step that gives an answer gives a first one, and leaves the others.
LEMMA AnswersStep ==
  ASSUME LifecycleInv, NEW id \in Ids, NEW told \in SUBSET {"accepted", "rejected"},
         Lifecycle!MayAnswer(id, told)
  PROVE  /\ Answers' \in [Ids -> {"none", "accepted", "rejected"}]
         /\ \A x \in Ids : Answers[x] # "none" => Answers'[x] = Answers[x]
         /\ \A x \in Ids : Answers'[x] # Answers[x] => x = id /\ Answers'[x] \in told
  <1>1. \/ Answers' = Answers
        \/ /\ Answers[id] = "none"
           /\ \E a \in told : Answers' = [Answers EXCEPT ![id] = a]
    BY DEF Lifecycle!MayAnswer, Answers
  <1>2. CASE Answers' = Answers
    BY <1>2 DEF LifecycleInv
  <1>3. ASSUME NEW a \in told, Answers[id] = "none", Answers' = [Answers EXCEPT ![id] = a]
        PROVE  /\ Answers' \in [Ids -> {"none", "accepted", "rejected"}]
               /\ \A x \in Ids : Answers[x] # "none" => Answers'[x] = Answers[x]
               /\ \A x \in Ids : Answers'[x] # Answers[x] => x = id /\ Answers'[x] \in told
    BY <1>3 DEF LifecycleInv
  <1> QED BY <1>1, <1>2, <1>3

\* A row stays, a verdict is only replaced by another, an event stays in the
\* topic and an answer is final.
Kept ==
    \A id \in Ids :
        /\ rows[id] # "none" => rows'[id] # "none"
        /\ rows[id] \in Verdicts => rows'[id] \in Verdicts
        /\ id \in Handed => id \in Handed'
        /\ Answers[id] # "none" => Answers'[id] = Answers[id]

LEMMA LifecycleKeeps ==
  ASSUME LifecycleInv, [Lifecycle!Next]_Lifecycle!vars
  PROVE  LifecycleInv' /\ Kept
  <1> USE VerdictConstants
  <1>1. CASE UNCHANGED <<rows, Handed, Answers>>
    BY <1>1 DEF LifecycleInv, Promised, Kept
  <1>2. CASE UNCHANGED Lifecycle!vars
    <2>1. UNCHANGED <<rows, Handed, Answers>>
      BY <1>2 DEF Lifecycle!vars, Handed, Answers
    <2> QED BY <1>1, <2>1
  <1>3. CASE Lifecycle!Reject
    <2>1. PICK failed \in SUBSET {id \in Ids : Answers[id] = "none"} :
             /\ Answers' = [id \in Ids |-> IF id \in failed THEN "rejected" ELSE Answers[id]]
             /\ UNCHANGED <<rows, Handed>>
      BY <1>3 DEF Lifecycle!Reject, Answers, Handed
    <2> QED BY <2>1 DEF LifecycleInv, Promised, Kept
  <1>4. ASSUME NEW id \in Ids, Lifecycle!Store(id) PROVE LifecycleInv' /\ Kept
    <2>1. /\ rows[id] = "none" /\ rows' = [rows EXCEPT ![id] = "Pending"]
          /\ Lifecycle!MayAnswer(id, {"rejected"}) /\ UNCHANGED Handed
      BY <1>4 DEF Lifecycle!Store, Handed
    <2> QED BY <2>1, AnswersStep DEF LifecycleInv, Promised, Kept
  <1>5. ASSUME NEW id \in Ids, Lifecycle!HandOver(id) PROVE LifecycleInv' /\ Kept
    <2>1. /\ rows[id] # "none" /\ Handed' = Handed \cup {id}
          /\ Lifecycle!MayAnswer(id, {"accepted", "rejected"}) /\ UNCHANGED rows
      BY <1>5 DEF Lifecycle!HandOver, Handed
    <2> QED BY <2>1, AnswersStep DEF LifecycleInv, Promised, Kept
  <1>6. ASSUME NEW id \in Ids, NEW v \in Verdicts, Lifecycle!Judge(id, v)
        PROVE  LifecycleInv' /\ Kept
    <2>1. /\ id \in Handed /\ rows' = [rows EXCEPT ![id] = v] /\ UNCHANGED <<Handed, Answers>>
      BY <1>6 DEF Lifecycle!Judge, Handed, Answers
    <2> QED BY <2>1 DEF LifecycleInv, Promised, Kept
  <1> QED BY <1>2, <1>3, <1>4, <1>5, <1>6 DEF Lifecycle!Next

LEMMA LifecycleStart ==
  ASSUME Lifecycle!Init
  PROVE  LifecycleInv
  <1>1. rows = [id \in Ids |-> "none"] /\ Handed = {} /\ Answers = [id \in Ids |-> "none"]
    BY DEF Lifecycle!Init, Handed, Answers
  <1> QED BY <1>1, VerdictConstants DEF LifecycleInv, Promised

LEMMA LifecycleInvariance == Lifecycle!Safety => []LifecycleInv
  <1>1. LifecycleInv /\ [Lifecycle!Next]_Lifecycle!vars => LifecycleInv'
    BY LifecycleKeeps
  <1> QED BY LifecycleStart, <1>1, PTL DEF Lifecycle!Safety

(* What a client may rely on in the whole system, by the refinement: 202   *)
(* means a row and an event also while judge_service and result_service    *)
(* are at work on it, and no submission has a verdict that was not handed  *)
(* over for judging.                                                       *)
THEOREM SystemKeepsPromises == Spec => []Promised
  <1>1. LifecycleInv => Promised
    BY DEF LifecycleInv
  <1> QED BY <1>1, ImplementsLifecycle, LifecycleInvariance, PTL

(* And nothing is taken back: no step of any service, fault or restart     *)
(* removes a row or an event, puts a verdict back to Pending, or tells a   *)
(* client something else than before.                                      *)
THEOREM NothingIsTakenBack == Spec => [][Kept]_vars
  <1>1. LifecycleInv /\ [Lifecycle!Next]_Lifecycle!vars => [Kept]_vars
    BY LifecycleKeeps
  <1> QED BY <1>1, ImplementsLifecycle, LifecycleInvariance, PTL DEF Lifecycle!Safety

-----------------------------------------------------------------------------
(* The upload, POST /submissions from the form to the row: sequences of    *)
(* pieces                                                                  *)

\* A set of numbers has a least one.
LEMMA LeastNumber ==
  ASSUME NEW T \in SUBSET Nat, T # {}
  PROVE  \E m \in T : \A n \in T : m <= n
  <1> DEFINE Less == OpToRel(<, Nat)
  <1>1. PICK m \in T : \A n \in T : ~ (<<n, m>> \in Less)
    <2> HIDE DEF Less
    <2>1. IsWellFoundedOn(Less, Nat)
      BY NatLessThanWellFounded DEF Less
    <2> QED BY <2>1, WFMin
  <1>2. \A a, b \in Nat : a < b => <<a, b>> \in Less
    BY DEF OpToRel
  <1> HIDE DEF Less
  <1>3. ASSUME NEW n \in T PROVE m <= n
    <2>1. m \in Nat /\ n \in Nat /\ ~ (n < m)
      BY <1>1, <1>2
    <2> QED BY <2>1
  <1> QED BY <1>3

\* Induction over the positions of a sequence, for a set in place of a predicate.
LEMMA InductionUpTo ==
  ASSUME NEW m \in Nat, NEW T, 1 \in T,
         \A n \in 1 .. m - 1 : n \in T => n + 1 \in T
  PROVE  \A n \in 1 .. m : n \in T
  <1> DEFINE Missed == {n \in 1 .. m : n \notin T}
  <1>1. SUFFICES ASSUME Missed # {} PROVE FALSE
    OBVIOUS
  <1>2. Missed \in SUBSET Nat
    OBVIOUS
  <1>3. PICK n \in Missed : \A k \in Missed : n <= k
    BY <1>1, <1>2, LeastNumber
  <1>4. n # 1 /\ n - 1 \in 1 .. m - 1 /\ n - 1 \notin Missed
    BY <1>3
  <1>5. n - 1 \in T /\ (n - 1) + 1 = n
    BY <1>4
  <1> QED BY <1>3, <1>4, <1>5

\* FlattenSeq is the last of the concatenations of its prefixes, each made of
\* the one before and the next piece,
LEMMA FlattenSteps ==
  ASSUME NEW B, NEW s \in Seq(Seq(B)), s # <<>>
  PROVE  \E f \in [1 .. Len(s) -> Seq(B)] :
            /\ f[1] = s[1]
            /\ \A i \in 2 .. Len(s) : f[i] = f[i - 1] \o s[i]
            /\ FlattenSeq(s) = f[Len(s)]
  <1> DEFINE N == Len(s)
             Step(f, i) == IF i = 1 THEN s[i] ELSE f[i - 1] \o s[i]
             flatten == CHOOSE f : f = [i \in 1 .. N |-> Step(f, i)]
             Steps(f, n) == f \in [1 .. n -> Seq(B)] /\ \A i \in 1 .. n : f[i] = Step(f, i)
             T == {n \in 1 .. N : \E f : Steps(f, n)}
  <1>1. FlattenSeq(s) = flatten[N]
    BY DEF FlattenSeq
  <1>2. N \in Nat /\ N >= 1 /\ \A i \in 1 .. N : s[i] \in Seq(B)
    BY ElementOfSeq, EmptySeq
  <1> HIDE DEF N
  <1>3. 1 \in T
    <2> DEFINE f == [i \in 1 .. 1 |-> s[1]]
    <2>1. Steps(f, 1)
      BY <1>2
    <2>2. \E g : Steps(g, 1)
      BY <2>1
    <2> QED BY <1>2, <2>2
  <1>4. ASSUME NEW n \in 1 .. N - 1, n \in T PROVE n + 1 \in T
    <2>1. PICK f : Steps(f, n)
      BY <1>4
    <2> DEFINE g == [i \in 1 .. n + 1 |-> IF i = n + 1 THEN f[n] \o s[n + 1] ELSE f[i]]
    <2>2. /\ n \in Nat /\ n >= 1 /\ n + 1 \in 1 .. N
          /\ f[n] \in Seq(B) /\ s[n + 1] \in Seq(B)
      BY <1>2, <2>1
    <2>3. f[n] \o s[n + 1] \in Seq(B)
      BY <2>2, ConcatProperties
    <2>4. g \in [1 .. n + 1 -> Seq(B)]
      BY <2>1, <2>2, <2>3
    <2>5. ASSUME NEW i \in 1 .. n + 1 PROVE g[i] = Step(g, i)
      <3>1. CASE i = n + 1
        <4>1. n \in 1 .. n + 1 /\ n + 1 \in 1 .. n + 1 /\ n # n + 1 /\ i - 1 = n /\ i # 1
          BY <2>2, <3>1
        <4>2. g[n + 1] = f[n] \o s[n + 1] /\ g[n] = f[n]
          BY <4>1
        <4> QED BY <3>1, <4>1, <4>2
      <3>2. CASE i # n + 1
        <4>1. i \in 1 .. n /\ g[i] = f[i] /\ (i # 1 => g[i - 1] = f[i - 1])
          BY <2>2, <3>2
        <4>2. f[i] = Step(f, i)
          BY <2>1, <4>1
        <4> QED BY <4>1, <4>2
      <3> QED BY <3>1, <3>2
    <2>6. Steps(g, n + 1)
      BY <2>4, <2>5
    <2>7. \E h : Steps(h, n + 1)
      <3> HIDE DEF Steps, g
      <3> QED BY <2>6
    <2> QED BY <2>2, <2>7
  <1>5. N \in T
    <2> HIDE DEF T
    <2>1. \A n \in 1 .. N : n \in T
      BY <1>2, <1>3, <1>4, InductionUpTo
    <2> QED BY <1>2, <2>1
  <1>6. PICK f : Steps(f, N)
    BY <1>5
  <1>7. f = [i \in 1 .. N |-> Step(f, i)]
    BY <1>6
  <1>8. flatten = [i \in 1 .. N |-> Step(flatten, i)]
    BY <1>7
  <1> HIDE DEF flatten
  <1>9. \A i \in 1 .. N : flatten[i] = Step(flatten, i)
    BY <1>8
  <1>10. /\ flatten[1] = s[1]
         /\ \A i \in 2 .. N : flatten[i] = flatten[i - 1] \o s[i]
    <2>1. flatten[1] = s[1]
      BY <1>2, <1>9
    <2>2. ASSUME NEW i \in 2 .. N PROVE flatten[i] = flatten[i - 1] \o s[i]
      <3>1. i \in 1 .. N /\ i # 1
        BY <1>2
      <3> QED BY <1>9, <3>1
    <2> QED BY <2>1, <2>2
  <1> DEFINE Typed == {n \in 1 .. N : flatten[n] \in Seq(B)}
  <1>11. 1 \in Typed
    BY <1>2, <1>10
  <1>12. ASSUME NEW n \in 1 .. N - 1, n \in Typed PROVE n + 1 \in Typed
    <2>1. n + 1 \in 2 .. N /\ (n + 1) - 1 = n /\ flatten[n] \in Seq(B) /\ s[n + 1] \in Seq(B)
      BY <1>2, <1>12
    <2>2. flatten[n + 1] = flatten[n] \o s[n + 1]
      BY <1>10, <2>1
    <2>3. flatten[n] \o s[n + 1] \in Seq(B)
      BY <2>1, ConcatProperties
    <2>4. n + 1 \in 1 .. N
      BY <1>2, <2>1
    <2> QED BY <2>2, <2>3, <2>4
  <1>13. \A n \in 1 .. N : flatten[n] \in Seq(B)
    <2>1. \A n \in 1 .. N : n \in Typed
      <3> HIDE DEF Typed
      <3> QED BY <1>2, <1>11, <1>12, InductionUpTo
    <2> QED BY <2>1
  <1>14. flatten \in [1 .. N -> Seq(B)]
    BY <1>8, <1>13
  <1> QED BY <1>1, <1>10, <1>14 DEF N

\* and so is any function that takes these steps.
LEMMA FlattenIs ==
  ASSUME NEW B, NEW s \in Seq(Seq(B)), s # <<>>, NEW h,
         h[1] = s[1], \A i \in 2 .. Len(s) : h[i] = h[i - 1] \o s[i]
  PROVE  FlattenSeq(s) = h[Len(s)]
  <1>1. PICK f : /\ f[1] = s[1]
                 /\ \A i \in 2 .. Len(s) : f[i] = f[i - 1] \o s[i]
                 /\ FlattenSeq(s) = f[Len(s)]
    BY FlattenSteps
  <1>2. Len(s) \in Nat /\ Len(s) >= 1
    BY EmptySeq
  <1> DEFINE T == {n \in 1 .. Len(s) : f[n] = h[n]}
  <1>3. 1 \in T
    BY <1>1, <1>2
  <1>4. ASSUME NEW n \in 1 .. Len(s) - 1, n \in T PROVE n + 1 \in T
    <2>1. n + 1 \in 2 .. Len(s) /\ n + 1 \in 1 .. Len(s) /\ (n + 1) - 1 = n
      BY <1>2
    <2>2. f[n + 1] = f[n] \o s[n + 1] /\ h[n + 1] = h[n] \o s[n + 1] /\ f[n] = h[n]
      BY <1>1, <1>4, <2>1
    <2> QED BY <2>1, <2>2
  <1>5. \A n \in 1 .. Len(s) : n \in T
    <2> HIDE DEF T
    <2> QED BY <1>2, <1>3, <1>4, InductionUpTo
  <1> QED BY <1>1, <1>2, <1>5

\* Of no pieces.
LEMMA FlattenEmpty == FlattenSeq(<<>>) = <<>>
  BY DEF FlattenSeq

\* One more piece at the end.
LEMMA FlattenAppend ==
  ASSUME NEW B, NEW s \in Seq(Seq(B)), NEW e \in Seq(B)
  PROVE  /\ FlattenSeq(s) \in Seq(B)
         /\ FlattenSeq(Append(s, e)) = FlattenSeq(s) \o e
  <1> DEFINE a == Append(s, e)
  <1>1. /\ a \in Seq(Seq(B)) /\ a # <<>> /\ Len(a) = Len(s) + 1
        /\ \A i \in 1 .. Len(s) : a[i] = s[i]
        /\ a[Len(s) + 1] = e
        /\ Len(s) \in Nat
    BY AppendProperties, LenProperties
  <1> HIDE DEF a
  <1>2. CASE s = <<>>
    <2> DEFINE h == <<e>>
    <2>1. Len(a) = 1 /\ a[1] = e /\ h[1] = e
      BY <1>1, <1>2
    <2>2. FlattenSeq(a) = h[1]
      <3> HIDE DEF h
      <3>1. \A i \in 2 .. Len(a) : h[i] = h[i - 1] \o a[i]
        BY <2>1
      <3> QED BY <1>1, <2>1, <3>1, FlattenIs
    <2>3. <<>> \o e = e
      BY ConcatEmptySeq
    <2>4. FlattenSeq(s) = <<>> /\ <<>> \in Seq(B)
      BY <1>2, FlattenEmpty, EmptySeq
    <2>5. FlattenSeq(a) = e
      BY <2>1, <2>2
    <2> QED BY <2>3, <2>4, <2>5 DEF a
  <1>3. CASE s # <<>>
    <2>1. PICK f \in [1 .. Len(s) -> Seq(B)] :
                   /\ f[1] = s[1]
                   /\ \A i \in 2 .. Len(s) : f[i] = f[i - 1] \o s[i]
                   /\ FlattenSeq(s) = f[Len(s)]
      BY <1>3, FlattenSteps
    <2> DEFINE n == Len(s)
               h == [i \in 1 .. n + 1 |-> IF i = n + 1 THEN f[n] \o e ELSE f[i]]
    <2>2. n \in Nat /\ n >= 1
      BY <1>3, EmptySeq
    <2>3. h[1] = a[1] /\ h[n + 1] = f[n] \o e /\ \A i \in 1 .. n : h[i] = f[i]
      <3>1. 1 \in 1 .. n /\ n + 1 \in 1 .. n + 1 /\ \A i \in 1 .. n : i \in 1 .. n + 1 /\ i # n + 1
        BY <2>2
      <3>2. \A i \in 1 .. n : h[i] = f[i]
        BY <3>1
      <3>3. h[n + 1] = f[n] \o e
        BY <3>1
      <3> QED BY <1>1, <2>1, <3>1, <3>2, <3>3
    <2>4. ASSUME NEW i \in 2 .. Len(a) PROVE h[i] = h[i - 1] \o a[i]
      <3> HIDE DEF h
      <3>1. CASE i = n + 1
        <4>1. i - 1 = n /\ a[i] = e /\ n \in 1 .. n
          BY <1>1, <2>2, <3>1
        <4> QED BY <2>3, <3>1, <4>1
      <3>2. CASE i # n + 1
        <4>1. i \in 2 .. n /\ i \in 1 .. n /\ i - 1 \in 1 .. n
          BY <1>1, <2>2, <3>2
        <4> QED BY <1>1, <2>1, <2>3, <4>1
      <3> QED BY <3>1, <3>2
    <2>5. FlattenSeq(a) = h[n + 1]
      <3> HIDE DEF h
      <3>1. FlattenSeq(a) = h[Len(a)]
        BY <1>1, <2>3, <2>4, FlattenIs
      <3> QED BY <1>1, <3>1
    <2>6. n \in 1 .. n
      BY <2>2
    <2>7. f[n] \in Seq(B)
      BY <2>6
    <2> QED BY <2>1, <2>3, <2>5, <2>7 DEF a
  <1> QED BY <1>2, <1>3

\* Quantified, so that it can be cited for pieces of any name.
LEMMA Associative == \A B : \A u, v, w \in Seq(B) : (u \o v) \o w = u \o (v \o w)
  BY ConcatAssociative

\* One piece less at the front.
LEMMA FlattenTail ==
  \A B : \A s \in Seq(Seq(B)) :
      s # <<>> => FlattenSeq(s) = Head(s) \o FlattenSeq(Tail(s))
  <1> TAKE B
  <1>0. \A u, v, w \in Seq(B) : (u \o v) \o w = u \o (v \o w)
    BY Associative
  <1> SUFFICES ASSUME NEW s \in Seq(Seq(B)), s # <<>>
               PROVE  FlattenSeq(s) = Head(s) \o FlattenSeq(Tail(s))
    OBVIOUS
  <1> DEFINE t == Tail(s)
             n == Len(s)
  <1>1. /\ n \in Nat /\ n >= 1 /\ t \in Seq(Seq(B)) /\ Len(t) = n - 1
        /\ \A i \in 1 .. n - 1 : t[i] = s[i + 1]
        /\ Head(s) = s[1] /\ s[1] \in Seq(B) /\ \A i \in 1 .. n : s[i] \in Seq(B)
    <2>1. n \in Nat /\ n >= 1
      BY EmptySeq
    <2> QED BY <2>1, HeadTailProperties, ElementOfSeq
  <1> HIDE DEF n, t
  <1>2. CASE n = 1
    <2>1. t = <<>>
      BY <1>1, <1>2, EmptySeq
    <2> DEFINE h == s
    <2>2. FlattenSeq(s) = s[1]
      <3>1. \A i \in 2 .. Len(s) : s[i] = s[i - 1] \o s[i]
        BY <1>2 DEF n
      <3> QED BY <1>2, <3>1, FlattenIs DEF n
    <2>3. s[1] \o <<>> = s[1]
      BY <1>1, ConcatEmptySeq
    <2> QED BY <1>1, <2>1, <2>2, <2>3, FlattenEmpty DEF t
  <1>3. CASE n # 1
    <2>1. t # <<>>
      BY <1>1, <1>3, EmptySeq
    <2>2. PICK f \in [1 .. Len(t) -> Seq(B)] :
                   /\ f[1] = t[1]
                   /\ \A i \in 2 .. Len(t) : f[i] = f[i - 1] \o t[i]
                   /\ FlattenSeq(t) = f[Len(t)]
      BY <1>1, <2>1, FlattenSteps
    <2>7. /\ \A i \in 1 .. n - 1 : f[i] \in Seq(B)
          /\ \A i \in 2 .. n - 1 : f[i] = f[i - 1] \o t[i]
          /\ FlattenSeq(t) = f[n - 1]
      BY <1>1, <2>2
    <2> DEFINE h == [i \in 1 .. n |-> IF i = 1 THEN s[1] ELSE s[1] \o f[i - 1]]
    <2>3. h[1] = s[1] /\ \A i \in 2 .. n : h[i] = s[1] \o f[i - 1]
      <3>1. 1 \in 1 .. n /\ \A i \in 2 .. n : i \in 1 .. n /\ i # 1
        BY <1>1
      <3> QED BY <3>1
    <2>4. ASSUME NEW i \in 2 .. n PROVE h[i] = h[i - 1] \o s[i]
      <3> HIDE DEF h
      <3>1. CASE i = 2
        <4>1. f[1] = s[2]
          BY <1>1, <1>3, <2>2
        <4>2. i - 1 = 1 /\ h[i] = s[1] \o f[i - 1] /\ h[1] = s[1]
          <5>1. h[i] = s[1] \o f[i - 1] /\ h[1] = s[1]
            BY <2>3
          <5> QED BY <3>1, <5>1
        <4> QED BY <3>1, <4>1, <4>2
      <3>2. CASE i # 2
        <4>1. /\ i - 1 \in 2 .. n - 1 /\ i - 1 \in 2 .. n /\ i - 1 \in 1 .. n - 1
              /\ i - 2 \in 1 .. n - 1 /\ (i - 1) - 1 = i - 2 /\ (i - 1) + 1 = i /\ i \in 1 .. n
          BY <1>1, <3>2
        <4>2. f[i - 1] = f[i - 2] \o t[i - 1] /\ t[i - 1] = s[i]
          BY <1>1, <2>7, <4>1
        <4>3. h[i] = s[1] \o f[i - 1] /\ h[i - 1] = s[1] \o f[i - 2]
          BY <2>3, <4>1
        <4>4. s[1] \o (f[i - 2] \o s[i]) = (s[1] \o f[i - 2]) \o s[i]
          <5>1. f[i - 2] \in Seq(B) /\ s[i] \in Seq(B) /\ s[1] \in Seq(B)
            BY <1>1, <2>7, <4>1
          <5> QED BY <1>0, <5>1
        <4> QED BY <4>2, <4>3, <4>4
      <3> QED BY <3>1, <3>2
    <2>5. FlattenSeq(s) = h[n]
      <3> HIDE DEF h
      <3> QED BY <2>3, <2>4, FlattenIs DEF n
    <2>6. h[n] = s[1] \o f[n - 1]
      <3>1. n \in 2 .. n
        BY <1>1, <1>3
      <3> HIDE DEF h
      <3> QED BY <2>3, <3>1
    <2> QED BY <1>1, <2>7, <2>5, <2>6 DEF t
  <1> QED BY <1>2, <1>3
-----------------------------------------------------------------------------
(* The upload: what is on the wire *)

Bytes   == UNION {Range(f) : f \in Files}
Message == [kind : {"info", "chunk", "eof"}, data : Seq(Bytes)]

Data(messages) == [i \in DOMAIN messages |-> messages[i].data]
OnWire(id)     == FlattenSeq(Data(wire[id]))

LEMMA DataType ==
  ASSUME NEW w \in Seq(Message)
  PROVE  Data(w) \in Seq(Seq(Bytes)) /\ Len(Data(w)) = Len(w)
         /\ \A i \in 1 .. Len(w) : Data(w)[i] = w[i].data
  <1>1. /\ Len(w) \in Nat /\ DOMAIN w = 1 .. Len(w)
        /\ \A i \in 1 .. Len(w) : w[i] \in Message
    BY LenProperties, ElementOfSeq
  <1>2. Data(w) \in [1 .. Len(w) -> Seq(Bytes)]
    BY <1>1 DEF Data, Message
  <1>3. Data(w) \in Seq(Seq(Bytes)) /\ Len(Data(w)) = Len(w)
    BY <1>1, <1>2, SeqDef
  <1> QED BY <1>1, <1>3 DEF Data

\* A message that is sent puts its bytes behind those on the wire.
LEMMA WireAppend ==
  ASSUME NEW w \in Seq(Message), NEW m \in Message
  PROVE  /\ FlattenSeq(Data(w)) \in Seq(Bytes)
         /\ FlattenSeq(Data(Append(w, m))) = FlattenSeq(Data(w)) \o m.data
  <1>1. /\ Append(w, m) \in Seq(Message) /\ Len(Append(w, m)) = Len(w) + 1
        /\ \A i \in 1 .. Len(w) : Append(w, m)[i] = w[i]
        /\ Append(w, m)[Len(w) + 1] = m
        /\ Len(w) \in Nat
    BY AppendProperties, LenProperties
  <1>2. m.data \in Seq(Bytes)
    BY DEF Message
  <1> DEFINE d == Data(w)
             a == Data(Append(w, m))
             b == Append(d, m.data)
  <1>3. /\ d \in Seq(Seq(Bytes)) /\ Len(d) = Len(w) /\ \A i \in 1 .. Len(w) : d[i] = w[i].data
    BY DataType
  <1>4. /\ a \in Seq(Seq(Bytes)) /\ Len(a) = Len(w) + 1
        /\ \A i \in 1 .. Len(w) + 1 : a[i] = Append(w, m)[i].data
    BY <1>1, DataType
  <1>5. /\ b \in Seq(Seq(Bytes)) /\ Len(b) = Len(w) + 1
        /\ \A i \in 1 .. Len(w) : b[i] = d[i]
        /\ b[Len(w) + 1] = m.data
    <2> HIDE DEF d
    <2> QED BY <1>2, <1>3, AppendProperties
  <1> HIDE DEF a, b, d
  <1>6. \A i \in 1 .. Len(w) + 1 : a[i] = b[i]
    <2> TAKE i \in 1 .. Len(w) + 1
    <2>1. CASE i \in 1 .. Len(w)
      BY <1>1, <1>3, <1>4, <1>5, <2>1
    <2>2. CASE i = Len(w) + 1
      BY <1>1, <1>4, <1>5, <2>2
    <2> QED BY <1>1, <2>1, <2>2
  <1>7. a = b
    BY <1>1, <1>4, <1>5, <1>6, SeqEqual
  <1>8. FlattenSeq(d) \in Seq(Bytes) /\ FlattenSeq(b) = FlattenSeq(d) \o m.data
    BY <1>2, <1>3, FlattenAppend DEF b
  <1> QED BY <1>7, <1>8 DEF a, d

\* A message that is received takes its bytes from the front.
LEMMA WireTail ==
  ASSUME NEW w \in Seq(Message), w # <<>>
  PROVE  /\ FlattenSeq(Data(Tail(w))) \in Seq(Bytes) /\ Head(w).data \in Seq(Bytes)
         /\ FlattenSeq(Data(w)) = Head(w).data \o FlattenSeq(Data(Tail(w)))
  <1>1. /\ Head(w) \in Message /\ Head(w) = w[1] /\ Tail(w) \in Seq(Message)
        /\ Len(w) \in Nat /\ Len(w) >= 1
        /\ Len(Tail(w)) = Len(w) - 1
        /\ \A i \in 1 .. Len(w) - 1 : Tail(w)[i] = w[i + 1]
    <2>1. Len(w) \in Nat /\ Len(w) >= 1
      BY EmptySeq
    <2> QED BY <2>1, HeadTailProperties
  <1> DEFINE d == Data(w)
             t == Data(Tail(w))
  <1>2. /\ d \in Seq(Seq(Bytes)) /\ Len(d) = Len(w) /\ \A i \in 1 .. Len(w) : d[i] = w[i].data
    BY DataType
  <1>3. /\ t \in Seq(Seq(Bytes)) /\ Len(t) = Len(w) - 1
        /\ \A i \in 1 .. Len(w) - 1 : t[i] = Tail(w)[i].data
    BY <1>1, DataType
  <1> HIDE DEF d, t
  <1>4. d # <<>>
    BY <1>1, <1>2, EmptySeq
  <1>5. /\ Tail(d) \in Seq(Seq(Bytes)) /\ Len(Tail(d)) = Len(w) - 1
        /\ \A i \in 1 .. Len(w) - 1 : Tail(d)[i] = d[i + 1]
        /\ Head(d) = d[1]
    BY <1>2, <1>4, HeadTailProperties
  <1>6. \A i \in 1 .. Len(w) - 1 : Tail(d)[i] = t[i]
    BY <1>1, <1>2, <1>3, <1>5
  <1>7. Tail(d) = t
    BY <1>1, <1>3, <1>5, <1>6, SeqEqual
  <1>8. Head(d) = Head(w).data
    BY <1>1, <1>2, <1>5
  <1>9. FlattenSeq(d) = Head(d) \o FlattenSeq(Tail(d))
    BY <1>2, <1>4, FlattenTail
  <1>10. FlattenSeq(t) \in Seq(Bytes)
    <2>1. <<>> \in Seq(Bytes)
      BY EmptySeq
    <2> QED BY <1>3, <2>1, FlattenAppend
  <1>11. Head(w).data \in Seq(Bytes)
    BY <1>1 DEF Message
  <1> QED BY <1>7, <1>8, <1>9, <1>10, <1>11 DEF d, t
-----------------------------------------------------------------------------
(* The upload: what the gateway reads *)

LEMMA BehindType ==
  ASSUME NEW f \in Seq(Bytes), NEW o \in Nat, o <= Len(f)
  PROVE  /\ SubSeq(f, o + 1, Len(f)) \in Seq(Bytes)
         /\ Len(SubSeq(f, o + 1, Len(f))) = Len(f) - o
         /\ Len(f) \in Nat
  <1>1. Len(f) \in Nat /\ \A i \in o + 1 .. Len(f) : f[i] \in Bytes
    BY ElementOfSeq, LenProperties
  <1>2. o + 1 \in Int /\ Len(f) \in Int
    BY <1>1
  <1> QED BY <1>1, <1>2, SubSeqProperties

LEMMA RestType ==
  ASSUME NEW id \in Ids, file[id] \in Seq(Bytes), offset[id] \in Nat, offset[id] <= Len(file[id])
  PROVE  /\ Rest(id) \in Seq(Bytes)
         /\ Len(Rest(id)) = Len(file[id]) - offset[id]
         /\ Len(file[id]) \in Nat
  BY BehindType DEF Rest

\* Bytes o + 1 to o + m of a file, and what is behind them.
LEMMA SplitAt ==
  ASSUME NEW f \in Seq(Bytes), NEW o \in Nat, NEW m \in Nat \ {0}, o + m <= Len(f)
  PROVE  /\ SubSeq(SubSeq(f, o + 1, Len(f)), 1, m) = SubSeq(f, o + 1, o + m)
         /\ SubSeq(f, o + 1, o + m) \in Seq(Bytes)
         /\ Len(SubSeq(f, o + 1, o + m)) = m
         /\ SubSeq(f, o + 1, Len(f)) = SubSeq(f, o + 1, o + m) \o SubSeq(f, o + m + 1, Len(f))
  <1>1. Len(f) \in Nat /\ \A i \in o + 1 .. o + m : f[i] \in Bytes
    BY ElementOfSeq, LenProperties
  <1>2. /\ o + 1 \in Int /\ o + m \in Int /\ o + 1 <= o + m /\ (o + m) - (o + 1) + 1 = m
        /\ o + 1 \in 1 .. Len(f) /\ Len(f) \in 1 .. Len(f)
        /\ 1 \in 1 .. Len(f) - (o + 1) + 1 /\ m \in 1 .. Len(f) - (o + 1) + 1
        /\ (o + 1) + 1 - 1 = o + 1 /\ (o + 1) + m - 1 = o + m
    BY <1>1
  <1>3. SubSeq(f, o + 1, o + m) \in Seq(Bytes) /\ Len(SubSeq(f, o + 1, o + m)) = m
    BY <1>1, <1>2, SubSeqProperties
  <1>4. SubSeq(SubSeq(f, o + 1, Len(f)), 1, m) = SubSeq(f, (o + 1) + 1 - 1, (o + 1) + m - 1)
    BY <1>2, SubSeqOfSubSeq
  <1>5. /\ o + 1 \in 1 .. Len(f) + 1 /\ o + m \in (o + 1) - 1 .. Len(f)
        /\ Len(f) \in o + m .. Len(f)
    BY <1>1
  <1>6. SubSeq(f, o + 1, Len(f)) = SubSeq(f, o + 1, o + m) \o SubSeq(f, o + m + 1, Len(f))
    BY <1>5, ConcatAdjacentSubSeq
  <1> QED BY <1>2, <1>3, <1>4, <1>6

LEMMA LeastOfTwo ==
  ASSUME NEW a \in Nat \ {0}, NEW b \in Nat \ {0}
  PROVE  Min({a, b}) \in Nat \ {0} /\ Min({a, b}) <= b
  <1>1. \E x \in {a, b} : \A y \in {a, b} : x <= y
    OBVIOUS
  <1>2. Min({a, b}) \in {a, b} /\ \A y \in {a, b} : Min({a, b}) <= y
    BY <1>1 DEF Min
  <1> QED BY <1>2

Reading(id) == file[id] \in Seq(Bytes) /\ offset[id] \in Nat /\ offset[id] <= Len(file[id])

\* A chunk is the next bytes, at most a buffer of them; what is left is behind it.
LEMMA ReadTakes ==
  ASSUME NEW id \in Ids, Reading(id), Rest(id) # <<>>
  PROVE  /\ Read(id) \in Seq(Bytes) /\ Len(Read(id)) \in Nat
         /\ offset[id] + Len(Read(id)) <= Len(file[id])
         /\ Rest(id) = Read(id) \o
                SubSeq(file[id], offset[id] + Len(Read(id)) + 1, Len(file[id]))
  <1> DEFINE m == Min({ChunkSize, Len(Rest(id))})
  <1>1. Rest(id) \in Seq(Bytes) /\ Len(Rest(id)) = Len(file[id]) - offset[id]
        /\ Len(file[id]) \in Nat
    BY RestType DEF Reading
  <1>2. Len(Rest(id)) \in Nat \ {0} /\ ChunkSize \in Nat \ {0}
    BY <1>1, EmptySeq, UploadConstants
  <1>3. m \in Nat \ {0} /\ m <= Len(Rest(id))
    BY <1>2, LeastOfTwo
  <1> HIDE DEF m
  <1> DEFINE f == file[id]
             o == offset[id]
             chunk == SubSeq(f, o + 1, o + m)
             rest == SubSeq(f, o + 1, Len(f))
  <1>4. f \in Seq(Bytes) /\ o \in Nat /\ o + m <= Len(f)
    BY <1>1, <1>3 DEF Reading
  <1>5. Rest(id) = rest /\ Read(id) = SubSeq(Rest(id), 1, m)
    BY DEF Rest, Read, m
  <1> HIDE DEF f, o
  <1>6. SubSeq(rest, 1, m) = chunk /\ chunk \in Seq(Bytes) /\ Len(chunk) = m
    BY <1>3, <1>4, SplitAt
  <1>7. rest = chunk \o SubSeq(f, o + m + 1, Len(f))
    BY <1>3, <1>4, SplitAt
  <1> HIDE DEF chunk, rest
  <1>8. Read(id) = chunk /\ Len(Read(id)) = m
    BY <1>5, <1>6
  <1>9. /\ Read(id) \in Seq(Bytes) /\ Len(Read(id)) \in Nat
        /\ o + Len(Read(id)) <= Len(f)
        /\ Rest(id) = Read(id) \o SubSeq(f, o + Len(Read(id)) + 1, Len(f))
    BY <1>3, <1>4, <1>5, <1>6, <1>7, <1>8
  <1> QED BY <1>9 DEF f, o
-----------------------------------------------------------------------------
(* The upload: what the three parties have *)

UploadTypes ==
    /\ gw \in [Ids -> GatewayStates]
    /\ file \in [Ids -> Files \cup {<<>>}]
    /\ offset \in [Ids -> Nat]
    /\ wire \in [Ids -> Seq(Message)]
    /\ link \in [Ids -> {"none", "up", "down"}]
    /\ srv \in [Ids -> ServerStates]
    /\ code \in [Ids -> Seq(Bytes)]
    /\ answer \in [Ids -> {0, 202, 400, 500}]
    /\ why \in [Ids -> Causes]
    /\ \A id \in Ids : Reading(id)

\* Where the gateway, the stream and the service are in one request.
Where(id) ==
    /\ gw[id] \in {"idle", "open"} => link[id] = "none"
    /\ link[id] = "none" =>
          /\ gw[id] \in {"idle", "open", "answered"} /\ srv[id] = "none"
          /\ wire[id] = <<>> /\ code[id] = <<>> /\ offset[id] = 0
    /\ srv[id] # "received" => calls[id] = "none"
    /\ why[id] # "none" => calls[id] \in {"abandoned", "rejected"}
    /\ answer[id] = 202 => calls[id] = "accepted"

\* Only chunks carry bytes, and nothing is sent behind the end of the stream.
Framed(id) ==
    \A i \in DOMAIN wire[id] :
        /\ wire[id][i].kind # "chunk" => wire[id][i].data = <<>>
        /\ wire[id][i].kind = "eof" =>
              i = Len(wire[id]) /\ gw[id] \in {"wait", "answered"}

Ended(id) == \E i \in DOMAIN wire[id] : wire[id][i].kind = "eof"

\* While the stream is up no byte is lost; the end of the stream vouches for
\* all of the file even when it is not; and the service goes on with all of it.
Whole(id) ==
    /\ link[id] = "up" => file[id] = (code[id] \o OnWire(id)) \o Rest(id)
    /\ Ended(id) => file[id] = code[id] \o OnWire(id)
    /\ calls[id] = "insert" \/ rows[id] # "none" => code[id] = file[id]

UploadInv ==
    UploadTypes /\ StoredFirst /\ \A id \in Ids : Where(id) /\ Framed(id) /\ Whole(id)

LEMMA FilesAreBytes ==
  Files \cup {<<>>} \subseteq Seq(Bytes)
  <1>1. ASSUME NEW f \in Files PROVE f \in Seq(Bytes)
    <2>1. f \in Seq(Range(f)) /\ Range(f) \subseteq Bytes
      BY UploadConstants DEF Bytes
    <2> QED BY <2>1, SeqMonotonic
  <1>2. <<>> \in Seq(Bytes)
    BY EmptySeq
  <1> QED BY <1>1, <1>2

LEMMA Messages ==
  /\ Info \in Message /\ EndOfStream \in Message
  /\ Info.data = <<>> /\ EndOfStream.data = <<>>
  /\ Info.kind = "info" /\ EndOfStream.kind = "eof"
  /\ \A s \in Seq(Bytes) : ChunkOf(s) \in Message /\ ChunkOf(s).data = s
                           /\ ChunkOf(s).kind = "chunk"
  <1>1. <<>> \in Seq(Bytes)
    BY EmptySeq
  <1> QED BY <1>1 DEF Info, EndOfStream, ChunkOf, Message

LEMMA SendType ==
  ASSUME UploadTypes, NEW id \in Ids, NEW m \in Message, Send(id, m)
  PROVE  /\ wire' \in [Ids -> Seq(Message)]
         /\ \A x \in Ids : x # id => wire'[x] = wire[x]
         /\ wire'[id] = IF link[id] = "up" THEN Append(wire[id], m) ELSE wire[id]
  <1>1. Append(wire[id], m) \in Seq(Message)
    BY AppendProperties DEF UploadTypes
  <1> QED BY <1>1 DEF UploadTypes, Send

LEMMA ReceiveType ==
  ASSUME UploadTypes, NEW id \in Ids, NEW kind, Receives(id, kind)
  PROVE  /\ wire' \in [Ids -> Seq(Message)]
         /\ \A x \in Ids : x # id => wire'[x] = wire[x]
         /\ wire'[id] = Tail(wire[id]) /\ wire[id] # <<>>
         /\ Head(wire[id]) \in Message /\ Head(wire[id]).kind = kind
  <1>1. wire[id] # <<>> /\ wire[id] \in Seq(Message)
    BY DEF UploadTypes, Receives
  <1>2. Tail(wire[id]) \in Seq(Message) /\ Head(wire[id]) \in Message
    BY <1>1, HeadTailProperties
  <1> QED BY <1>1, <1>2 DEF UploadTypes, Receives

\* Of a request nothing changes.
Same(id) ==
    /\ gw'[id] = gw[id] /\ file'[id] = file[id] /\ offset'[id] = offset[id]
    /\ wire'[id] = wire[id] /\ link'[id] = link[id] /\ srv'[id] = srv[id]
    /\ code'[id] = code[id] /\ answer'[id] = answer[id] /\ why'[id] = why[id]
    /\ calls'[id] = calls[id] /\ rows'[id] = rows[id]

\* The steps the gateway and the service take for one request.
Sending(id) ==
    \/ Post(id) \/ PostRefused(id) \/ OpenStream(id) \/ OpenStreamFailed(id)
    \/ SendInfo(id) \/ SendChunk(id) \/ CloseSend(id)
Answering(id) ==
    \/ SendFailed(id) \/ Accepted(id) \/ Refused(id) \/ ClientGone(id)
Receiving(id) ==
    ReceiveInfo(id) \/ ReceiveChunk(id) \/ ReceiveEnd(id) \/ ReceiveFailed(id)
Storing(id) ==
    \/ InsertRow(id) \/ InsertRefused(id) \/ InsertFailed(id)
    \/ Publish(id) \/ PublishTooLong(id) \/ PublishCancelled(id) \/ LateWrite(id)

LEMMA UploadSteps ==
  ASSUME UploadNext
  PROVE  \/ \E id \in Ids : Sending(id) \/ Answering(id) \/ Receiving(id) \/ Storing(id)
         \/ Crash
         \/ UNCHANGED uploadVars
  <1>1. CASE Quiet
    BY <1>1 DEF Quiet
  <1> QED
    BY <1>1 DEF UploadNext, GatewayStep, ReceiveStep, StoreStep,
                Sending, Answering, Receiving, Storing

LEMMA UploadStart ==
  ASSUME UploadInit
  PROVE  UploadInv
  <1> USE DEF UploadInit
  <1>1. StoredFirst
    BY SubmissionStart DEF S!Init, S!SubmissionInit, S!SubmissionInit
  <1>2. <<>> \in Seq(Bytes) /\ <<>> \in Seq(Message) /\ Len(<<>>) = 0
    BY EmptySeq
  <1>3. UploadTypes
    BY <1>2 DEF UploadTypes, Reading, GatewayStates, ServerStates, Causes
  <1>4. ASSUME NEW id \in Ids PROVE Where(id) /\ Framed(id) /\ Whole(id)
    <2>1. calls[id] = "none" /\ rows[id] = "none"
      BY DEF S!Init, S!SubmissionInit
    <2>2. Where(id)
      BY <2>1 DEF Where
    <2>3. wire[id] = <<>> /\ DOMAIN wire[id] = {} /\ link[id] = "none"
      BY <1>2
    <2> QED BY <2>1, <2>2, <2>3 DEF Framed, Whole, Ended
  <1> QED BY <1>1, <1>3, <1>4 DEF UploadInv

LEMMA TypesSending ==
  ASSUME UploadTypes, NEW id \in Ids, Where(id), Sending(id)
  PROVE  UploadTypes' /\ \A x \in Ids : x # id => Same(x)
  <1> USE DEF GatewayStates, ServerStates, Goto, Respond, streamVars,
              serverVars, callVars, Same
  <1>1. CASE Post(id)
    <2>1. PICK f \in Files : file' = [file EXCEPT ![id] = f]
      BY <1>1 DEF Post
    <2>2. gw[id] = "idle" /\ offset[id] = 0 /\ f \in Seq(Bytes) /\ Len(f) \in Nat
      BY <1>1, FilesAreBytes, LenProperties DEF Post, Where
    <2> QED BY <1>1, <2>1, <2>2 DEF Post, UploadTypes, Reading
  <1>2. CASE PostRefused(id)
    BY <1>2 DEF PostRefused, UploadTypes, Reading
  <1>3. CASE OpenStream(id)
    BY <1>3 DEF OpenStream, UploadTypes, Reading
  <1>4. CASE OpenStreamFailed(id)
    BY <1>4 DEF OpenStreamFailed, UploadTypes, Reading
  <1>5. CASE SendInfo(id)
    BY <1>5, Messages, SendType DEF SendInfo, UploadTypes, Reading
  <1>6. CASE SendChunk(id)
    <2>1. /\ Read(id) \in Seq(Bytes) /\ Len(Read(id)) \in Nat
          /\ offset[id] + Len(Read(id)) <= Len(file[id])
      BY <1>6, ReadTakes DEF SendChunk, UploadTypes
    <2>2. ChunkOf(Chunk(id)) \in Message
      BY <2>1, Messages DEF Chunk
    <2>3. /\ wire' \in [Ids -> Seq(Message)]
          /\ \A x \in Ids : x # id => wire'[x] = wire[x]
      BY <1>6, <2>2, SendType DEF SendChunk
    <2>4. /\ offset' = [offset EXCEPT ![id] = @ + Len(Read(id))]
          /\ UNCHANGED <<gw, file, answer, link, srv, code, why, calls, rows>>
      BY <1>6 DEF SendChunk
    <2> HIDE DEF Read
    <2>5. offset' \in [Ids -> Nat] /\ \A x \in Ids : Reading(x)'
      BY <2>1, <2>4 DEF UploadTypes, Reading
    <2> QED BY <2>3, <2>4, <2>5 DEF UploadTypes
  <1>7. CASE CloseSend(id)
    BY <1>7, Messages, SendType DEF CloseSend, UploadTypes, Reading
  <1> QED BY <1>1, <1>2, <1>3, <1>4, <1>5, <1>6, <1>7 DEF Sending

LEMMA TypesAnswering ==
  ASSUME UploadTypes, NEW id \in Ids, Answering(id)
  PROVE  UploadTypes' /\ \A x \in Ids : x # id => Same(x)
  <1>1. CASE ClientGone(id)
    BY <1>1 DEF ClientGone, UploadTypes, Reading, Same, gatewayVars, serverVars, callVars
  <1>2. CASE SendFailed(id) \/ Accepted(id) \/ Refused(id)
    <2>1. /\ gw' = [gw EXCEPT ![id] = "answered"]
          /\ \E status \in {202, 500} : answer' = [answer EXCEPT ![id] = status]
          /\ UNCHANGED <<file, offset, wire, link, srv, code, why, calls, rows>>
      BY <1>2 DEF SendFailed, Accepted, Refused, Goto, Respond,
                  streamVars, serverVars, callVars
    <2>2. gw' \in [Ids -> GatewayStates] /\ answer' \in [Ids -> {0, 202, 400, 500}]
      BY <2>1 DEF UploadTypes, GatewayStates
    <2>3. \A x \in Ids : Reading(x)'
      BY <2>1 DEF UploadTypes, Reading
    <2> QED BY <2>1, <2>2, <2>3 DEF UploadTypes, Same
  <1> QED BY <1>1, <1>2 DEF Answering

LEMMA TypesReceiving ==
  ASSUME UploadTypes, StoredFirst, NEW id \in Ids, Receiving(id)
  PROVE  UploadTypes' /\ \A x \in Ids : x # id => Same(x)
  <1> USE DEF ServerStates, Causes, gatewayVars, streamVars, callVars, Same
  <1>1. CASE ReceiveInfo(id)
    BY <1>1, ReceiveType DEF ReceiveInfo, UploadTypes, Reading
  <1>2. CASE ReceiveChunk(id)
    <2>1. /\ wire' \in [Ids -> Seq(Message)]
          /\ \A x \in Ids : x # id => wire'[x] = wire[x]
          /\ Head(wire[id]).data \in Seq(Bytes)
      BY <1>2, ReceiveType DEF ReceiveChunk, Message
    <2>2. code[id] \o Head(wire[id]).data \in Seq(Bytes)
      BY <2>1, ConcatProperties DEF UploadTypes
    <2>3. code' = [code EXCEPT ![id] = code[id] \o Head(wire[id]).data]
      BY <1>2 DEF ReceiveChunk
    <2>4. code' \in [Ids -> Seq(Bytes)] /\ \A x \in Ids : x # id => code'[x] = code[x]
      BY <2>2, <2>3 DEF UploadTypes
    <2>5. UNCHANGED <<gw, file, offset, link, srv, answer, why, calls, rows>>
      BY <1>2 DEF ReceiveChunk
    <2>6. \A x \in Ids : Reading(x)'
      BY <2>5 DEF UploadTypes, Reading
    <2> QED BY <2>1, <2>4, <2>5, <2>6 DEF UploadTypes
  <1>3. CASE ReceiveEnd(id)
    BY <1>3, ReceiveType DEF ReceiveEnd, UploadTypes, Reading, S!Receive, S!Goto, StoredFirst
  <1>4. CASE ReceiveFailed(id)
    BY <1>4 DEF ReceiveFailed, UploadTypes, Reading, StoredFirst
  <1> QED BY <1>1, <1>2, <1>3, <1>4 DEF Receiving

LEMMA TypesStoring ==
  ASSUME UploadTypes, StoredFirst, NEW id \in Ids, Storing(id)
  PROVE  UploadTypes' /\ \A x \in Ids : x # id => Same(x)
  <1>1. /\ UNCHANGED <<gw, file, offset, answer, wire, link, srv, code>>
        /\ why' = why \/ \E c \in Causes : why' = [why EXCEPT ![id] = c]
    BY DEF Storing, InsertRow, InsertRefused, InsertFailed, Publish, PublishTooLong,
           PublishCancelled, LateWrite, Unchanged, gatewayVars, streamVars, Causes
  <1>2. rows' = rows \/ rows' = [rows EXCEPT ![id] = "Pending"]
    BY DEF Storing, InsertRow, InsertRefused, InsertFailed, Publish, PublishTooLong,
           PublishCancelled, LateWrite, S!InsertRow, S!InsertFailed, S!PublishEvent,
           S!PublishRetried, S!PublishFailed, S!LateWrite
  <1>3. \E c : calls' = [calls EXCEPT ![id] = c]
    BY DEF Storing, InsertRow, InsertRefused, InsertFailed, Publish, PublishTooLong,
           PublishCancelled, LateWrite, S!InsertRow, S!InsertFailed, S!PublishEvent,
           S!PublishRetried, S!PublishFailed, S!LateWrite, S!Goto
  <1>4. UploadTypes'
    <2>1. why' \in [Ids -> Causes]
      <3>1. why \in [Ids -> Causes]
        BY DEF UploadTypes
      <3>2. CASE \E c \in Causes : why' = [why EXCEPT ![id] = c]
        BY <3>1, <3>2
      <3>3. CASE why' = why
        BY <3>1, <3>3
      <3> QED BY <1>1, <3>2, <3>3
    <2>2. \A x \in Ids : Reading(x)'
      BY <1>1 DEF UploadTypes, Reading
    <2> QED BY <1>1, <2>1, <2>2 DEF UploadTypes
  <1>5. \A x \in Ids : x # id => calls'[x] = calls[x] /\ rows'[x] = rows[x] /\ why'[x] = why[x]
    BY <1>1, <1>2, <1>3 DEF UploadTypes, StoredFirst
  <1> QED BY <1>1, <1>4, <1>5 DEF Same

LEMMA TypesCrash ==
  ASSUME UploadTypes, Crash
  PROVE  UploadTypes'
  <1>1. /\ <<>> \in Seq(Message)
        /\ wire' = [id \in Ids |-> <<>>]
        /\ link' = [id \in Ids |-> IF link[id] = "up" THEN "down" ELSE link[id]]
        /\ UNCHANGED <<gw, file, offset, answer, srv, code, why>>
    BY EmptySeq DEF Crash, gatewayVars, serverVars
  <1> QED BY <1>1 DEF UploadTypes, Reading

LEMMA StoredStep ==
  ASSUME StoredFirst, \A id \in Ids : Where(id), [UploadNext]_uploadVars
  PROVE  StoredFirst'
  <1>1. CASE Crash
    <2>1. S!SubmissionNext
      BY <1>1 DEF Crash, S!SubmissionNext
    <2> QED BY <2>1, SubmissionStep
  <1>2. ASSUME NEW id \in Ids, Receiving(id) PROVE StoredFirst'
    <2>1. CASE ReceiveInfo(id) \/ ReceiveChunk(id)
      BY <2>1, QuietStep DEF ReceiveInfo, ReceiveChunk, callVars, StoredFirst
    <2>2. CASE ReceiveEnd(id)
      <3>1. S!SubmissionNext
        BY <2>2 DEF ReceiveEnd, S!SubmissionNext
      <3> QED BY <3>1, SubmissionStep
    <2>3. CASE ReceiveFailed(id)
      <3>1. srv[id] # "received"
        BY <2>3 DEF ReceiveFailed
      <3>2. calls[id] = "none"
        BY <3>1 DEF Where
      <3>3. /\ calls' = [calls EXCEPT ![id] = "rejected"]
            /\ UNCHANGED <<rows, submissions>>
        BY <2>3 DEF ReceiveFailed
      <3> QED BY <3>2, <3>3, QuietStep DEF StoredFirst, S!CallStates
    <2> QED BY <1>2, <2>1, <2>2, <2>3 DEF Receiving
  <1>3. ASSUME NEW id \in Ids, Storing(id) PROVE StoredFirst'
    <2>1. CASE InsertRow(id) \/ InsertFailed(id) \/ Publish(id) \/ LateWrite(id)
      <3>1. S!SubmissionNext
        BY <2>1 DEF InsertRow, InsertFailed, Publish, LateWrite,
                                  S!SubmissionNext, S!SubmissionStep
      <3> QED BY <3>1, SubmissionStep
    <2>2. CASE InsertRefused(id)
      BY <2>2, QuietStep DEF InsertRefused, StoredFirst, S!CallStates
    <2>3. CASE PublishTooLong(id)
      BY <2>3, QuietStep DEF PublishTooLong, StoredFirst, S!CallStates
    <2>4. CASE PublishCancelled(id)
      BY <2>4, QuietStep DEF PublishCancelled, StoredFirst, S!CallStates
    <2> QED BY <1>3, <2>1, <2>2, <2>3, <2>4 DEF Storing
  <1>4. CASE UNCHANGED <<calls, rows, submissions>>
    BY <1>4, QuietStep DEF StoredFirst
  <1>5. ASSUME NEW id \in Ids, Sending(id) \/ Answering(id)
        PROVE  UNCHANGED <<calls, rows, submissions>>
    BY <1>5 DEF Sending, Answering, Post, PostRefused, OpenStream, OpenStreamFailed,
                SendInfo, SendChunk, CloseSend, SendFailed, Accepted, Refused,
                ClientGone, callVars
  <1>6. CASE UNCHANGED uploadVars
    BY <1>4, <1>6 DEF uploadVars, callVars
  <1> QED BY <1>1, <1>2, <1>3, <1>4, <1>5, <1>6, UploadSteps

\* The other requests.
LEMMA SameStays ==
  ASSUME NEW id \in Ids, Same(id), Where(id), Framed(id), Whole(id)
  PROVE  Where(id)' /\ Framed(id)' /\ Whole(id)'
  <1> USE DEF Same
  <1>1. Where(id)'
    BY DEF Where
  <1>2. Framed(id)' /\ (Ended(id)' <=> Ended(id))
    BY DEF Framed, Ended
  <1>3. OnWire(id)' = OnWire(id) /\ Rest(id)' = Rest(id)
    BY DEF OnWire, Rest
  <1> QED BY <1>1, <1>2, <1>3 DEF Whole

LEMMA WhereSending ==
  ASSUME UploadTypes, NEW id \in Ids, Where(id), Sending(id)
  PROVE  Where(id)'
  <1> USE DEF Goto, Respond, streamVars, serverVars, callVars, Where, UploadTypes
  <1>1. CASE Post(id)
    BY <1>1 DEF Post
  <1>2. CASE PostRefused(id)
    BY <1>2 DEF PostRefused
  <1>3. CASE OpenStream(id)
    BY <1>3 DEF OpenStream
  <1>4. CASE OpenStreamFailed(id)
    BY <1>4 DEF OpenStreamFailed
  <1>5. CASE SendInfo(id)
    BY <1>5 DEF SendInfo
  <1>6. CASE SendChunk(id)
    BY <1>6 DEF SendChunk
  <1>7. CASE CloseSend(id)
    BY <1>7 DEF CloseSend
  <1> QED BY <1>1, <1>2, <1>3, <1>4, <1>5, <1>6, <1>7 DEF Sending

LEMMA WhereAnswering ==
  ASSUME UploadTypes, NEW id \in Ids, Where(id), Answering(id)
  PROVE  Where(id)'
  <1> USE DEF Goto, Respond, gatewayVars, streamVars, serverVars, callVars,
              Where, UploadTypes
  <1>1. CASE SendFailed(id)
    BY <1>1 DEF SendFailed
  <1>2. CASE Accepted(id)
    BY <1>2 DEF Accepted
  <1>3. CASE Refused(id)
    BY <1>3 DEF Refused
  <1>4. CASE ClientGone(id)
    BY <1>4 DEF ClientGone
  <1> QED BY <1>1, <1>2, <1>3, <1>4 DEF Answering

LEMMA WhereReceiving ==
  ASSUME UploadTypes, StoredFirst, NEW id \in Ids, Where(id), Receiving(id)
  PROVE  Where(id)'
  <1> USE DEF gatewayVars, streamVars, callVars, Where, UploadTypes
  <1>0. link[id] # "none"
    BY DEF Receiving, ReceiveInfo, ReceiveChunk, ReceiveEnd, ReceiveFailed
  <1>1. CASE ReceiveInfo(id)
    BY <1>0, <1>1 DEF ReceiveInfo
  <1>2. CASE ReceiveChunk(id)
    BY <1>0, <1>2 DEF ReceiveChunk
  <1>3. CASE ReceiveEnd(id)
    BY <1>0, <1>3 DEF ReceiveEnd, S!Receive, S!Goto
  <1>4. CASE ReceiveFailed(id)
    BY <1>0, <1>4 DEF ReceiveFailed, StoredFirst
  <1> QED BY <1>1, <1>2, <1>3, <1>4 DEF Receiving

LEMMA WhereStoring ==
  ASSUME UploadTypes, StoredFirst, NEW id \in Ids, Where(id), Storing(id)
  PROVE  Where(id)'
  <1> DEFINE Moves(from, to) == calls[id] = from /\ calls'[id] \in to
  <1>1. /\ UNCHANGED <<gw, file, offset, answer, wire, link, srv, code>>
        /\ \/ UNCHANGED why /\ Moves("insert", {"publish", "rejected"})
           \/ UNCHANGED why /\ Moves("publish", {"accepted", "rejected"})
           \/ UNCHANGED why /\ Moves("abandoned", {"rejected"})
           \/ Moves("insert", {"rejected"}) \/ Moves("publish", {"rejected", "abandoned"})
    <2> USE DEF Unchanged, gatewayVars, streamVars, StoredFirst
    <2>1. CASE InsertRow(id) \/ InsertFailed(id)
      BY <2>1 DEF InsertRow, InsertFailed, S!InsertRow, S!InsertFailed, S!Goto
    <2>2. CASE Publish(id) \/ LateWrite(id)
      BY <2>2 DEF Publish, LateWrite, S!PublishEvent, S!PublishRetried, S!PublishFailed,
                  S!LateWrite, S!Goto
    <2>3. CASE InsertRefused(id) \/ PublishTooLong(id) \/ PublishCancelled(id)
      BY <2>3 DEF InsertRefused, PublishTooLong, PublishCancelled
    <2> QED BY <2>1, <2>2, <2>3 DEF Storing
  <1> QED BY <1>1 DEF Where

LEMMA WhereCrash ==
  ASSUME UploadTypes, StoredFirst, NEW id \in Ids, Where(id), Crash
  PROVE  Where(id)'
  BY DEF Crash, S!Crash, gatewayVars, serverVars, Where, UploadTypes, StoredFirst

\* Where a message that is sent ends up.
LEMMA Sent ==
  ASSUME UploadTypes, NEW id \in Ids, NEW m \in Message, Send(id, m)
  PROVE  \/ wire'[id] = wire[id]
         \/ /\ link[id] = "up" /\ wire'[id] = Append(wire[id], m)
            /\ Len(wire[id]) \in Nat /\ Len(wire'[id]) = Len(wire[id]) + 1
            /\ DOMAIN wire[id] = 1 .. Len(wire[id])
            /\ DOMAIN wire'[id] = 1 .. Len(wire[id]) + 1
            /\ \A i \in DOMAIN wire[id] : wire'[id][i] = wire[id][i]
            /\ wire'[id][Len(wire[id]) + 1] = m
  <1> DEFINE w == wire[id]
             a == Append(w, m)
  <1>1. /\ Len(w) \in Nat /\ DOMAIN w = 1 .. Len(w)
        /\ a \in Seq(Message) /\ Len(a) = Len(w) + 1 /\ DOMAIN a = 1 .. Len(a)
        /\ \A i \in 1 .. Len(w) : a[i] = w[i]
        /\ a[Len(w) + 1] = m
    <2>1. w \in Seq(Message)
      BY DEF UploadTypes
    <2> HIDE DEF w
    <2> QED BY <2>1, AppendProperties, LenProperties
  <1>2. wire'[id] = IF link[id] = "up" THEN a ELSE w
    BY SendType
  <1> HIDE DEF a
  <1> QED BY <1>1, <1>2 DEF a

\* What a message that is received leaves.
LEMMA Received ==
  ASSUME UploadTypes, NEW id \in Ids, NEW kind, Receives(id, kind)
  PROVE  /\ Len(wire[id]) \in Nat \ {0} /\ DOMAIN wire[id] = 1 .. Len(wire[id])
         /\ Len(wire'[id]) = Len(wire[id]) - 1 /\ DOMAIN wire'[id] = 1 .. Len(wire[id]) - 1
         /\ \A i \in DOMAIN wire'[id] : wire'[id][i] = wire[id][i + 1]
         /\ Head(wire[id]) = wire[id][1] /\ wire[id][1].kind = kind
  <1> DEFINE w == wire[id]
             t == Tail(w)
  <1>1. w \in Seq(Message) /\ w # <<>> /\ wire'[id] = t /\ Head(w).kind = kind
    BY ReceiveType DEF UploadTypes
  <1> HIDE DEF w
  <1>2. /\ Len(w) \in Nat \ {0} /\ DOMAIN w = 1 .. Len(w)
        /\ t \in Seq(Message) /\ Len(t) = Len(w) - 1 /\ DOMAIN t = 1 .. Len(t)
        /\ \A i \in 1 .. Len(w) - 1 : t[i] = w[i + 1]
        /\ Head(w) = w[1]
    <2>1. Len(w) \in Nat /\ Len(w) >= 1 /\ DOMAIN w = 1 .. Len(w)
      BY <1>1, EmptySeq, LenProperties
    <2>2. t \in Seq(Message) /\ Len(t) = Len(w) - 1 /\ \A i \in 1 .. Len(w) - 1 : t[i] = w[i + 1]
      BY <1>1, <2>1, HeadTailProperties
    <2>3. DOMAIN t = 1 .. Len(t)
      BY <2>2, LenProperties
    <2> QED BY <1>1, <2>1, <2>2, <2>3
  <1> HIDE DEF t
  <1>3. /\ Len(w) \in Nat \ {0} /\ DOMAIN w = 1 .. Len(w)
        /\ Len(wire'[id]) = Len(w) - 1 /\ DOMAIN wire'[id] = 1 .. Len(w) - 1
        /\ \A i \in DOMAIN wire'[id] : wire'[id][i] = w[i + 1]
        /\ Head(w) = w[1] /\ w[1].kind = kind
    BY <1>1, <1>2
  <1> QED BY <1>3 DEF w

LEMMA FramedSending ==
  ASSUME UploadTypes, NEW id \in Ids, Framed(id), Sending(id)
  PROVE  Framed(id)'
  <1>1. gw[id] \in {"idle", "open", "info", "chunks"}
    BY DEF Sending, Post, PostRefused, OpenStream, OpenStreamFailed, SendInfo,
           SendChunk, CloseSend
  <1>2. \A i \in DOMAIN wire[id] :
           wire[id][i].kind # "eof" /\ (wire[id][i].kind # "chunk" => wire[id][i].data = <<>>)
    BY <1>1 DEF Framed
  <1>3. CASE wire'[id] = wire[id]
    BY <1>2, <1>3 DEF Framed
  <1>4. ASSUME NEW m \in Message, Send(id, m), m.kind # "chunk" => m.data = <<>>,
               m.kind = "eof" => gw'[id] = "wait"
        PROVE  Framed(id)'
    <2>1. CASE wire'[id] # wire[id]
      <3>1. /\ Len(wire[id]) \in Nat /\ Len(wire'[id]) = Len(wire[id]) + 1
            /\ DOMAIN wire[id] = 1 .. Len(wire[id])
            /\ DOMAIN wire'[id] = 1 .. Len(wire[id]) + 1
            /\ \A i \in DOMAIN wire[id] : wire'[id][i] = wire[id][i]
            /\ wire'[id][Len(wire[id]) + 1] = m
        BY <1>4, <2>1, Sent
      <3>2. ASSUME NEW i \in DOMAIN wire'[id]
            PROVE  /\ wire'[id][i].kind # "chunk" => wire'[id][i].data = <<>>
                   /\ wire'[id][i].kind = "eof" =>
                         i = Len(wire'[id]) /\ gw'[id] \in {"wait", "answered"}
        <4>1. CASE i \in DOMAIN wire[id]
          BY <1>2, <3>1, <4>1
        <4>2. CASE i = Len(wire[id]) + 1
          BY <1>4, <3>1, <4>2
        <4> QED BY <3>1, <4>1, <4>2
      <3> QED BY <3>2 DEF Framed
    <2> QED BY <1>3, <2>1
  <1>5. CASE SendInfo(id)
    BY <1>4, <1>5, Messages DEF SendInfo
  <1>6. CASE SendChunk(id)
    <2>1. Read(id) \in Seq(Bytes)
      BY <1>6, ReadTakes DEF SendChunk, UploadTypes
    <2>2. Send(id, ChunkOf(Read(id)))
      BY <1>6 DEF SendChunk, Chunk
    <2> QED BY <1>4, <2>1, <2>2, Messages
  <1>7. CASE CloseSend(id)
    <2>1. gw'[id] = "wait" /\ Send(id, EndOfStream)
      BY <1>7 DEF CloseSend, Goto, UploadTypes
    <2> QED BY <1>4, <2>1, Messages
  <1>8. CASE Post(id) \/ PostRefused(id) \/ OpenStream(id) \/ OpenStreamFailed(id)
    <2>1. wire' = wire
      BY <1>8 DEF Post, PostRefused, OpenStream, OpenStreamFailed, streamVars
    <2> QED BY <1>3, <2>1
  <1> QED BY <1>5, <1>6, <1>7, <1>8 DEF Sending

LEMMA FramedReceiving ==
  ASSUME UploadTypes, NEW id \in Ids, Framed(id), Receiving(id)
  PROVE  Framed(id)'
  <1>1. gw' = gw
    BY DEF Receiving, ReceiveInfo, ReceiveChunk, ReceiveEnd, ReceiveFailed, gatewayVars
  <1>2. CASE wire' = wire
    BY <1>1, <1>2 DEF Framed
  <1>3. ASSUME NEW kind, Receives(id, kind) PROVE Framed(id)'
    <2>1. /\ Len(wire[id]) \in Nat \ {0} /\ DOMAIN wire[id] = 1 .. Len(wire[id])
          /\ Len(wire'[id]) = Len(wire[id]) - 1 /\ DOMAIN wire'[id] = 1 .. Len(wire[id]) - 1
          /\ \A i \in DOMAIN wire'[id] : wire'[id][i] = wire[id][i + 1]
      BY <1>3, Received
    <2>2. ASSUME NEW i \in DOMAIN wire'[id]
          PROVE  /\ wire'[id][i].kind # "chunk" => wire'[id][i].data = <<>>
                 /\ wire'[id][i].kind = "eof" =>
                       i = Len(wire'[id]) /\ gw'[id] \in {"wait", "answered"}
      <3>1. i + 1 \in DOMAIN wire[id] /\ wire'[id][i] = wire[id][i + 1]
            /\ (i + 1 = Len(wire[id]) => i = Len(wire'[id]))
        BY <2>1
      <3> QED BY <1>1, <3>1 DEF Framed
    <2> QED BY <2>2 DEF Framed
  <1>4. wire' = wire \/ \E kind : Receives(id, kind)
    BY DEF Receiving, ReceiveInfo, ReceiveChunk, ReceiveEnd, ReceiveFailed, streamVars
  <1> QED BY <1>2, <1>3, <1>4

LEMMA FramedAnswering ==
  ASSUME UploadTypes, NEW id \in Ids, Framed(id), Answering(id) \/ Storing(id)
  PROVE  Framed(id)'
  <1>1. wire' = wire /\ (gw' = gw \/ gw'[id] = "answered")
    <2>1. CASE Answering(id)
      BY <2>1 DEF Answering, SendFailed, Accepted, Refused, ClientGone, streamVars,
                  gatewayVars, Respond, Goto, UploadTypes
    <2>2. CASE Storing(id)
      BY <2>2 DEF Storing, InsertRow, InsertRefused, InsertFailed, Publish,
                  PublishTooLong, PublishCancelled, LateWrite, Unchanged,
                  streamVars, gatewayVars
    <2> QED BY <2>1, <2>2
  <1> QED BY <1>1 DEF Framed

\* Where the brackets of three or four pieces may be moved to.
LEMMA RegroupSent ==
  \A c, w, d, r \in Seq(Bytes) : (c \o w) \o (d \o r) = (c \o (w \o d)) \o r
  <1> DEFINE Texts == Seq(Bytes)
             cat(x, y) == x \o y
  <1>1. \A x, y, z \in Texts : cat(cat(x, y), z) = cat(x, cat(y, z))
    BY Associative
  <1>2. \A x, y \in Texts : cat(x, y) \in Texts
    BY ConcatProperties
  <1>3. SUFFICES \A c, w, d, r \in Texts : cat(cat(c, w), cat(d, r)) = cat(cat(c, cat(w, d)), r)
    OBVIOUS
  <1> HIDE DEF Texts, cat
  <1> QED BY <1>1, <1>2

LEMMA RegroupReceived ==
  \A c, d, w, r \in Seq(Bytes) :
     /\ (c \o (d \o w)) \o r = ((c \o d) \o w) \o r
     /\ c \o (d \o w) = (c \o d) \o w
  <1> DEFINE Texts == Seq(Bytes)
             cat(x, y) == x \o y
  <1>1. \A x, y, z \in Texts : cat(cat(x, y), z) = cat(x, cat(y, z))
    BY Associative
  <1>2. SUFFICES \A c, d, w, r \in Texts :
            /\ cat(cat(c, cat(d, w)), r) = cat(cat(cat(c, d), w), r)
            /\ cat(c, cat(d, w)) = cat(cat(c, d), w)
    OBVIOUS
  <1> HIDE DEF Texts, cat
  <1> QED BY <1>1

\* The bytes stay where they are.
LEMMA WholeStays ==
  ASSUME NEW id \in Ids, Whole(id),
         file'[id] = file[id], offset'[id] = offset[id], wire'[id] = wire[id], code'[id] = code[id],
         link'[id] = "up" => link[id] = "up",
         calls'[id] = "insert" => calls[id] = "insert",
         rows'[id] # "none" => rows[id] # "none" \/ calls[id] = "insert"
  PROVE  Whole(id)'
  <1>1. OnWire(id)' = OnWire(id) /\ Rest(id)' = Rest(id) /\ (Ended(id)' <=> Ended(id))
    BY DEF OnWire, Rest, Ended
  <1> QED BY <1>1 DEF Whole

LEMMA WholeAnswering ==
  ASSUME UploadTypes, NEW id \in Ids, Whole(id), Answering(id)
  PROVE  Whole(id)'
  <1>1. /\ UNCHANGED <<file, offset, wire, code, calls, rows>>
        /\ link'[id] = "up" => link[id] = "up"
    BY DEF Answering, SendFailed, Accepted, Refused, ClientGone, Respond,
           gatewayVars, streamVars, serverVars, callVars, UploadTypes
  <1> QED BY <1>1, WholeStays

LEMMA WholeStoring ==
  ASSUME StoredFirst, NEW id \in Ids, Whole(id), Storing(id)
  PROVE  Whole(id)'
  <1>1. UNCHANGED <<file, offset, wire, code, link>>
    BY DEF Storing, InsertRow, InsertRefused, InsertFailed, Publish, PublishTooLong,
           PublishCancelled, LateWrite, Unchanged, streamVars, gatewayVars
  <1>2. calls'[id] # "insert"
    BY DEF Storing, InsertRow, InsertRefused, InsertFailed, Publish, PublishTooLong,
           PublishCancelled, LateWrite, S!InsertRow, S!InsertFailed, S!PublishEvent,
           S!PublishRetried, S!PublishFailed, S!LateWrite, S!Goto, StoredFirst
  <1>3. rows' = rows \/ calls[id] = "insert"
    BY DEF Storing, InsertRow, InsertRefused, InsertFailed, Publish, PublishTooLong,
           PublishCancelled, LateWrite, S!InsertRow, S!InsertFailed, S!PublishEvent,
           S!PublishRetried, S!PublishFailed, S!LateWrite
  <1> QED BY <1>1, <1>2, <1>3, WholeStays

LEMMA WholeCrash ==
  ASSUME UploadTypes, StoredFirst, NEW id \in Ids, Whole(id), Crash
  PROVE  Whole(id)'
  <1>1. /\ UNCHANGED <<file, code, rows>> /\ wire'[id] = <<>> /\ link'[id] # "up"
        /\ calls'[id] # "insert"
    BY DEF Crash, S!Crash, gatewayVars, serverVars, UploadTypes, StoredFirst
  <1>2. ~ Ended(id)'
    BY <1>1 DEF Ended
  <1> QED BY <1>1, <1>2 DEF Whole

LEMMA WholeReceiving ==
  ASSUME UploadTypes, StoredFirst, NEW id \in Ids,
         Where(id), Framed(id), Whole(id), Receiving(id)
  PROVE  Whole(id)'
  <1>0. calls[id] = "none" /\ rows[id] = "none" /\ UNCHANGED <<file, offset, link, rows>>
    <2>1. srv[id] # "received"
      BY DEF Receiving, ReceiveInfo, ReceiveChunk, ReceiveEnd, ReceiveFailed
    <2>2. UNCHANGED <<file, offset, link, rows>>
      BY DEF Receiving, ReceiveInfo, ReceiveChunk, ReceiveEnd, ReceiveFailed,
             S!Receive, gatewayVars, streamVars, callVars
    <2> QED BY <2>1, <2>2 DEF Where, StoredFirst
  <1>1. CASE ReceiveFailed(id)
    <2>1. UNCHANGED <<wire, code>> /\ calls'[id] = "rejected"
      BY <1>1 DEF ReceiveFailed, streamVars, StoredFirst
    <2> QED BY <1>0, <2>1, WholeStays
  <1>2. ASSUME NEW kind, Receives(id, kind)
        PROVE  /\ OnWire(id)' \in Seq(Bytes) /\ Head(wire[id]).data \in Seq(Bytes)
               /\ OnWire(id) = Head(wire[id]).data \o OnWire(id)'
               /\ kind # "chunk" => OnWire(id) = OnWire(id)'
               /\ Ended(id)' => Ended(id)
    <2>1. wire[id] \in Seq(Message) /\ wire[id] # <<>> /\ wire'[id] = Tail(wire[id])
      BY <1>2, ReceiveType DEF UploadTypes
    <2>2. OnWire(id)' = FlattenSeq(Data(Tail(wire[id])))
      BY <2>1 DEF OnWire
    <2>3. /\ OnWire(id)' \in Seq(Bytes) /\ Head(wire[id]).data \in Seq(Bytes)
          /\ OnWire(id) = Head(wire[id]).data \o OnWire(id)'
      BY <2>1, <2>2, WireTail DEF OnWire
    <2>4. /\ 1 \in DOMAIN wire[id] /\ Head(wire[id]) = wire[id][1] /\ wire[id][1].kind = kind
          /\ \A i \in DOMAIN wire'[id] :
                i + 1 \in DOMAIN wire[id] /\ wire'[id][i] = wire[id][i + 1]
      BY <1>2, Received
    <2>5. ASSUME kind # "chunk" PROVE OnWire(id) = OnWire(id)'
      <3>1. Head(wire[id]).data = <<>>
        BY <2>4, <2>5 DEF Framed
      <3>2. \A s \in Seq(Bytes) : <<>> \o s = s
        BY ConcatEmptySeq
      <3> QED BY <2>3, <3>1, <3>2
    <2>6. Ended(id)' => Ended(id)
      BY <2>4 DEF Ended
    <2> QED BY <2>3, <2>5, <2>6
  <1>3. CASE ReceiveInfo(id)
    <2>1. /\ OnWire(id) = OnWire(id)' /\ (Ended(id)' => Ended(id)) /\ UNCHANGED code
          /\ calls' = calls
      BY <1>2, <1>3 DEF ReceiveInfo, callVars
    <2>2. Rest(id)' = Rest(id)
      BY <1>0 DEF Rest
    <2> QED BY <1>0, <2>1, <2>2 DEF Whole
  <1>4. CASE ReceiveChunk(id)
    <2> DEFINE c == code[id]
               d == Head(wire[id]).data
               w == OnWire(id)'
               r == Rest(id)
    <2>1. /\ w \in Seq(Bytes) /\ d \in Seq(Bytes) /\ OnWire(id) = d \o w
          /\ (Ended(id)' => Ended(id))
      BY <1>2, <1>4 DEF ReceiveChunk
    <2>2. code'[id] = c \o d /\ calls' = calls
      BY <1>4 DEF ReceiveChunk, callVars, UploadTypes
    <2>3. Rest(id)' = r /\ r \in Seq(Bytes) /\ c \in Seq(Bytes)
      BY <1>0, RestType DEF Rest, UploadTypes, Reading
    <2>4. /\ link[id] = "up" => file[id] = (c \o OnWire(id)) \o r
          /\ Ended(id) => file[id] = c \o OnWire(id)
      BY DEF Whole
    <2> HIDE DEF c, d, w, r
    <2>5. (c \o (d \o w)) \o r = ((c \o d) \o w) \o r /\ c \o (d \o w) = (c \o d) \o w
      <3> DEFINE Texts == Seq(Bytes)
                 cat(x, y) == x \o y
      <3>1. c \in Texts /\ d \in Texts /\ w \in Texts /\ r \in Texts
        BY <2>1, <2>3
      <3>2. \A C, D, W, Q \in Texts : /\ cat(cat(C, cat(D, W)), Q) = cat(cat(cat(C, D), W), Q)
                                  /\ cat(C, cat(D, W)) = cat(cat(C, D), W)
        BY RegroupReceived
      <3>3. SUFFICES /\ cat(cat(c, cat(d, w)), r) = cat(cat(cat(c, d), w), r)
                     /\ cat(c, cat(d, w)) = cat(cat(c, d), w)
        OBVIOUS
      <3> HIDE DEF Texts, cat
      <3> QED BY <3>1, <3>2
    <2>6. /\ link[id] = "up" => file[id] = ((c \o d) \o w) \o r
          /\ Ended(id)' => file[id] = (c \o d) \o w
      BY <2>1, <2>4, <2>5
    <2> QED BY <1>0, <2>2, <2>3, <2>6 DEF Whole, w
  <1>5. CASE ReceiveEnd(id)
    <2>1. /\ Receives(id, "eof") /\ OnWire(id) = OnWire(id)' /\ UNCHANGED code
      BY <1>2, <1>5 DEF ReceiveEnd
    <2>2. /\ Len(wire[id]) \in Nat \ {0} /\ DOMAIN wire[id] = 1 .. Len(wire[id])
          /\ DOMAIN wire'[id] = 1 .. Len(wire[id]) - 1 /\ Len(wire'[id]) = Len(wire[id]) - 1
          /\ wire[id][1].kind = "eof"
      BY <2>1, Received
    <2>3. Ended(id) /\ Len(wire[id]) = 1
      <3>1. 1 \in DOMAIN wire[id]
        BY <2>2
      <3>2. 1 = Len(wire[id])
        BY <2>2, <3>1 DEF Framed
      <3> QED BY <2>2, <3>1, <3>2 DEF Ended
    <2>4. ~ Ended(id)'
      BY <2>2, <2>3 DEF Ended
    <2>5. wire'[id] = <<>>
      <3>1. wire'[id] \in Seq(Message)
        BY <2>1, ReceiveType
      <3> QED BY <2>2, <2>3, <3>1, EmptySeq
    <2>6. OnWire(id)' = <<>>
      <3>1. Data(<<>>) = <<>>
        <4>1. <<>> \in Seq(Message) /\ Len(<<>>) = 0
          BY EmptySeq
        <4>2. Data(<<>>) \in Seq(Seq(Bytes)) /\ Len(Data(<<>>)) = 0
          BY <4>1, DataType
        <4> QED BY <4>2, EmptySeq
      <3>2. OnWire(id)' = FlattenSeq(Data(<<>>))
        BY <2>5 DEF OnWire
      <3> QED BY <3>1, <3>2, FlattenEmpty
    <2>7. file[id] = code[id]
      <3>1. file[id] = code[id] \o OnWire(id)
        BY <2>3 DEF Whole
      <3>2. \A s \in Seq(Bytes) : s \o <<>> = s
        BY ConcatEmptySeq
      <3>3. code[id] \in Seq(Bytes)
        BY DEF UploadTypes
      <3> QED BY <2>1, <2>6, <3>1, <3>2, <3>3
    <2>8. Rest(id)' = Rest(id)
      BY <1>0 DEF Rest
    <2>9. link'[id] = "up" => file'[id] = (code'[id] \o OnWire(id)') \o Rest(id)'
      BY <1>0, <2>1, <2>8 DEF Whole
    <2>10. code'[id] = file'[id]
      BY <1>0, <2>1, <2>7
    <2> QED BY <2>4, <2>9, <2>10 DEF Whole
  <1> QED BY <1>1, <1>3, <1>4, <1>5 DEF Receiving

LEMMA WholeSending ==
  ASSUME UploadTypes, StoredFirst, NEW id \in Ids,
         Where(id), Framed(id), Whole(id), Sending(id)
  PROVE  Whole(id)'
  <1>0. UNCHANGED <<code, calls, rows>>
    BY DEF Sending, Post, PostRefused, OpenStream, OpenStreamFailed, SendInfo,
           SendChunk, CloseSend, serverVars, callVars
  <1>1. CASE Post(id)
    <2>1. UNCHANGED <<wire, link>> /\ gw[id] = "idle"
      BY <1>1 DEF Post, streamVars
    <2>2. link[id] = "none" /\ wire[id] = <<>> /\ calls[id] = "none" /\ rows[id] = "none"
      BY <2>1 DEF Where, StoredFirst
    <2> QED BY <1>0, <2>1, <2>2 DEF Whole, Ended
  <1>2. CASE PostRefused(id) \/ OpenStreamFailed(id)
    <2>1. UNCHANGED <<file, offset, wire, link>>
      BY <1>2 DEF PostRefused, OpenStreamFailed, Respond, streamVars
    <2> QED BY <1>0, <2>1, WholeStays
  <1>3. CASE OpenStream(id)
    <2>1. UNCHANGED <<file, offset, wire>> /\ gw[id] = "open"
      BY <1>3 DEF OpenStream
    <2>2. wire[id] = <<>> /\ code[id] = <<>> /\ offset[id] = 0 /\ calls[id] = "none"
          /\ rows[id] = "none"
      BY <2>1 DEF Where, StoredFirst
    <2>3. OnWire(id)' = <<>>
      <3>1. <<>> \in Seq(Message) /\ Len(<<>>) = 0
        BY EmptySeq
      <3>2. Data(<<>>) \in Seq(Seq(Bytes)) /\ Len(Data(<<>>)) = 0
        BY <3>1, DataType
      <3>3. Data(<<>>) = <<>>
        BY <3>2, EmptySeq
      <3>4. OnWire(id)' = FlattenSeq(Data(<<>>))
        BY <2>1, <2>2 DEF OnWire
      <3> QED BY <3>3, <3>4, FlattenEmpty
    <2>4. Rest(id)' = file[id]
      <3>1. Rest(id)' = SubSeq(file[id], 1, Len(file[id]))
        BY <2>1, <2>2 DEF Rest
      <3>2. file[id] \in Seq(Bytes)
        BY DEF UploadTypes, Reading
      <3> DEFINE f == file[id]
      <3>3. f \in Seq(Bytes) /\ Len(f) \in Nat
        BY <3>2, LenProperties
      <3> HIDE DEF f
      <3>4. SubSeq(f, 1, Len(f)) = f
        BY <3>3, SubSeqFull
      <3> QED BY <3>1, <3>4 DEF f
    <2>5. (<<>> \o <<>>) \o file[id] = file[id]
      <3>1. \A s \in Seq(Bytes) : <<>> \o s = s
        BY ConcatEmptySeq
      <3>2. <<>> \in Seq(Bytes) /\ file[id] \in Seq(Bytes)
        BY EmptySeq DEF UploadTypes, Reading
      <3> QED BY <3>1, <3>2
    <2>6. ~ Ended(id)'
      BY <2>1, <2>2 DEF Ended
    <2> QED BY <1>0, <2>1, <2>2, <2>3, <2>4, <2>5, <2>6 DEF Whole
  <1>4. gw[id] \in {"info", "chunks"} => ~ Ended(id)
    BY DEF Framed, Ended
  <1>5. ASSUME NEW m \in Message, Send(id, m), wire'[id] # wire[id]
        PROVE  /\ link[id] = "up" /\ OnWire(id) \in Seq(Bytes)
               /\ OnWire(id)' = OnWire(id) \o m.data
               /\ (Ended(id)' => Ended(id) \/ m.kind = "eof")
    <2>1. wire[id] \in Seq(Message) /\ wire'[id] = Append(wire[id], m) /\ link[id] = "up"
      BY <1>5, Sent DEF UploadTypes
    <2>2. OnWire(id)' = FlattenSeq(Data(Append(wire[id], m)))
      BY <2>1 DEF OnWire
    <2>3. OnWire(id) \in Seq(Bytes) /\ OnWire(id)' = OnWire(id) \o m.data
      BY <2>1, <2>2, WireAppend DEF OnWire
    <2>4. /\ DOMAIN wire[id] = 1 .. Len(wire[id]) /\ Len(wire[id]) \in Nat
          /\ DOMAIN wire'[id] = 1 .. Len(wire[id]) + 1
          /\ \A i \in DOMAIN wire[id] : wire'[id][i] = wire[id][i]
          /\ wire'[id][Len(wire[id]) + 1] = m
      BY <1>5, Sent
    <2>5. ASSUME Ended(id)', ~ Ended(id) PROVE m.kind = "eof"
      <3>1. PICK i \in DOMAIN wire'[id] : wire'[id][i].kind = "eof"
        BY <2>5 DEF Ended
      <3>2. i \notin DOMAIN wire[id]
        BY <2>4, <2>5, <3>1 DEF Ended
      <3>3. i = Len(wire[id]) + 1
        BY <2>4, <3>1, <3>2
      <3> QED BY <2>4, <3>1, <3>3
    <2> QED BY <2>1, <2>3, <2>5
  <1>6. ASSUME NEW m \in Message, Send(id, m), wire'[id] # wire[id], m.data = <<>>
        PROVE  OnWire(id)' = OnWire(id)
    <2>1. \A s \in Seq(Bytes) : s \o <<>> = s
      BY ConcatEmptySeq
    <2> QED BY <1>5, <1>6, <2>1
  <1>7. CASE SendInfo(id)
    <2>1. UNCHANGED <<file, offset, link>> /\ gw[id] = "info" /\ Send(id, Info)
      BY <1>7 DEF SendInfo
    <2>2. CASE wire'[id] = wire[id]
      BY <1>0, <2>1, <2>2, WholeStays
    <2>3. CASE wire'[id] # wire[id]
      <3>1. OnWire(id)' = OnWire(id) /\ ~ Ended(id)'
        BY <1>4, <1>5, <1>6, <2>1, <2>3, Messages
      <3>2. Rest(id)' = Rest(id)
        BY <2>1 DEF Rest
      <3> QED BY <1>0, <2>1, <3>1, <3>2 DEF Whole
    <2> QED BY <2>2, <2>3
  <1>8. CASE CloseSend(id)
    <2>1. UNCHANGED <<file, offset, link>> /\ Send(id, EndOfStream) /\ Rest(id) = <<>>
      BY <1>8 DEF CloseSend
    <2>2. CASE wire'[id] = wire[id]
      BY <1>0, <2>1, <2>2, WholeStays
    <2>3. CASE wire'[id] # wire[id]
      <3>1. OnWire(id)' = OnWire(id) /\ link[id] = "up" /\ OnWire(id) \in Seq(Bytes)
        BY <1>5, <1>6, <2>1, <2>3, Messages
      <3>2. Rest(id)' = Rest(id)
        BY <2>1 DEF Rest
      <3>3. file[id] = (code[id] \o OnWire(id)) \o <<>>
        BY <2>1, <3>1 DEF Whole
      <3>4. file[id] = code[id] \o OnWire(id)
        <4>1. \A s \in Seq(Bytes) : s \o <<>> = s
          BY ConcatEmptySeq
        <4>2. code[id] \o OnWire(id) \in Seq(Bytes)
          BY <3>1, ConcatProperties DEF UploadTypes
        <4> QED BY <3>3, <4>1, <4>2
      <3> QED BY <1>0, <2>1, <3>1, <3>2, <3>3, <3>4 DEF Whole
    <2> QED BY <2>2, <2>3
  <1>9. CASE SendChunk(id)
    <2> DEFINE d == Read(id)
    <2>1. /\ UNCHANGED <<file, link>> /\ gw[id] = "chunks" /\ Send(id, ChunkOf(d))
          /\ offset'[id] = offset[id] + Len(d) /\ Rest(id) # <<>>
      BY <1>9 DEF SendChunk, Chunk, UploadTypes
    <2>2. /\ d \in Seq(Bytes)
          /\ Rest(id) = d \o SubSeq(file[id], offset[id] + Len(d) + 1, Len(file[id]))
      BY <2>1, ReadTakes DEF UploadTypes
    <2>3. Rest(id)' = SubSeq(file[id], offset[id] + Len(d) + 1, Len(file[id]))
      BY <2>1 DEF Rest
    <2>4. ChunkOf(d) \in Message /\ ChunkOf(d).data = d /\ ChunkOf(d).kind = "chunk"
      BY <2>2, Messages
    <2>5. ~ Ended(id)
      BY <1>4, <2>1
    <2> HIDE DEF d
    <2>6. CASE wire'[id] = wire[id]
      <3>1. link[id] # "up"
        <4>1. Append(wire[id], ChunkOf(d)) # wire[id]
          BY <2>4, AppendProperties, LenProperties DEF UploadTypes
        <4> QED BY <2>1, <2>4, <2>6, <4>1, SendType
      <3>2. ~ Ended(id)'
        BY <2>5, <2>6 DEF Ended
      <3> QED BY <1>0, <2>1, <3>1, <3>2 DEF Whole
    <2>7. CASE wire'[id] # wire[id]
      <3> DEFINE c == code[id]
                 w == OnWire(id)
                 r == Rest(id)'
      <3>1. link[id] = "up" /\ w \in Seq(Bytes) /\ OnWire(id)' = w \o d /\ ~ Ended(id)'
        BY <1>5, <2>1, <2>4, <2>5, <2>7
      <3>2. file[id] = (c \o w) \o (d \o r)
        BY <2>2, <2>3, <3>1 DEF Whole
      <3>3. r \in Seq(Bytes) /\ c \in Seq(Bytes)
        <4> DEFINE f == file[id]
                   o == offset[id] + Len(d)
        <4>1. f \in Seq(Bytes) /\ o \in Nat /\ o <= Len(f)
          BY <2>1, ReadTakes DEF UploadTypes, Reading, d
        <4>2. r = SubSeq(f, o + 1, Len(f)) /\ c \in Seq(Bytes)
          BY <2>3 DEF UploadTypes
        <4> HIDE DEF f, o, r, c
        <4> QED BY <4>1, <4>2, BehindType
      <3> HIDE DEF c, w, r
      <3>4. (c \o w) \o (d \o r) = (c \o (w \o d)) \o r
        <4> DEFINE Texts == Seq(Bytes)
                   cat(x, y) == x \o y
        <4>1. c \in Texts /\ d \in Texts /\ w \in Texts /\ r \in Texts
          BY <2>2, <3>1, <3>3
        <4>2. \A C, W, D, Q \in Texts : cat(cat(C, W), cat(D, Q)) = cat(cat(C, cat(W, D)), Q)
          BY RegroupSent
        <4>3. SUFFICES cat(cat(c, w), cat(d, r)) = cat(cat(c, cat(w, d)), r)
          OBVIOUS
        <4> HIDE DEF Texts, cat
        <4> QED BY <4>1, <4>2
      <3>5. file'[id] = (code'[id] \o OnWire(id)') \o Rest(id)'
        BY <1>0, <2>1, <3>1, <3>2, <3>4 DEF c, r
      <3> QED BY <1>0, <2>1, <3>1, <3>5 DEF Whole
    <2> QED BY <2>6, <2>7
  <1> QED BY <1>1, <1>2, <1>3, <1>7, <1>8, <1>9 DEF Sending

LEMMA UploadStep ==
  ASSUME UploadInv, [UploadNext]_uploadVars
  PROVE  UploadInv'
  <1>1. UploadTypes /\ StoredFirst /\ \A id \in Ids : Where(id) /\ Framed(id) /\ Whole(id)
    BY DEF UploadInv
  <1>2. StoredFirst'
    BY <1>1, StoredStep
  <1>3. ASSUME NEW id \in Ids, Sending(id) \/ Answering(id) \/ Receiving(id) \/ Storing(id)
        PROVE  UploadInv'
    <2>1. UploadTypes' /\ \A x \in Ids : x # id => Same(x)
      BY <1>1, <1>3, TypesSending, TypesAnswering, TypesReceiving, TypesStoring
    <2>2. Where(id)'
      BY <1>1, <1>3, WhereSending, WhereAnswering, WhereReceiving, WhereStoring
    <2>3. Framed(id)'
      BY <1>1, <1>3, FramedSending, FramedReceiving, FramedAnswering
    <2>4. Whole(id)'
      BY <1>1, <1>3, WholeSending, WholeAnswering, WholeReceiving, WholeStoring
    <2>5. ASSUME NEW x \in Ids PROVE Where(x)' /\ Framed(x)' /\ Whole(x)'
      <3>1. CASE x = id
        BY <2>2, <2>3, <2>4, <3>1
      <3>2. CASE x # id
        BY <1>1, <2>1, <3>2, SameStays
      <3> QED BY <3>1, <3>2
    <2> QED BY <1>2, <2>1, <2>5 DEF UploadInv
  <1>4. CASE Crash
    <2>1. UploadTypes'
      BY <1>1, <1>4, TypesCrash
    <2>2. ASSUME NEW id \in Ids PROVE Where(id)' /\ Framed(id)' /\ Whole(id)'
      <3>1. Where(id)' /\ Whole(id)'
        BY <1>1, <1>4, WhereCrash, WholeCrash
      <3>2. wire'[id] = <<>> /\ DOMAIN <<>> = {}
        BY <1>4 DEF Crash
      <3> QED BY <3>1, <3>2 DEF Framed
    <2> QED BY <1>2, <2>1, <2>2 DEF UploadInv
  <1>5. CASE UNCHANGED uploadVars
    <2> USE <1>5 DEF uploadVars, gatewayVars, streamVars, serverVars, callVars
    <2>1. UploadTypes'
      BY <1>1 DEF UploadTypes, Reading
    <2>2. \A id \in Ids : Same(id)
      BY DEF Same
    <2>3. \A id \in Ids : Where(id)' /\ Framed(id)' /\ Whole(id)'
      BY <1>1, <2>2, SameStays
    <2> QED BY <1>2, <2>1, <2>3 DEF UploadInv
  <1> QED BY <1>3, <1>4, <1>5, UploadSteps

LEMMA UploadInvariant == UploadSpec => []UploadInv
  <1>1. UploadInit => UploadInv
    BY UploadStart
  <1>2. UploadInv /\ [UploadNext]_uploadVars => UploadInv'
    BY UploadStep
  <1> QED BY <1>1, <1>2, PTL DEF UploadSpec

(* A row never holds a part of a file: what is stored, and judged, is what *)
(* the client sent, for files of any length, any size of the gateway's     *)
(* buffer, any number of requests at a time, and wherever a client, the    *)
(* gateway or the service goes away.                                       *)
THEOREM RowsAreWholeFiles == UploadSpec => []StoredIsSent
  <1>1. UploadInv => StoredIsSent
    BY DEF UploadInv, Whole, StoredIsSent
  <1> QED BY <1>1, UploadInvariant, PTL

(* Cutting the file into chunks and putting them together again loses no   *)
(* byte and swaps none, at any moment the stream is up.                    *)
THEOREM StreamLosesNothing == UploadSpec => []NoByteLost
  <1>1. UploadInv => NoByteLost
    BY DEF UploadInv, Whole, OnWire, Data, NoByteLost
  <1> QED BY <1>1, UploadInvariant, PTL

(* 202 at the client means the whole file in a row and its event in the    *)
(* topic: through the stream, the service and the gateway's answer.        *)
THEOREM AnswerMeansStored == UploadSpec => []AcceptedIsStored
  <1>1. ASSUME UploadInv, NEW id \in Ids, answer[id] = 202
        PROVE  rows[id] # "none" /\ code[id] = file[id] /\ S!InTopic(id)
    <2>1. calls[id] = "accepted"
      BY <1>1 DEF UploadInv, Where
    <2>2. rows[id] # "none" /\ S!InTopic(id)
      BY <1>1, <2>1 DEF UploadInv, StoredFirst, S!AcceptedIsDurable
    <2> QED BY <1>1, <2>2 DEF UploadInv, Whole, S!InTopic, S!InTopic
  <1>2. UploadInv => AcceptedIsStored
    BY <1>1 DEF AcceptedIsStored
  <1> QED BY <1>2, UploadInvariant, PTL
-----------------------------------------------------------------------------
(* The upload is a submission_service *)

\* The faults of the abstract service: those of this one, and what the
\* stream, the text, the length or the client made fail.
Budget == [k \in AbstractFaults |->
              Cardinality(Ids) + (IF k \in DOMAIN MaxFaults THEN MaxFaults[k] ELSE 0)]
Count  == [k \in AbstractFaults |-> Because(k) + Failed(k)]

LEMMA AbstractFault ==
  ASSUME NEW kind \in AbstractFaults, Count[kind] < Budget[kind],
         Count' = [Count EXCEPT ![kind] = @ + 1]
  PROVE  Abstract!Fails(kind)
  <1>1. kind \in DOMAIN Budget
    BY DEF Budget
  <1>2. Abstract!Mixes(kind)
    <2>1. {k \in DOMAIN Budget : Count[k] > 0} \subseteq AbstractFaults
      BY DEF Budget
    <2> QED BY <2>1 DEF Abstract!Mixes, Budget, Count
  <1> QED BY <1>1, <1>2 DEF Abstract!Fails, Budget, Count

\* The faults that happened are within their bounds.
WithinBudget ==
    /\ faults \in [DOMAIN MaxFaults -> Nat]
    /\ \A k \in DOMAIN MaxFaults : faults[k] <= MaxFaults[k]

LEMMA Counts ==
  ASSUME WithinBudget, NEW k
  PROVE  /\ Cardinality(Ids) \in Nat
         /\ Because(k) \in Nat /\ Because(k) <= Cardinality(Ids)
         /\ Failed(k) \in Nat
         /\ Failed(k) <= IF k \in DOMAIN MaxFaults THEN MaxFaults[k] ELSE 0
  <1> DEFINE T == {id \in Ids : why[id] = k}
  <1>1. IsFiniteSet(Ids)
    BY UploadConstants
  <1>2. Cardinality(Ids) \in Nat
    BY <1>1, FS_CardinalityType
  <1>3. Cardinality(T) \in Nat /\ Cardinality(T) <= Cardinality(Ids)
    <2>1. T \subseteq Ids
      OBVIOUS
    <2>2. IsFiniteSet(T) /\ Cardinality(T) <= Cardinality(Ids)
      BY <1>1, <2>1, FS_Subset
    <2> QED BY <2>2, FS_CardinalityType
  <1>4. /\ Failed(k) \in Nat
        /\ Failed(k) <= IF k \in DOMAIN MaxFaults THEN MaxFaults[k] ELSE 0
    BY FaultBudget DEF WithinBudget, Failed
  <1>5. Because(k) = Cardinality(T)
    BY DEF Because
  <1> QED BY <1>2, <1>3, <1>4, <1>5

\* A call that a cause of the upload ends is one more fault of that kind.
LEMMA CauseCounted ==
  ASSUME WithinBudget, why \in [Ids -> Causes],
         NEW id \in Ids, NEW kind \in AbstractFaults,
         why[id] = "none",
         why' = [why EXCEPT ![id] = kind], faults' = faults
  PROVE  Abstract!Fails(kind)
  <1> DEFINE T(k) == {x \in Ids : why[x] = k}
  <1>1. \A k \in AbstractFaults : /\ Failed(k)' = Failed(k)
                                    /\ Because(k) = Cardinality(T(k))
                                    /\ Because(k)' = Cardinality(T(k)')
    BY DEF Failed, Because
  <1>2. T(kind)' = T(kind) \cup {id} /\ id \notin T(kind) /\ T(kind)' \subseteq Ids
    BY DEF AbstractFaults
  <1>3. \A k \in AbstractFaults : k # kind => T(k)' = T(k)
    BY DEF AbstractFaults
  <1>4. /\ Cardinality(T(kind)') = Cardinality(T(kind)) + 1
        /\ Cardinality(T(kind)') <= Cardinality(Ids)
    <2>1. IsFiniteSet(Ids) /\ T(kind) \subseteq Ids
      BY UploadConstants
    <2>2. IsFiniteSet(T(kind))
      BY <2>1, FS_Subset
    <2>3. Cardinality(T(kind) \cup {id}) <= Cardinality(Ids)
      BY <1>2, <2>1, FS_Subset
    <2> QED BY <1>2, <2>2, <2>3, FS_AddElement
  <1> HIDE DEF T
  <1>5. Because(kind)' = Because(kind) + 1 /\ Because(kind)' <= Cardinality(Ids)
    BY <1>1, <1>4
  <1>6. \A k \in AbstractFaults : k # kind => Because(k)' = Because(k)
    BY <1>1, <1>3
  <1>7. Count[kind] < Budget[kind]
    <2> DEFINE b == Because(kind)
               c == Failed(kind)
               n == Cardinality(Ids)
               m == IF kind \in DOMAIN MaxFaults THEN MaxFaults[kind] ELSE 0
    <2>1. b \in Nat /\ c \in Nat /\ n \in Nat /\ m \in Nat /\ c <= m
      BY Counts, FaultBudget
    <2>2. b + 1 <= n
      BY <1>5
    <2>3. Count[kind] = b + c /\ Budget[kind] = n + m
      BY DEF Count, Budget
    <2> HIDE DEF b, c, n, m
    <2> QED BY <2>1, <2>2, <2>3
  <1>8. Count' = [Count EXCEPT ![kind] = @ + 1]
    <2>1. \A k \in AbstractFaults : Because(k) \in Nat /\ Failed(k) \in Nat
      BY Counts
    <2>2. \A k \in AbstractFaults :
             Because(k)' + Failed(k)' = IF k = kind THEN Because(k) + Failed(k) + 1
                                            ELSE Because(k) + Failed(k)
      <3> TAKE k \in AbstractFaults
      <3>1. CASE k = kind
        <4>1. Because(k)' + Failed(k)' = (Because(k) + 1) + Failed(k)
          BY <1>1, <1>5, <3>1
        <4> QED BY <2>1, <3>1, <4>1
      <3>2. CASE k # kind
        BY <1>1, <1>6, <3>2
      <3> QED BY <3>1, <3>2
    <2> QED BY <2>2 DEF Count
  <1> QED BY <1>7, <1>8, AbstractFault

\* A fault of the service is the same fault of the abstract one.
LEMMA FaultCounted ==
  ASSUME WithinBudget, NEW kind \in AbstractFaults, Fails(kind), why' = why
  PROVE  Abstract!Fails(kind)
  <1>1. \A k : Because(k)' = Because(k)
    BY DEF Because
  <1>2. /\ kind \in DOMAIN MaxFaults /\ faults[kind] < MaxFaults[kind]
        /\ faults' = [faults EXCEPT ![kind] = @ + 1]
    BY DEF Fails
  <1>3. \A k \in AbstractFaults :
           Failed(k)' = IF k = kind THEN Failed(k) + 1 ELSE Failed(k)
    BY <1>2 DEF Failed, WithinBudget
  <1>4. \A k \in AbstractFaults : Because(k) \in Nat /\ Failed(k) \in Nat
    BY Counts
  <1>5. Count[kind] < Budget[kind]
    <2>1. /\ Cardinality(Ids) \in Nat /\ Because(kind) \in Nat
          /\ Because(kind) <= Cardinality(Ids) /\ Failed(kind) = faults[kind]
          /\ faults[kind] \in Nat /\ MaxFaults[kind] \in Nat
      BY <1>2, Counts, FaultBudget DEF Failed, WithinBudget
    <2> QED BY <1>2, <2>1 DEF Count, Budget
  <1>6. Count' = [Count EXCEPT ![kind] = @ + 1]
    <2>1. \A k \in AbstractFaults :
             Because(k)' + Failed(k)' = IF k = kind THEN Because(k) + Failed(k) + 1
                                            ELSE Because(k) + Failed(k)
      BY <1>1, <1>3, <1>4
    <2> QED BY <2>1 DEF Count
  <1> QED BY <1>5, <1>6, AbstractFault

\* Faults of the network and of the client alone are none of the service.
LEMMA NotCounted ==
  ASSUME faults' = faults \/ Fails("open_error") \/ Fails("client_gone"), why' = why,
         WithinBudget
  PROVE  Count' = Count
  <1>1. \A k : Because(k)' = Because(k)
    BY DEF Because
  <1>2. \A k \in AbstractFaults : Failed(k)' = Failed(k)
    BY DEF Fails, Failed, AbstractFaults, WithinBudget
  <1> QED BY <1>1, <1>2 DEF Count

LEMMA FaultsStep ==
  ASSUME UploadNext \/ UNCHANGED uploadVars
  PROVE  faults' = faults \/ \E kind : Fails(kind)
  <1> USE DEF S!Fails, Fails, S!Mixes, Mixes
  <1>1. CASE Crash
    BY <1>1 DEF Crash, S!Crash
  <1>2. ASSUME NEW id \in Ids, Sending(id)
        PROVE  faults' = faults \/ \E kind : Fails(kind)
    BY <1>2 DEF Sending, Post, PostRefused, OpenStream, OpenStreamFailed, SendInfo,
                SendChunk, CloseSend
  <1>3. ASSUME NEW id \in Ids, Answering(id)
        PROVE  faults' = faults \/ \E kind : Fails(kind)
    BY <1>3 DEF Answering, SendFailed, Accepted, Refused, ClientGone
  <1>4. ASSUME NEW id \in Ids, Receiving(id)
        PROVE  faults' = faults \/ \E kind : Fails(kind)
    BY <1>4 DEF Receiving, ReceiveInfo, ReceiveChunk, ReceiveEnd, ReceiveFailed, S!Receive
  <1>5. ASSUME NEW id \in Ids, Storing(id)
        PROVE  faults' = faults \/ \E kind : Fails(kind)
    BY <1>5 DEF Storing, InsertRow, InsertRefused, InsertFailed, Publish,
                PublishTooLong, PublishCancelled, LateWrite,
                S!InsertRow, S!InsertFailed, S!PublishEvent, S!PublishRetried,
                S!PublishFailed, S!LateWrite
  <1>6. CASE UNCHANGED uploadVars
    BY <1>6 DEF uploadVars
  <1> QED BY <1>1, <1>2, <1>3, <1>4, <1>5, <1>6, UploadSteps

LEMMA BudgetStep ==
  ASSUME WithinBudget, [UploadNext]_uploadVars
  PROVE  WithinBudget'
  <1>1. CASE faults' = faults
    BY <1>1 DEF WithinBudget
  <1>2. ASSUME NEW kind, Fails(kind) PROVE WithinBudget'
    BY <1>2, FaultBudget DEF Fails, WithinBudget
  <1> QED BY <1>1, <1>2, FaultsStep

AbstractVars == <<calls, rows, submissions, Count>>

LEMMA SimulateSending ==
  ASSUME WithinBudget, NEW id \in Ids, Sending(id) \/ Answering(id)
  PROVE  UNCHANGED AbstractVars
  <1>1. UNCHANGED <<calls, rows, submissions, why>>
    BY DEF Sending, Answering, Post, PostRefused, OpenStream, OpenStreamFailed,
           SendInfo, SendChunk, CloseSend, SendFailed, Accepted, Refused,
           ClientGone, callVars, serverVars
  <1>2. faults' = faults \/ Fails("open_error") \/ Fails("client_gone")
    BY DEF Sending, Answering, Post, PostRefused, OpenStream, OpenStreamFailed,
           SendInfo, SendChunk, CloseSend, SendFailed, Accepted, Refused, ClientGone
  <1> QED BY <1>1, <1>2, NotCounted DEF AbstractVars

LEMMA SimulateReceiving ==
  ASSUME WithinBudget, UploadTypes, NEW id \in Ids, Where(id), Receiving(id)
  PROVE  UNCHANGED AbstractVars \/ Abstract!Receive(id) \/ Abstract!ReceiveFailed(id)
  <1>1. CASE ReceiveInfo(id) \/ ReceiveChunk(id)
    BY <1>1, NotCounted DEF ReceiveInfo, ReceiveChunk, callVars, AbstractVars
  <1>2. CASE ReceiveEnd(id)
    <2>1. Count' = Count
      BY <1>2, NotCounted DEF ReceiveEnd, S!Receive
    <2> QED BY <1>2, <2>1 DEF ReceiveEnd, S!Receive, S!Goto, Abstract!Receive,
                              Abstract!Goto, Count
  <1>3. CASE ReceiveFailed(id)
    <2>1. calls[id] = "none" /\ why[id] = "none"
      BY <1>3 DEF ReceiveFailed, Where
    <2>2. Abstract!Fails("stream_error")
      BY <1>3, <2>1, CauseCounted DEF ReceiveFailed, UploadTypes, AbstractFaults
    <2> QED BY <1>3, <2>1, <2>2 DEF ReceiveFailed, Abstract!ReceiveFailed, Abstract!Goto
  <1> QED BY <1>1, <1>2, <1>3 DEF Receiving

LEMMA SimulateStoring ==
  ASSUME WithinBudget, UploadTypes, StoredFirst,
         NEW id \in Ids, Where(id), Storing(id)
  PROVE  \/ Abstract!SubmissionStep(id) \/ Abstract!InsertFailed(id)
         \/ Abstract!PublishRetried(id) \/ Abstract!PublishFailed(id)
         \/ Abstract!Cancel(id)
  <1> USE DEF S!Goto, Abstract!Goto, S!AppendEvent, Abstract!AppendEvent
  <1>0. \A kind : S!Fails(kind) <=> Fails(kind)
    BY DEF S!Fails, Fails, S!Mixes, Mixes
  <1>1. CASE InsertRow(id)
    <2>1. Count' = Count
      BY <1>1, NotCounted DEF InsertRow, S!InsertRow
    <2> QED BY <1>1, <2>1 DEF InsertRow, S!InsertRow, Abstract!InsertRow,
                              Abstract!SubmissionStep, Count
  <1>2. CASE InsertFailed(id)
    <2>1. Abstract!Fails("insert_error")
      BY <1>0, <1>2, FaultCounted DEF InsertFailed, S!InsertFailed, AbstractFaults
    <2> QED BY <1>2, <2>1 DEF InsertFailed, S!InsertFailed, Abstract!InsertFailed
  <1>3. CASE InsertRefused(id)
    <2>1. Abstract!Fails("insert_error")
      BY <1>3, CauseCounted DEF InsertRefused, UploadTypes, AbstractFaults, Where
    <2> QED BY <1>3, <2>1 DEF InsertRefused, Abstract!InsertFailed
  <1>4. CASE Publish(id)
    <2>1. CASE S!PublishEvent(id)
      <3>1. Count' = Count
        BY <1>4, <2>1, NotCounted DEF Publish, S!PublishEvent
      <3> QED BY <2>1, <3>1 DEF S!PublishEvent, Abstract!PublishEvent,
                                Abstract!SubmissionStep, Count
    <2>2. CASE S!PublishRetried(id)
      <3>1. Abstract!Fails("event_lost_ack")
        BY <1>0, <1>4, <2>2, FaultCounted DEF Publish, S!PublishRetried, AbstractFaults
      <3> QED BY <2>2, <3>1 DEF S!PublishRetried, Abstract!PublishRetried
    <2>3. CASE S!PublishFailed(id)
      <3>1. Abstract!Fails("event_write_error")
        BY <1>0, <1>4, <2>3, FaultCounted DEF Publish, S!PublishFailed, AbstractFaults
      <3> QED BY <2>3, <3>1 DEF S!PublishFailed, Abstract!PublishFailed
    <2> QED BY <1>4, <2>1, <2>2, <2>3 DEF Publish
  <1>5. CASE PublishTooLong(id)
    <2>1. Abstract!Fails("event_write_error")
      BY <1>5, CauseCounted DEF PublishTooLong, UploadTypes, AbstractFaults, Where
    <2>2. submissions \o [i \in 1 .. 0 |-> id] = submissions
      <3>1. [i \in 1 .. 0 |-> id] \in Seq(Ids) /\ Len([i \in 1 .. 0 |-> id]) = 0
        BY SeqDef
      <3>2. [i \in 1 .. 0 |-> id] = <<>>
        BY <3>1, EmptySeq
      <3>3. submissions \o <<>> = submissions
        BY ConcatEmptySeq DEF StoredFirst
      <3> QED BY <3>2, <3>3
    <2>3. \E n \in 0 .. MaxAttempts : Abstract!AppendEvent(id, n)
      <3>1. 0 \in 0 .. MaxAttempts
        BY UploadConstants
      <3>2. submissions' = submissions \o [i \in 1 .. 0 |-> id]
        BY <1>5, <2>2 DEF PublishTooLong
      <3> QED BY <3>1, <3>2
    <2> QED BY <1>5, <2>1, <2>3 DEF PublishTooLong, Abstract!PublishFailed
  <1>6. CASE PublishCancelled(id)
    <2>1. Abstract!Fails("client_cancel")
      BY <1>6, CauseCounted DEF PublishCancelled, UploadTypes, AbstractFaults, Where
    <2> QED BY <1>6, <2>1 DEF PublishCancelled, Abstract!Cancel
  <1>7. CASE LateWrite(id)
    <2>1. Count' = Count
      BY <1>7, NotCounted DEF LateWrite, S!LateWrite
    <2> QED BY <1>7, <2>1 DEF LateWrite, S!LateWrite, Abstract!LateWrite,
                              Abstract!SubmissionStep, Count
  <1> QED BY <1>1, <1>2, <1>3, <1>4, <1>5, <1>6, <1>7 DEF Storing

LEMMA SimulateStep ==
  ASSUME WithinBudget, UploadInv, [UploadNext]_uploadVars
  PROVE  [Abstract!Next]_(Abstract!vars)
  <1>1. UploadTypes /\ StoredFirst /\ \A id \in Ids : Where(id)
    BY DEF UploadInv
  <1>2. UNCHANGED AbstractVars => UNCHANGED Abstract!vars
    BY DEF AbstractVars, Abstract!vars, Count
  <1>3. ASSUME NEW id \in Ids, Sending(id) \/ Answering(id) \/ Receiving(id) \/ Storing(id)
        PROVE  UNCHANGED AbstractVars \/ Abstract!Next
    BY <1>1, <1>3, SimulateSending, SimulateReceiving, SimulateStoring
    DEF Abstract!Next, Abstract!SubmissionNext
  <1>4. CASE Crash
    <2>1. Fails("submission_crash") /\ why' = why
      BY <1>4 DEF Crash, S!Crash, S!Fails, Fails, S!Mixes, Mixes, serverVars
    <2>2. Abstract!Fails("submission_crash")
      BY <2>1, FaultCounted DEF AbstractFaults
    <2>3. Abstract!Crash
      BY <1>4, <2>2 DEF Crash, S!Crash, Abstract!Crash
    <2> QED BY <2>3 DEF Abstract!Next, Abstract!SubmissionNext
  <1>5. CASE UNCHANGED uploadVars
    <2>1. UNCHANGED <<calls, rows, submissions, faults, why>>
      BY <1>5 DEF uploadVars, callVars, serverVars
    <2> QED BY <1>2, <2>1, NotCounted DEF AbstractVars
  <1> QED BY <1>2, <1>3, <1>4, <1>5, UploadSteps

LEMMA SimulateInit ==
  ASSUME UploadInit
  PROVE  WithinBudget /\ Abstract!Init
  <1>1. WithinBudget
    BY FaultBudget DEF UploadInit, S!Init, S!FaultsInit, WithinBudget
  <1>2. \A k \in AbstractFaults : Because(k) = 0 /\ Failed(k) = 0
    <2> TAKE k \in AbstractFaults
    <2>1. {id \in Ids : why[id] = k} = {}
      BY DEF UploadInit, AbstractFaults
    <2>2. Cardinality({}) = 0
      BY FS_EmptySet
    <2>3. Failed(k) = 0
      BY DEF UploadInit, S!Init, S!FaultsInit, Failed
    <2> QED BY <2>1, <2>2, <2>3 DEF Because
  <1>3. Count = [k \in DOMAIN Budget |-> 0]
    BY <1>2 DEF Count, Budget
  <1>4. Abstract!FaultsInit
    BY <1>3 DEF Abstract!FaultsInit, Count, Budget
  <1> QED
    BY <1>1, <1>4 DEF UploadInit, S!Init, S!SubmissionInit,
                      Abstract!Init, Abstract!SubmissionInit

(* Every step of the upload is a step of SubmissionService or none of its  *)
(* business: what that module promises of a call, and CodeChecker of the   *)
(* system, holds of calls made of chunks over a stream that may break.     *)
(* This is the safety half of ImplementsSubmissionService.                 *)
THEOREM UploadImplementsService == UploadSpec => Abstract!Init /\ [][Abstract!Next]_(Abstract!vars)
  <1>1. UploadInit => WithinBudget /\ Abstract!Init
    BY SimulateInit
  <1>2. WithinBudget /\ [UploadNext]_uploadVars => WithinBudget'
    BY BudgetStep
  <1>3. WithinBudget /\ UploadInv /\ [UploadNext]_uploadVars => [Abstract!Next]_(Abstract!vars)
    BY SimulateStep
  <1> QED BY <1>1, <1>2, <1>3, UploadInvariant, PTL DEF UploadSpec

\* The table of the service alone: only result_service writes other statuses.
LEMMA RowsPending ==
  ASSUME rows \in [Ids -> {"none", "Pending"}], [UploadNext]_uploadVars
  PROVE  rows' \in [Ids -> {"none", "Pending"}]
  <1>1. CASE rows' = rows
    BY <1>1
  <1>2. ASSUME NEW id \in Ids, rows' = [rows EXCEPT ![id] = "Pending"]
        PROVE  rows' \in [Ids -> {"none", "Pending"}]
    BY <1>2
  <1>3. rows' = rows \/ \E id \in Ids : rows' = [rows EXCEPT ![id] = "Pending"]
    <2>1. CASE Crash
      BY <2>1 DEF Crash, S!Crash
    <2>2. ASSUME NEW id \in Ids, Sending(id) \/ Answering(id) \/ Receiving(id) PROVE rows' = rows
      BY <2>2 DEF Sending, Answering, Receiving, Post, PostRefused, OpenStream,
                  OpenStreamFailed, SendInfo, SendChunk, CloseSend, SendFailed,
                  Accepted, Refused, ClientGone, ReceiveInfo, ReceiveChunk,
                  ReceiveEnd, ReceiveFailed, S!Receive, callVars
    <2>3. ASSUME NEW id \in Ids, Storing(id)
          PROVE  rows' = rows \/ rows' = [rows EXCEPT ![id] = "Pending"]
      BY <2>3 DEF Storing, InsertRow, InsertRefused, InsertFailed, Publish,
                  PublishTooLong, PublishCancelled, LateWrite,
                  S!InsertRow, S!InsertFailed, S!PublishEvent, S!PublishRetried,
                  S!PublishFailed, S!LateWrite
    <2>4. CASE UNCHANGED uploadVars
      BY <2>4 DEF uploadVars, callVars
    <2> QED BY <2>1, <2>2, <2>3, <2>4, UploadSteps
  <1> QED BY <1>1, <1>2, <1>3

(* Every variable of the upload keeps its type.                            *)
THEOREM UploadTypeCorrect == UploadSpec => []UploadTypeOK
  <1>1. UploadInit => WithinBudget /\ rows \in [Ids -> {"none", "Pending"}]
    BY SimulateInit DEF UploadInit, S!Init
  <1>2. WithinBudget /\ [UploadNext]_uploadVars => WithinBudget'
    BY BudgetStep
  <1>3. rows \in [Ids -> {"none", "Pending"}] /\ [UploadNext]_uploadVars
           => (rows \in [Ids -> {"none", "Pending"}])'
    BY RowsPending
  <1>4. UploadInv /\ WithinBudget /\ rows \in [Ids -> {"none", "Pending"}] => UploadTypeOK
    <2> SUFFICES ASSUME UploadInv, WithinBudget, rows \in [Ids -> {"none", "Pending"}]
                 PROVE  UploadTypeOK
      OBVIOUS
    <2>1. S!TypeOK
      BY DEF UploadInv, StoredFirst, WithinBudget, S!TypeOK, S!FaultsType, S!CallStates,
             S!CallStates
    <2>2. \A id \in Ids : offset[id] \in 0 .. Len(file[id])
      <3> TAKE id \in Ids
      <3>1. offset[id] \in Nat /\ offset[id] <= Len(file[id]) /\ Len(file[id]) \in Nat
        BY LenProperties DEF UploadInv, UploadTypes, Reading
      <3> QED BY <3>1
    <2> QED BY <2>1, <2>2 DEF UploadInv, UploadTypes, UploadTypeOK
  <1> QED BY <1>1, <1>2, <1>3, <1>4, UploadInvariant, PTL DEF UploadSpec

=============================================================================
