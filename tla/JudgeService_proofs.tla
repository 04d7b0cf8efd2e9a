------------------------ MODULE JudgeService_proofs ------------------------
(***************************************************************************)
(* Proofs about JudgeService, for any number of workers, submissions and   *)
(* faults.                                                                 *)
(***************************************************************************)
EXTENDS JudgeService, TLAPS, SequenceTheorems, FiniteSetTheorems

-----------------------------------------------------------------------------
(* The topics *)

\* n copies of a result are a sequence of results.
LEMMA CopiesAreResults ==
  ASSUME NEW n \in Nat, NEW r \in Result
  PROVE  /\ [i \in 1 .. n |-> r] \in Seq(Result)
         /\ Len([i \in 1 .. n |-> r]) = n
  OBVIOUS

\* Appending results keeps the topic a sequence of results, and keeps every
\* event it has at its place.
LEMMA ResultsGrow ==
  ASSUME TypeOK, NEW w \in Workers, Busy(w), NEW v \in Verdicts, NEW n \in Nat,
         SubmissionAt(wmsg[w]) # Garbage, AppendResult(w, v, n)
  PROVE  /\ results' \in Seq(Result)
         /\ \A i \in DOMAIN results : i \in DOMAIN results' /\ results'[i] = results[i]
  <1> DEFINE r == [id |-> SubmissionAt(wmsg[w]), status |-> v]
             copies == [i \in 1 .. n |-> r]
  <1>1. SubmissionAt(wmsg[w]) \in Ids
    <2>1. wmsg[w] + 1 \in 1 .. Len(submissions)
      BY DEF TypeOK, Busy
    <2>2. submissions[wmsg[w] + 1] \in Record
      BY <2>1, ElementOfSeq DEF TypeOK
    <2> QED BY <2>2 DEF SubmissionAt, Record
  <1>2. r \in Result
    BY <1>1 DEF Result
  <1>3. copies \in Seq(Result) /\ Len(copies) = n
    BY <1>2, CopiesAreResults
  <1>4. results \in Seq(Result)
    BY DEF TypeOK
  <1>5. results' = results \o copies
    BY DEF AppendResult
  <1> HIDE DEF copies
  <1>6. /\ results \o copies \in Seq(Result)
        /\ Len(results \o copies) = Len(results) + n
        /\ \A i \in 1 .. Len(results) : (results \o copies)[i] = results[i]
    BY <1>3, <1>4
  <1>7. DOMAIN results = 1 .. Len(results) /\ DOMAIN results' = 1 .. Len(results')
        /\ Len(results) \in Nat
    BY <1>4, <1>5, <1>6, LenProperties
  <1> QED BY <1>5, <1>6, <1>7

\* Appending a submission keeps the records and their offsets.
LEMMA SubmissionsGrow ==
  ASSUME TypeOK, NEW r \in Record, submissions' = Append(submissions, r)
  PROVE  /\ submissions' \in Seq(Record)
         /\ Len(submissions') = Len(submissions) + 1
         /\ \A o \in Offsets : submissions'[o + 1] = submissions[o + 1]
  BY DEF TypeOK, Offsets
-----------------------------------------------------------------------------
(* Types *)

\* The conjuncts of TypeOK about the broker and the reader, and about the
\* workers.
BrokerType ==
    /\ submissions \in Seq(Record)
    /\ results \in Seq(Result)
    /\ committed \in 0 .. Len(submissions)
    /\ stash \in 0 .. Len(submissions)
    /\ position \in 0 .. Len(submissions)

ReaderType ==
    /\ loop \in {"down", "fetch", "send", "closed"}
    /\ msg \in Nat
    /\ loop = "send" => msg < Len(submissions)
    /\ jobs \in Seq(Nat)
    /\ \A i \in DOMAIN jobs : jobs[i] < Len(submissions)

WorkerType ==
    /\ wstate \in [Workers -> WorkerStates]
    /\ wmsg \in [Workers -> Nat]
    /\ \A w \in Workers : Busy(w) => wmsg[w] < Len(submissions)
    /\ workerID \in [Workers -> Containers \cup {NoContainer}]
    /\ workerPool \subseteq Containers

LEMMA TypeParts == TypeOK <=> BrokerType /\ ReaderType /\ WorkerType /\ FaultsType
  BY DEF TypeOK, BrokerType, ReaderType, WorkerType

\* A worker that judges holds a container, and works on a record that decodes.
Judging == \A w \in Workers :
    /\ wstate[w] \in {"acquire", "judge"} => SubmissionAt(wmsg[w]) # Garbage
    /\ wstate[w] = "judge" => workerID[w] \in Containers

LEMMA FaultStep ==
  ASSUME NEW kind, FaultsType, Fails(kind)
  PROVE  FaultsType'
  BY FaultBudget DEF FaultsType, Fails

\* The queue keeps its elements but the first when one is received.
LEMMA TailOfJobs ==
  ASSUME ReaderType, jobs # <<>>, jobs' = Tail(jobs)
  PROVE  /\ Head(jobs) \in Nat
         /\ Head(jobs) = jobs[1]
         /\ 1 \in DOMAIN jobs
         /\ jobs' \in Seq(Nat)
         /\ \A i \in DOMAIN jobs' : i + 1 \in DOMAIN jobs /\ jobs'[i] = jobs[i + 1]
         /\ \A i \in DOMAIN jobs : i = 1 \/ (i - 1 \in DOMAIN jobs' /\ jobs'[i - 1] = jobs[i])
  BY DEF ReaderType

LEMMA AppendToJobs ==
  ASSUME ReaderType, loop = "send", jobs' = Append(jobs, msg)
  PROVE  /\ jobs' \in Seq(Nat)
         /\ \A i \in DOMAIN jobs' :
               \/ i \in DOMAIN jobs /\ jobs'[i] = jobs[i]
               \/ jobs'[i] = msg
         /\ \A i \in DOMAIN jobs : i \in DOMAIN jobs' /\ jobs'[i] = jobs[i]
         /\ \E i \in DOMAIN jobs' : jobs'[i] = msg
  <1>1. DOMAIN jobs' = 1 .. Len(jobs) + 1 /\ DOMAIN jobs = 1 .. Len(jobs) /\ Len(jobs) \in Nat
    BY DEF ReaderType
  <1>2. jobs'[Len(jobs) + 1] = msg /\ Len(jobs) + 1 \in DOMAIN jobs'
    BY <1>1 DEF ReaderType
  <1> QED BY <1>1, <1>2 DEF ReaderType

\* A step that leaves the parts of a type alone preserves them.
LEMMA BrokerTypeStable ==
  ASSUME BrokerType, UNCHANGED <<submissions, results, committed, stash, position>>
  PROVE  BrokerType'
  BY DEF BrokerType

LEMMA ReaderTypeStable ==
  ASSUME ReaderType, BrokerType, UNCHANGED <<submissions, loop, msg, jobs>>
  PROVE  ReaderType'
  BY DEF ReaderType

LEMMA WorkerTypeStable ==
  ASSUME WorkerType, UNCHANGED workerVars, UNCHANGED submissions
  PROVE  WorkerType'
  BY DEF WorkerType, workerVars, Busy

\* The state of a process that is gone has its type.
LEMMA GoneType ==
  ASSUME BrokerType, Gone, UNCHANGED submissions
  PROVE  ReaderType' /\ WorkerType' /\ position' \in 0 .. Len(submissions')
  BY DEF Gone, BrokerType, ReaderType, WorkerType, Busy, WorkerStates

\* Every step preserves the types (a worker that judges has a record that
\* decodes, so that its result is one).
LEMMA TypeStep ==
  ASSUME TypeOK, Judging, [Next]_vars
  PROVE  TypeOK'
  <1> USE DEF brokerVars, readerVars, judgeVars, vars
  <1>0. BrokerType /\ ReaderType /\ WorkerType /\ FaultsType
    BY TypeParts
  <1> SUFFICES BrokerType' /\ ReaderType' /\ WorkerType' /\ FaultsType'
    BY DEF TypeOK, BrokerType, ReaderType, WorkerType, Busy, FaultsType
  <1>1. ASSUME NEW r \in Record, Publish(r)
        PROVE  BrokerType' /\ ReaderType' /\ WorkerType' /\ FaultsType'
    <2>1. Len(submissions') = Len(submissions) + 1 /\ submissions' \in Seq(Record)
      BY <1>1, SubmissionsGrow DEF Publish
    <2>2. BrokerType'
      BY <1>0, <1>1, <2>1 DEF Publish, BrokerType
    <2>3. ReaderType'
      BY <1>0, <1>1, <2>1 DEF Publish, ReaderType, BrokerType
    <2>4. WorkerType'
      BY <1>0, <1>1, <2>1 DEF Publish, WorkerType, BrokerType, workerVars, Busy
    <2> QED BY <1>0, <1>1, <2>2, <2>3, <2>4 DEF Publish, FaultsType
  <1>2. CASE Start
    <2>1. BrokerType'
      BY <1>0, <1>2 DEF Start, BrokerType
    <2>2. ReaderType'
      BY <1>0, <1>2 DEF Start, BrokerType, ReaderType
    <2>3. WorkerType'
      BY <1>0, <1>2 DEF Start, WorkerType, WorkerStates, Busy
    <2> QED BY <1>0, <1>2, <2>1, <2>2, <2>3 DEF Start, FaultsType
  <1>3. CASE Fetch
    <2>1. BrokerType' /\ ReaderType'
      BY <1>0, <1>3 DEF Fetch, BrokerType, ReaderType
    <2> QED BY <1>0, <1>3, <2>1, WorkerTypeStable DEF Fetch, FaultsType
  <1>4. CASE Send
    <2>1. ReaderType'
      BY <1>0, <1>4, AppendToJobs DEF Send, ReaderType
    <2> QED BY <1>0, <1>4, <2>1, BrokerTypeStable, WorkerTypeStable DEF Send, FaultsType
  <1>5. CASE Shutdown
    <2>1. BrokerType'
      BY <1>0, <1>5, GoneType DEF Shutdown, FinalCommit, BrokerType
    <2> QED BY <1>0, <1>5, <2>1, GoneType DEF Shutdown, FaultsType
  <1>6. CASE FetchError
    <2>1. ReaderType'
      BY <1>0, <1>6 DEF FetchError, ReaderType
    <2> QED BY <1>0, <1>6, <2>1, FaultStep, BrokerTypeStable, WorkerTypeStable DEF FetchError
  <1>7. CASE Crash
    <2>1. BrokerType'
      BY <1>0, <1>7, GoneType DEF Crash, BrokerType
    <2> QED BY <1>0, <1>7, <2>1, GoneType, FaultStep DEF Crash
  <1>8. CASE FlushCommits
    <2>1. BrokerType'
      BY <1>0, <1>8 DEF FlushCommits, BrokerType
    <2> QED BY <1>0, <1>8, <2>1, ReaderTypeStable, WorkerTypeStable DEF FlushCommits, FaultsType
  <1>9. CASE Rebalance
    <2>1. BrokerType'
      BY <1>0, <1>9 DEF Rebalance, FinalCommit, BrokerType
    <2> QED BY <1>0, <1>9, <2>1, FaultStep, ReaderTypeStable, WorkerTypeStable DEF Rebalance
  <1>10. ASSUME NEW w \in Workers, WorkerStep(w)
         PROVE  BrokerType' /\ ReaderType' /\ WorkerType' /\ FaultsType'
    <2> USE DEF Goto
    <2>1. CASE Receive(w)
      <3>1. ReaderType'
        BY <1>0, <2>1, TailOfJobs DEF Receive, ReaderType
      <3>2. Head(jobs) \in Nat /\ Head(jobs) < Len(submissions)
        BY <1>0, <2>1, TailOfJobs DEF Receive, ReaderType
      <3>3. WorkerType'
        BY <1>0, <2>1, <3>2 DEF Receive, WorkerType, WorkerStates, Busy
      <3> QED BY <1>0, <2>1, <3>1, <3>3, BrokerTypeStable DEF Receive, FaultsType
    <2>2. CASE Acquire(w)
      <3>1. WorkerType'
        BY <1>0, <2>2 DEF Acquire, WorkerType, WorkerStates, Busy
      <3> QED BY <1>0, <2>2, <3>1, BrokerTypeStable, ReaderTypeStable DEF Acquire, FaultsType
    <2>3. ASSUME wstate[w] = "judge", Release(w),
                 UNCHANGED <<submissions, committed, readerVars>>,
                 \/ Goto(w, "commit") /\ UNCHANGED wmsg
                 \/ Goto(w, "idle") /\ wmsg' = [wmsg EXCEPT ![w] = 0],
                 NEW v \in Verdicts, NEW n \in Nat, AppendResult(w, v, n)
          PROVE  BrokerType' /\ ReaderType' /\ WorkerType'
      <3>1. results' \in Seq(Result)
        BY <2>3, ResultsGrow DEF Judging, Busy
      <3>2. BrokerType'
        BY <1>0, <2>3, <3>1 DEF BrokerType
      <3>3. workerID[w] \in Containers
        BY <2>3 DEF Judging
      <3>4. WorkerType'
        <4>1. /\ workerID' \in [Workers -> Containers \cup {NoContainer}]
              /\ workerPool' \subseteq Containers
          BY <1>0, <2>3, <3>3 DEF WorkerType, Release
        <4>2. CASE Goto(w, "commit") /\ UNCHANGED wmsg
          BY <1>0, <2>3, <4>1, <4>2 DEF WorkerType, WorkerStates, Busy
        <4>3. CASE Goto(w, "idle") /\ wmsg' = [wmsg EXCEPT ![w] = 0]
          BY <1>0, <2>3, <4>1, <4>3 DEF WorkerType, WorkerStates, Busy
        <4> QED BY <2>3, <4>2, <4>3
      <3> QED BY <1>0, <2>3, <3>2, <3>4, ReaderTypeStable
    <2>4. CASE WriteResult(w)
      <3>1. PICK v \in Verdicts : AppendResult(w, v, 1)
        BY <2>4 DEF WriteResult
      <3> QED BY <1>0, <2>3, <2>4, <3>1 DEF WriteResult, FaultsType
    <2>5. CASE WriteRetried(w)
      <3>1. PICK v \in Verdicts, n \in Nat : AppendResult(w, v, n)
        BY <2>5, JudgeConstants DEF WriteRetried
      <3> QED BY <1>0, <2>3, <2>5, <3>1, FaultStep DEF WriteRetried
    <2>6. CASE WriteFailed(w)
      <3>1. PICK v \in Verdicts, n \in Nat : AppendResult(w, v, n)
        BY <2>6, JudgeConstants DEF WriteFailed
      <3> QED BY <1>0, <2>3, <2>6, <3>1, FaultStep DEF WriteFailed
    <2>7. CASE CommitMessages(w)
      <3>1. BrokerType'
        BY <1>0, <2>7 DEF CommitMessages, MergeOffset, BrokerType, WorkerType, Busy
      <3>2. WorkerType'
        BY <1>0, <2>7 DEF CommitMessages, WorkerType, WorkerStates, Busy
      <3> QED BY <1>0, <2>7, <3>1, <3>2, ReaderTypeStable DEF CommitMessages, FaultsType
    <2>8. CASE Exit(w)
      <3>1. WorkerType'
        BY <1>0, <2>8 DEF Exit, WorkerType, WorkerStates, Busy
      <3> QED BY <1>0, <2>8, <3>1, BrokerTypeStable, ReaderTypeStable DEF Exit, FaultsType
    <2> QED BY <1>10, <2>1, <2>2, <2>4, <2>5, <2>6, <2>7, <2>8 DEF WorkerStep
  <1>11. CASE UNCHANGED vars
    BY <1>0, <1>11, BrokerTypeStable, ReaderTypeStable, WorkerTypeStable DEF FaultsType
  <1> QED
    BY <1>1, <1>2, <1>3, <1>4, <1>5, <1>6, <1>7, <1>8, <1>9, <1>10, <1>11
    DEF Next, JudgeNext, LoopStep, Waiting

\* Judging is preserved: Receive only lets a record that decodes through, and
\* Acquire takes the container from the pool.
LEMMA JudgingStep ==
  ASSUME TypeOK, Judging, [Next]_vars
  PROVE  Judging'
  <1> USE DEF brokerVars, readerVars, workerVars, judgeVars, vars
  <1>1. ASSUME NEW r \in Record, Publish(r) PROVE Judging'
    BY <1>1, SubmissionsGrow DEF Publish, Judging, SubmissionAt, Offsets, TypeOK, Busy
  <1>2. CASE Start
    BY <1>2 DEF Start, Judging
  <1>3. CASE Shutdown \/ Crash
    BY <1>3 DEF Shutdown, Crash, Gone, Judging
  <1>4. CASE Fetch \/ Send \/ FetchError \/ FlushCommits \/ Rebalance \/ UNCHANGED vars
    BY <1>4 DEF Fetch, Send, FetchError, FlushCommits, Rebalance, Judging, SubmissionAt
  <1>5. ASSUME NEW w \in Workers, WorkerStep(w) PROVE Judging'
    <2>1. CASE Receive(w)
      BY <2>1 DEF Receive, Goto, Judging, SubmissionAt, TypeOK
    <2>2. CASE Acquire(w)
      BY <2>2 DEF Acquire, Goto, Judging, SubmissionAt, TypeOK
    <2>3. CASE WriteResult(w) \/ WriteRetried(w) \/ WriteFailed(w)
      BY <2>3 DEF WriteResult, WriteRetried, WriteFailed, Release, Goto, Judging,
                  SubmissionAt, TypeOK
    <2>4. CASE CommitMessages(w) \/ Exit(w)
      BY <2>4 DEF CommitMessages, Exit, Goto, Judging, SubmissionAt, TypeOK
    <2> QED BY <1>5, <2>1, <2>2, <2>3, <2>4 DEF WorkerStep
  <1> QED BY <1>1, <1>2, <1>3, <1>4, <1>5 DEF Next, JudgeNext, LoopStep, Waiting

LEMMA InitTypes == Init => TypeOK /\ Judging
  BY FaultBudget DEF Init, JudgeInit, FaultsInit, FaultsType, TypeOK, Judging, Busy, WorkerStates

(* Every variable keeps its type and every offset stays inside the topic.  *)
THEOREM TypeCorrect == Spec => [](TypeOK /\ Judging)
  <1>1. Init => TypeOK /\ Judging
    BY InitTypes
  <1>2. TypeOK /\ Judging /\ [Next]_vars => (TypeOK /\ Judging)'
    BY TypeStep, JudgingStep
  <1> QED BY <1>1, <1>2, PTL DEF Spec
-----------------------------------------------------------------------------
(* The containers *)

\* Inductive: a process that is down has no worker and holds no container.
ContainersInv ==
    /\ ContainersConserved
    /\ loop = "down" => \A w \in Workers :
                          wstate[w] = "exited" /\ workerID[w] = NoContainer

\* Giving the container of a judging worker back conserves the containers.
LEMMA ReleaseConserves ==
  ASSUME TypeOK, Judging, ContainersInv, NEW w \in Workers, wstate[w] = "judge",
         Release(w), NEW state \in {"idle", "commit"}, Goto(w, state), UNCHANGED loop
  PROVE  ContainersInv'
  <1>0. loop # "down"
    BY JudgeConstants DEF Judging, ContainersInv
  <1>1. /\ workerID[w] \in Containers /\ workerPool' = workerPool \cup {workerID[w]}
        /\ workerID' \in [Workers -> Containers \cup {NoContainer}]
        /\ workerID'[w] = NoContainer
        /\ \A v \in Workers \ {w} : workerID'[v] = workerID[v]
    BY DEF Judging, Release, TypeOK
  <1>2. /\ wstate'[w] = state /\ state # "judge"
        /\ \A v \in Workers \ {w} : wstate'[v] = wstate[v]
    BY DEF Goto, TypeOK
  <1>3. \A v \in Workers : wstate'[v] = "judge" <=> workerID'[v] # NoContainer
    BY <1>0, <1>1, <1>2 DEF ContainersInv, ContainersConserved
  <1>4. \A c \in Containers \ workerPool' : \E v \in Workers : workerID'[v] = c
    BY <1>0, <1>1 DEF ContainersInv, ContainersConserved
  <1>5. \A v \in Workers : workerID'[v] \notin workerPool'
    <2>1. \A v \in Workers \ {w} : workerID[v] # workerID[w]
      BY <1>0, <1>1, JudgeConstants DEF ContainersInv, ContainersConserved
    <2>2. NoContainer \notin workerPool'
      BY <1>1, JudgeConstants DEF TypeOK
    <2> QED BY <1>0, <1>1, <2>1, <2>2 DEF ContainersInv, ContainersConserved
  <1>6. \A u, v \in Workers :
           u # v /\ workerID'[u] = workerID'[v] => workerID'[u] = NoContainer
    BY <1>0, <1>1 DEF ContainersInv, ContainersConserved
  <1> QED BY <1>0, <1>3, <1>4, <1>5, <1>6 DEF ContainersInv, ContainersConserved

LEMMA ContainersStep ==
  ASSUME TypeOK, Judging, ContainersInv, [Next]_vars
  PROVE  ContainersInv'
  <1> USE DEF brokerVars, readerVars, workerVars, judgeVars, vars
  <1>1. CASE Start
    <2>1. \A w \in Workers : workerID'[w] = NoContainer /\ wstate'[w] = "idle"
      BY <1>1 DEF Start, ContainersInv
    <2>2. workerPool' = Containers /\ loop' = "fetch"
      BY <1>1 DEF Start
    <2> QED BY <2>1, <2>2, JudgeConstants DEF ContainersInv, ContainersConserved
  <1>2. CASE Shutdown \/ Crash
    BY <1>2 DEF Shutdown, Crash, Gone, ContainersInv, ContainersConserved
  <1>3. ASSUME loop' = "down" <=> loop = "down", UNCHANGED workerVars
        PROVE  ContainersInv'
    BY <1>3 DEF ContainersInv, ContainersConserved
  <1>4. CASE \/ \E r \in Record : Publish(r)
             \/ Fetch \/ Send \/ FetchError \/ FlushCommits \/ Rebalance \/ UNCHANGED vars
    BY <1>3, <1>4 DEF Publish, Fetch, Send, FetchError, FlushCommits, Rebalance
  <1>5. ASSUME NEW w \in Workers, WorkerStep(w) PROVE ContainersInv'
    <2>0. loop # "down"
      BY <1>5 DEF WorkerStep, Receive, Acquire, WriteResult, WriteRetried, WriteFailed,
                  CommitMessages, Exit, ContainersInv
    <2>1. ASSUME wstate[w] # "judge", NEW state \in WorkerStates, state # "judge",
                 Goto(w, state), UNCHANGED <<loop, workerID, workerPool>>
          PROVE  ContainersInv'
      <3>1. \A v \in Workers : wstate'[v] = "judge" <=> wstate[v] = "judge"
        BY <2>1 DEF Goto, TypeOK
      <3> QED BY <2>0, <2>1, <3>1 DEF ContainersInv, ContainersConserved
    <2>2. CASE Receive(w) \/ CommitMessages(w) \/ Exit(w)
      BY <2>1, <2>2 DEF Receive, CommitMessages, Exit, WorkerStates
    <2>3. CASE Acquire(w)
      <3>1. PICK c \in workerPool : /\ workerID' = [workerID EXCEPT ![w] = c]
                                    /\ workerPool' = workerPool \ {c}
        BY <2>3 DEF Acquire
      <3>2. c \in Containers /\ c # NoContainer
        BY JudgeConstants DEF TypeOK
      <3>3. /\ wstate[w] = "acquire" /\ wstate'[w] = "judge" /\ UNCHANGED loop
            /\ \A v \in Workers \ {w} : wstate'[v] = wstate[v]
        BY <2>3 DEF Acquire, Goto, TypeOK
      <3>4. workerID'[w] = c /\ \A v \in Workers \ {w} : workerID'[v] = workerID[v]
        BY <3>1 DEF TypeOK
      <3>5. \A v \in Workers : wstate'[v] = "judge" <=> workerID'[v] # NoContainer
        BY <2>0, <3>2, <3>3, <3>4 DEF ContainersInv, ContainersConserved
      <3>6. workerID[w] = NoContainer
        BY <2>0, <3>3 DEF ContainersInv, ContainersConserved
      <3>7. \A d \in Containers \ workerPool' : \E v \in Workers : workerID'[v] = d
        BY <2>0, <3>1, <3>4, <3>6, JudgeConstants DEF ContainersInv, ContainersConserved
      <3>8. \A v \in Workers : workerID'[v] \notin workerPool'
        BY <2>0, <3>1, <3>4 DEF ContainersInv, ContainersConserved
      <3>9. \A u, v \in Workers :
               u # v /\ workerID'[u] = workerID'[v] => workerID'[u] = NoContainer
        BY <2>0, <3>1, <3>4 DEF ContainersInv, ContainersConserved
      <3> QED BY <2>0, <3>3, <3>5, <3>7, <3>8, <3>9 DEF ContainersInv, ContainersConserved
    <2>4. CASE WriteResult(w) \/ WriteRetried(w) \/ WriteFailed(w)
      BY <2>4, ReleaseConserves DEF WriteResult, WriteRetried, WriteFailed
    <2> QED BY <1>5, <2>2, <2>3, <2>4 DEF WorkerStep
  <1> QED
    BY <1>1, <1>2, <1>4, <1>5 DEF Next, JudgeNext, LoopStep, Waiting

(* No return path leaks a container or gives it to two workers.            *)
THEOREM ContainersAreConserved == Spec => []ContainersConserved
  <1>1. Init => ContainersInv
    BY DEF Init, JudgeInit, ContainersInv, ContainersConserved
  <1>2. TypeOK /\ Judging /\ ContainersInv /\ [Next]_vars => ContainersInv'
    BY ContainersStep
  <1>3. ContainersInv => ContainersConserved
    BY DEF ContainersInv
  <1> QED BY <1>1, <1>2, <1>3, TypeCorrect, PTL DEF Spec

\* With as many containers as workers, an empty pool means that every worker
\* holds one, so none is left to wait.
LEMMA PoolSuffices ==
  ASSUME TypeOK, ContainersInv
  PROVE  NeverWaitsForContainer
  <1> SUFFICES ASSUME NEW w \in Workers, wstate[w] = "acquire", workerPool = {}
               PROVE  FALSE
    BY DEF NeverWaitsForContainer
  <1> DEFINE holders == {v \in Workers : workerID[v] # NoContainer}
             held == [v \in holders |-> workerID[v]]
  <1>1. loop # "down"
    BY DEF ContainersInv
  <1>2. workerID[w] = NoContainer
    BY <1>1 DEF ContainersInv, ContainersConserved
  <1>3. held \in Surjection(holders, Containers)
    <2>1. held \in [holders -> Containers]
      BY DEF TypeOK
    <2>2. \A c \in Containers : \E v \in holders : held[v] = c
      BY <1>1, JudgeConstants DEF ContainersInv, ContainersConserved
    <2> QED BY <2>1, <2>2 DEF Surjection
  <1>4. /\ IsFiniteSet(Workers \ {w})
        /\ Cardinality(Workers \ {w}) = Cardinality(Workers) - 1
        /\ Cardinality(Workers) \in Nat
    BY WorkerCount, FS_RemoveElement, FS_CardinalityType
  <1>5. IsFiniteSet(holders) /\ Cardinality(holders) <= Cardinality(Workers \ {w})
    BY <1>2, <1>4, FS_Subset
  <1>6. Cardinality(holders) \in Nat
    BY <1>5, FS_CardinalityType
  <1>7. Cardinality(Containers) <= Cardinality(holders)
    <2> HIDE DEF holders, held
    <2> QED BY <1>3, <1>5, FS_Surjection
  <1> QED BY <1>4, <1>5, <1>6, <1>7, WorkerCount

(* The receive from the container pool never blocks a worker.              *)
THEOREM NoWaitForContainer == Spec => []NeverWaitsForContainer
  <1>1. Init => ContainersInv
    BY DEF Init, JudgeInit, ContainersInv, ContainersConserved
  <1>2. TypeOK /\ Judging /\ ContainersInv /\ [Next]_vars => ContainersInv'
    BY ContainersStep
  <1>3. TypeOK /\ ContainersInv => NeverWaitsForContainer
    BY PoolSuffices
  <1> QED BY <1>1, <1>2, <1>3, TypeCorrect, PTL DEF Spec
-----------------------------------------------------------------------------
(* The offsets *)

\* Finished in the next state, for an offset that may itself be primed.
FinishedNext(o) ==
    \/ submissions'[o + 1] = Garbage
    \/ \E i \in DOMAIN results' : results'[i].id = submissions'[o + 1]

\* The topics only grow, so a finished record stays finished.
LEMMA FinishedStays ==
  ASSUME TypeOK, Judging, [Next]_vars, NEW o \in Offsets
  PROVE  /\ o \in Offsets'
         /\ submissions'[o + 1] = submissions[o + 1]
         /\ Finished(o) => FinishedNext(o)
  <1> USE DEF brokerVars, readerVars, judgeVars, vars
  <1>0. Len(submissions) \in Nat
    BY DEF TypeOK
  <1>1. ASSUME NEW r \in Record, Publish(r)
        PROVE  /\ o \in Offsets' /\ submissions'[o + 1] = submissions[o + 1]
               /\ UNCHANGED results
    BY <1>0, <1>1, SubmissionsGrow DEF Publish, Offsets
  <1>2. CASE UNCHANGED submissions /\ UNCHANGED results
    BY <1>2 DEF Offsets, SubmissionAt, Finished, FinishedNext
  <1>3. ASSUME NEW w \in Workers,
               WriteResult(w) \/ WriteRetried(w) \/ WriteFailed(w)
        PROVE  /\ UNCHANGED submissions
               /\ \A i \in DOMAIN results : i \in DOMAIN results' /\ results'[i] = results[i]
    <2>1. PICK v \in Verdicts, n \in Nat : AppendResult(w, v, n)
      BY <1>3, JudgeConstants DEF WriteResult, WriteRetried, WriteFailed
    <2>2. Busy(w) /\ SubmissionAt(wmsg[w]) # Garbage
      BY <1>3 DEF WriteResult, WriteRetried, WriteFailed, Busy, Judging
    <2> QED BY <1>3, <2>1, <2>2, ResultsGrow DEF WriteResult, WriteRetried, WriteFailed
  <1>4. CASE \E w \in Workers : WriteResult(w) \/ WriteRetried(w) \/ WriteFailed(w)
    BY <1>3, <1>4 DEF Offsets, SubmissionAt, Finished, FinishedNext
  <1>5. CASE \E r \in Record : Publish(r)
    BY <1>1, <1>5 DEF SubmissionAt, Finished, FinishedNext
  <1>6. (UNCHANGED submissions /\ UNCHANGED results)
          \/ (\E r \in Record : Publish(r))
          \/ (\E w \in Workers : WriteResult(w) \/ WriteRetried(w) \/ WriteFailed(w))
    BY DEF Next, JudgeNext, LoopStep, WorkerStep, Waiting, Start, Fetch, Send, Shutdown,
           FetchError, Crash, FlushCommits, Rebalance, Receive, Acquire, CommitMessages,
           Exit
  <1> QED BY <1>2, <1>4, <1>5, <1>6

\* The record whose result a write has just appended is finished.
LEMMA WrittenIsFinished ==
  ASSUME TypeOK, Judging, NEW w \in Workers, wstate[w] = "judge",
         NEW v \in Verdicts, NEW n \in Nat \ {0}, AppendResult(w, v, n),
         UNCHANGED submissions
  PROVE  FinishedNext(wmsg[w])
  <1> DEFINE r == [id |-> SubmissionAt(wmsg[w]), status |-> v]
             copies == [i \in 1 .. n |-> r]
  <1>1. wmsg[w] + 1 \in 1 .. Len(submissions)
    BY DEF TypeOK, Busy
  <1>2. submissions[wmsg[w] + 1] \in Record
    BY <1>1, ElementOfSeq DEF TypeOK
  <1>3. r \in Result
    BY <1>2 DEF SubmissionAt, Record, Judging, Result
  <1>4. copies \in Seq(Result) /\ Len(copies) = n /\ copies[1] = r
    BY <1>3, CopiesAreResults
  <1>5. results' = results \o copies /\ results \in Seq(Result)
    BY DEF AppendResult, TypeOK
  <1>6. Len(results) + 1 \in DOMAIN results' /\ results'[Len(results) + 1] = copies[1]
    <2> HIDE DEF copies
    <2> QED BY <1>4, <1>5
  <1> QED BY <1>4, <1>6 DEF FinishedNext, SubmissionAt

\* Inductive: what is committed, in the stash or about to be committed is one
\* past a finished record.
CommitInv ==
    /\ CommittedRecordFinished
    /\ \A w \in Workers : wstate[w] = "commit" => Finished(wmsg[w])

LEMMA CommitStep ==
  ASSUME TypeOK, Judging, CommitInv, [Next]_vars
  PROVE  CommitInv'
  <1> USE DEF brokerVars, readerVars, workerVars, judgeVars, vars
  <1> DEFINE Held(o) == o > 0 => Finished(o - 1)
             HeldNext(o) == o > 0 => FinishedNext(o - 1)
  <1>1. \A o \in 0 .. Len(submissions) : Held(o) => HeldNext(o)
    BY FinishedStays DEF Offsets, TypeOK
  <1>2. /\ committed \in 0 .. Len(submissions) /\ stash \in 0 .. Len(submissions)
        /\ Held(committed) /\ Held(stash) /\ Held(0)
    BY DEF TypeOK, CommitInv, CommittedRecordFinished
  <1>3. ASSUME HeldNext(committed'), HeldNext(stash') PROVE CommittedRecordFinished'
    BY <1>3 DEF CommittedRecordFinished, Finished, FinishedNext, SubmissionAt
  <1>4. ASSUME \A v \in Workers : wstate'[v] = "commit" => FinishedNext(wmsg'[v])
        PROVE  \A v \in Workers : (wstate[v] = "commit" => Finished(wmsg[v]))'
    BY <1>4 DEF Finished, FinishedNext, SubmissionAt
  <1>5. \A v \in Workers : wstate[v] = "commit" => FinishedNext(wmsg[v])
    BY FinishedStays DEF CommitInv, Offsets, TypeOK, Busy
  <1> HIDE DEF Held, HeldNext
  <1>6. \/ committed' = committed \/ committed' = stash
    BY DEF Next, JudgeNext, LoopStep, WorkerStep, Waiting, Publish, Start, Fetch, Send,
           Shutdown, FetchError, Crash, FlushCommits, Rebalance, FinalCommit, Receive,
           Acquire, WriteResult, WriteRetried, WriteFailed, CommitMessages, Exit
  <1>7. HeldNext(committed')
    BY <1>1, <1>2, <1>6
  <1>8. \/ stash' = stash \/ stash' = 0
        \/ \E w \in Workers : wstate[w] = "commit" /\ stash' = wmsg[w] + 1
    BY DEF Next, JudgeNext, LoopStep, WorkerStep, Waiting, Publish, Start, Fetch, Send,
           Shutdown, FetchError, Crash, FlushCommits, Rebalance, FinalCommit, Receive,
           Acquire, WriteResult, WriteRetried, WriteFailed, CommitMessages, Exit,
           MergeOffset
  <1>9. HeldNext(stash')
    <2>1. ASSUME NEW w \in Workers, wstate[w] = "commit", stash' = wmsg[w] + 1
          PROVE  HeldNext(stash')
      BY <1>5, <2>1 DEF HeldNext, TypeOK
    <2>2. 0 \in 0 .. Len(submissions)
      BY DEF TypeOK
    <2> QED BY <1>1, <1>2, <1>8, <2>1, <2>2
  <1>10. \A v \in Workers : wstate'[v] = "commit" => FinishedNext(wmsg'[v])
    <2>1. ASSUME NEW w \in Workers, Receive(w)
          PROVE  \A v \in Workers : wstate'[v] = "commit" => FinishedNext(wmsg'[v])
      <3>1. wmsg'[w] = Head(jobs) /\ UNCHANGED submissions
            /\ (wstate'[w] = "commit" => SubmissionAt(Head(jobs)) = Garbage)
        BY <2>1 DEF Receive, Goto, TypeOK
      <3>2. \A v \in Workers \ {w} : wmsg'[v] = wmsg[v] /\ wstate'[v] = wstate[v]
        BY <2>1 DEF Receive, Goto, TypeOK
      <3> QED BY <1>5, <3>1, <3>2 DEF FinishedNext, SubmissionAt
    <2>2. ASSUME NEW w \in Workers, WriteResult(w) \/ WriteRetried(w)
          PROVE  \A v \in Workers : wstate'[v] = "commit" => FinishedNext(wmsg'[v])
      <3>1. PICK u \in Verdicts, n \in Nat \ {0} : AppendResult(w, u, n)
        BY <2>2, JudgeConstants DEF WriteResult, WriteRetried
      <3>2. FinishedNext(wmsg[w])
        BY <2>2, <3>1, WrittenIsFinished DEF WriteResult, WriteRetried
      <3>3. UNCHANGED wmsg /\ \A v \in Workers \ {w} : wstate'[v] = wstate[v]
        BY <2>2 DEF WriteResult, WriteRetried, Goto, TypeOK
      <3> QED BY <1>5, <3>2, <3>3
    <2>3. CASE \A v \in Workers : wstate'[v] = "commit" =>
                                     wstate[v] = "commit" /\ wmsg'[v] = wmsg[v]
      BY <1>5, <2>3
    <2>4. CASE Shutdown \/ Crash \/ Start
      BY <2>4 DEF Shutdown, Crash, Start, Gone
    <2>5. CASE UNCHANGED workerVars
      BY <2>3, <2>5
    <2>6. ASSUME NEW w \in Workers,
                 Acquire(w) \/ WriteFailed(w) \/ CommitMessages(w) \/ Exit(w)
          PROVE  \A v \in Workers : wstate'[v] = "commit" =>
                                       wstate[v] = "commit" /\ wmsg'[v] = wmsg[v]
      BY <2>6 DEF Acquire, WriteFailed, CommitMessages, Exit, Goto, TypeOK
    <2>7. \/ Shutdown \/ Crash \/ Start \/ UNCHANGED workerVars
          \/ \E w \in Workers : WorkerStep(w)
      BY DEF Next, JudgeNext, LoopStep, Waiting, Publish, Fetch, Send, FetchError,
             FlushCommits, Rebalance
    <2> QED BY <2>1, <2>2, <2>3, <2>4, <2>5, <2>6, <2>7 DEF WorkerStep
  <1> QED BY <1>3, <1>4, <1>7, <1>9, <1>10 DEF CommitInv

(* An offset is only committed after the result of its record was written. *)
THEOREM CommitsAreFinished == Spec => []CommittedRecordFinished
  <1>1. Init => CommitInv
    BY DEF Init, JudgeInit, CommitInv, CommittedRecordFinished
  <1>2. TypeOK /\ Judging /\ CommitInv /\ [Next]_vars => CommitInv'
    BY CommitStep
  <1>3. CommitInv => CommittedRecordFinished
    BY DEF CommitInv
  <1> QED BY <1>1, <1>2, <1>3, TypeCorrect, PTL DEF Spec
-----------------------------------------------------------------------------
(* No record is skipped *)

\* Up to where the service has come: an offset below one that was read, is
\* being processed or was committed.  After a rebalance the workers may be
\* ahead of the reader, so position alone does not bound it.
Reached(o) ==
    \/ o < position \/ o < committed \/ o < stash
    \/ loop = "send" /\ o <= msg
    \/ \E i \in DOMAIN jobs : o <= jobs[i]
    \/ \E w \in Workers : Busy(w) /\ o <= wmsg[w]

NothingGivenUp == Failed("judge_crash") = 0 /\ Failed("write_error") = 0

\* Workers only leave when the channel is closed and drained.
DrainInv ==
    /\ loop = "down" => jobs = <<>> /\ \A w \in Workers : wstate[w] = "exited"
    /\ \A w \in Workers : wstate[w] = "exited" /\ loop # "down" =>
                             loop = "closed" /\ jobs = <<>>

\* Inductive.
SkipInv ==
    /\ DrainInv
    /\ NothingGivenUp =>
          \A o \in Offsets : Reached(o) => Finished(o) \/ InProcess(o)

LEMMA DrainStep ==
  ASSUME TypeOK, DrainInv, [Next]_vars
  PROVE  DrainInv'
  <1> USE DEF brokerVars, readerVars, workerVars, judgeVars, vars
  <1>1. CASE Shutdown \/ Crash
    BY <1>1 DEF Shutdown, Crash, Gone, DrainInv
  <1>2. CASE Start
    BY <1>2 DEF Start, DrainInv
  <1>3. CASE Fetch \/ Send \/ FetchError \/ FlushCommits \/ Rebalance \/ UNCHANGED vars
             \/ \E r \in Record : Publish(r)
    BY <1>3 DEF Fetch, Send, FetchError, FlushCommits, Rebalance, Publish, DrainInv
  <1>4. ASSUME NEW w \in Workers, WorkerStep(w) PROVE DrainInv'
    <2>1. CASE Receive(w)
      BY <2>1 DEF Receive, Goto, DrainInv, TypeOK
    <2>2. CASE Exit(w)
      BY <2>2 DEF Exit, Goto, DrainInv, TypeOK
    <2>3. CASE Acquire(w) \/ WriteResult(w) \/ WriteRetried(w) \/ WriteFailed(w)
               \/ CommitMessages(w)
      BY <2>3 DEF Acquire, WriteResult, WriteRetried, WriteFailed, CommitMessages, Goto,
                  DrainInv, TypeOK
    <2> QED BY <1>4, <2>1, <2>2, <2>3 DEF WorkerStep
  <1> QED BY <1>1, <1>2, <1>3, <1>4 DEF Next, JudgeNext, LoopStep, Waiting

\* A fault stays counted.
LEMMA FaultsGrow ==
  ASSUME TypeOK, [Next]_vars, NothingGivenUp'
  PROVE  NothingGivenUp /\ ~Crash /\ \A w \in Workers : ~WriteFailed(w)
  <1>1. ASSUME NEW kind, Fails(kind)
        PROVE  Failed(kind)' > 0 /\ \A k : Failed(k)' >= Failed(k) /\ Failed(k) \in Nat
    BY <1>1, FaultBudget DEF Fails, Failed, TypeOK, FaultsType
  <1>2. CASE UNCHANGED faults
    BY <1>2 DEF NothingGivenUp, Failed, Crash, WriteFailed, Fails, TypeOK, FaultsType
  <1>3. CASE Crash
    BY <1>1, <1>3 DEF Crash, NothingGivenUp
  <1>4. ASSUME NEW w \in Workers, WriteFailed(w) PROVE FALSE
    BY <1>1, <1>4 DEF WriteFailed, NothingGivenUp
  <1>5. CASE \E kind : Fails(kind)
    <2>1. NothingGivenUp
      BY <1>1, <1>5 DEF NothingGivenUp
    <2> QED BY <2>1, <1>3, <1>4
  <1>6. UNCHANGED faults \/ \E kind : Fails(kind)
    BY DEF Next, JudgeNext, LoopStep, WorkerStep, Waiting, Publish, Start, Fetch, Send,
           Shutdown, FetchError, Crash, FlushCommits, Rebalance, Receive, Acquire,
           WriteResult, WriteRetried, WriteFailed, CommitMessages, Exit, vars
  <1> QED BY <1>2, <1>5, <1>6

LEMMA SkipStep ==
  ASSUME TypeOK, Judging, CommitInv, SkipInv, [Next]_vars
  PROVE  SkipInv'
  <1> USE DEF brokerVars, readerVars, workerVars, judgeVars, vars
  <1>0. DrainInv /\ DrainInv'
    BY DrainStep DEF SkipInv
  <1> SUFFICES ASSUME NothingGivenUp', NEW o \in Offsets', Reached(o)'
               PROVE  Finished(o)' \/ InProcess(o)'
    BY <1>0 DEF SkipInv
  <1>1. NothingGivenUp /\ ~Crash /\ \A w \in Workers : ~WriteFailed(w)
    BY FaultsGrow
  <1>2. o \in Offsets
    <2>1. CASE UNCHANGED submissions
      BY <2>1 DEF Offsets
    <2>2. ASSUME NEW r \in Record, Publish(r) PROVE o \in Offsets
      <3>1. o \in 0 .. Len(submissions) /\ Len(submissions) \in Nat
        BY <2>2, SubmissionsGrow DEF Publish, Offsets, TypeOK
      <3>2. o # Len(submissions)
        BY <2>2, <3>1 DEF Publish, Reached, TypeOK, Busy
      <3> QED BY <3>1, <3>2 DEF Offsets
    <2>3. UNCHANGED submissions \/ \E r \in Record : Publish(r)
      BY DEF Next, JudgeNext, LoopStep, WorkerStep, Waiting, Start, Fetch, Send,
             Shutdown, FetchError, Crash, FlushCommits, Rebalance, Receive, Acquire,
             WriteResult, WriteRetried, WriteFailed, CommitMessages, Exit
    <2> QED BY <2>1, <2>2, <2>3
  <1>3. Finished(o) => Finished(o)'
    BY <1>2, FinishedStays DEF FinishedNext, Finished, SubmissionAt
  <1>4. Reached(o) => Finished(o) \/ InProcess(o)
    BY <1>1, <1>2 DEF SkipInv
  <1>5. o \in Nat
    BY <1>2 DEF Offsets
  <1>6. CASE Start
    <2>1. ~InProcess(o)
      BY <1>0, <1>6 DEF Start, DrainInv, InProcess, Busy
    <2>2. o < committed \/ o < stash
      BY <1>0, <1>6 DEF Start, DrainInv, Reached, Busy, TypeOK
    <2> QED BY <1>3, <1>4, <2>1, <2>2 DEF Reached
  <1>7. CASE Shutdown
    <2>1. ~InProcess(o)
      BY <1>0, <1>7, WorkerCount DEF Shutdown, DrainInv, InProcess, Busy
    <2>2. o < committed \/ o < stash
      BY <1>5, <1>7 DEF Shutdown, Gone, FinalCommit, Reached, Busy, TypeOK
    <2> QED BY <1>3, <1>4, <2>1, <2>2 DEF Reached
  <1>8. CASE Fetch
    <2>1. Reached(o) \/ o = position
      BY <1>5, <1>8 DEF Fetch, Reached, Busy, TypeOK
    <2>2. InProcess(o) => InProcess(o)'
      BY <1>8 DEF Fetch, InProcess, Busy
    <2>3. o = position => InProcess(o)'
      BY <1>8 DEF Fetch, InProcess
    <2> QED BY <1>3, <1>4, <2>1, <2>2, <2>3
  <1>9. CASE Send
    <2>0. ReaderType /\ loop = "send" /\ jobs' = Append(jobs, msg)
      BY <1>9, TypeParts DEF Send
    <2>1. Reached(o)
      BY <1>9, <2>0, AppendToJobs DEF Send, Reached, Busy
    <2>2. InProcess(o) => InProcess(o)'
      BY <1>9, <2>0, AppendToJobs DEF Send, InProcess, Busy
    <2> QED BY <1>3, <1>4, <2>1, <2>2
  <1>10. CASE \/ FetchError \/ FlushCommits \/ Rebalance \/ UNCHANGED vars
              \/ \E r \in Record : Publish(r)
    <2>1. Reached(o)
      BY <1>5, <1>10 DEF FetchError, FlushCommits, Rebalance, FinalCommit, Publish, Reached,
                         Busy, TypeOK
    <2>2. InProcess(o) => InProcess(o)'
      BY <1>10 DEF FetchError, FlushCommits, Rebalance, Publish, InProcess, Busy
    <2> QED BY <1>3, <1>4, <2>1, <2>2
  <1>11. ASSUME NEW w \in Workers, WorkerStep(w)
         PROVE  Finished(o)' \/ InProcess(o)'
    <2>1. CASE Receive(w)
      <3>0. ReaderType /\ jobs # <<>> /\ jobs' = Tail(jobs)
        BY <2>1, TypeParts DEF Receive
      <3>1. Reached(o)
        <4>1. wmsg'[w] = jobs[1] /\ \A v \in Workers \ {w} : wmsg'[v] = wmsg[v]
                                                          /\ wstate'[v] = wstate[v]
          BY <2>1, <3>0, TailOfJobs DEF Receive, Goto, TypeOK
        <4>2. UNCHANGED <<position, committed, stash, loop, msg>>
          BY <2>1 DEF Receive
        <4> QED BY <3>0, <4>1, <4>2, TailOfJobs DEF Reached, Busy
      <3>2. InProcess(o) => InProcess(o)'
        <4>1. wmsg'[w] = jobs[1] /\ Busy(w)'
          BY <2>1, <3>0, TailOfJobs DEF Receive, Goto, TypeOK, Busy
        <4>2. \A v \in Workers : Busy(v) => wmsg'[v] = wmsg[v] /\ Busy(v)'
          BY <2>1 DEF Receive, Goto, TypeOK, Busy
        <4>3. UNCHANGED <<loop, msg>>
          BY <2>1 DEF Receive
        <4>4. ASSUME NEW i \in DOMAIN jobs, jobs[i] = o
              PROVE  InProcess(o)'
          <5>1. CASE i = 1
            BY <4>1, <4>4, <5>1 DEF InProcess
          <5>2. CASE i - 1 \in DOMAIN jobs' /\ jobs'[i - 1] = jobs[i]
            BY <4>4, <5>2 DEF InProcess
          <5> QED BY <3>0, <5>1, <5>2, TailOfJobs
        <4> QED BY <4>2, <4>3, <4>4 DEF InProcess
      <3> QED BY <1>3, <1>4, <3>1, <3>2
    <2>2. CASE Acquire(w) \/ WriteResult(w) \/ WriteRetried(w) \/ Exit(w)
      <3>1. /\ UNCHANGED <<position, committed, stash, loop, msg, jobs, wmsg>>
            /\ \A v \in Workers : Busy(v)' <=> Busy(v)
        BY <2>2 DEF Acquire, WriteResult, WriteRetried, Exit, Goto, Busy, TypeOK
      <3>2. Reached(o) /\ (InProcess(o) => InProcess(o)')
        BY <3>1 DEF Reached, InProcess
      <3> QED BY <1>3, <1>4, <3>2
    <2>3. CASE CommitMessages(w)
      <3>1. /\ UNCHANGED <<position, committed, loop, msg, jobs>>
            /\ wstate[w] = "commit" /\ Busy(w) /\ ~Busy(w)'
            /\ \A v \in Workers \ {w} : wmsg'[v] = wmsg[v] /\ (Busy(v)' <=> Busy(v))
            /\ stash' = stash \/ stash' = wmsg[w] + 1
        BY <2>3 DEF CommitMessages, MergeOffset, Goto, Busy, TypeOK
      <3>2. Reached(o)
        BY <1>5, <3>1 DEF Reached, TypeOK
      <3>3. InProcess(o) => InProcess(o)' \/ Finished(o)
        BY <3>1 DEF InProcess, CommitInv
      <3> QED BY <1>3, <1>4, <3>2, <3>3
    <2> QED BY <1>1, <1>11, <2>1, <2>2, <2>3 DEF WorkerStep
  <1> QED
    BY <1>1, <1>6, <1>7, <1>8, <1>9, <1>10, <1>11 DEF Next, JudgeNext, LoopStep, Waiting

(* Unless the process is killed or a result write fails, every record that *)
(* was read is finished or on its way.                                     *)
THEOREM NothingIsSkipped == Spec => []NoRecordSkipped
  <1>1. Init => CommitInv /\ SkipInv
    BY DEF Init, JudgeInit, CommitInv, CommittedRecordFinished, SkipInv, DrainInv, Offsets
  <1>2. TypeOK /\ Judging /\ CommitInv /\ SkipInv /\ [Next]_vars => (CommitInv /\ SkipInv)'
    BY CommitStep, SkipStep
  <1>3. TypeOK /\ SkipInv => NoRecordSkipped
    BY DEF SkipInv, NothingGivenUp, NoRecordSkipped, Reached, Offsets, TypeOK
  <1> QED BY <1>1, <1>2, <1>3, TypeCorrect, PTL DEF Spec
-----------------------------------------------------------------------------
(* What may be lost *)

\* The records that workers have received and not done with.
Held == {wmsg[w] : w \in {v \in Workers : Busy(v)}}

Unfinished(n) == {o \in 0 .. (n - 1) : ~Finished(o)}

\* Below n, neither finished nor with a worker.
Dropped(n) == Unfinished(n) \ Held

Others == Cardinality(Workers) - 1

\* What kills and failed writes account for.
GivenUp == Failed("judge_crash") * Others + Failed("write_error")

\* Every record below the frontier H was received in this life or passed over
\* by an earlier one; the channel and the reader go on from there without a gap,
\* though a rebalance may take them back.
Frontier(H) ==
    /\ committed <= H /\ stash <= H
    /\ \A w \in Workers : Busy(w) => wmsg[w] < H
    /\ \A i \in DOMAIN jobs :
          jobs[i] <= H \/ \E j \in DOMAIN jobs : j < i /\ jobs[j] = jobs[i] - 1
    /\ loop = "send" => msg <= H \/ \E j \in DOMAIN jobs : jobs[j] = msg - 1
    /\ \/ position <= H
       \/ \E j \in DOMAIN jobs : jobs[j] = position - 1
       \/ loop = "send" /\ msg = position - 1

\* When the last record below the frontier was received, its worker held no
\* other: at most the others' records were unfinished.
Counted(H) ==
    /\ Cardinality(Dropped(H)) <= GivenUp
    /\ Cardinality(Unfinished(H - 1)) <= GivenUp + Others

LossInv == \E H \in 0 .. Len(submissions) : Frontier(H) /\ Counted(H)

LEMMA Times ==
  ASSUME NEW m \in Nat, NEW a \in Nat, NEW b \in Nat
  PROVE  /\ a * m \in Nat
         /\ a <= b => a * m <= b * m
         /\ (a + 1) * m = a * m + m
  <1>1. a * m \in Nat /\ (a + 1) * m = a * m + m
    OBVIOUS
  <1>2. ASSUME a <= b PROVE a * m <= b * m
    <2>1. PICK c \in Nat : b = a + c
      <3>1. b - a \in Nat /\ b = a + (b - a)
        BY <1>2
      <3> QED BY <3>1
    <2>2. c * m \in Nat /\ b * m = a * m + c * m
      BY <2>1
    <2> QED BY <1>1, <2>2
  <1> QED BY <1>1, <1>2

LEMMA OthersType == Others \in Nat
  BY WorkerCount, FS_EmptySet, FS_CardinalityType DEF Others

\* The faults a step adds to those that account for losses.
LEMMA GivenUpGrows ==
  ASSUME TypeOK, [Next]_vars
  PROVE  /\ GivenUp \in Nat /\ GivenUp' \in Nat /\ GivenUp <= GivenUp'
         /\ Crash => GivenUp' = GivenUp + Others
         /\ \A w \in Workers : WriteFailed(w) => GivenUp' = GivenUp + 1
  <1> DEFINE k == Failed("judge_crash")
             n == Failed("write_error")
  <1>1. k \in Nat /\ n \in Nat
    BY FaultBudget DEF Failed, TypeOK, FaultsType
  <1>2. ASSUME NEW kind, Fails(kind)
        PROVE  /\ k' = IF kind = "judge_crash" THEN k + 1 ELSE k
               /\ n' = IF kind = "write_error" THEN n + 1 ELSE n
    BY <1>2, FaultBudget DEF Fails, Failed, TypeOK, FaultsType
  <1>4. UNCHANGED faults \/ \E kind : Fails(kind)
    BY DEF Next, JudgeNext, LoopStep, WorkerStep, Waiting, Publish, Start, Fetch, Send,
           Shutdown, FetchError, Crash, FlushCommits, Rebalance, Receive, Acquire,
           WriteResult, WriteRetried, WriteFailed, CommitMessages, Exit, vars
  <1>5. k' \in Nat /\ n' \in Nat /\ k <= k' /\ n <= n'
    <2>1. CASE UNCHANGED faults
      BY <1>1, <2>1 DEF Failed
    <2>2. CASE \E kind : Fails(kind)
      BY <1>1, <1>2, <2>2
    <2> QED BY <1>4, <2>1, <2>2
  <1>6. Crash => k' = k + 1 /\ n' = n
    BY <1>2 DEF Crash
  <1>7. \A w \in Workers : WriteFailed(w) => k' = k /\ n' = n + 1
    BY <1>2 DEF WriteFailed
  <1>8. GivenUp = k * Others + n /\ GivenUp' = k' * Others + n'
    BY DEF GivenUp, Others
  <1> HIDE DEF k, n
  <1>9. /\ k * Others \in Nat /\ k' * Others \in Nat
        /\ k * Others <= k' * Others
        /\ (k + 1) * Others = k * Others + Others
    BY <1>1, <1>5, OthersType, Times
  <1>10. Crash => GivenUp' = GivenUp + Others
    <2> SUFFICES ASSUME Crash PROVE GivenUp' = GivenUp + Others
      OBVIOUS
    <2>1. k' * Others = k * Others + Others
      BY <1>6, <1>9
    <2> QED BY <1>1, <1>6, <1>8, <1>9, <2>1, OthersType
  <1>11. \A w \in Workers : WriteFailed(w) => GivenUp' = GivenUp + 1
    BY <1>1, <1>7, <1>8, <1>9
  <1>12. GivenUp \in Nat /\ GivenUp' \in Nat /\ GivenUp <= GivenUp'
    <2> HIDE DEF GivenUp
    <2> QED BY <1>1, <1>5, <1>8, <1>9
  <1> QED BY <1>10, <1>11, <1>12

\* Sets of offsets are finite, and a smaller one has no more elements.
LEMMA OffsetSets ==
  ASSUME NEW n \in Int, NEW T, T \subseteq 0 .. (n - 1), NEW S, S \subseteq T
  PROVE  /\ IsFiniteSet(T) /\ IsFiniteSet(S)
         /\ Cardinality(T) \in Nat /\ Cardinality(S) \in Nat
         /\ Cardinality(S) <= Cardinality(T)
  <1>1. IsFiniteSet(0 .. (n - 1))
    BY FS_Interval
  <1>2. IsFiniteSet(T)
    BY <1>1, FS_Subset
  <1>3. IsFiniteSet(S) /\ Cardinality(S) <= Cardinality(T)
    BY <1>2, FS_Subset
  <1> QED BY <1>2, <1>3, FS_CardinalityType

LEMMA UnfinishedShrinks ==
  ASSUME TypeOK, Judging, [Next]_vars, NEW n \in Int, n <= Len(submissions)
  PROVE  Unfinished(n)' \subseteq Unfinished(n)
  <1> SUFFICES ASSUME NEW o \in 0 .. (n - 1), Finished(o) PROVE Finished(o)'
    BY DEF Unfinished
  <1>1. o \in Offsets
    BY DEF Offsets, TypeOK
  <1> QED BY <1>1, FinishedStays DEF FinishedNext, Finished, SubmissionAt

\* A step that drops nothing below the frontier keeps the count.
LEMMA CountKept ==
  ASSUME TypeOK, Judging, [Next]_vars, NEW H \in 0 .. Len(submissions), Counted(H),
         \A o \in Unfinished(H)' : o \in Held => o \in Held'
  PROVE  Counted(H)'
  <1>0. H \in Int /\ H - 1 \in Int /\ H - 1 <= Len(submissions) /\ H <= Len(submissions)
    BY DEF TypeOK
  <1>1. Dropped(H)' \subseteq Dropped(H) /\ Dropped(H) \subseteq 0 .. (H - 1)
    <2>1. Unfinished(H)' \subseteq Unfinished(H)
      BY <1>0, UnfinishedShrinks
    <2> QED BY <2>1 DEF Dropped, Unfinished
  <1>2. Unfinished(H - 1)' \subseteq Unfinished(H - 1)
        /\ Unfinished(H - 1) \subseteq 0 .. ((H - 1) - 1)
    <2>1. Unfinished(H - 1)' \subseteq Unfinished(H - 1)
      BY <1>0, UnfinishedShrinks
    <2> QED BY <2>1 DEF Unfinished
  <1>3. /\ Cardinality(Dropped(H)') <= Cardinality(Dropped(H))
        /\ Cardinality(Dropped(H)') \in Nat /\ Cardinality(Dropped(H)) \in Nat
    BY <1>0, <1>1, OffsetSets
  <1>4. /\ Cardinality(Unfinished(H - 1)') <= Cardinality(Unfinished(H - 1))
        /\ Cardinality(Unfinished(H - 1)') \in Nat /\ Cardinality(Unfinished(H - 1)) \in Nat
    <2>1. ASSUME NEW S, S = Unfinished(H - 1)', NEW T, T = Unfinished(H - 1)
          PROVE  Cardinality(S) <= Cardinality(T) /\ Cardinality(S) \in Nat /\ Cardinality(T) \in Nat
      BY <1>0, <1>2, <2>1, OffsetSets
    <2> QED BY <2>1
  <1>5. /\ GivenUp <= GivenUp' /\ GivenUp \in Nat /\ GivenUp' \in Nat
        /\ Others \in Nat /\ Others' = Others
    BY GivenUpGrows, OthersType DEF Others
  <1> QED BY <1>3, <1>4, <1>5 DEF Counted

\* A record that is committed at the frontier is finished, so what is lost was
\* below the last record that was received.
LEMMA LostIsCounted ==
  ASSUME TypeOK, CommitInv, NEW H \in 0 .. Len(submissions), Frontier(H), Counted(H)
  PROVE  /\ Cardinality(Unfinished(committed)) \in Nat
         /\ Cardinality(Unfinished(committed)) <= GivenUp + Others
  <1>1. committed \in Nat /\ committed <= H /\ H \in Nat
    BY DEF TypeOK, Frontier
  <1>2. Unfinished(committed) \subseteq Unfinished(H - 1)
    <2> SUFFICES ASSUME NEW o \in 0 .. (committed - 1), ~Finished(o), o \notin 0 .. ((H - 1) - 1)
                 PROVE  FALSE
      BY DEF Unfinished
    <2>1. o = committed - 1 /\ committed > 0
      BY <1>1
    <2> QED BY <2>1 DEF CommitInv, CommittedRecordFinished
  <1>3. Unfinished(H - 1) \subseteq 0 .. ((H - 1) - 1) /\ H - 1 \in Int
    BY <1>1 DEF Unfinished
  <1>4. /\ Cardinality(Unfinished(committed)) <= Cardinality(Unfinished(H - 1))
        /\ Cardinality(Unfinished(committed)) \in Nat
        /\ Cardinality(Unfinished(H - 1)) \in Nat
    BY <1>2, <1>3, OffsetSets
  <1>5. GivenUp \in Nat
    <2>1. Failed("judge_crash") \in Nat /\ Failed("write_error") \in Nat
      BY FaultBudget DEF Failed, TypeOK, FaultsType
    <2> QED BY <2>1, OthersType, Times DEF GivenUp
  <1> QED BY <1>4, <1>5, OthersType DEF Counted

\* A step that leaves the reader's side alone, or only takes it back, keeps the
\* frontier where it is.
LEMMA FrontierKept ==
  ASSUME TypeOK, CommitInv, DrainInv, [Next]_vars,
         NEW H \in 0 .. Len(submissions), Frontier(H), ~Crash,
         \A w \in Workers : Receive(w) => Head(jobs) # H
  PROVE  H \in 0 .. Len(submissions') /\ Frontier(H)'
  <1> USE DEF brokerVars, readerVars, workerVars, judgeVars, vars
  <1>0. H \in Nat /\ Len(submissions) \in Nat
    BY DEF TypeOK
  <1>1. ASSUME UNCHANGED <<committed, stash, jobs, loop, msg, position>>,
               \A w \in Workers : Busy(w)' => Busy(w) /\ wmsg'[w] = wmsg[w]
        PROVE  Frontier(H)'
    BY <1>1 DEF Frontier
  <1>2. ASSUME NEW r \in Record, Publish(r)
        PROVE  H \in 0 .. Len(submissions') /\ Frontier(H)'
    <2>1. Len(submissions') = Len(submissions) + 1
      BY <1>2, SubmissionsGrow DEF Publish
    <2>2. Frontier(H)'
      BY <1>0, <1>2, <2>1 DEF Publish, Frontier, Busy
    <2> QED BY <1>0, <2>1, <2>2
  <1>3. CASE Start
    <2>1. jobs = <<>> /\ UNCHANGED <<committed, stash, jobs, submissions>>
          /\ position' = committed /\ loop' = "fetch"
      BY <1>3 DEF Start, DrainInv
    <2>2. \A w \in Workers : ~Busy(w)'
      BY <1>3 DEF Start, Busy
    <2>3. DOMAIN jobs = {}
      BY <2>1
    <2> QED BY <2>1, <2>2, <2>3 DEF Frontier
  <1>4. CASE Shutdown
    <2>1. /\ committed' <= H /\ stash' = 0 /\ position' = 0 /\ jobs' = <<>> /\ loop' = "down"
          /\ UNCHANGED submissions /\ \A w \in Workers : ~Busy(w)'
      BY <1>4 DEF Shutdown, FinalCommit, Gone, Frontier, Busy
    <2>2. DOMAIN jobs' = {}
      BY <2>1
    <2> QED BY <1>0, <2>1, <2>2 DEF Frontier
  <1>5. CASE Fetch
    <2>1. /\ UNCHANGED <<submissions, committed, stash, jobs, wstate, wmsg>>
          /\ loop = "fetch" /\ loop' = "send" /\ msg' = position
          /\ position' = position + 1
      BY <1>5 DEF Fetch
    <2>2. position \in Nat
      BY DEF TypeOK
    <2> QED BY <2>1, <2>2 DEF Frontier, Busy
  <1>6. CASE Send
    <2>1. ReaderType /\ loop = "send" /\ jobs' = Append(jobs, msg)
      BY <1>6, TypeParts DEF Send
    <2>2. /\ UNCHANGED <<submissions, committed, stash, position, wstate, wmsg>>
          /\ loop' = "fetch"
      BY <1>6 DEF Send
    <2>3. /\ DOMAIN jobs = 1 .. Len(jobs) /\ DOMAIN jobs' = 1 .. (Len(jobs) + 1)
          /\ Len(jobs) \in Nat /\ jobs'[Len(jobs) + 1] = msg
          /\ \A i \in DOMAIN jobs : jobs'[i] = jobs[i]
      BY <2>1 DEF ReaderType
    <2>4. ASSUME NEW i \in DOMAIN jobs'
          PROVE  jobs'[i] <= H \/ \E j \in DOMAIN jobs' : j < i /\ jobs'[j] = jobs'[i] - 1
      <3>1. CASE i \in DOMAIN jobs
        BY <2>3, <3>1 DEF Frontier
      <3>2. CASE i = Len(jobs) + 1
        <4>1. jobs'[i] = msg /\ \A j \in DOMAIN jobs : j < i /\ j \in DOMAIN jobs'
          BY <2>3, <3>2
        <4>2. msg <= H \/ \E j \in DOMAIN jobs : jobs[j] = msg - 1
          BY <2>1 DEF Frontier
        <4> QED BY <2>3, <4>1, <4>2
      <3> QED BY <2>3, <3>1, <3>2
    <2>5. \/ position <= H
          \/ \E j \in DOMAIN jobs' : jobs'[j] = position - 1
      BY <2>3 DEF Frontier
    <2> QED BY <2>2, <2>4, <2>5 DEF Frontier, Busy
  <1>7. CASE FetchError \/ UNCHANGED vars
    BY <1>7 DEF FetchError, Frontier, Busy
  <1>8. CASE FlushCommits
    BY <1>0, <1>8 DEF FlushCommits, Frontier, Busy
  <1>9. CASE Rebalance
    <2>1. /\ UNCHANGED <<submissions, jobs, wstate, wmsg, loop, msg>>
          /\ committed' <= H /\ stash' = 0 /\ position' = committed'
      BY <1>9 DEF Rebalance, FinalCommit, Frontier
    <2> QED BY <1>0, <2>1 DEF Frontier, Busy
  <1>10. ASSUME NEW w \in Workers, WorkerStep(w)
         PROVE  Frontier(H)' /\ UNCHANGED submissions
    <2>1. CASE Receive(w)
      <3>1. ReaderType /\ jobs # <<>> /\ jobs' = Tail(jobs)
        BY <2>1, TypeParts DEF Receive
      <3>2. jobs[1] < H
        <4>1. DOMAIN jobs \subseteq Nat \ {0} /\ 1 \in DOMAIN jobs /\ jobs[1] \in Nat
          BY <3>1, TailOfJobs DEF ReaderType
        <4>2. jobs[1] <= H
          BY <4>1 DEF Frontier
        <4> QED BY <1>0, <2>1, <3>1, <4>1, <4>2, TailOfJobs
      <3>3. /\ UNCHANGED <<submissions, committed, stash, position, loop, msg>>
            /\ wmsg'[w] = jobs[1]
            /\ \A v \in Workers \ {w} : wmsg'[v] = wmsg[v] /\ wstate'[v] = wstate[v]
        BY <2>1, <3>1, TailOfJobs DEF Receive, Goto, TypeOK
      <3>4. \A v \in Workers : Busy(v)' => wmsg'[v] < H
        BY <3>2, <3>3 DEF Busy, Frontier
      <3>5. /\ DOMAIN jobs = 1 .. Len(jobs) /\ Len(jobs) \in Nat
            /\ DOMAIN jobs' = 1 .. (Len(jobs) - 1)
            /\ \A i \in DOMAIN jobs : jobs[i] \in Nat
        BY <3>1 DEF ReaderType
      <3>51. /\ \A i \in DOMAIN jobs' : i + 1 \in DOMAIN jobs /\ jobs'[i] = jobs[i + 1]
             /\ \A i \in DOMAIN jobs : i = 1 \/ (i - 1 \in DOMAIN jobs' /\ jobs'[i - 1] = jobs[i])
        BY <3>1, TailOfJobs
      <3>6. \A n \in Int : (\E j \in DOMAIN jobs : jobs[j] = n - 1)
                              => n <= H \/ \E j \in DOMAIN jobs' : jobs'[j] = n - 1
        BY <1>0, <3>2, <3>5, <3>51
      <3>7. ASSUME NEW i \in DOMAIN jobs'
            PROVE  jobs'[i] <= H \/ \E j \in DOMAIN jobs' : j < i /\ jobs'[j] = jobs'[i] - 1
        <4>1. i + 1 \in DOMAIN jobs /\ jobs'[i] = jobs[i + 1] /\ i \in Nat
          BY <3>5, <3>51
        <4>2. CASE jobs[i + 1] <= H
          BY <4>1, <4>2
        <4>3. ASSUME NEW j \in DOMAIN jobs, j < i + 1, jobs[j] = jobs[i + 1] - 1
              PROVE  jobs'[i] <= H \/ \E k \in DOMAIN jobs' : k < i /\ jobs'[k] = jobs'[i] - 1
          <5>1. CASE j = 1
            BY <1>0, <3>2, <3>5, <4>1, <4>3, <5>1
          <5>2. CASE j - 1 \in DOMAIN jobs' /\ jobs'[j - 1] = jobs[j]
            BY <3>5, <4>1, <4>3, <5>2
          <5> QED BY <3>51, <5>1, <5>2
        <4> QED BY <4>1, <4>2, <4>3 DEF Frontier
      <3>8. msg \in Int /\ position \in Int
        BY DEF TypeOK
      <3>9. loop = "send" => msg <= H \/ \E j \in DOMAIN jobs' : jobs'[j] = msg - 1
        BY <3>6, <3>8 DEF Frontier
      <3>10. \/ position <= H
             \/ \E j \in DOMAIN jobs' : jobs'[j] = position - 1
             \/ loop = "send" /\ msg = position - 1
        BY <3>6, <3>8 DEF Frontier
      <3> QED BY <3>3, <3>4, <3>7, <3>9, <3>10 DEF Frontier
    <2>2. CASE Acquire(w) \/ WriteResult(w) \/ WriteRetried(w) \/ WriteFailed(w) \/ Exit(w)
      <3>1. /\ UNCHANGED <<submissions, committed, stash, jobs, loop, msg, position>>
            /\ \A v \in Workers : Busy(v)' => Busy(v) /\ wmsg'[v] = wmsg[v]
        BY <2>2 DEF Acquire, WriteResult, WriteRetried, WriteFailed, Exit, Goto, Busy, TypeOK
      <3> QED BY <1>1, <3>1
    <2>3. CASE CommitMessages(w)
      <3>1. /\ UNCHANGED <<submissions, committed, jobs, loop, msg, position>>
            /\ stash' = stash \/ stash' = wmsg[w] + 1
            /\ wmsg[w] \in Nat /\ Busy(w)
            /\ \A v \in Workers : Busy(v)' => Busy(v) /\ wmsg'[v] = wmsg[v]
        BY <2>3 DEF CommitMessages, MergeOffset, Goto, Busy, TypeOK
      <3>2. stash' <= H
        BY <1>0, <3>1 DEF Frontier
      <3> QED BY <3>1, <3>2 DEF Frontier
    <2> QED BY <1>10, <2>1, <2>2, <2>3 DEF WorkerStep
  <1>11. CASE UNCHANGED submissions /\ Frontier(H)'
    BY <1>11
  <1> QED
    BY <1>2, <1>3, <1>4, <1>5, <1>6, <1>7, <1>8, <1>9, <1>10, <1>11
    DEF Next, JudgeNext, LoopStep, Waiting, Start, Shutdown, Fetch, Send, FetchError,
        FlushCommits, Rebalance

\* A worker that receives is free, so the others hold all that is held.
LEMMA HeldByOthers ==
  ASSUME TypeOK, NEW w \in Workers, ~Busy(w)
  PROVE  /\ IsFiniteSet(Held)
         /\ Cardinality(Held) \in Nat
         /\ Cardinality(Held) <= Others
  <1> DEFINE busy == {v \in Workers : Busy(v)}
             f == [v \in busy |-> wmsg[v]]
  <1>1. busy \subseteq Workers \ {w}
    OBVIOUS
  <1>2. /\ IsFiniteSet(Workers \ {w}) /\ Cardinality(Workers \ {w}) = Others
    BY WorkerCount, FS_RemoveElement DEF Others
  <1>3. /\ IsFiniteSet(busy) /\ Cardinality(busy) <= Others
    BY <1>1, <1>2, FS_Subset
  <1>4. f \in Surjection(busy, Held)
    BY DEF Surjection, Held
  <1>5. IsFiniteSet(Held) /\ Cardinality(Held) <= Cardinality(busy)
    <2> HIDE DEF busy, f
    <2> QED BY <1>3, <1>4, FS_Surjection
  <1>6. Cardinality(Held) \in Nat /\ Cardinality(busy) \in Nat
    BY <1>3, <1>5, FS_CardinalityType
  <1> QED BY <1>3, <1>5, <1>6, OthersType

\* Receiving the record at the frontier moves the frontier past it.
LEMMA FrontierMoves ==
  ASSUME TypeOK, NEW H \in 0 .. Len(submissions), Frontier(H),
         NEW w \in Workers, Receive(w), Head(jobs) = H
  PROVE  H + 1 \in 0 .. Len(submissions') /\ Frontier(H + 1)'
  <1>0. H \in Nat /\ Len(submissions) \in Nat
    BY DEF TypeOK
  <1>1. ReaderType /\ jobs # <<>> /\ jobs' = Tail(jobs)
    BY TypeParts DEF Receive
  <1>2. jobs[1] = H /\ 1 \in DOMAIN jobs /\ H < Len(submissions)
    BY <1>1, TailOfJobs DEF ReaderType
  <1>3. /\ UNCHANGED <<submissions, committed, stash, position, loop, msg>>
        /\ wmsg'[w] = H
        /\ \A v \in Workers \ {w} : wmsg'[v] = wmsg[v] /\ wstate'[v] = wstate[v]
    BY DEF Receive, Goto, TypeOK, brokerVars
  <1>4. /\ committed \in Nat /\ stash \in Nat /\ wmsg \in [Workers -> Nat]
        /\ msg \in Int /\ position \in Int
    BY DEF TypeOK
  <1>5. /\ committed <= H + 1 /\ stash <= H + 1
        /\ \A v \in Workers : Busy(v)' => wmsg'[v] < H + 1
    BY <1>0, <1>3, <1>4 DEF Frontier, Busy
  <1>6. /\ DOMAIN jobs = 1 .. Len(jobs) /\ Len(jobs) \in Nat
        /\ DOMAIN jobs' = 1 .. (Len(jobs) - 1)
        /\ \A i \in DOMAIN jobs : jobs[i] \in Nat
    BY <1>1 DEF ReaderType
  <1>7. /\ \A i \in DOMAIN jobs' : i + 1 \in DOMAIN jobs /\ jobs'[i] = jobs[i + 1]
        /\ \A i \in DOMAIN jobs : i = 1 \/ (i - 1 \in DOMAIN jobs' /\ jobs'[i - 1] = jobs[i])
    BY <1>1, TailOfJobs
  <1>8. \A n \in Int : n <= H \/ (\E j \in DOMAIN jobs : jobs[j] = n - 1)
                          => n <= H + 1 \/ \E j \in DOMAIN jobs' : jobs'[j] = n - 1
    BY <1>0, <1>2, <1>6, <1>7
  <1>9. ASSUME NEW i \in DOMAIN jobs'
        PROVE  jobs'[i] <= H + 1 \/ \E j \in DOMAIN jobs' : j < i /\ jobs'[j] = jobs'[i] - 1
    <2>1. i + 1 \in DOMAIN jobs /\ jobs'[i] = jobs[i + 1] /\ i \in Nat /\ jobs[i + 1] \in Nat
      BY <1>6, <1>7
    <2>2. CASE jobs[i + 1] <= H
      BY <1>0, <2>1, <2>2
    <2>3. ASSUME NEW j \in DOMAIN jobs, j < i + 1, jobs[j] = jobs[i + 1] - 1
          PROVE  jobs'[i] <= H + 1 \/ \E k \in DOMAIN jobs' : k < i /\ jobs'[k] = jobs'[i] - 1
      <3>1. CASE j = 1
        BY <1>0, <1>2, <2>1, <2>3, <3>1
      <3>2. CASE j - 1 \in DOMAIN jobs' /\ jobs'[j - 1] = jobs[j]
        BY <1>6, <2>1, <2>3, <3>2
      <3> QED BY <1>7, <3>1, <3>2
    <2> QED BY <2>1, <2>2, <2>3 DEF Frontier
  <1>10. loop = "send" => msg <= H + 1 \/ \E j \in DOMAIN jobs' : jobs'[j] = msg - 1
    BY <1>4, <1>8 DEF Frontier
  <1>11. \/ position <= H + 1
         \/ \E j \in DOMAIN jobs' : jobs'[j] = position - 1
         \/ loop = "send" /\ msg = position - 1
    BY <1>4, <1>8 DEF Frontier
  <1> QED BY <1>0, <1>2, <1>3, <1>5, <1>9, <1>10, <1>11 DEF Frontier

\* What was dropped before is all that is dropped, and the rest that is
\* unfinished is with the other workers.
LEMMA CountMoves ==
  ASSUME TypeOK, Judging, [Next]_vars, NEW H \in 0 .. Len(submissions), Counted(H),
         NEW w \in Workers, Receive(w), Head(jobs) = H
  PROVE  Counted(H + 1)'
  <1>0. H \in Int /\ H \in Nat /\ H <= Len(submissions) /\ (H + 1) - 1 = H
    BY DEF TypeOK
  <1>1. /\ wmsg'[w] = H /\ Busy(w)' /\ ~Busy(w)
        /\ \A v \in Workers \ {w} : wmsg'[v] = wmsg[v] /\ wstate'[v] = wstate[v]
    BY DEF Receive, Goto, TypeOK, Busy
  <1>2. Held \subseteq Held' /\ H \in Held'
    BY <1>1 DEF Held, Busy
  <1>3. Unfinished(H)' \subseteq Unfinished(H)
    BY <1>0, UnfinishedShrinks
  <1>4. Dropped(H) \subseteq 0 .. (H - 1)
    BY DEF Dropped, Unfinished
  <1>5. Dropped(H + 1)' \subseteq Dropped(H)
    <2> SUFFICES ASSUME NEW o \in 0 .. ((H + 1) - 1), ~Finished(o)', o \notin Held'
                 PROVE  o \in Dropped(H)
      BY DEF Dropped, Unfinished
    <2>1. o \in 0 .. (H - 1)
      BY <1>0, <1>2
    <2>2. o \in Unfinished(H)'
      BY <2>1 DEF Unfinished
    <2> QED BY <1>2, <1>3, <2>2 DEF Dropped
  <1>6. /\ IsFiniteSet(Dropped(H)) /\ Cardinality(Dropped(H)) \in Nat
        /\ Cardinality(Dropped(H + 1)') <= Cardinality(Dropped(H))
        /\ Cardinality(Dropped(H + 1)') \in Nat
    BY <1>0, <1>4, <1>5, OffsetSets
  <1>7. Unfinished(H)' \subseteq Dropped(H) \cup Held
    BY <1>3 DEF Dropped
  <1>8. IsFiniteSet(Held) /\ Cardinality(Held) \in Nat /\ Cardinality(Held) <= Others
    BY <1>1, HeldByOthers
  <1>9. /\ IsFiniteSet(Dropped(H) \cup Held)
        /\ Cardinality(Dropped(H) \cup Held) <= Cardinality(Dropped(H)) + Cardinality(Held)
    <2>1. /\ IsFiniteSet(Dropped(H) \cup Held) /\ IsFiniteSet(Dropped(H) \cap Held)
          /\ Cardinality(Dropped(H) \cup Held) = Cardinality(Dropped(H)) + Cardinality(Held)
                                                   - Cardinality(Dropped(H) \cap Held)
      BY <1>6, <1>8, FS_Union, FS_Intersection
    <2> QED BY <1>6, <1>8, <2>1, FS_CardinalityType
  <1>10. /\ Cardinality(Unfinished(H)') <= Cardinality(Dropped(H) \cup Held)
         /\ Cardinality(Unfinished(H)') \in Nat
         /\ Cardinality(Dropped(H) \cup Held) \in Nat
    BY <1>7, <1>9, FS_Subset, FS_CardinalityType
  <1>11. /\ GivenUp <= GivenUp' /\ GivenUp \in Nat /\ GivenUp' \in Nat
         /\ Others \in Nat /\ Others' = Others
    BY GivenUpGrows, OthersType DEF Others
  <1>12. Unfinished((H + 1) - 1)' = Unfinished(H)'
    BY <1>0
  <1> QED BY <1>6, <1>8, <1>9, <1>10, <1>11, <1>12 DEF Counted

\* A write that fails drops one record, and is counted.
LEMMA CountFailed ==
  ASSUME TypeOK, Judging, [Next]_vars, NEW H \in 0 .. Len(submissions), Counted(H),
         NEW w \in Workers, WriteFailed(w)
  PROVE  Counted(H)'
  <1>0. H \in Int /\ H - 1 \in Int /\ H - 1 <= Len(submissions) /\ H <= Len(submissions)
    BY DEF TypeOK
  <1>1. Held \subseteq Held' \cup {wmsg[w]}
    <2>1. \A v \in Workers \ {w} : wmsg'[v] = wmsg[v] /\ wstate'[v] = wstate[v]
      BY DEF WriteFailed, Goto, TypeOK
    <2> QED BY <2>1 DEF Held, Busy
  <1>2. Unfinished(H)' \subseteq Unfinished(H)
    BY <1>0, UnfinishedShrinks
  <1>3. Dropped(H)' \subseteq Dropped(H) \cup {wmsg[w]}
    BY <1>1, <1>2 DEF Dropped
  <1>4. Dropped(H) \subseteq 0 .. (H - 1)
    BY DEF Dropped, Unfinished
  <1>5. IsFiniteSet(Dropped(H)) /\ Cardinality(Dropped(H)) \in Nat
    BY <1>0, <1>4, OffsetSets
  <1>6. /\ IsFiniteSet(Dropped(H) \cup {wmsg[w]})
        /\ Cardinality(Dropped(H) \cup {wmsg[w]}) <= Cardinality(Dropped(H)) + 1
        /\ Cardinality(Dropped(H) \cup {wmsg[w]}) \in Nat
    <2>1. CASE wmsg[w] \in Dropped(H)
      <3>1. Dropped(H) \cup {wmsg[w]} = Dropped(H)
        BY <2>1
      <3>2. \A n \in Nat : n <= n + 1
        OBVIOUS
      <3> QED BY <1>5, <3>1, <3>2, Zenon
    <2>2. CASE wmsg[w] \notin Dropped(H)
      <3>1. /\ IsFiniteSet(Dropped(H) \cup {wmsg[w]})
            /\ Cardinality(Dropped(H) \cup {wmsg[w]}) = Cardinality(Dropped(H)) + 1
        BY <1>5, <2>2, FS_AddElement
      <3> QED BY <1>5, <3>1
    <2> QED BY <2>1, <2>2
  <1>7. /\ Cardinality(Dropped(H)') <= Cardinality(Dropped(H) \cup {wmsg[w]})
        /\ Cardinality(Dropped(H)') \in Nat
    BY <1>3, <1>6, FS_Subset, FS_CardinalityType
  <1>8. /\ Cardinality(Unfinished(H - 1)') <= Cardinality(Unfinished(H - 1))
        /\ Cardinality(Unfinished(H - 1)') \in Nat /\ Cardinality(Unfinished(H - 1)) \in Nat
    <2>1. ASSUME NEW S, S = Unfinished(H - 1)', NEW T, T = Unfinished(H - 1)
          PROVE  Cardinality(S) <= Cardinality(T) /\ Cardinality(S) \in Nat /\ Cardinality(T) \in Nat
      <3>1. S \subseteq T
        BY <1>0, <2>1, UnfinishedShrinks
      <3>2. T \subseteq 0 .. ((H - 1) - 1)
        BY <2>1 DEF Unfinished
      <3> QED BY <1>0, <3>1, <3>2, OffsetSets
    <2> QED BY <2>1
  <1>9. /\ GivenUp' = GivenUp + 1 /\ GivenUp \in Nat
        /\ Others \in Nat /\ Others' = Others
    BY GivenUpGrows, OthersType DEF Others
  <1> QED BY <1>5, <1>6, <1>7, <1>8, <1>9 DEF Counted

\* After a kill the next life starts at the committed offset; what is unfinished
\* below it stays unread, and the others of the killed life account for it.
LEMMA CountKilled ==
  ASSUME TypeOK, Judging, CommitInv, [Next]_vars, Crash,
         NEW H \in 0 .. Len(submissions), Frontier(H), Counted(H)
  PROVE  committed \in 0 .. Len(submissions') /\ Frontier(committed)' /\ Counted(committed)'
  <1>1. /\ UNCHANGED <<submissions, results, committed>> /\ stash' = 0 /\ position' = 0
        /\ jobs' = <<>> /\ loop' = "down" /\ \A w \in Workers : ~Busy(w)'
    BY DEF Crash, Gone, brokerVars, Busy
  <1>2. committed \in Nat /\ committed \in 0 .. Len(submissions) /\ DOMAIN jobs' = {}
    BY <1>1 DEF TypeOK
  <1>3. Frontier(committed)'
    BY <1>1, <1>2 DEF Frontier
  <1>4. /\ Unfinished(committed)' = Unfinished(committed)
        /\ Unfinished(committed - 1)' = Unfinished(committed - 1)
    BY <1>1 DEF Unfinished, Finished, SubmissionAt
  <1>5. /\ Dropped(committed)' \subseteq Unfinished(committed)
        /\ Unfinished(committed - 1)' \subseteq Unfinished(committed)
        /\ Unfinished(committed) \subseteq 0 .. (committed - 1)
    BY <1>2, <1>4 DEF Dropped, Unfinished
  <1>6. /\ Cardinality(Dropped(committed)') <= Cardinality(Unfinished(committed))
        /\ Cardinality(Dropped(committed)') \in Nat
        /\ Cardinality(Unfinished(committed - 1)') <= Cardinality(Unfinished(committed))
        /\ Cardinality(Unfinished(committed - 1)') \in Nat
        /\ Cardinality(Unfinished(committed)) \in Nat
    <2>1. ASSUME NEW S, S \subseteq Unfinished(committed)
          PROVE  /\ Cardinality(S) <= Cardinality(Unfinished(committed))
                 /\ Cardinality(S) \in Nat /\ Cardinality(Unfinished(committed)) \in Nat
      <3>1. committed \in Int
        BY <1>2
      <3>2. PICK T : T = Unfinished(committed)
        OBVIOUS
      <3> QED BY <1>5, <2>1, <3>1, <3>2, OffsetSets
    <2> QED BY <1>5, <2>1
  <1>7. Cardinality(Unfinished(committed)) <= GivenUp + Others
    BY LostIsCounted
  <1>8. /\ GivenUp' = GivenUp + Others /\ GivenUp \in Nat
        /\ Others \in Nat /\ Others' = Others
    BY GivenUpGrows, OthersType DEF Others
  <1> QED BY <1>1, <1>2, <1>3, <1>6, <1>7, <1>8 DEF Counted

LEMMA LossStep ==
  ASSUME TypeOK, Judging, CommitInv, DrainInv, LossInv, [Next]_vars
  PROVE  LossInv'
  <1>1. PICK H \in 0 .. Len(submissions) : Frontier(H) /\ Counted(H)
    BY DEF LossInv
  <1>2. CASE Crash
    <2>1. committed \in 0 .. Len(submissions') /\ Frontier(committed)' /\ Counted(committed)'
      BY <1>1, <1>2, CountKilled
    <2>2. UNCHANGED committed
      BY <1>2 DEF Crash, brokerVars
    <2> QED BY <2>1, <2>2 DEF LossInv
  <1>3. ASSUME NEW w \in Workers, Receive(w), Head(jobs) = H
        PROVE  LossInv'
    BY <1>1, <1>3, FrontierMoves, CountMoves DEF LossInv
  <1>4. CASE ~Crash /\ \A w \in Workers : Receive(w) => Head(jobs) # H
    <2>1. H \in 0 .. Len(submissions') /\ Frontier(H)'
      BY <1>1, <1>4, FrontierKept
    <2>2. ASSUME NEW w \in Workers, WriteFailed(w) PROVE Counted(H)'
      BY <1>1, <2>2, CountFailed
    <2>3. ASSUME \A w \in Workers : ~WriteFailed(w) PROVE Counted(H)'
      <3>1. ASSUME NEW o \in Unfinished(H)', NEW v \in Workers, Busy(v), o = wmsg[v]
            PROVE  Busy(v)' /\ wmsg'[v] = wmsg[v]
        <4>1. ~FinishedNext(wmsg[v])
          BY <3>1 DEF Unfinished, Finished, FinishedNext, SubmissionAt
        <4>2. ASSUME NEW w \in Workers, CommitMessages(w)
              PROVE  v # w /\ Busy(v)' /\ wmsg'[v] = wmsg[v]
          <5>1. Finished(wmsg[w])
            BY <4>2 DEF CommitMessages, CommitInv
          <5>2. FinishedNext(wmsg[w])
            <6>1. wmsg[w] \in Offsets
              BY <4>2 DEF CommitMessages, TypeOK, Busy, Offsets
            <6> QED BY <5>1, <6>1, FinishedStays
          <5> QED BY <3>1, <4>1, <4>2, <5>2 DEF CommitMessages, Goto, Busy, TypeOK
        <4>3. ASSUME NEW w \in Workers, WorkerStep(w)
              PROVE  Busy(v)' /\ wmsg'[v] = wmsg[v]
          BY <2>3, <3>1, <4>2, <4>3
          DEF WorkerStep, Receive, Acquire, WriteResult, WriteRetried, Exit, Goto, Busy, TypeOK
        <4>4. ~Start /\ ~Shutdown
          BY <3>1 DEF DrainInv, Start, Shutdown, Busy
        <4> QED BY <1>4, <3>1, <4>3, <4>4
            DEF Next, JudgeNext, LoopStep, Waiting, Publish, Fetch, Send, FetchError,
                FlushCommits, Rebalance, judgeVars, workerVars, vars, Busy
      <3>2. \A o \in Unfinished(H)' : o \in Held => o \in Held'
        BY <3>1 DEF Held
      <3> QED BY <1>1, <3>2, CountKept
    <2>4. Counted(H)'
      BY <2>2, <2>3
    <2> QED BY <2>1, <2>4 DEF LossInv
  <1> QED BY <1>2, <1>3, <1>4

LEMMA LossInvBounds ==
  ASSUME TypeOK, CommitInv, LossInv
  PROVE  LossBounded
  <1>1. PICK H \in 0 .. Len(submissions) : Frontier(H) /\ Counted(H)
    BY DEF LossInv
  <1>2. Cardinality(Unfinished(committed)) <= GivenUp + Others
    BY <1>1, LostIsCounted
  <1>3. Failed("judge_crash") \in Nat /\ Failed("write_error") \in Nat
    BY FaultBudget DEF Failed, TypeOK, FaultsType
  <1>4. /\ Failed("judge_crash") * Others \in Nat /\ Others \in Nat
        /\ (Failed("judge_crash") + 1) * Others = Failed("judge_crash") * Others + Others
    BY <1>3, OthersType, Times
  <1>5. GivenUp + Others = (Failed("judge_crash") + 1) * Others + Failed("write_error")
    <2> HIDE DEF Others
    <2> QED BY <1>3, <1>4 DEF GivenUp
  <1>6. Lost = Unfinished(committed)
    BY DEF Lost, Unfinished
  <1> QED BY <1>2, <1>5, <1>6 DEF LossBounded, Others

(* A restart skips at most the records that the other workers held, once   *)
(* for each life of the process and once more for each write that failed.  *)
THEOREM LossIsBounded == Spec => []LossBounded
  <1>1. Init => CommitInv /\ DrainInv /\ LossInv
    <2> SUFFICES ASSUME Init PROVE CommitInv /\ DrainInv /\ LossInv
      OBVIOUS
    <2>1. CommitInv /\ DrainInv
      BY DEF Init, JudgeInit, CommitInv, CommittedRecordFinished, DrainInv
    <2>2. TypeOK /\ 0 \in 0 .. Len(submissions)
      BY InitTypes DEF TypeOK
    <2>3. Frontier(0)
      BY DEF Init, JudgeInit, Frontier, Busy
    <2>4. /\ Dropped(0) = {} /\ Unfinished(0 - 1) = {}
      BY DEF Dropped, Unfinished
    <2>5. Cardinality({}) = 0
      BY FS_EmptySet
    <2>6. GivenUp \in Nat /\ Others \in Nat
      <3>1. Failed("judge_crash") \in Nat /\ Failed("write_error") \in Nat
        BY <2>2, FaultBudget DEF Failed, TypeOK, FaultsType
      <3> QED BY <3>1, OthersType, Times DEF GivenUp
    <2>7. Cardinality(Dropped(0)) = 0 /\ Cardinality(Unfinished(0 - 1)) = 0
      BY <2>4, <2>5
    <2>8. Counted(0)
      BY <2>6, <2>7 DEF Counted
    <2> QED BY <2>1, <2>2, <2>3, <2>8 DEF LossInv
  <1>2. TypeOK /\ Judging /\ CommitInv /\ DrainInv /\ LossInv /\ [Next]_vars
          => (CommitInv /\ DrainInv /\ LossInv)'
    BY CommitStep, DrainStep, LossStep
  <1>3. TypeOK /\ CommitInv /\ LossInv => LossBounded
    BY LossInvBounds
  <1> QED BY <1>1, <1>2, <1>3, TypeCorrect, PTL DEF Spec
-----------------------------------------------------------------------------
(* No result twice *)

NoFaults == \A k \in DOMAIN MaxFaults : Failed(k) = 0

\* Records whose result is still to be written.
Pending(o) ==
    \/ loop = "send" /\ msg = o
    \/ \E i \in DOMAIN jobs : jobs[i] = o
    \/ \E w \in Workers : wstate[w] \in {"acquire", "judge"} /\ wmsg[w] = o

\* Until a fault closes the channel the process only goes on from its first start.
FirstLife ==
    /\ loop # "closed"
    /\ loop = "down" => /\ committed = 0 /\ stash = 0 /\ position = 0
                        /\ results = <<>> /\ jobs = <<>>
                        /\ \A w \in Workers : wstate[w] = "exited"

\* A record that was read is at one place only.
OnePlace ==
    /\ loop = "send" =>
          /\ msg < position
          /\ \A i \in DOMAIN jobs : jobs[i] # msg
          /\ \A w \in Workers : Busy(w) => wmsg[w] # msg
    /\ \A i \in DOMAIN jobs :
          /\ jobs[i] < position
          /\ \A j \in DOMAIN jobs : jobs[i] = jobs[j] => i = j
          /\ \A w \in Workers : Busy(w) => wmsg[w] # jobs[i]
    /\ \A w \in Workers : Busy(w) =>
          /\ wmsg[w] < position
          /\ \A v \in Workers : Busy(v) /\ wmsg[v] = wmsg[w] => v = w

\* f maps every result to the record it was written for: another one each, that
\* was read and is not pending any more.
Origin(f) ==
    /\ f \in [DOMAIN results -> Nat]
    /\ \A i \in DOMAIN results :
          /\ f[i] < position
          /\ SubmissionAt(f[i]) = results[i].id
          /\ ~Pending(f[i])
    /\ \A i, j \in DOMAIN results : f[i] = f[j] => i = j

\* Inductive.
OnceInv == NoFaults => FirstLife /\ OnePlace /\ \E f : Origin(f)

\* A step into a state without faults is no fault and starts in one.
LEMMA NoFaultStep ==
  ASSUME TypeOK, [Next]_vars, NoFaults'
  PROVE  /\ NoFaults
         /\ ~FetchError /\ ~Crash /\ ~Rebalance
         /\ \A w \in Workers : ~WriteRetried(w) /\ ~WriteFailed(w)
  <1>1. ASSUME NEW kind, Fails(kind) PROVE FALSE
    <2>1. kind \in DOMAIN MaxFaults /\ Failed(kind)' > 0
      BY <1>1, FaultBudget DEF Fails, Failed, TypeOK, FaultsType
    <2> QED BY <2>1 DEF NoFaults
  <1>2. UNCHANGED faults \/ \E kind : Fails(kind)
    BY DEF Next, JudgeNext, LoopStep, WorkerStep, Waiting, Publish, Start, Fetch, Send,
           Shutdown, FetchError, Crash, FlushCommits, Rebalance, Receive, Acquire,
           WriteResult, WriteRetried, WriteFailed, CommitMessages, Exit, vars
  <1>3. NoFaults
    BY <1>1, <1>2 DEF NoFaults, Failed
  <1> QED BY <1>1, <1>3 DEF FetchError, Crash, Rebalance, WriteRetried, WriteFailed

\* An origin stays one while the results stay and nothing becomes pending again.
LEMMA OriginKept ==
  ASSUME TypeOK, NEW f, Origin(f), UNCHANGED results, position <= position',
         position' \in Nat,
         \A o \in Offsets : submissions'[o + 1] = submissions[o + 1],
         \A o \in 0 .. (position - 1) : Pending(o)' => Pending(o)
  PROVE  Origin(f)'
  <1>1. ASSUME NEW i \in DOMAIN results
        PROVE  f[i] \in Nat /\ f[i] < position' /\ f[i] \in Offsets /\ f[i] \in 0 .. (position - 1)
    BY DEF Origin, TypeOK, Offsets
  <1>2. ASSUME NEW i \in DOMAIN results
        PROVE  submissions'[f[i] + 1] = results'[i].id
    BY <1>1 DEF Origin, SubmissionAt
  <1> QED BY <1>1, <1>2 DEF Origin, SubmissionAt, Pending

\* The result of a judging worker gets its record as origin.
LEMMA OriginOfWrite ==
  ASSUME TypeOK, Judging, OnePlace, NEW f, Origin(f), NEW w \in Workers, WriteResult(w)
  PROVE  \E g : Origin(g)'
  <1>1. PICK v \in Verdicts : AppendResult(w, v, 1)
    BY DEF WriteResult
  <1> DEFINE r == [id |-> SubmissionAt(wmsg[w]), status |-> v]
             n == Len(results) + 1
             g == [i \in 1 .. n |-> IF i = n THEN wmsg[w] ELSE f[i]]
  <1>2. /\ wstate[w] = "judge" /\ Busy(w) /\ wmsg[w] \in Nat
        /\ UNCHANGED <<submissions, position, loop, msg, jobs, wmsg>>
        /\ wstate'[w] = "commit" /\ \A u \in Workers \ {w} : wstate'[u] = wstate[u]
    BY DEF WriteResult, Goto, Busy, TypeOK, readerVars
  <1>3. /\ results' \in Seq(Result)
        /\ \A i \in DOMAIN results : results'[i] = results[i]
    BY <1>1, <1>2, ResultsGrow DEF Judging
  <1>4. /\ DOMAIN results = 1 .. Len(results) /\ Len(results) \in Nat
        /\ DOMAIN results' = 1 .. n /\ results'[n].id = SubmissionAt(wmsg[w])
    <2>1. results \in Seq(Result) /\ results' = results \o [i \in 1 .. 1 |-> r]
      BY <1>1 DEF TypeOK, AppendResult
    <2>2. wmsg[w] + 1 \in 1 .. Len(submissions)
      BY <1>2 DEF TypeOK
    <2>3. submissions[wmsg[w] + 1] \in Record
      BY <2>2, ElementOfSeq DEF TypeOK
    <2>4. r \in Result
      BY <1>2, <2>3 DEF SubmissionAt, Record, Judging, Result
    <2>5. [i \in 1 .. 1 |-> r] \in Seq(Result) /\ Len([i \in 1 .. 1 |-> r]) = 1
          /\ [i \in 1 .. 1 |-> r][1] = r
      BY <2>4, CopiesAreResults
    <2> DEFINE s == [i \in 1 .. 1 |-> r]
    <2>6. s \in Seq(Result) /\ Len(s) = 1 /\ s[1] = r /\ results' = results \o s
      BY <2>1, <2>5
    <2> HIDE DEF s, r
    <2>7. /\ DOMAIN results = 1 .. Len(results) /\ Len(results) \in Nat
          /\ DOMAIN results' = 1 .. n /\ results'[n] = r
      BY <2>1, <2>6
    <2> QED BY <2>7 DEF r
  <1>5. Pending(wmsg[w])
    BY <1>2 DEF Pending
  <1>6. \A o : Pending(o)' => Pending(o) /\ o # wmsg[w]
    <2>1. ASSUME NEW u \in Workers, wstate'[u] \in {"acquire", "judge"}
          PROVE  u # w /\ Busy(u) /\ wmsg[u] # wmsg[w]
      BY <1>2, <2>1 DEF OnePlace, Busy
    <2> QED BY <1>2, <2>1 DEF Pending, OnePlace
  <1>7. /\ g \in [DOMAIN results' -> Nat]
        /\ g[n] = wmsg[w] /\ n \in DOMAIN results'
        /\ \A i \in DOMAIN results' : i = n \/ (i \in DOMAIN results /\ g[i] = f[i])
    BY <1>2, <1>4 DEF Origin
  <1> HIDE DEF g, n
  <1>8. ASSUME NEW i \in DOMAIN results'
        PROVE  /\ g[i] < position'
               /\ submissions'[g[i] + 1] = results'[i].id
               /\ \A o : o = g[i] => ~Pending(o)'
    <2>1. CASE i = n
      <3>1. wmsg[w] < position
        BY <1>2 DEF OnePlace
      <3> QED BY <1>2, <1>4, <1>6, <1>7, <2>1, <3>1 DEF SubmissionAt
    <2>2. CASE i \in DOMAIN results /\ g[i] = f[i]
      BY <1>2, <1>3, <1>6, <2>2 DEF Origin, SubmissionAt
    <2> QED BY <1>7, <2>1, <2>2
  <1>9. \A i \in DOMAIN results : f[i] # wmsg[w]
    BY <1>5 DEF Origin
  <1>10. ASSUME NEW i \in DOMAIN results', NEW j \in DOMAIN results', g[i] = g[j]
         PROVE  i = j
    BY <1>7, <1>9, <1>10 DEF Origin
  <1>11. PICK h : h = g
    OBVIOUS
  <1>12. Origin(h)'
    BY <1>7, <1>8, <1>10, <1>11 DEF Origin, SubmissionAt, Pending
  <1> QED BY <1>12

\* Nothing but a fetch and the move from place to place changes where records are.
LEMMA OnceStep ==
  ASSUME TypeOK, Judging, OnceInv, [Next]_vars
  PROVE  OnceInv'
  <1> USE DEF brokerVars, readerVars, workerVars, judgeVars, vars
  <1> SUFFICES ASSUME NoFaults' PROVE FirstLife' /\ OnePlace' /\ \E f : Origin(f)'
    BY DEF OnceInv
  <1>1. /\ NoFaults /\ ~FetchError /\ ~Crash /\ ~Rebalance
        /\ \A w \in Workers : ~WriteRetried(w) /\ ~WriteFailed(w)
    BY NoFaultStep
  <1>2. FirstLife /\ OnePlace /\ \E f : Origin(f)
    BY <1>1 DEF OnceInv
  <1>3. PICK f : Origin(f)
    BY <1>2
  <1>4. position \in Nat /\ Len(submissions) \in Nat
    BY DEF TypeOK
  <1>5. ASSUME NEW r \in Record, Publish(r)
        PROVE  FirstLife' /\ OnePlace' /\ \E g : Origin(g)'
    <2>1. FirstLife' /\ OnePlace'
      BY <1>2, <1>5 DEF Publish, FirstLife, OnePlace, Busy
    <2>2. \A o \in Offsets : submissions'[o + 1] = submissions[o + 1]
      BY <1>5, SubmissionsGrow DEF Publish
    <2>3. UNCHANGED <<results, position>> /\ \A o : Pending(o)' <=> Pending(o)
      BY <1>5 DEF Publish, Pending
    <2> QED BY <1>3, <1>4, <2>1, <2>2, <2>3, OriginKept
  <1>6. CASE Start
    <2>1. /\ results = <<>> /\ jobs = <<>> /\ position = 0 /\ position' = 0
          /\ UNCHANGED <<submissions, results, jobs>> /\ loop' = "fetch"
          /\ \A w \in Workers : wstate'[w] = "idle"
      BY <1>2, <1>6 DEF Start, FirstLife
    <2>2. DOMAIN jobs = {}
      BY <2>1
    <2>3. FirstLife' /\ OnePlace'
      BY <2>1, <2>2 DEF FirstLife, OnePlace, Busy
    <2>4. \A o : ~Pending(o)'
      BY <2>1, <2>2 DEF Pending
    <2> QED BY <1>3, <1>4, <2>1, <2>3, <2>4, OriginKept
  <1>7. CASE Shutdown
    BY <1>2, <1>7 DEF Shutdown, FirstLife
  <1>8. CASE Fetch
    <2>1. /\ UNCHANGED <<submissions, results, jobs, wstate, wmsg>>
          /\ loop = "fetch" /\ loop' = "send" /\ msg' = position
          /\ position' = position + 1
      BY <1>8 DEF Fetch
    <2>2. FirstLife'
      BY <2>1 DEF FirstLife
    <2>3. OnePlace'
      <3>1. /\ \A i \in DOMAIN jobs : jobs[i] \in Nat /\ jobs[i] < position
            /\ \A w \in Workers : wmsg[w] \in Nat /\ (Busy(w) => wmsg[w] < position)
        BY <1>2 DEF OnePlace, TypeOK
      <3> QED BY <1>2, <1>4, <2>1, <3>1 DEF OnePlace, Busy
    <2>4. \A o \in 0 .. (position - 1) : Pending(o)' => Pending(o)
      BY <1>4, <2>1 DEF Pending
    <2> QED BY <1>3, <1>4, <2>1, <2>2, <2>3, <2>4, OriginKept
  <1>9. CASE Send
    <2>1. ReaderType /\ loop = "send" /\ jobs' = Append(jobs, msg)
      BY <1>9, TypeParts DEF Send
    <2>2. /\ UNCHANGED <<submissions, results, position, wstate, wmsg>>
          /\ loop' = "fetch"
      BY <1>9 DEF Send
    <2>3. /\ DOMAIN jobs = 1 .. Len(jobs) /\ DOMAIN jobs' = 1 .. (Len(jobs) + 1)
          /\ Len(jobs) \in Nat /\ jobs'[Len(jobs) + 1] = msg
          /\ \A i \in DOMAIN jobs : jobs'[i] = jobs[i]
      BY <2>1 DEF ReaderType
    <2>4. \A i \in DOMAIN jobs' : i \in DOMAIN jobs \/ i = Len(jobs) + 1
      BY <2>3
    <2>5. FirstLife'
      BY <2>2 DEF FirstLife
    <2>6. OnePlace'
      BY <1>2, <2>1, <2>2, <2>3, <2>4 DEF OnePlace, Busy
    <2>7. \A o : Pending(o)' => Pending(o)
      BY <2>1, <2>2, <2>3, <2>4 DEF Pending
    <2> QED BY <1>3, <1>4, <2>2, <2>5, <2>6, <2>7, OriginKept
  <1>10. CASE FlushCommits \/ UNCHANGED vars
    <2>1. /\ UNCHANGED <<submissions, results, position, loop, msg, jobs, wstate, wmsg>>
          /\ loop # "down" \/ UNCHANGED <<committed, stash>>
      BY <1>2, <1>10 DEF FlushCommits, FirstLife
    <2>2. FirstLife' /\ OnePlace'
      BY <1>2, <2>1 DEF FirstLife, OnePlace, Busy
    <2>3. \A o : Pending(o)' <=> Pending(o)
      BY <2>1 DEF Pending
    <2> QED BY <1>3, <1>4, <2>1, <2>2, <2>3, OriginKept
  <1>11. ASSUME NEW w \in Workers, WorkerStep(w)
         PROVE  FirstLife' /\ OnePlace' /\ \E g : Origin(g)'
    <2>0. FirstLife'
      BY <1>2, <1>11 DEF FirstLife, WorkerStep, Receive, Acquire, WriteResult, WriteRetried,
                         WriteFailed, CommitMessages, Exit
    <2>1. CASE Receive(w)
      <3>1. ReaderType /\ jobs # <<>> /\ jobs' = Tail(jobs)
        BY <2>1, TypeParts DEF Receive
      <3>2. /\ UNCHANGED <<submissions, results, position, loop, msg>>
            /\ wmsg'[w] = jobs[1] /\ 1 \in DOMAIN jobs
            /\ \A v \in Workers \ {w} : wmsg'[v] = wmsg[v] /\ wstate'[v] = wstate[v]
        BY <2>1, <3>1, TailOfJobs DEF Receive, Goto, TypeOK
      <3>3. \A i \in DOMAIN jobs' : /\ i + 1 \in DOMAIN jobs /\ jobs'[i] = jobs[i + 1]
                                   /\ i \in Nat /\ i + 1 # 1
        <4>1. DOMAIN jobs' = 1 .. Len(jobs')  /\ Len(jobs') \in Nat
          BY <3>1, TailOfJobs, LenProperties
        <4> QED BY <3>1, <4>1, TailOfJobs
      <3>4. OnePlace'
        <4>1. loop = "send" =>
                 /\ msg < position
                 /\ \A i \in DOMAIN jobs' : jobs'[i] # msg
                 /\ \A v \in Workers : Busy(v)' => wmsg'[v] # msg
          BY <1>2, <3>2, <3>3 DEF OnePlace, Busy
        <4>2. ASSUME NEW i \in DOMAIN jobs'
              PROVE  /\ jobs'[i] < position
                     /\ \A j \in DOMAIN jobs' : jobs'[i] = jobs'[j] => i = j
                     /\ \A v \in Workers : Busy(v)' => wmsg'[v] # jobs'[i]
          <5>1. ASSUME NEW j \in DOMAIN jobs', jobs'[i] = jobs'[j] PROVE i = j
            <6>1. i + 1 = j + 1
              BY <1>2, <3>3, <5>1 DEF OnePlace
            <6> QED BY <3>3, <6>1
          <5> QED BY <1>2, <3>2, <3>3, <5>1 DEF OnePlace, Busy
        <4>3. \A v \in Workers : Busy(v)' =>
                 /\ wmsg'[v] < position
                 /\ \A u \in Workers : Busy(u)' /\ wmsg'[u] = wmsg'[v] => u = v
          BY <1>2, <3>2 DEF OnePlace, Busy
        <4> QED BY <3>2, <4>1, <4>2, <4>3 DEF OnePlace
      <3>5. \A o : Pending(o)' => Pending(o)
        BY <3>2, <3>3 DEF Pending
      <3> QED BY <1>3, <1>4, <2>0, <3>2, <3>4, <3>5, OriginKept
    <2>2. CASE Acquire(w) \/ CommitMessages(w) \/ Exit(w)
      <3>1. /\ UNCHANGED <<submissions, results, position, loop, msg, jobs>>
            /\ \A v \in Workers :
                  /\ Busy(v)' => Busy(v) /\ wmsg'[v] = wmsg[v]
                  /\ wstate'[v] \in {"acquire", "judge"} => wstate[v] \in {"acquire", "judge"}
        BY <2>2 DEF Acquire, CommitMessages, Exit, Goto, Busy, TypeOK
      <3>2. OnePlace'
        BY <1>2, <3>1 DEF OnePlace
      <3>3. \A o : Pending(o)' => Pending(o)
        BY <3>1 DEF Pending, Busy
      <3> QED BY <1>3, <1>4, <2>0, <3>1, <3>2, <3>3, OriginKept
    <2>3. CASE WriteResult(w)
      <3>1. OnePlace'
        <4>1. /\ UNCHANGED <<position, loop, msg, jobs, wmsg>>
              /\ \A v \in Workers : Busy(v)' <=> Busy(v)
          BY <2>3 DEF WriteResult, Goto, Busy, TypeOK
        <4> QED BY <1>2, <4>1 DEF OnePlace
      <3> QED BY <1>2, <1>3, <2>0, <2>3, <3>1, OriginOfWrite
    <2> QED BY <1>1, <1>11, <2>1, <2>2, <2>3 DEF WorkerStep
  <1> QED
    BY <1>1, <1>5, <1>6, <1>7, <1>8, <1>9, <1>10, <1>11
    DEF Next, JudgeNext, LoopStep, Waiting

\* An injection from the results of an id into its records.
LEMMA OriginCounts ==
  ASSUME TypeOK, OnceInv
  PROVE  NoDuplicateResult
  <1> SUFFICES ASSUME NoFaults, NEW id \in Ids
               PROVE  Cardinality({i \in DOMAIN results : results[i].id = id})
                         <= Cardinality({o \in Offsets : SubmissionAt(o) = id})
    BY DEF NoDuplicateResult, NoFaults
  <1>1. PICK f : Origin(f)
    BY DEF OnceInv
  <1> DEFINE S == {i \in DOMAIN results : results[i].id = id}
             T == {o \in Offsets : SubmissionAt(o) = id}
             g == [i \in S |-> f[i]]
  <1>2. \A i \in DOMAIN results : f[i] \in Offsets
    BY <1>1 DEF Origin, TypeOK, Offsets
  <1>3. g \in Injection(S, T)
    <2>1. g \in [S -> T]
      BY <1>1, <1>2 DEF Origin
    <2>2. \A i, j \in S : g[i] = g[j] => i = j
      BY <1>1 DEF Origin
    <2> QED BY <2>1, <2>2 DEF Injection, IsInjective
  <1>4. IsFiniteSet(T)
    <2>1. Len(submissions) \in Int /\ T \subseteq 0 .. (Len(submissions) - 1)
      BY DEF TypeOK, Offsets
    <2> QED BY <2>1, OffsetSets
  <1> HIDE DEF S, T, g
  <1>5. Cardinality(S) <= Cardinality(T)
    BY <1>3, <1>4, FS_Injection
  <1> QED BY <1>5 DEF S, T

(* Without faults a submission gets no more results than it has records.   *)
THEOREM NoResultTwice == Spec => []NoDuplicateResult
  <1>1. Init => OnceInv
    <2> SUFFICES ASSUME Init PROVE OnceInv
      OBVIOUS
    <2>1. /\ loop = "down" /\ results = <<>> /\ jobs = <<>> /\ position = 0 /\ committed = 0
          /\ stash = 0 /\ \A w \in Workers : wstate[w] = "exited"
      BY DEF Init, JudgeInit
    <2>2. DOMAIN jobs = {} /\ DOMAIN results = {}
      BY <2>1
    <2>3. FirstLife /\ OnePlace
      BY <2>1, <2>2 DEF FirstLife, OnePlace, Busy
    <2>4. Origin([i \in {} |-> 0])
      BY <2>2 DEF Origin
    <2> QED BY <2>3, <2>4 DEF OnceInv
  <1>2. TypeOK /\ Judging /\ OnceInv /\ [Next]_vars => OnceInv'
    BY OnceStep
  <1>3. TypeOK /\ OnceInv => NoDuplicateResult
    BY OriginCounts
  <1> QED BY <1>1, <1>2, <1>3, TypeCorrect, PTL DEF Spec

=============================================================================
