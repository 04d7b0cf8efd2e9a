---------------------------- MODULE JudgeService ----------------------------
(***************************************************************************)
(* judge_service: a Kafka consumer that fetches submission events, hands   *)
(* them through a bounded channel to a set of worker goroutines, judges    *)
(* each one in a Docker container borrowed from a pool, writes a result    *)
(* event and commits the offset of the submission.                         *)
(*   cmd/app/app.go                     the fetch loop and the workers     *)
(*   internal/handler/kafka_consumer.go decoding of an event               *)
(*   internal/service/service.go        ProcessSubmission, container pool  *)
(* What judge() computes is a nondeterministic verdict here.  Offsets are  *)
(* 0-based, as in Kafka: the record at offset o is submissions[o + 1].     *)
(***************************************************************************)
EXTENDS Faults, Integers, Sequences, FiniteSets

CONSTANTS
    Ids,          \* submission ids
    Garbage,      \* a record whose value does not decode to a SubmissionEvent
    Verdicts,     \* statuses judge() returns
    Workers,      \* worker goroutines (cfg.WorkerCount of them)
    Containers,   \* ids of the pre-started worker containers
    NoContainer,  \* workerID of a goroutine that holds no container
    MaxRecords,   \* bound: length of the submission topic
    MaxAttempts   \* kafka.Writer's MaxAttempts

ASSUME JudgeConstants ==
    /\ Garbage \notin Ids
    /\ NoContainer \notin Containers
    /\ MaxRecords \in Nat
    /\ MaxAttempts \in Nat \ {0}

\* NewService starts cfg.WorkerCount containers and Run that many goroutines;
\* ConfigInit replaces a count that is not positive by 1.
ASSUME WorkerCount ==
    /\ IsFiniteSet(Workers) /\ Workers # {}
    /\ IsFiniteSet(Containers)
    /\ Cardinality(Containers) = Cardinality(Workers)

VARIABLES
    submissions,  \* the submission topic (one partition), append only
    results,      \* the result topic, append only
    committed,    \* the offset the broker holds for the consumer group
    stash,        \* CommitMessages' merged offset not yet flushed; 0 is none
    position,     \* the offset FetchMessage reads next
    loop,         \* "down" | "fetch" | "send" | "closed": the fetch loop
    msg,          \* the record fetched and not yet sent (loop = "send")
    jobs,         \* the channel between the fetch loop and the workers
    wstate,       \* "idle" | "acquire" | "judge" | "commit" | "exited"
    wmsg,         \* the offset of the record each worker is processing
    workerID,     \* the container each worker holds
    workerPool    \* the free containers

brokerVars == <<submissions, results, committed>>
readerVars == <<stash, position, loop, msg, jobs>>
workerVars == <<wstate, wmsg, workerID, workerPool>>
judgeVars  == <<readerVars, workerVars, committed>>
vars       == <<brokerVars, readerVars, workerVars, faults>>

Record  == Ids \cup {Garbage}
Result  == [id : Ids, status : Verdicts]
Offsets == 0 .. (Len(submissions) - 1)

SubmissionAt(o) == submissions[o + 1]
-----------------------------------------------------------------------------
(* The consumer group offset, as kafka-go keeps it with CommitInterval > 0 *)

\* offsetStash.merge: only the highest offset of the interval is kept.
MergeOffset(old, offset) == IF offset > old THEN offset ELSE old

\* A commit loop that ends, at a rebalance or on Close, tries one last flush.
FinalCommit ==
    /\ committed' \in (IF stash = 0 THEN {committed} ELSE {committed, stash})
    /\ stash' = 0
-----------------------------------------------------------------------------
JudgeInit ==
    /\ committed = 0
    /\ stash = 0
    /\ position = 0
    /\ loop = "down"
    /\ msg = 0
    /\ jobs = <<>>
    /\ wstate = [w \in Workers |-> "exited"]
    /\ wmsg = [w \in Workers |-> 0]
    /\ workerID = [w \in Workers |-> NoContainer]
    /\ workerPool = {}

Init ==
    /\ submissions = <<>>
    /\ results = <<>>
    /\ JudgeInit
    /\ FaultsInit

(* Environment: submission_service appends an event.  The same id may be   *)
(* written twice when an acknowledgement is lost.                          *)
Publish(r) ==
    /\ Len(submissions) < MaxRecords
    /\ submissions' = Append(submissions, r)
    /\ UNCHANGED <<results, judgeVars, faults>>
-----------------------------------------------------------------------------
(* The process *)

\* NewService and Run: fresh containers fill the pool, the workers start on
\* an empty channel, and the reader resumes from the broker's offset.
Start ==
    /\ loop = "down"
    /\ loop' = "fetch"
    /\ position' = committed
    /\ wstate' = [w \in Workers |-> "idle"]
    /\ workerPool' = Containers
    /\ UNCHANGED <<brokerVars, stash, msg, jobs, wmsg, workerID, faults>>

\* The state of a process that is gone: only the topics and the broker's
\* offset outlive it.
Gone ==
    /\ loop' = "down"
    /\ position' = 0
    /\ msg' = 0
    /\ jobs' = <<>>
    /\ wstate' = [w \in Workers |-> "exited"]
    /\ wmsg' = [w \in Workers |-> 0]
    /\ workerID' = [w \in Workers |-> NoContainer]
    /\ workerPool' = {}

\* Run returns after wg.Wait: the deferred Close flushes the stash, main exits
\* and compose restarts it.
Shutdown ==
    /\ loop = "closed"
    /\ \A w \in Workers : wstate[w] = "exited"
    /\ FinalCommit
    /\ Gone
    /\ UNCHANGED <<submissions, results, faults>>

\* The process is killed: nothing is flushed.
Crash ==
    /\ loop # "down"
    /\ Fails("judge_crash")
    /\ stash' = 0
    /\ Gone
    /\ UNCHANGED brokerVars
-----------------------------------------------------------------------------
(* The fetch loop of App.Run *)

\* Mutant of Fetch: ReadMessage, which commits what it reads.
FetchAndCommit ==
    /\ loop = "fetch"
    /\ position < Len(submissions)
    /\ msg' = position
    /\ position' = position + 1
    /\ stash' = MergeOffset(stash, position + 1)
    /\ loop' = "send"
    /\ UNCHANGED <<brokerVars, jobs, workerVars, faults>>

\* Mutant of Fetch: every fetch starts at the committed offset.
FetchFromCommitted ==
    /\ loop = "fetch"
    /\ committed < Len(submissions)
    /\ msg' = committed
    /\ position' = committed + 1
    /\ loop' = "send"
    /\ UNCHANGED <<brokerVars, stash, jobs, workerVars, faults>>

\* FetchMessage returns the next record; it blocks at the end of the topic.
Fetch ==
    /\ loop = "fetch"
    /\ position < Len(submissions)
    /\ msg' = position
    /\ position' = position + 1
    /\ loop' = "send"
    /\ UNCHANGED <<brokerVars, stash, jobs, workerVars, faults>>

\* Mutant of Send: select with a default branch, which drops the message.
SendOrDrop ==
    /\ loop = "send"
    /\ jobs' = IF Len(jobs) < Cardinality(Workers) THEN Append(jobs, msg) ELSE jobs
    /\ msg' = 0
    /\ loop' = "fetch"
    /\ UNCHANGED <<brokerVars, stash, position, workerVars, faults>>

\* jobs <- msg blocks while the channel is full.
Send ==
    /\ loop = "send"
    /\ Len(jobs) < Cardinality(Workers)
    /\ jobs' = Append(jobs, msg)
    /\ msg' = 0
    /\ loop' = "fetch"
    /\ UNCHANGED <<brokerVars, stash, position, workerVars, faults>>

\* FetchMessage fails: close(jobs), then wait for the workers.
FetchError ==
    /\ loop = "fetch"
    /\ Fails("fetch_error")
    /\ loop' = "closed"
    /\ UNCHANGED <<brokerVars, stash, position, msg, jobs, workerVars>>
-----------------------------------------------------------------------------
(* A worker goroutine *)

Goto(w, state) == wstate' = [wstate EXCEPT ![w] = state]

\* range jobs.  An event that does not decode is skipped: ProcessMessage
\* returns nil and the worker goes on to commit it.
Receive(w) ==
    /\ wstate[w] = "idle"
    /\ jobs # <<>>
    /\ jobs' = Tail(jobs)
    /\ wmsg' = [wmsg EXCEPT ![w] = Head(jobs)]
    /\ Goto(w, IF SubmissionAt(Head(jobs)) = Garbage THEN "commit" ELSE "acquire")
    /\ UNCHANGED <<brokerVars, stash, position, loop, msg,
                   workerID, workerPool, faults>>

\* workerID := <-s.workerPool
Acquire(w) ==
    /\ wstate[w] = "acquire"
    /\ \E c \in workerPool :
          /\ workerID' = [workerID EXCEPT ![w] = c]
          /\ workerPool' = workerPool \ {c}
    /\ Goto(w, "judge")
    /\ UNCHANGED <<brokerVars, readerVars, wmsg, faults>>

\* Mutant of Release: the container is not put back.
ReleaseNothing(w) ==
    /\ workerPool' = workerPool
    /\ workerID' = [workerID EXCEPT ![w] = NoContainer]

\* The deferred s.workerPool <- workerID, on every return path.
Release(w) ==
    /\ workerPool' = workerPool \cup {workerID[w]}
    /\ workerID' = [workerID EXCEPT ![w] = NoContainer]

\* The broker appends n copies of the result; more than one when kafka.Writer
\* repeats an attempt whose acknowledgement was lost.
AppendResult(w, verdict, n) ==
    results' = results \o
        [i \in 1 .. n |-> [id |-> SubmissionAt(wmsg[w]), status |-> verdict]]

\* Mutant of WriteResult: an asynchronous writer, whose errors nobody sees.
WriteResultLost(w) ==
    /\ wstate[w] = "judge"
    /\ \E v \in Verdicts, n \in {0, 1} : AppendResult(w, v, n)
    /\ Release(w)
    /\ Goto(w, "commit")
    /\ UNCHANGED <<submissions, committed, readerVars, wmsg, faults>>

\* judge() returned a verdict (an error becomes "RE") and WriteMessages
\* succeeded at the first attempt.
WriteResult(w) ==
    /\ wstate[w] = "judge"
    /\ \E v \in Verdicts : AppendResult(w, v, 1)
    /\ Release(w)
    /\ Goto(w, "commit")
    /\ UNCHANGED <<submissions, committed, readerVars, wmsg, faults>>

\* WriteMessages succeeded after attempts that were stored but not acknowledged.
WriteRetried(w) ==
    /\ wstate[w] = "judge"
    /\ Fails("lost_ack")
    /\ \E v \in Verdicts, n \in 2 .. MaxAttempts : AppendResult(w, v, n)
    /\ Release(w)
    /\ Goto(w, "commit")
    /\ UNCHANGED <<submissions, committed, readerVars, wmsg>>

\* Mutant of WriteFailed: the error is logged but the worker goes on to commit.
WriteFailedCommits(w) ==
    /\ wstate[w] = "judge"
    /\ Fails("write_error")
    /\ \E v \in Verdicts, n \in 0 .. MaxAttempts : AppendResult(w, v, n)
    /\ Release(w)
    /\ Goto(w, "commit")
    /\ UNCHANGED <<submissions, committed, readerVars, wmsg>>

\* WriteMessages gave up: ProcessMessage returns the error and the worker
\* goes on to its next job without committing.
WriteFailed(w) ==
    /\ wstate[w] = "judge"
    /\ Fails("write_error")
    /\ \E v \in Verdicts, n \in 0 .. MaxAttempts : AppendResult(w, v, n)
    /\ Release(w)
    /\ Goto(w, "idle")
    /\ wmsg' = [wmsg EXCEPT ![w] = 0]
    /\ UNCHANGED <<submissions, committed, readerVars>>

\* commitMu; CommitMessages only merges the offset after this one's into the
\* stash and returns nil.
CommitMessages(w) ==
    /\ wstate[w] = "commit"
    /\ stash' = MergeOffset(stash, wmsg[w] + 1)
    /\ Goto(w, "idle")
    /\ wmsg' = [wmsg EXCEPT ![w] = 0]
    /\ UNCHANGED <<brokerVars, position, loop, msg, jobs,
                   workerID, workerPool, faults>>

\* The channel is closed and drained: range ends, wg.Done.
Exit(w) ==
    /\ wstate[w] = "idle"
    /\ loop = "closed"
    /\ jobs = <<>>
    /\ Goto(w, "exited")
    /\ UNCHANGED <<brokerVars, readerVars, wmsg, workerID, workerPool, faults>>
-----------------------------------------------------------------------------
(* kafka-go in the background *)

\* Every CommitInterval the stash goes to the broker and is emptied, so a
\* lower offset that is committed afterwards moves the broker's offset back.
FlushCommits ==
    /\ stash # 0
    /\ committed' = stash
    /\ stash' = 0
    /\ UNCHANGED <<submissions, results, position, loop, msg, jobs,
                   workerVars, faults>>

\* The group starts a new generation: one last flush, then the reader resumes
\* from the broker's offset while the workers go on with what they have.
Rebalance ==
    /\ loop # "down"
    /\ Fails("rebalance")
    /\ FinalCommit
    /\ position' = committed'
    /\ UNCHANGED <<submissions, results, loop, msg, jobs, workerVars>>
-----------------------------------------------------------------------------
\* FetchMessage blocks: every record was read and every worker waits for a job.
Waiting ==
    /\ loop = "fetch"
    /\ Len(submissions) = MaxRecords
    /\ position = Len(submissions)
    /\ jobs = <<>>
    /\ \A w \in Workers : wstate[w] = "idle"
    /\ stash = 0
    /\ UNCHANGED vars

WorkerStep(w) ==
    \/ Receive(w) \/ Acquire(w)
    \/ WriteResult(w) \/ WriteRetried(w) \/ WriteFailed(w)
    \/ CommitMessages(w) \/ Exit(w)

LoopStep == Start \/ Fetch \/ Send \/ Shutdown

JudgeNext ==
    \/ LoopStep \/ FetchError \/ Crash
    \/ FlushCommits \/ Rebalance
    \/ \E w \in Workers : WorkerStep(w)

Next ==
    \/ \E r \in Record : Publish(r)
    \/ JudgeNext
    \/ Waiting

\* What a worker does when nothing fails.
WorkerProgress(w) ==
    Receive(w) \/ Acquire(w) \/ WriteResult(w) \/ CommitMessages(w) \/ Exit(w)

\* The Go scheduler runs every goroutine that is not blocked, judge() ends by
\* its timeouts and compose restarts the process.  Faults and new submissions
\* are never forced to happen.
JudgeFairness ==
    /\ WF_vars(LoopStep)
    /\ WF_vars(FlushCommits)
    /\ \A w \in Workers : WF_vars(WorkerProgress(w))

Spec == Init /\ [][Next]_vars /\ JudgeFairness
-----------------------------------------------------------------------------
(* Properties *)

WorkerStates == {"idle", "acquire", "judge", "commit", "exited"}
Busy(w) == wstate[w] \in {"acquire", "judge", "commit"}

\* Every variable has its type, and offsets lie inside the topic.
TypeOK ==
    /\ submissions \in Seq(Record)
    /\ results \in Seq(Result)
    /\ committed \in 0 .. Len(submissions)
    /\ stash \in 0 .. Len(submissions)
    /\ position \in 0 .. Len(submissions)
    /\ loop \in {"down", "fetch", "send", "closed"}
    /\ msg \in Nat
    /\ loop = "send" => msg < Len(submissions)
    /\ jobs \in Seq(Nat)
    /\ \A i \in DOMAIN jobs : jobs[i] < Len(submissions)
    /\ wstate \in [Workers -> WorkerStates]
    /\ wmsg \in [Workers -> Nat]
    /\ \A w \in Workers : Busy(w) => wmsg[w] < Len(submissions)
    /\ workerID \in [Workers -> Containers \cup {NoContainer}]
    /\ workerPool \subseteq Containers
    /\ FaultsType

\* A record that needs no more work: its result was written, or it is skipped.
Finished(o) ==
    \/ SubmissionAt(o) = Garbage
    \/ \E i \in DOMAIN results : results[i].id = SubmissionAt(o)

\* A record somewhere between FetchMessage and CommitMessages.
InProcess(o) ==
    \/ loop = "send" /\ msg = o
    \/ \E i \in DOMAIN jobs : jobs[i] = o
    \/ \E w \in Workers : Busy(w) /\ wmsg[w] = o

\* Records the group will not read again after a restart although no result
\* was written for them.
Lost == {o \in 0 .. (committed - 1) : ~Finished(o)}

(* While the process runs every container is either in the pool or with    *)
(* exactly one worker that judges: no return path of ProcessSubmission     *)
(* leaks a container or hands one to two workers                           *)
(* (service.go: workerID := <-s.workerPool and the deferred return).       *)
ContainersConserved ==
    loop # "down" =>
       /\ \A w \in Workers : wstate[w] = "judge" <=> workerID[w] # NoContainer
       /\ \A c \in Containers \ workerPool : \E w \in Workers : workerID[w] = c
       /\ \A w \in Workers : workerID[w] \notin workerPool
       /\ \A v, w \in Workers :
             v # w /\ workerID[v] = workerID[w] => workerID[v] = NoContainer

(* A worker that wants a container finds one: the receive from the pool    *)
(* never blocks, because there are as many containers as workers.          *)
NeverWaitsForContainer ==
    \A w \in Workers : wstate[w] = "acquire" => workerPool # {}

(* The offset the broker or the stash holds is one past a record that is   *)
(* finished, whatever the workers' order: an offset is only ever committed *)
(* after the result of its own record was acknowledged (app.go: continue   *)
(* on an error, CommitMessages after it).                                  *)
CommittedRecordFinished ==
    /\ committed > 0 => Finished(committed - 1)
    /\ stash > 0 => Finished(stash - 1)

(* While the process was never killed and no result write failed, every    *)
(* record the reader has passed is finished or still on its way, whatever  *)
(* the rebalances, duplicates and shutdowns after a fetch error.           *)
NoRecordSkipped ==
    Failed("judge_crash") = 0 /\ Failed("write_error") = 0 =>
       \A o \in 0 .. (position - 1) : Finished(o) \/ InProcess(o)

(* Commits are out of order, so a restart may skip records, but only those *)
(* that the other workers were judging: at most |Workers| - 1 for each     *)
(* life of the process, and one for each result write that failed.  With   *)
(* one worker and no failed write the service is at-least-once.            *)
LossBounded ==
    Cardinality(Lost) <= (Failed("judge_crash") + 1) * (Cardinality(Workers) - 1)
                         + Failed("write_error")

(* A submission gets no more results than it has records in the topic,     *)
(* unless a record was read again (kill, shutdown, rebalance) or a result  *)
(* write repeated: the channel hands each record to one worker.            *)
NoDuplicateResult ==
    (\A k \in DOMAIN MaxFaults : Failed(k) = 0) =>
       \A id \in Ids :
          Cardinality({i \in DOMAIN results : results[i].id = id})
             <= Cardinality({o \in Offsets : SubmissionAt(o) = id})

=============================================================================
