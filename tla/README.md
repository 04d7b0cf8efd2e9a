# code-checker: specification, model checking and proofs

TLA+ specifications of code-checker, an online judge made of six Go services
around Kafka, PostgreSQL and Redis. A client uploads a file with code; the code
is run against the tests of a problem in a Docker container; the verdict
appears in the client's history. This directory models every service, the
composition of the three that carry a submission, and the start of the whole
system; checks them with TLC on small instances; and proves their safety with
TLAPS for every value of the constants.

All source paths below are relative to the repository's `src/`, service paths to
`services/`.

## 1. Inventory

| Component | State it keeps | Operations | Talks to | Module |
|---|---|---|---|---|
| **gateway** (`gateway/internal/handler/http_handler.go`) | none of its own | register, login, list/get/create problem, create test case, create submission (chunked upload), history; `AuthMiddleware`, `AdminOnlyMiddleware` | gRPC to the four services below | `Upload`, `AuthTokens`, `Problems` |
| **gateway**, JWT cache (`internal/cache`) | a Redis client | `app.New` constructs it and hands it to `NewHandler`; no method of it is ever called | - | no behaviour |
| **auth_service** | `users` table; the secret that signs tokens | Register, Login, ValidateToken | PostgreSQL | `AuthTokens` |
| **problem_service** | `problems`, `test_cases` tables | CreateProblem (INSERT, then an event to Kafka), CreateTestCase, GetProblem, ListProblems, GetTestCases | PostgreSQL, Kafka | `Problems` |
| **submission_service** | inserts into `submissions` | CreateSubmission: receive the stream, INSERT a row `Pending`, write an event | PostgreSQL, Kafka topic `submissions` | `SubmissionService`, `Upload` |
| **judge_service**, pipeline (`cmd/app/app.go`) | channel `jobs`, the pool of container ids, the reader's position, the stash of offsets | fetch loop, N worker goroutines: ProcessMessage, ProcessSubmission, CommitMessages | topics `submissions` and `results` | `JudgeService` |
| **judge_service**, judging (`internal/service/service.go`, `runtime/runner.sh`) | a work directory per submission; what still runs in a container | judge, runTestCase, execInWorker | problem_service, Docker | `JudgeRun` |
| **judge_service**, startup | runtime image, work volume, worker containers (in Docker) | NewService: ensureRuntimeImage, ensureWorkVolume, cleanup, create | Docker | `JudgeStartup` |
| **result_service** | `submissions.status`; the Redis key `submissions:<user>` | consumer loop; one goroutine per event: UPDATE, then DEL; GetUserSubmissions: GET, SELECT, SET with a TTL | topic `results`, PostgreSQL, Redis | `ResultService` |
| **migrations**, **docker-compose.yml**, **scripts/kafka-init.sh** | schema version and its dirty mark, topics | start conditions, restart policies, one-shot containers | all | `ComposeStartup` |
| **scripts/seed.sh**, **create-admin.sh** | - | an author of problems; an UPDATE of a role | gateway, PostgreSQL | `Problems`, `AuthTokens` |
| **pkg/**, configuration, developer scripts | none | generated gRPC code, JSON helpers, environment variables | - | not modelled |

The services interact in three ways: gRPC calls from the gateway (and from the
judge to problem_service), two Kafka topics of one partition each
(`scripts/kafka-init.sh`), and the `submissions` table, which
submission_service inserts into and result_service updates.

What is hard, per component, and what makes it correct:

* **judge pipeline.** N goroutines finish in any order, but a Kafka offset
  covers every earlier record; commits are merged in memory and flushed once a
  second; a rebalance moves the reader back while the workers go on; a failed
  result write is skipped. *Correct means:* no container is leaked or shared, no
  record is passed over while the process lives, what a restart may skip is
  bounded, every event is judged.
* **judging.** A timeout abandons an exec that goes on running in a container
  which returns to the pool, and a program may detach a child that does the same
  after any verdict; stdin is written before output is drained; exit
  codes are ambiguous; tests are read late. *Correct means:* the verdict is the
  one the tests imply or has a known reason, so has what goes on running, every
  judging ends.
* **judge startup.** Containers, an image and a volume outlive the process; the
  clean-up gives up silently; the end of a build is read from a stream.
  *Correct means:* a full pool of containers that no earlier life used, of the
  right runtime; what is left over is bounded.
* **result_service.** The consumer commits while the update runs in a goroutine
  nobody waits for; readers and updates race on one cache key; a read that is cut
  short passes for a complete one. *Correct means:*
  the table holds only announced verdicts, no event is dropped, the cache is
  never ahead of the table and staleness ends.
* **submission_service and upload.** One buffer and one stream for all chunks,
  either end of which may go away; two writes (PostgreSQL, Kafka) that are not
  one transaction. *Correct means:* what is stored is the file that was sent, no
  event without a row, no 202 without both, and every request is answered.
* **auth.** A role is copied from the table to a request, a token and a request
  again; registrations race. *Correct means:* a role outlives its loss by a
  bounded time, a name has one owner.
* **problems.** Problem and test cases are created by separate calls that may
  break off, while submissions are judged. *Correct means:* AC was given for
  every test the client could see.
* **start of the system.** Some services wait for the completion of the
  migrator, others only for its start, and nothing says what holds after a kill
  or a second `up`. *Correct means:* requests find the schema and the topics,
  and every service serves in the end.
* **the system.** Accepted means judged, across three processes.

`PROJECT.json` lists every hazard at its line ("hazards") with the properties
that cover it; two have no property, with the reason.

## 2. Modules

```
 Faults        budgets for the failures of the environment; every module below extends it
   |
   |-- Upload              the chunks, the stream, the text, the length of a message
   |     | refines
   |-- SubmissionService   JudgeService       ResultService     one per stage of a submission
   |        '------------------ CodeChecker ------'             the three composed
   |                                | refines
   |                        SubmissionLifecycle                 what is promised of a submission
   |
   |-- JudgeStartup        before the pipeline of JudgeService runs
   |-- JudgeRun            inside the step of JudgeService that gives a verdict
   |-- AuthTokens          users, logins, tokens, the middlewares
   |-- Problems            problems, test cases, their authors, the judge as a reader
   '-- ComposeStartup      the eleven containers of docker-compose.yml

 <M>_proofs     theorems about M (TLAPS), the eight modules of section 4
 MC<M>, *.cfg   instances for TLC
```

Where modules meet: `CodeChecker` composes three services by INSTANCE over
shared `submissions`, `results` and `rows`. `Upload` uses the actions of
`SubmissionService` for what happens after the stream and refines that module.
Both extend `SubmissionCalls`, which declares the variables of submission_service
and instantiates it as `S`, so that one proof module can extend both and one
invariant of submission_service serves them; `Upload` names its own specification
`UploadSpec`.
`JudgeStartup` ends where `JudgeService` begins: `PoolIsFresh` is what the `Init`
and `Start` of `JudgeService` assume of the pool. `JudgeRun` is the step between
`Acquire` and `WriteResult`: `ContainersConserved` says that no other worker uses
the container meanwhile, `JudgingEnds` justifies the fairness of the worker.

**Faults.** A fault is an external event: a kill, an unacknowledged write, a
refused statement, a rebalance. `MaxFaults` says how many of each kind a
behaviour may contain; a kind that is not in its domain never happens.
`FaultMixes` says which kinds may occur in one behaviour, so that one run can
look at several combinations without their product. `Fails(kind)` is a conjunct
of every action that needs a fault. So that properties can speak about faults,
they are counted. No proof depends on the value of either bound.

**JudgeService.** The whole of `App.Run`, `ProcessMessage` and
`ProcessSubmission`.

| Code | Model |
|---|---|
| `jobs` (buffered channel of `workerCount`) | sequence `jobs`; `Send` blocks when it is full |
| `FetchMessage`, the loop variable `msg` | `position`, `msg`, `loop` = `fetch`, `send` or `closed` |
| a worker goroutine | `wstate[w]`: `idle` -> `acquire` -> `judge` -> `commit` -> `idle` |
| `s.workerPool`, the deferred put back | `workerPool`, `workerID`; `Acquire`, `Release` in every outcome of the write |
| `WriteMessages` of the result | `WriteResult`, `WriteRetried` (acknowledgement lost, up to `MaxAttempts` copies), `WriteFailed` (`continue`: no commit, the record is not fetched again) |
| `CommitMessages` with `CommitInterval: time.Second` | `CommitMessages` merges into `stash`; `FlushCommits` writes it to the broker. The stash keeps the highest offset of an interval only, so a flush may move the broker's offset *back* |
| `FetchMessage` error: `close(jobs)`, `wg.Wait`, `return err` | `FetchError`, `Exit`, `Shutdown`; `log.Fatalf` makes compose restart it: `Start` |
| kill, rebalance | `Crash`, `Rebalance` (external) |

An event that does not decode is `Garbage`; it is skipped and committed. What
`judge()` computes is any element of `Verdicts`.

**JudgeRun.** One worker and the container it holds, which judge one submission
after the other. `pc` walks through `judge`, and for the compile phase
(`test = 0`) and each test through `execInWorker`: `exec` (create and attach),
`stdin`, `wait` (the select over the context and the output), `inspect` (the
polling loop). A program is a build outcome and one behaviour per test; the
clock is abstracted to which comes first, the end of the program or of the
context. `leftovers` holds what still runs in the container and nobody waits for:
the exec of a compile phase or a test that was abandoned, a child that a program
detached (`timeout` signals only its own process group, and the container is not
restarted between submissions), and, from the next `Begin` on, "earlier" for what
other submissions left. Beside leftovers any program may run out of CPU time or
memory, and any exec may overrun its context. `hurt` and `disturbed` are history
variables that only properties read.

**JudgeStartup.** `pc` follows `NewService`; every call to Docker is a step, so
the process may be killed before, between and during them. `containers`,
`image` and `volume` are Docker's and outlive the process (`life` counts its
starts). A container's name holds the uuid of its life. Two versions of the
judge may embed the same runtime: the signature tells runtimes apart, not
versions. `BuildCut` is a build output that ends early, which
`parseBuildErrors` takes for the end of a build.

**ResultService.** The consumer loop (`rloop`), the update goroutines
(`gstate`, `gevent`) and history reads (`rdstate`). A row is its status, the
cache maps a user to a history or `Miss`. The steps are those between which
others can run: commit / UPDATE / DEL on one side, GET / SELECT / SET on the
other. A query ends in one of three ways: all rows (`Query`), an error of the
query or of a Scan (`QueryFailed`), or a connection that breaks between two rows:
as nobody asks `rows.Err()`, the rows that arrived go to the cache and to the
client as the history (`QueryCut`). `Expire` is the TTL of 5 minutes.

**SubmissionService.** One `CreateSubmission` per id: `Receive` (the stream as
one message), `InsertRow`, `PublishEvent`. `Cancel` is a client that goes away
during the write: the call is answered with an error, the batch may still be
written (`LateWrite`).

**Upload.** `handleCreateSubmission` (`gw`: open, info, chunks, wait), the stream
(`wire`, `link`) and the receiving handler (`srv`, `code`). A file is a sequence
of bytes; `Chunk` cuts it as the loop around `buffer[:n]` does. What a stream,
a byte PostgreSQL refuses, an event above the writer's limit or a client that
goes away make fail is a fault to `SubmissionService`: the refinement maps the
cause (`why`) to its fault counters, and every other variable to itself.

**SubmissionLifecycle** is the abstract specification: a submission is stored,
handed over, answered and given a verdict; the order in which that may happen;
and that what is handed over gets a verdict unless the system had to give it up.

**CodeChecker.** Every step is one of one service. `Lifecycle` maps `rows` to `status`, the set of ids in the topic
to `handed`, the state of the calls to `answer`; `excused` is that one of four
losing faults happened (a kill of judge or result_service, a failed result
write, a failed UPDATE).

**AuthTokens.** Time passes in ticks. A request is several steps, each at most
`MaxDelay` ticks after the one before: `HashPassword`, `CreateUser` of a
registration; `GetUser` (role and password), `SignToken` of a login;
`ValidateToken`, `AdminOnly` or `AnyUser`, `Perform` of a request with a token.
`ApplyAdminRole` is `create-admin.sh`. Hashes and signatures are ideal.

**Problems.** An author (an admin, or `seed.sh`) creates a problem, then test
cases one by one; each call may fail before or after its row is stored, and a
new attempt starts over with a new problem. A client submits to a problem that
is listed or to an id that does not exist; the judge reads the rows of the
moment in any order and stops at the first test that fails; a record that is read
again is judged anew, with whatever the tests, or the call for them, are then. `WriterTakes` is
the rule of kafka-go that a topic is set on the writer or on the message, not
both.

**ComposeStartup.** `DependsOn` is the `depends_on` of each container,
`Restarts` its restart policy, `Pings` what its `New` connects to. The migrator
is `BeginMigration` (marks the version dirty) and `EndMigration` per step. `Up`
is `make compose-up`, also the second time; `Stop`, `Down` and `Kill` interrupt it.
`Submit` and `Judge` bring in the work that one life leaves to the next: a client
submits to a problem, once there is one, or to an id of none at any time, as neither
the gateway nor submission_service looks it up and there is no foreign key. A kill
of the migrator or the database is told apart from that of another container
(`KillOf`).

Definitions named as "Mutant of X" above X are not part of any specification.
Each is a plausible bug (a dropped guard, a swapped order, an ignored error);
`PROJECT.json` pairs it with a property that it must violate, which shows that
the property depends on the code it is about.

## 3. What TLC checks

| Run | Instance | Checks | Shows |
|---|---|---|---|
| `judge` | 2 workers, 3 records; two kills and a failed result write, or a rebalance and a fetch error, or a lost acknowledgement | `CommittedRecordFinished`, `LossBounded`, `ContainersConserved`, `NeverWaitsForContainer`, `NoRecordSkipped`, `NoDuplicateResult` | a committed offset is one past a finished record; per life at most \|Workers\| - 1 records are skipped, plus one per failed write, and none without a kill or a failed write; without faults each record is judged once |
| `judge_run` | every program with at most 2 tests (6 behaviours), with or without a detached child, one after the other in a container; a Docker, stream, file and removal error and a kill | `VerdictExplained`, `DirsAccounted`, `LeftoversExplained`, `JudgingEnds` | each verdict is the deserved one or has a reason; what a judging leaves running is a child its program detached or an exec that overran, ran beside leftovers or lost its connection, and after AC, WA and TLE only such a child; directories are left only by kills and failed removals; a judging ends |
| `judge_startup` | a pool of 2, 3 versions with 2 runtimes; a kill, a deployment, a build cut off, a Docker error, 2 failed clean-ups | `PoolIsFresh`, `CleanStart`, `ContainersBounded`, `RuntimeIsOursOrCut`, `ServesInTheEnd` | the pool is always full and new, leftovers are bounded by the failed clean-ups, the judge serves in the end |
| `result` | 2 users, 2 ids, 2 results, 2 goroutines, a reader; pairs of a kill, errors of the database, Redis and commits, a read that fails or is cut short, a rebalance | `TypeOK`, `VerdictAnnounced`, `CacheNeverAhead`, `NoResultDropped`, `CacheEventuallyFresh` | no mix-up of verdicts, the cache only lags and not for ever, a cut history included; faults that kill nothing lose nothing |
| `upload` | 2 requests; files of no byte, of one and a half chunks, of two chunks and too long, and one that is no text; one fault, or a client that goes away while the service is killed | `StoredIsSent`, `NoByteLost`, `AcceptedIsStored`, `ImplementsSubmissionService`, `EveryRequestAnswered` | only whole files are stored, 202 means stored and in the topic, no side waits for ever, `SubmissionService` is refined with its fairness |
| `system` | 2 submissions, 2 judge workers, one update goroutine; any one of fourteen faults of the three services, or a client that cancels and a rebalance | `UpdateFindsRow`, `LifecycleSpec` | the composition refines the lifecycle, its liveness included |
| `auth_tokens` | 1 name, 4 passwords (of 5, 8, 8 and 73 bytes), 2 clients, TTL 2, delays of at most 1; the role given and taken once, a database error | `TypeOK`, `StaleRoleBounded`, `OneOwner`, `RevocationTakesEffect` | one registration wins; a role outlives its loss by less than a token's life and three delays |
| `problems` | 2 authors, 2 problems, 3 tests, one submission that passes one of them; a failed call of an author, a late test, a failed read, a second judging | `TypeOK`, `AcceptedPassedKnownTests`, `OrderDecidesNoAccept`, `DoneMeansComplete`, `EverySubmissionJudged` | AC is given for all tests of the moment and to nobody else, in whatever order the rows come |
| `compose_startup` | 11 containers, 2 migrations, 2 tries of kafka-init, a backlog of 1 for a problem and of 1 for an unknown id; one kill (of the migrator or the database, or of another container), stop or removal | `GatewayFindsAll`, `DirtyMeansInterrupted`, `BlindNeedsRestart`, `ServesInTheEnd` | a gateway never runs before the schema and the topics are there; a version is left dirty only by an interruption that reaches the migration; only an interruption makes the judge find nobody to ask for the tests of a problem; `up` ends with all serving or gives up |
| `system_judge_crash` | one kill of judge_service, 2 workers | `AcceptedGetsVerdict` *(violated)* | finding 1 |
| `result_stale_cache` | no fault | `CacheFreshWhenQuiet` *(violated)* | finding 2 |
| `auth_role_change` | a role given and taken away | `RoleIsCurrent` *(violated)* | finding 3 |

**Findings.**

1. `judge_service/cmd/app/app.go:96`: with two workers the later record is
   committed first; a kill then skips the earlier one, and an accepted
   submission stays `Pending` for ever, although `README.md:2` promises that the
   service "runs the tests and returns the result".
2. `result_service/internal/store/store.go:80`: a history read before an update
   is written to the cache after that update's DEL, and is served for 5 minutes,
   although `store.go:43` logs that the cache was invalidated. No fault is needed.
3. `auth_service/internal/service/service.go:96`: `ValidateToken` returns at once
   for every valid token; the comparison with the table ("user role has
   changed", line 106) is only reached by tokens that are refused anyway. A
   role that was taken away is in force until the token expires.

**Observations** that the properties state as exceptions, or the model as facts:

* `ProcessResult` returns before the UPDATE ran and the consumer commits
  (`result_service/internal/service/service.go:25`): a kill loses a verdict, and
  so does an UPDATE that fails. `NoResultDropped` excludes exactly these two.
* A failed result write is skipped with `continue` (`app.go:93`): `FetchMessage`
  does not return the record again while the process lives and a later commit
  passes it. `LossBounded` allows one lost record per failed write.
* `JudgingEnds` leaves out programs that ignore SIGTERM and do not read an input
  that fills every buffer: `Conn.Write` (`service.go:463`) then blocks a worker
  for ever.
* `VerdictExplained` lists what makes a verdict differ from the one the tests
  imply: leftovers (TLE, RE or CE), a program that ignores SIGTERM (RE, not TLE),
  a failed call (RE or CE), an output that was cut short.
* A program may leave a process behind after any verdict, AC included: nothing
  stops it, and the container is used for the next submission
  (`runner.sh:45,57`, `service.go:259`). It may cost a later, blameless
  submission its verdict.
* `GetUserSubmissions` does not ask `rows.Err()` (`store.go:70`): when the
  connection breaks between two rows the rest of the history is missing, for the
  client and, through the cache, for 5 minutes.
* `parseBuildErrors` (`service.go:498`) takes a build output that ends early for a
  finished build: the judge may serve with another version's runtime.
* The problem event names its topic although the writer does too: kafka-go
  refuses every one, the error is logged (`problem_service/internal/service/service.go:61`),
  `events` of `Problems` stays empty. Nothing reads the topic.
* The gateway's validator takes passwords of up to 100 characters, bcrypt of up
  to 72 bytes: a registration in between always fails.
* A submission to a problem without test cases, or to an id of none, is accepted,
  stored and judged, and is AC (`service.go:301`): nobody looks the problem up.
* A migrator that is interrupted between mark and end leaves the version dirty,
  the last one too: no later `up` gets past it without help (an exception in `ServesInTheEnd`, where
  compose aborts). kafka has neither a volume nor a restart policy: what waited
  in its topics is gone after `compose-down`.
* judge_service does not wait for problem_service: after a restart of the system
  what waits in the topic may be judged before the test cases can be read, and
  gets RE (`BlindNeedsRestart` says that for a problem with test cases this takes
  an interruption; a submission to an id of none needs no such thing).

**Bounds.** Every bound is a constant or a fault budget: `MaxRecords`,
`MaxResults` (lengths of the topics when they are the input), `MaxAttempts` (2
here, 10 in kafka-go by default: two copies are as different as ten),
`Goroutines` (update goroutines at the same time; the code has no bound),
`MaxDelay`, `MaxBacklog`, `MaxFaults`, `FaultMixes`. Two workers and three
records are the smallest instance in which one worker commits past another and
the fetch loop can block on a full channel or have a record beyond both; two
kills let a loss happen in two lives. Two results and two goroutines let two
updates of one row race with a reader. Files of up to two chunks have a last
chunk that fills the buffer or only a part of it, and one before it. Two
clients race for a name; a TTL of two ticks and a delay of one let a role be
lost before, during and after each step. Three tests for two authors of two
each let one author run out of ids and a problem have one test too few or too
many. Two migrations have a last one and one that is not. In `CodeChecker` the
topics are never bounded: `Ids` and the faults bound them. `Readers = {}` in the
system runs: history reads change only the cache, which `result` covers.
Symmetry is used in `judge` only, over sets whose elements are interchangeable,
and that run has no liveness property.

**Fairness.** Weak fairness is given to steps that the Go scheduler, a timeout
or Docker Compose makes happen: the fetch loop and each worker (the runtime
runs every goroutine that can run; `judge()` ends, see `JudgingEnds`), a program
that obeys `timeout`, the one-second commit ticker, the restart
(`restart: on-failure`), each update goroutine, each read that was started, the
TTL, each handler of a request and of a stream, the calls to Docker at startup,
the clock, the containers that compose has started. None is given to faults, new
submissions, a client's requests, authors, operators, retries or the end of a
leftover. In the run that is violated by a liveness property the same fairness
holds, so the counterexample is not due to a process that stops.

**Deadlock** is checked in every run but `compose_startup`, where a system that
was stopped, or given up by compose, really stays as it is. Elsewhere a named
action (`Waiting`, `Answered`, `Quiescent`, `Serving`, `Quiet`) says exactly when a
service has nothing left to do: all input consumed, all goroutines blocked on
`FetchMessage` or the channel. Any other state without a step is reported.

## 4. What is proved

All nine specifications and `SubmissionService` are proved about, each in
`<module>_proofs.tla` (`SubmissionService` and `Upload` in
`CodeChecker_proofs`, whose invariant of submission_service both use), for every
value of the constants that its assumptions allow and for any fault budget. Every
invariant that a run checks is proved. Each
proof has an inductive invariant, a lemma for the initial state, a lemma for
the step with one case per action (and a lemma per conjunct or per action where
that is much), and a PTL step for the conclusion.

| Module | Theorems (property) | The inductive invariant |
|---|---|---|
| `JudgeService` | `TypeCorrect`, `ContainersAreConserved` (`ContainersConserved`), `NoWaitForContainer` (`NeverWaitsForContainer`), `CommitsAreFinished` (`CommittedRecordFinished`), `NothingIsSkipped` (`NoRecordSkipped`), `LossIsBounded` (`LossBounded`), `NoResultTwice` (`NoDuplicateResult`) | `Judging`: a worker holds a record while it judges, never `Garbage`. `ContainersInv`: holders and pool partition the containers, and a worker holds one exactly while it judges; with as many containers as workers an empty pool would make every worker a holder, also the one that waits. `CommitInv`: a worker in `commit` has a finished record, and the topics only grow. `SkipInv`, `DrainInv`: below `position`, and below any offset that is committed or in the stash, a record is finished or in process; a process that shuts down drained its channel. `LossInv`: there is a frontier below which every record was received in this life or passed over by an earlier one, and the channel and the reader go on from it without a gap; when the last record below it was received its worker was free, so at most the records of the others were unfinished, and nothing else below it was dropped but what kills and failed writes account for. `OnceInv`: without faults a record is at one place, and there is an injection from the results to the records they were written for |
| `JudgeRun` | `TypeCorrect`, `VerdictsAreExplained` (`VerdictExplained`), `NoDirsPileUp` (`DirsAccounted`), `LeftoversAreExplained` (`LeftoversExplained`) | `RunInv` carries what `judge()` knows at each place. `Progress`: the compile phase and every test before this one were passed, unless an output was cut short. `Recorded`: the exit code is the program's own, or the exec ran beside leftovers and was killed; an exec that runs beside leftovers began beside them. `OnlyChildren`: until it is decided a judging has left nothing but a child of its program. The lemma `DeservedAt` then says that the first test that is not passed decides, by the uniqueness of the `CHOOSE` in `Failing` |
| `JudgeStartup` | `TypeCorrect`, `ServesFreshPool` (`PoolIsFresh`), `StartsClean` (`CleanStart`), `HostIsBounded` (`ContainersBounded`), `RuntimeIsKnown` (`RuntimeIsOursOrCut`) | `PoolInOrder`: the pool holds this life's first containers in order. `Lives`: what a life finds is older than all it makes. `PoolIsThere`: what was put into the pool exists. `CleanedUp`: after a clean-up without an error only this life's containers are there. `RuntimeKnown`. `Bounded`: past the clean-up the containers of other lives are at most one pool per failed clean-up |
| `ResultService` | `TypeCorrect` (`TypeOK`), `VerdictsAreAnnounced` (`VerdictAnnounced`), `CacheLags` (`CacheNeverAhead`), `ResultsAreKept` (`NoResultDropped`) | `FromTopic`: what a goroutine holds came from the topic, and what is in the topic has a row. Rows never go back (a lemma on every step), so a history that was read stays behind the table. `NothingSkipped`: below either offset of the consumer every event is applied or being applied |
| `CodeChecker` and `SubmissionService` | `ImplementsLifecycle` (the safety of `SubmissionLifecycle`), `ResultHasRow` (`UpdateFindsRow`), `SystemKeepsPromises`, `NothingIsTakenBack`; of `SubmissionService` alone `NoEventWithoutRow`, `AcceptedHasBoth` | `SystemInv`, one part for each service: `StoredFirst` (a call past its INSERT has its row, an event has one too), `ReadFromTopic` (what judge_service holds it read from the topic), `ResultsJudged` (a result is about a submission in the topic), `AppliesJudged` (an UPDATE applies such a result). Each part is kept by its own service, and by the others because they only let the topics grow and give rows verdicts. `Simulation` then maps each step: an INSERT is `Store`, copies of an event are `HandOver`, an UPDATE that finds its row is `Judge`, an error told to a client is `Reject`, a step of judge_service is a stutter. The kinds and numbers of faults play no part in it. Two consequences are drawn from the refinement alone: `LifecycleInv` is an inductive invariant of the abstract specification, so `SystemKeepsPromises` (an accepted submission is in the topic, one in the topic has a row, only such a row gets a verdict) and `NothingIsTakenBack` (rows, events, verdicts and answers stay) hold in the system too |
| `Upload` (in `CodeChecker_proofs`) | `UploadTypeCorrect` (`UploadTypeOK`), `RowsAreWholeFiles` (`StoredIsSent`), `StreamLosesNothing` (`NoByteLost`), `AnswerMeansStored` (`AcceptedIsStored`), `UploadImplementsService` (the safety half of `ImplementsSubmissionService`) | `UploadInv`: `StoredFirst` again, and per request `Where` (what the gateway's place says of the stream, of the service and of the call), `Framed` (only chunks carry bytes, nothing is behind the end of the stream), `Whole`. `StoredIsSent` is not inductive: a row is whole because the call was, and the call was because it was an end of stream that was received. So `Whole` says three things: what is received, on the wire and unread make up the file while the stream is up; an end of stream on the wire vouches for the whole file also after the stream broke; a call that reached its INSERT has all of it. Only seven actions move bytes; they rest on lemmas about `FlattenSeq` (`FlattenAppend`, `FlattenTail`) and on `ReadTakes`: a full or a last, shorter buffer is the next piece of the file. `UploadImplementsService` then maps each step; what the stream, the text, the length or the client ended is one more fault of the abstract service, whose number is bounded because a call ends once |
| `AuthTokens` | `TypeCorrect` (`TypeOK`), `StaleRolesEnd` (`StaleRoleBounded`), `NamesHaveOneOwner` (`OneOwner`) | for each copy of a role (`RequestAge` at every step of a request, `TokenAge`) a bound on the ticks since the account had it; the bounds add up along the path of the copy |
| `Problems` | `TypeCorrect` (`TypeOK`), `AcceptedPassed` (`AcceptedPassedKnownTests`), `AnyOrder` (`OrderDecidesNoAccept`), `DoneIsComplete` (`DoneMeansComplete`) | `Authoring`: what an author added belongs to its problem and stays. `Submitted`: what the client could see still belongs to the problem. `Judged`: of the tests read, each is still in the queue or was passed. The lemma `QueueOf`: any ordering of a set holds the whole set |
| `ComposeStartup` | `TypeCorrect`, `GatewayIsReady` (`GatewayFindsAll`), `DirtyIsExplained` (`DirtyMeansInterrupted`), `BlindIsExplained` (`BlindNeedsRestart`) | `Staged`: auth_service and the gateway live only where schema and topics are complete, through every life of the system; a one-shot container that ended well did its work, and a dirty version is one of those still to be applied. `CalmMigration`: while no interruption reached the migrator or the database, only a migrator at work holds the mark. `CalmWork`: while nothing at all was interrupted, a submission to a problem waits only where problem_service serves, since somebody created that problem |

Assumptions: the named ones of the modules (`JudgeConstants`, `WorkerCount`,
`FaultBudget`, `RunConstants`, `StartupConstants`, `ResultConstants`,
`AuthConstants`, `ProblemConstants`, `ComposeConstants`, `VerdictConstants`,
`UploadConstants`, ...): positive counts, finite sets, sequences for files,
special values that are no ordinary ones. TLC evaluates each of them in some run.
That `UploadConstants` makes the set of submission ids finite only serves to count
the faults of `UploadImplementsService`.

`FlattenSeq` is a fold, so its lemmas need an induction. The induction theorems of
the library take a predicate, which the provers cannot instantiate; `LeastNumber`
gets the same from a set, by way of the well-foundedness of `<` on the naturals,
and `InductionUpTo` is what the lemmas cite.

Only model-checked, because liveness and fairness are out of the prover's reach:
`CacheEventuallyFresh`, `JudgingEnds`, both `ServesInTheEnd`,
`EveryRequestAnswered`, `RevocationTakesEffect`, `EverySubmissionJudged`, and the
liveness halves of the refinements `LifecycleSpec` and
`ImplementsSubmissionService`.

## 5. What is not modelled

* In JudgeService and CodeChecker the verdict is free and `judge()` is assumed to
  end; `JudgeRun` shows when it does. JudgeRun is not composed with them.
* In JudgeRun: a program that exits without reading its input (whether the write
  then fails depends on Docker), and `GetTestCases` calls that never return.
  Leftovers interfere through CPU time and memory only: what they might do to the
  files of another submission, on the volume that all containers share, is left
  out.
* More than one instance of a service (compose starts one), topics that Kafka
  creates by itself, database pools at their limit, the migrator's `down`.
* The gateway's JWT cache, which no code calls; its Swagger and static routes.
  The handler of the history is present as a read of ResultService.
* Message contents beyond ids, verdicts and the bytes of an upload; logging,
  formatting, generated code, configuration parsing, developer scripts.
* `UPDATE`s of one row are atomic and each `SELECT` reads one snapshot, as
  PostgreSQL guarantees for single statements; how much of it arrives is
  modelled (`QueryCut`; `GetTestCasesFailed` in Problems, where problem_service
  does ask `rows.Err()`).
* kafka-go, Kafka, PostgreSQL, Redis, Docker and compose are modelled from how
  the services use them (external in the map).

## 6. Plan

In order of importance:

1. Several containers in `JudgeRun`, composed with `JudgeService` in place of the
   free verdict, so that an abandoned exec meets the next submission of any
   worker; `JudgingEnds` without its exception as a violated run.
2. The work of `ComposeStartup` (one backlog) replaced by `CodeChecker`, for
   restarts in the middle of a submission.

## 7. Running

    tlc -config Judge.cfg MCJudgeService.tla
    tlc -config System.cfg MCCodeChecker.tla
    tlapm JudgeService_proofs.tla

Each run is a `.cfg` with the MC module named in `PROJECT.json`; the violated
runs are `SystemJudgeCrash.cfg`, `ResultStaleCache.cfg` and `AuthRoleChange.cfg`.
The runs take between a second and four minutes each.
