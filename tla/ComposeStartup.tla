--------------------------- MODULE ComposeStartup ---------------------------
(***************************************************************************)
(* The containers of docker-compose.yml: which waits for which, what each  *)
(* does until it serves, which is started again after it exits, and how    *)
(* that meets the work: a submission that is accepted in one life of the   *)
(* system may be judged in the next.                                       *)
(*   docker-compose.yml           depends_on, restart, volumes             *)
(*   migrations/main.go           the migrator                             *)
(*   scripts/kafka-init.sh        kafka-init                               *)
(*   */cmd/main.go, */cmd/app     the start of the services                *)
(***************************************************************************)
EXTENDS Faults

CONSTANTS
    Migrations,   \* how many steps there are in migrations/migrate
    MaxTries,     \* max_tries of kafka-init.sh
    MaxBacklog    \* bound: records of each target in the topic of submissions

ASSUME ComposeConstants ==
    Migrations \in Nat \ {0} /\ MaxTries \in Nat \ {0} /\ MaxBacklog \in Nat

VARIABLES
    up,        \* docker compose up: "off", "running" or "aborted"
    status,    \* status[c]: see StatusValues
    schema,    \* migrations that were applied
    dirty,     \* schema_migrations.dirty: a migration has begun and not ended
    topics,    \* the topics kafka-init created
    tries,     \* of kafka-init
    problems,  \* TRUE: there is a problem with test cases
    backlog,   \* backlog[target]: submissions to it that wait for the judge
    blind      \* history: nobody answered when its test cases were asked for

composeVars == <<up, status>>
migration   == <<schema, dirty>>
work        == <<problems, backlog, blind>>
vars == <<composeVars, migration, topics, tries, work, faults>>

Stores     == {"kafka", "db", "redis"}
OneShots   == {"migrator", "kafka-init"}
Services   == {"auth_service", "submission_service", "judge_service",
               "problem_service", "result_service", "gateway"}
Containers == Stores \cup OneShots \cup Services
Topics     == {"submissions", "results"}

\* What a submission names: the problem with test cases, or an id that has none.
Targets    == {"problem", "unknown"}

\* "created" is a container that this `up` has not started yet.
StatusValues == {"created", "starting", "applying", "serving", "restarting",
                 "exit0", "exit1"}

Init ==
    /\ up = "off"
    /\ status = [c \in Containers |-> "created"]
    /\ schema = 0 /\ dirty = FALSE
    /\ topics = {}
    /\ tries = 0
    /\ problems = FALSE /\ backlog = [t \in Targets |-> 0] /\ blind = FALSE
    /\ FaultsInit

Is(c, value)     == status[c] = value
Become(c, value) == status' = [status EXCEPT ![c] = value]
Serving(set)     == \A c \in set : Is(c, "serving")
-----------------------------------------------------------------------------
(* docker compose *)

Dep(c, condition) == [on |-> c, condition |-> condition]

\* Mutant of DependsOn: everybody waits for starts only.
DependsOnStarts(c) ==
    CASE c = "kafka-init" -> {Dep("kafka", "started")}
      [] c = "migrator"   -> {Dep("db", "healthy")}
      [] c \in {"auth_service", "judge_service", "problem_service"} ->
            {Dep("migrator", "started"), Dep("kafka-init", "started")}
      [] c = "submission_service" ->
            {Dep(d, "started") : d \in {"db", "kafka-init", "problem_service"}}
      [] c = "result_service" ->
            {Dep(d, "started") : d \in {"migrator", "kafka-init", "redis"}}
      [] c = "gateway" ->
            {Dep(d, "started") : d \in Services \ {"judge_service", "gateway"}}
      [] OTHER -> {}

DependsOn(c) ==
    CASE c = "kafka-init" -> {Dep("kafka", "started")}
      [] c = "migrator"   -> {Dep("db", "healthy")}
      [] c = "auth_service" ->
            {Dep("migrator", "completed"), Dep("kafka-init", "completed")}
      [] c = "submission_service" ->
            {Dep(d, "started") : d \in {"db", "kafka-init", "problem_service"}}
      [] c = "judge_service" -> {Dep("kafka-init", "completed")}
      [] c = "problem_service" ->
            {Dep("migrator", "started"), Dep("kafka-init", "started")}
      [] c = "result_service" ->
            {Dep(d, "started") : d \in {"migrator", "kafka-init", "redis"}}
      [] c = "gateway" ->
            {Dep(d, "started") : d \in Services \ {"judge_service", "gateway"}}
      [] OTHER -> {}

Satisfied(dep) ==
    CASE dep.condition = "started"   -> ~Is(dep.on, "created")
      [] dep.condition = "healthy"   -> Is(dep.on, "serving")
      [] dep.condition = "completed" -> Is(dep.on, "exit0")

\* make compose-up, for the first time or again: what does not run is started,
\* the one-shot containers included.
Up ==
    /\ up \in {"off", "aborted"}
    /\ up' = "running"
    /\ status' = [c \in Containers |->
                    IF status[c] \in {"exit0", "exit1"} THEN "created" ELSE status[c]]
    /\ UNCHANGED <<migration, topics, tries, work, faults>>

Start(c) ==
    /\ up = "running" /\ Is(c, "created")
    /\ \A dep \in DependsOn(c) : Satisfied(dep)
    /\ Become(c, "starting")
    /\ tries' = IF c = "kafka-init" THEN 0 ELSE tries
    /\ UNCHANGED <<up, migration, topics, work, faults>>

\* "dependency failed to start": a container that had to complete did not.  What
\* was started goes on.
Abort ==
    /\ up = "running"
    /\ \E c \in Containers : \E dep \in DependsOn(c) :
          Is(c, "created") /\ dep.condition = "completed" /\ Is(dep.on, "exit1")
    /\ up' = "aborted"
    /\ UNCHANGED <<status, migration, topics, tries, work, faults>>

\* restart: always, and on-failure after an exit code that is not 0.
Restart(c) ==
    /\ Is(c, "restarting")
    /\ Become(c, "starting")
    /\ UNCHANGED <<up, migration, topics, tries, work, faults>>

\* Mutant of Restarts: no restart: always for the stores.
RestartsServices(c) == c \in Services

Restarts(c) == c \in Services \cup {"db", "redis"}

\* Two kinds of kill: of a container that a migration needs, and of any other.
KillOf(c) == IF c \in {"migrator", "db"} THEN "kill_migration" ELSE "kill"

\* A process is killed; nobody restarts kafka and the one-shot containers.
Kill(c) ==
    /\ status[c] \in {"starting", "applying", "serving"}
    /\ Fails(KillOf(c))
    /\ Become(c, IF Restarts(c) THEN "restarting" ELSE "exit1")
    /\ UNCHANGED <<up, migration, topics, tries, work>>

\* Control-C in make compose-up, or docker compose stop.
Stop ==
    /\ up # "off"
    /\ Fails("stop")
    /\ up' = "off"
    /\ status' = [c \in Containers |->
                    IF Is(c, "created") THEN "created" ELSE "exit1"]
    /\ UNCHANGED <<migration, topics, tries, work>>

\* make compose-down: the containers are removed.  PostgreSQL has a volume with
\* a name, kafka has none.
Down ==
    /\ Fails("down")
    /\ up' = "off"
    /\ status' = [c \in Containers |-> "created"]
    /\ topics' = {} /\ backlog' = [t \in Targets |-> 0]
    /\ UNCHANGED <<migration, tries, problems, blind>>
-----------------------------------------------------------------------------
(* The containers until they serve *)

StoreReady(c) ==
    /\ c \in Stores /\ Is(c, "starting")
    /\ Become(c, "serving")
    /\ UNCHANGED <<up, migration, topics, tries, work, faults>>

\* m.Up marks the next version as dirty, runs its file and clears the mark.
BeginMigration ==
    /\ Is("migrator", "starting") /\ Is("db", "serving")
    /\ ~dirty /\ schema < Migrations
    /\ Become("migrator", "applying")
    /\ dirty' = TRUE
    /\ UNCHANGED <<up, schema, topics, tries, work, faults>>

\* Mutant of EndMigration: the mark is never cleared.
EndMigrationMarked ==
    /\ Is("migrator", "applying") /\ Is("db", "serving")
    /\ Become("migrator", "starting")
    /\ schema' = schema + 1
    /\ UNCHANGED <<up, dirty, topics, tries, work, faults>>

EndMigration ==
    /\ Is("migrator", "applying") /\ Is("db", "serving")
    /\ Become("migrator", "starting")
    /\ schema' = schema + 1 /\ dirty' = FALSE
    /\ UNCHANGED <<up, topics, tries, work, faults>>

\* The last one is applied, or was before: ErrNoChange is no error.
Migrated ==
    /\ Is("migrator", "starting") /\ Is("db", "serving")
    /\ ~dirty /\ schema = Migrations
    /\ Become("migrator", "exit0")
    /\ UNCHANGED <<up, migration, topics, tries, work, faults>>

\* migrate.New finds no database, m.Up a dirty version or no database any more:
\* log.Fatalf.
MigrationFailed ==
    /\ \/ Is("migrator", "starting") /\ (dirty \/ ~Is("db", "serving"))
       \/ Is("migrator", "applying") /\ ~Is("db", "serving")
    /\ Become("migrator", "exit1")
    /\ UNCHANGED <<up, migration, topics, tries, work, faults>>

\* One round of the until loop: kafka does not answer yet.
KafkaInitTries ==
    /\ Is("kafka-init", "starting") /\ ~Is("kafka", "serving")
    /\ tries < MaxTries
    /\ tries' = tries + 1
    /\ status' = IF tries + 1 = MaxTries
                 THEN [status EXCEPT !["kafka-init"] = "exit1"] ELSE status
    /\ UNCHANGED <<up, migration, topics, work, faults>>

CreateTopic ==
    /\ Is("kafka-init", "starting") /\ Is("kafka", "serving")
    /\ \/ "submissions" \notin topics /\ topics' = topics \cup {"submissions"}
       \/ "submissions" \in topics /\ "results" \notin topics
          /\ topics' = topics \cup {"results"}
    /\ UNCHANGED <<composeVars, migration, tries, work, faults>>

\* --if-not-exists: both are there, from now or from before.
TopicsCreated ==
    /\ Is("kafka-init", "starting") /\ Is("kafka", "serving")
    /\ topics = Topics
    /\ Become("kafka-init", "exit0")
    /\ UNCHANGED <<up, migration, topics, tries, work, faults>>

\* The stores a service pings in New.
Pings(c) ==
    CASE c \in {"auth_service", "problem_service", "submission_service"} -> {"db"}
      [] c = "result_service" -> {"db", "redis"}
      [] OTHER -> {}

\* New and Run of its app.  gRPC clients, Kafka readers and writers connect when
\* they are used.
Serve(c) ==
    /\ c \in Services \ {"gateway"} /\ Is(c, "starting")
    /\ Serving(Pings(c))
    /\ Become(c, "serving")
    /\ UNCHANGED <<up, migration, topics, tries, work, faults>>

\* The gateway makes its clients, that of Redis too, without a call to anyone.
ServeGateway ==
    /\ Is("gateway", "starting")
    /\ Become("gateway", "serving")
    /\ UNCHANGED <<up, migration, topics, tries, work, faults>>

\* log.Fatalf in main.
InitFailed(c) ==
    /\ c \in Services /\ Is(c, "starting")
    /\ ~Serving(Pings(c))
    /\ Become(c, "restarting")
    /\ UNCHANGED <<up, migration, topics, tries, work, faults>>
-----------------------------------------------------------------------------
(* The work *)

Schema == schema = Migrations

\* Mutant of CreateProblem: the problem comes with the migrations.
ProblemMigrated ==
    /\ Schema
    /\ problems' = TRUE
    /\ UNCHANGED <<composeVars, migration, topics, tries, backlog, blind, faults>>

\* An admin adds a problem and its test cases.
CreateProblem ==
    /\ Serving({"gateway", "auth_service", "problem_service", "db"}) /\ Schema
    /\ problems' = TRUE
    /\ UNCHANGED <<composeVars, migration, topics, tries, backlog, blind, faults>>

\* A client submits: 202.  Nobody looks the problem up, so any id is taken; that
\* of a problem, which is random, is only known when there is one.
Submit(target) ==
    /\ Serving({"gateway", "auth_service", "submission_service", "db", "kafka"})
    /\ Schema /\ "submissions" \in topics
    /\ target = "problem" => problems
    /\ backlog[target] < MaxBacklog
    /\ backlog' = [backlog EXCEPT ![target] = @ + 1]
    /\ UNCHANGED <<composeVars, migration, topics, tries, problems, blind, faults>>

\* The judge reads a record and asks problem_service for the test cases; the call
\* fails at once when nobody answers, and the submission gets RE.  An id without
\* test cases has none to miss.
Judge(target) ==
    /\ Serving({"judge_service", "kafka"}) /\ backlog[target] > 0
    /\ backlog' = [backlog EXCEPT ![target] = @ - 1]
    /\ blind' = (blind \/ (target = "problem" /\ ~Serving({"problem_service", "db"})))
    /\ UNCHANGED <<composeVars, migration, topics, tries, problems, faults>>
-----------------------------------------------------------------------------
MigratorStep  == BeginMigration \/ EndMigration \/ Migrated \/ MigrationFailed
KafkaInitStep == KafkaInitTries \/ CreateTopic \/ TopicsCreated
ContainerStep(c) == Start(c) \/ Restart(c) \/ StoreReady(c) \/ Serve(c) \/ InitFailed(c)

Next ==
    \/ Up \/ Abort \/ Stop \/ Down
    \/ \E c \in Containers : ContainerStep(c) \/ Kill(c)
    \/ MigratorStep \/ KafkaInitStep \/ ServeGateway
    \/ CreateProblem
    \/ \E target \in Targets : Submit(target) \/ Judge(target)

\* compose, the Docker daemon and the processes run; people do what they like.
Spec ==
    /\ Init /\ [][Next]_vars
    /\ WF_vars(Abort) /\ WF_vars(MigratorStep) /\ WF_vars(KafkaInitStep)
    /\ \A c \in Containers : WF_vars(ContainerStep(c))
    /\ WF_vars(ServeGateway)
    /\ WF_vars(\E target \in Targets : Judge(target))
-----------------------------------------------------------------------------
(* Properties *)

\* What can hit a migration: the kill of the migrator or of the database, and
\* whatever stops everything.
MigrationInterruptions == Failed("kill_migration") + Failed("stop") + Failed("down")
Interruptions == Failed("kill") + MigrationInterruptions

\* Every variable has its type.
TypeOK ==
    /\ up \in {"off", "running", "aborted"}
    /\ status \in [Containers -> StatusValues]
    /\ \A c \in Containers \ {"migrator"} : ~Is(c, "applying")
    /\ \A c \in Services : status[c] # "exit0"
    /\ schema \in 0..Migrations /\ dirty \in BOOLEAN
    /\ topics \subseteq Topics
    /\ tries \in 0..MaxTries
    /\ problems \in BOOLEAN /\ backlog \in [Targets -> 0..MaxBacklog]
    /\ blind \in BOOLEAN
    /\ FaultsType

(* Once the gateway takes requests the schema is complete and both topics  *)
(* exist, although of the services behind it only auth_service waits for   *)
(* the migrator and kafka-init to complete, and although any of them may   *)
(* have been killed and the system stopped, or removed, before.            *)
GatewayFindsAll ==
    status["gateway"] \in {"starting", "serving", "restarting"} =>
        schema = Migrations /\ ~dirty /\ topics = Topics

(* A version, be it the last one, is only left dirty when the migrator or  *)
(* the database was killed or the system stopped or removed: the kill of   *)
(* another container leaves none.  And the migrator only completes, which  *)
(* is what auth_service waits for, with every version applied and clean    *)
(* (main.go: m.Up, ErrNoChange).                                           *)
DirtyMeansInterrupted ==
    /\ dirty /\ ~Is("migrator", "applying") => MigrationInterruptions > 0
    /\ Is("migrator", "exit0") => schema = Migrations /\ ~dirty

(* A submission to a problem that has test cases only meets a judge that   *)
(* finds nobody to ask for them where something was interrupted.  Nothing  *)
(* in the compose file says so, as the judge waits for neither             *)
(* problem_service nor the migrator; but in the first life somebody had to *)
(* reach problem_service before there was such a problem.                  *)
BlindNeedsRestart == blind => Interruptions > 0

AllServe == Serving(Stores \cup Services)

(* make compose-up ends with every service serving, unless the system is   *)
(* stopped or removed, kafka is dead, a migration was interrupted, or a    *)
(* one-shot container failed and compose gave up.                          *)
ServesInTheEnd ==
    (up = "running") ~> (AllServe \/ up # "running" \/ Is("kafka", "exit1"))

=============================================================================
