------------------------ MODULE ComposeStartup_proofs ------------------------
(***************************************************************************)
(* Safety of the containers of docker-compose.yml for any number of        *)
(* migrations and tries, and for any number of kills, stops and removals.  *)
(* The gateway waits for the start of auth_service only; that it finds the *)
(* schema and the topics follows from what auth_service waited for in this *)
(* life of the system, so the invariant follows both through every life.   *)
(***************************************************************************)
EXTENDS ComposeStartup, TLAPS

Alive == {"starting", "serving", "restarting"}
Ready == schema = Migrations /\ ~dirty /\ topics = Topics

Staged ==
    /\ up # "off" => \A c \in Services : ~ Is(c, "exit1")
    /\ status["auth_service"] \in Alive => Ready
    /\ status["gateway"] \in Alive => Ready
    /\ Is("migrator", "exit0") => schema = Migrations /\ ~dirty
    /\ Is("migrator", "applying") => dirty
    /\ dirty => schema < Migrations
    /\ Is("kafka-init", "exit0") => topics = Topics

\* While nobody interrupted a migration.
CalmMigration ==
    MigrationInterruptions = 0 =>
        /\ ~ Is("migrator", "restarting")
        /\ status["migrator"] \in {"starting", "applying"} => Is("db", "serving")
        /\ dirty => Is("migrator", "applying")

\* While nobody interrupted anything.
CalmWork ==
    Interruptions = 0 =>
        /\ problems => Serving({"problem_service", "db"})
        /\ backlog["problem"] > 0 => problems
        /\ ~ blind

Inv == TypeOK /\ Staged /\ CalmMigration /\ CalmWork
-----------------------------------------------------------------------------
LEMMA Counts ==
  ASSUME FaultsType
  PROVE  /\ MigrationInterruptions \in Nat /\ Interruptions \in Nat
         /\ Interruptions = 0 => MigrationInterruptions = 0
  BY FaultBudget DEF FaultsType, Interruptions, MigrationInterruptions, Failed

LEMMA FaultStep ==
  ASSUME FaultsType, NEW kind \in {"kill", "kill_migration", "stop", "down"}, Fails(kind)
  PROVE  /\ FaultsType' /\ Interruptions' > 0
         /\ kind # "kill" => MigrationInterruptions' > 0
         /\ MigrationInterruptions' = 0 => MigrationInterruptions = 0
  <1>1. /\ FaultsType' /\ Failed(kind) \in Nat /\ Failed(kind)' = Failed(kind) + 1
        /\ \A other : other # kind => Failed(other)' = Failed(other)
        /\ \A other : Failed(other) \in Nat
    BY FaultBudget DEF FaultsType, Fails, Failed
  <1> QED BY <1>1 DEF Interruptions, MigrationInterruptions

LEMMA NoFault ==
  ASSUME FaultsType, UNCHANGED faults
  PROVE  /\ FaultsType' /\ Interruptions' = Interruptions
         /\ MigrationInterruptions' = MigrationInterruptions
  BY DEF FaultsType, Interruptions, MigrationInterruptions, Failed

LEMMA Initially == Init => Inv
  <1> SUFFICES ASSUME Init PROVE Inv
    OBVIOUS
  <1>1. TypeOK
    <2>1. FaultsType
      BY FaultBudget DEF Init, FaultsInit, FaultsType
    <2>2. /\ schema \in 0 .. Migrations /\ tries \in 0 .. MaxTries
          /\ backlog \in [Targets -> 0 .. MaxBacklog]
      BY ComposeConstants DEF Init
    <2>3. status \in [Containers -> StatusValues]
      BY DEF Init, StatusValues
    <2>4. \A c \in Containers : status[c] = "created"
      BY DEF Init
    <2> QED BY <2>1, <2>2, <2>3, <2>4 DEF Init, TypeOK, Is, Containers
  <1>2. Staged
    BY ComposeConstants DEF Init, Staged, Alive, Is, Containers, Services, OneShots
  <1>3. CalmMigration /\ CalmWork
    BY DEF Init, CalmMigration, CalmWork, Is, Containers, OneShots, Targets
  <1> QED BY <1>1, <1>2, <1>3 DEF Inv

LEMMA Becomes ==
  ASSUME TypeOK, NEW c \in Containers, NEW value, Become(c, value)
  PROVE  \A d \in Containers : status'[d] = IF d = c THEN value ELSE status[d]
  BY DEF TypeOK, Become
-----------------------------------------------------------------------------
LEMMA TypeStep == TypeOK /\ Staged /\ [Next]_vars => TypeOK'
  <1> SUFFICES ASSUME TypeOK, Staged, [Next]_vars PROVE TypeOK'
    OBVIOUS
  <1>1. FaultsType'
    BY FaultStep, NoFault DEF TypeOK, Next, vars, ContainerStep, MigratorStep, KafkaInitStep, Up, Start, Abort, Restart, Kill,
       KillOf, Stop, Down, StoreReady, BeginMigration, EndMigration, Migrated, MigrationFailed,
       KafkaInitTries, CreateTopic, TopicsCreated, Serve, ServeGateway, InitFailed,
       CreateProblem, Submit, Judge
  <1> DEFINE StatusType(s) == /\ s \in [Containers -> StatusValues]
                              /\ \A c \in Containers \ {"migrator"} : s[c] # "applying"
                              /\ \A c \in Services : s[c] # "exit0"
  <1>2. StatusType(status)
    BY DEF TypeOK, Is
  <1>3. StatusType(status')
    <2>1. ASSUME NEW c \in Containers, NEW value \in StatusValues, Become(c, value),
                 value = "applying" => c = "migrator", value = "exit0" => c \notin Services
          PROVE  StatusType(status')
      BY <1>2, <2>1 DEF Become
    <2>2. {"migrator", "kafka-init", "gateway"} \subseteq Containers
      BY DEF Containers, OneShots, Services
    <2>3. CASE Up \/ Stop \/ Down
      <3>1. /\ status' = [c \in Containers |-> status'[c]]
            /\ \A c \in Containers : status'[c] \in {"created", "exit1", status[c]}
        BY <1>2, <2>3 DEF Up, Stop, Down, Is
      <3>2. status' \in [Containers -> StatusValues]
        BY <1>2, <3>1 DEF StatusValues
      <3> QED BY <1>2, <3>1, <3>2 DEF Containers
    <2>4. ASSUME NEW c \in Containers, ContainerStep(c) \/ Kill(c)
          PROVE  StatusType(status')
      BY <2>1, <2>4 DEF ContainerStep, Start, Restart, StoreReady, Serve, InitFailed, Kill, StatusValues,
         Restarts
    <2>5. CASE MigratorStep
      <3>1. "migrator" \notin Services
        BY DEF Services
      <3> QED BY <2>1, <2>2, <2>5, <3>1 DEF MigratorStep, BeginMigration, EndMigration, Migrated, MigrationFailed,
         StatusValues
    <2>6. CASE KafkaInitStep
      <3>1. "kafka-init" \notin Services
        BY DEF Services
      <3> QED BY <1>2, <2>1, <2>2, <2>6, <3>1 DEF KafkaInitStep, KafkaInitTries, CreateTopic, TopicsCreated,
         StatusValues, composeVars, Become
    <2>7. CASE ServeGateway
      BY <2>1, <2>2, <2>7 DEF ServeGateway, StatusValues
    <2>8. CASE UNCHANGED status
      BY <1>2, <2>8
    <2> QED BY <2>3, <2>4, <2>5, <2>6, <2>7, <2>8
        DEF Next, vars, composeVars, Abort, CreateProblem, Submit, Judge
  <1>4. up' \in {"off", "running", "aborted"}
    BY DEF TypeOK, Next, vars, composeVars, ContainerStep, MigratorStep, KafkaInitStep, Up, Start, Abort, Restart, Kill,
       Stop, Down, StoreReady, BeginMigration, EndMigration, Migrated, MigrationFailed,
       KafkaInitTries, CreateTopic, TopicsCreated, Serve, ServeGateway, InitFailed,
       CreateProblem, Submit, Judge
  <1> DEFINE DataType ==
         /\ schema \in 0 .. Migrations /\ dirty \in BOOLEAN /\ topics \subseteq Topics
         /\ tries \in 0 .. MaxTries
         /\ problems \in BOOLEAN /\ backlog \in [Targets -> 0 .. MaxBacklog]
         /\ blind \in BOOLEAN
  <1>5. DataType'
    <2> DEFINE Data == <<schema, dirty, topics, tries, problems, backlog, blind>>
    <2> USE ComposeConstants DEF TypeOK, migration, work, composeVars, Topics
    <2>1. CASE UNCHANGED Data
      BY <2>1
    <2>2. CASE \E c \in Containers : Start(c)
      BY <2>2 DEF Start
    <2>3. CASE Down
      BY <2>3 DEF Down
    <2>4. CASE BeginMigration \/ EndMigration
      <3>1. schema' \in {schema, schema + 1} /\ schema < Migrations
        BY <2>4 DEF BeginMigration, EndMigration, Staged
      <3>2. schema' \in 0 .. Migrations
        BY <3>1
      <3>3. dirty' \in BOOLEAN /\ UNCHANGED <<topics, tries, work>>
        BY <2>4 DEF BeginMigration, EndMigration
      <3> QED BY <3>2, <3>3
    <2>5. CASE KafkaInitTries
      BY <2>5 DEF KafkaInitTries
    <2>6. CASE CreateTopic
      <3>1. topics' \subseteq Topics /\ UNCHANGED <<migration, tries, work>>
        BY <2>6 DEF CreateTopic
      <3> QED BY <3>1
    <2>7. CASE CreateProblem
      BY <2>7 DEF CreateProblem
    <2>8. ASSUME NEW t \in Targets, Submit(t)
          PROVE  DataType'
      <3>1. backlog[t] + 1 \in 0 .. MaxBacklog
        BY <2>8 DEF Submit
      <3> QED BY <2>8, <3>1 DEF Submit
    <2>9. ASSUME NEW t \in Targets, Judge(t)
          PROVE  DataType'
      <3>1. backlog[t] - 1 \in 0 .. MaxBacklog
        BY <2>9 DEF Judge
      <3> QED BY <2>9, <3>1 DEF Judge
    <2> QED BY <2>1, <2>2, <2>3, <2>4, <2>5, <2>6, <2>7, <2>8, <2>9
        DEF Next, vars, Up, Abort, Stop, ContainerStep, Kill, Restart, StoreReady, Serve, InitFailed,
            MigratorStep, Migrated, MigrationFailed, KafkaInitStep, TopicsCreated, ServeGateway
  <1> QED BY <1>1, <1>3, <1>4, <1>5 DEF TypeOK, Is
-----------------------------------------------------------------------------
\* A step of one container, other than the three whose end matters to Staged.
LEMMA StagedBecomes ==
  ASSUME TypeOK, Staged, NEW c \in Containers, NEW value, Become(c, value),
         UNCHANGED <<up, migration, topics>>,
         value = "exit1" => c \notin Services,
         value \in Alive /\ c \in {"auth_service", "gateway"} =>
             status[c] \in Alive \/ Ready,
         value = "exit0" => \/ c = "migrator" /\ schema = Migrations /\ ~ dirty
                            \/ c = "kafka-init" /\ topics = Topics,
         value # "applying"
  PROVE  Staged'
  <1>1. \A d \in Containers : status'[d] = IF d = c THEN value ELSE status[d]
    BY Becomes
  <1>2. {"auth_service", "gateway", "migrator", "kafka-init"} \subseteq Containers
        /\ Services \subseteq Containers
    BY DEF Containers, Services, OneShots
  <1>3. UNCHANGED <<Ready, up, schema, dirty, topics>>
    BY DEF Ready, migration
  <1>4. up' # "off" => \A d \in Services : ~ Is(d, "exit1")'
    BY <1>1, <1>2, <1>3 DEF Staged, Is
  <1>5. ASSUME NEW d \in {"auth_service", "gateway"}, status'[d] \in Alive
        PROVE  Ready'
    <2>1. status[d] \in Alive => Ready
      BY DEF Staged
    <2>2. status[d] \in Alive \/ Ready
      BY <1>1, <1>2, <1>5
    <2> QED BY <1>3, <2>1, <2>2
  <1>6. status'["migrator"] = "exit0" => schema' = Migrations /\ ~ dirty'
    BY <1>1, <1>2, <1>3 DEF Staged, Is
  <1>7. status'["kafka-init"] = "exit0" => topics' = Topics
    BY <1>1, <1>2, <1>3 DEF Staged, Is
  <1>8. status'["migrator"] = "applying" => dirty'
    BY <1>1, <1>2, <1>3 DEF Staged, Is
  <1>9. dirty' => schema' < Migrations
    BY <1>3 DEF Staged
  <1> QED BY <1>4, <1>5, <1>6, <1>7, <1>8, <1>9 DEF Staged, Is

\* What auth_service waited for is still so when the gateway starts.
LEMMA StartIsReady ==
  ASSUME TypeOK, Staged, NEW c \in {"auth_service", "gateway"}, Start(c)
  PROVE  Ready
  <1>1. CASE c = "auth_service"
    <2>1. {Dep("migrator", "completed"), Dep("kafka-init", "completed")} = DependsOn(c)
      BY <1>1 DEF DependsOn
    <2>2. Satisfied(Dep("migrator", "completed")) /\ Satisfied(Dep("kafka-init", "completed"))
      BY <2>1 DEF Start
    <2>3. Is("migrator", "exit0") /\ Is("kafka-init", "exit0")
      BY <2>2 DEF Satisfied, Dep
    <2> QED BY <2>3 DEF Staged, Ready
  <1>2. CASE c = "gateway"
    <2>1. DependsOn(c) = {Dep(d, "started") : d \in Services \ {"judge_service", "gateway"}}
      BY <1>2 DEF DependsOn
    <2>2. Dep("auth_service", "started") \in DependsOn(c)
      BY <2>1 DEF Services
    <2>3. Satisfied(Dep("auth_service", "started")) /\ up = "running"
      BY <2>2 DEF Start
    <2>4. ~ Is("auth_service", "created")
      BY <2>3 DEF Satisfied, Dep
    <2>5. /\ "auth_service" \in Services /\ "auth_service" \in Containers \ {"migrator"}
          /\ status["auth_service"] \in StatusValues
      BY DEF TypeOK, Services, Containers
    <2>6. status["auth_service"] \notin {"exit0", "exit1", "applying", "created"}
      BY <2>3, <2>4, <2>5 DEF Staged, TypeOK, Is
    <2>7. status["auth_service"] \in Alive
      BY <2>5, <2>6 DEF StatusValues, Alive
    <2> QED BY <2>7 DEF Staged
  <1> QED BY <1>1, <1>2

LEMMA StagedStep == TypeOK /\ Staged /\ [Next]_vars => Staged'
  <1> SUFFICES ASSUME TypeOK, Staged, [Next]_vars PROVE Staged'
    OBVIOUS
  <1>1. {"auth_service", "gateway", "migrator", "kafka-init"} \subseteq Containers
        /\ Services \subseteq Containers
        /\ "migrator" \notin Services /\ "kafka-init" \notin Services
    BY DEF Containers, Services, OneShots
  <1>2. CASE UNCHANGED <<composeVars, migration, topics>>
    BY <1>2 DEF Staged, Is, Ready, composeVars, migration
  <1>3. CASE Up
    <2>1. \A c \in Containers : status'[c] = IF status[c] \in {"exit0", "exit1"} THEN "created"
                                             ELSE status[c]
      BY <1>3 DEF Up
    <2> QED BY <1>1, <1>3, <2>1 DEF Up, Staged, Is, Alive, Ready, migration
  <1>4. CASE Abort
    BY <1>4 DEF Abort, Staged, Is, Alive, Ready, migration
  <1>5. CASE Stop
    <2>1. /\ \A c \in Containers : status'[c] = IF status[c] = "created" THEN "created" ELSE "exit1"
          /\ up' = "off" /\ UNCHANGED <<schema, dirty, topics>>
      BY <1>5 DEF Stop, Is, migration
    <2> QED BY <1>1, <2>1 DEF Staged, Is, Alive
  <1>6. CASE Down
    <2>1. \A c \in Containers : status'[c] = "created"
      BY <1>6 DEF Down
    <2>2. up' = "off" /\ UNCHANGED <<schema, dirty>>
      BY <1>6 DEF Down, migration
    <2> QED BY <1>1, <2>1, <2>2 DEF Staged, Is, Alive
  <1>7. ASSUME NEW c \in Containers, Start(c)
        PROVE  Staged'
    <2>1. Become(c, "starting") /\ UNCHANGED <<up, migration, topics>>
      BY <1>7 DEF Start
    <2>2. c \in {"auth_service", "gateway"} => Ready
      BY <1>7, StartIsReady
    <2> QED BY <2>1, <2>2, StagedBecomes
  <1>8. ASSUME NEW c \in Containers, Restart(c) \/ StoreReady(c) \/ Serve(c) \/ InitFailed(c)
        PROVE  Staged'
    <2>1. PICK value \in Alive : Become(c, value)
      BY <1>8 DEF Restart, StoreReady, Serve, InitFailed, Alive
    <2>2. UNCHANGED <<up, migration, topics>>
      BY <1>8 DEF Restart, StoreReady, Serve, InitFailed
    <2>3. c \in {"auth_service", "gateway"} => status[c] \in Alive
      BY <1>8 DEF Restart, StoreReady, Stores, Serve, InitFailed, Is, Alive
    <2> QED BY <2>1, <2>2, <2>3, StagedBecomes DEF Alive
  <1>9. ASSUME NEW c \in Containers, Kill(c)
        PROVE  Staged'
    <2>1. PICK value \in {"restarting", "exit1"} : Become(c, value) /\ (value = "exit1" => ~ Restarts(c))
      BY <1>9 DEF Kill
    <2>2. UNCHANGED <<up, migration, topics>>
      BY <1>9 DEF Kill
    <2>3. c \in {"auth_service", "gateway"} => status[c] \in Alive
      BY <1>9 DEF Kill, TypeOK, Is, Alive, Containers, Services
    <2>4. value = "exit1" => c \notin Services
      BY <2>1 DEF Restarts
    <2> QED BY <2>1, <2>2, <2>3, <2>4, StagedBecomes DEF Alive
  <1>10. CASE ServeGateway
    BY <1>1, <1>10, StagedBecomes DEF ServeGateway, Is, Alive
  <1>11. CASE Migrated
    <2>1. /\ schema = Migrations /\ ~ dirty /\ Become("migrator", "exit0")
          /\ UNCHANGED <<up, migration, topics>>
      BY <1>11 DEF Migrated
    <2> QED BY <1>1, <2>1, StagedBecomes DEF Alive
  <1>12. CASE MigrationFailed
    BY <1>1, <1>12, StagedBecomes DEF MigrationFailed, Alive
  <1>13. CASE BeginMigration \/ EndMigration
    <2>1. PICK value \in {"applying", "starting"} :
             /\ Become("migrator", value)
             /\ value = "applying" => dirty' /\ schema' < Migrations
             /\ value = "starting" => ~ dirty'
      BY <1>13 DEF BeginMigration, EndMigration
    <2>2. \A d \in Containers : status'[d] = IF d = "migrator" THEN value ELSE status[d]
      BY <1>1, <2>1, Becomes
    <2>3. ~ Ready /\ UNCHANGED <<up, topics>>
      <3>1. CASE BeginMigration
        <4>1. schema # Migrations
          BY <1>13, <3>1, ComposeConstants DEF BeginMigration, TypeOK
        <4> QED BY <3>1, <4>1 DEF BeginMigration, Ready
      <3>2. CASE EndMigration
        BY <3>2 DEF EndMigration, Staged, Is, Ready
      <3> QED BY <1>13, <3>1, <3>2
    <2>4. /\ status["auth_service"] \notin Alive /\ status["gateway"] \notin Alive
      BY <2>3 DEF Staged
    <2> QED BY <1>1, <2>1, <2>2, <2>3, <2>4 DEF Staged, Is
  <1>14. CASE KafkaInitTries
    <2>1. CASE tries + 1 = MaxTries
      BY <1>1, <1>14, <2>1, StagedBecomes DEF KafkaInitTries, Become, Alive
    <2>2. CASE tries + 1 # MaxTries
      BY <1>2, <1>14, <2>2 DEF KafkaInitTries, composeVars
    <2> QED BY <2>1, <2>2
  <1>15. CASE CreateTopic
    <2>1. topics # Topics /\ UNCHANGED <<composeVars, migration>>
      BY <1>15 DEF CreateTopic, Topics
    <2>2. Is("kafka-init", "starting")
      BY <1>15 DEF CreateTopic
    <2> QED BY <2>1, <2>2 DEF Staged, Is, Ready, composeVars, migration
  <1>16. CASE TopicsCreated
    BY <1>1, <1>16, StagedBecomes DEF TopicsCreated, Alive
  <1> QED
    BY <1>2, <1>3, <1>4, <1>5, <1>6, <1>7, <1>8, <1>9, <1>10, <1>11, <1>12, <1>13, <1>14, <1>15, <1>16
       DEF Next, vars, ContainerStep, MigratorStep, KafkaInitStep, CreateProblem, Submit, Judge
-----------------------------------------------------------------------------
\* A step of one container that a migration survives.
LEMMA CalmMigrationBecomes ==
  ASSUME TypeOK, CalmMigration, NEW c \in Containers, NEW value, Become(c, value),
         UNCHANGED migration, MigrationInterruptions' = 0 => MigrationInterruptions = 0,
         c = "migrator" =>
             \/ value = "starting" /\ (MigrationInterruptions = 0 => ~ dirty /\ Is("db", "serving"))
             \/ value \in {"exit0", "exit1"} /\ (MigrationInterruptions = 0 => ~ dirty),
         c = "db" => value = "serving" \/ ~ Is(c, "serving")
  PROVE  CalmMigration'
  <1> SUFFICES ASSUME MigrationInterruptions' = 0
               PROVE  /\ status'["migrator"] # "restarting"
                      /\ status'["migrator"] \in {"starting", "applying"} => status'["db"] = "serving"
                      /\ dirty' => status'["migrator"] = "applying"
    BY DEF CalmMigration, Is
  <1>1. \A d \in Containers : status'[d] = IF d = c THEN value ELSE status[d]
    BY Becomes
  <1>2. {"db", "migrator"} \subseteq Containers
    BY DEF Containers, OneShots, Stores
  <1>3. MigrationInterruptions = 0 /\ UNCHANGED dirty
    BY DEF migration
  <1>4. status["db"] = "serving" => status'["db"] = "serving"
    BY <1>1, <1>2 DEF Is
  <1>5. status'["migrator"] \in {"starting", "applying"} => status["db"] = "serving"
    BY <1>1, <1>2, <1>3 DEF CalmMigration, Is
  <1>6. dirty' => status'["migrator"] = "applying"
    BY <1>1, <1>2, <1>3 DEF CalmMigration, Is
  <1>7. status'["migrator"] # "restarting"
    BY <1>1, <1>2, <1>3 DEF CalmMigration, Is
  <1> QED BY <1>4, <1>5, <1>6, <1>7

\* A step of one container that does not end the service of the test cases.
LEMMA CalmWorkBecomes ==
  ASSUME TypeOK, CalmWork, NEW c \in Containers, NEW value, Become(c, value),
         UNCHANGED <<work, faults>>,
         c \in {"db", "problem_service"} => value = "serving" \/ ~ Is(c, "serving")
  PROVE  CalmWork'
  <1>1. \A d \in Containers : status'[d] = IF d = c THEN value ELSE status[d]
    BY Becomes
  <1>2. {"db", "problem_service"} \subseteq Containers
    BY DEF Containers, Services, Stores
  <1>3. Interruptions' = Interruptions
    BY NoFault DEF TypeOK
  <1>4. Serving({"problem_service", "db"}) => Serving({"problem_service", "db"})'
    BY <1>1, <1>2 DEF Serving, Is
  <1> QED BY <1>3, <1>4 DEF CalmWork, work

LEMMA CalmStep ==
  ASSUME TypeOK, Staged, CalmMigration, CalmWork, [Next]_vars
  PROVE  CalmMigration' /\ CalmWork'
  <1>1. {"db", "problem_service", "migrator", "kafka-init", "gateway"} \subseteq Containers
        /\ {"db", "migrator"} \cap Services = {} /\ "migrator" \notin Stores
    BY DEF Containers, Services, OneShots, Stores
  <1>2. UNCHANGED faults => /\ Interruptions' = Interruptions
                            /\ MigrationInterruptions' = MigrationInterruptions
    BY NoFault DEF TypeOK
  <1>3. CASE UNCHANGED <<status, migration, work, faults>>
    BY <1>2, <1>3 DEF CalmMigration, CalmWork, Is, Serving, migration, work
  <1>4. CASE Up
    <2>1. \A c \in Containers : status'[c] = IF status[c] \in {"exit0", "exit1"} THEN "created"
                                             ELSE status[c]
      BY <1>4 DEF Up
    <2>2. UNCHANGED <<migration, work, faults>>
      BY <1>4 DEF Up
    <2> QED BY <1>1, <1>2, <2>1, <2>2
            DEF CalmMigration, CalmWork, Is, Serving, migration, work
  <1>5. CASE Stop \/ Down
    <2>1. Interruptions' > 0 /\ MigrationInterruptions' > 0
      BY <1>5, FaultStep DEF TypeOK, Stop, Down
    <2> QED BY <2>1 DEF CalmMigration, CalmWork
  <1>12. ASSUME NEW c \in Containers, Kill(c)
         PROVE  CalmMigration' /\ CalmWork'
    <2>1. KillOf(c) \in {"kill", "kill_migration"} /\ Fails(KillOf(c))
      BY <1>12 DEF Kill, KillOf
    <2>2. /\ Interruptions' > 0
          /\ KillOf(c) # "kill" => MigrationInterruptions' > 0
          /\ MigrationInterruptions' = 0 => MigrationInterruptions = 0
      BY <2>1, FaultStep DEF TypeOK
    <2>3. CalmWork'
      BY <2>2 DEF CalmWork
    <2>4. CASE c \in {"migrator", "db"}
      <3>1. MigrationInterruptions' > 0
        BY <2>2, <2>4 DEF KillOf
      <3> QED BY <2>3, <3>1 DEF CalmMigration
    <2>5. CASE c \notin {"migrator", "db"}
      <3>1. UNCHANGED migration /\ \E value : Become(c, value)
        BY <1>12 DEF Kill
      <3> QED BY <2>2, <2>3, <2>5, <3>1, CalmMigrationBecomes
    <2> QED BY <2>4, <2>5
  <1>6. ASSUME NEW c \in Containers, Start(c)
        PROVE  CalmMigration' /\ CalmWork'
    <2>1. Become(c, "starting") /\ UNCHANGED <<migration, work, faults>> /\ Is(c, "created")
      BY <1>6 DEF Start
    <2>2. c = "migrator" => Is("db", "serving")
      <3>1. SUFFICES ASSUME c = "migrator" PROVE Is("db", "serving")
        OBVIOUS
      <3>2. Dep("db", "healthy") \in DependsOn(c)
        BY <3>1 DEF DependsOn
      <3> QED BY <1>6, <3>2 DEF Start, Satisfied, Dep
    <2>3. c = "migrator" => (MigrationInterruptions = 0 => ~ dirty)
      BY <2>1 DEF CalmMigration, Is
    <2>4. ~ Is(c, "serving")
      BY <2>1 DEF Is
    <2>5. CalmMigration'
      BY <1>2, <2>1, <2>2, <2>3, <2>4, CalmMigrationBecomes
    <2> QED BY <2>1, <2>4, <2>5, CalmWorkBecomes
  <1>7. ASSUME NEW c \in Containers, Restart(c) \/ StoreReady(c) \/ Serve(c) \/ InitFailed(c)
        PROVE  CalmMigration' /\ CalmWork'
    <2>1. PICK value : Become(c, value) /\ (value = "serving" \/ ~ Is(c, "serving"))
      BY <1>7 DEF Restart, StoreReady, Serve, InitFailed, Is
    <2>2. UNCHANGED <<migration, work, faults>>
      BY <1>7 DEF Restart, StoreReady, Serve, InitFailed
    <2>3. CalmWork'
      BY <2>1, <2>2, CalmWorkBecomes
    <2>4. CASE c = "migrator"
      <3>1. Restart(c)
        BY <1>1, <1>7, <2>4 DEF StoreReady, Serve, InitFailed
      <3>2. MigrationInterruptions = 0 => FALSE
        BY <3>1, <2>4 DEF Restart, CalmMigration
      <3> QED BY <1>2, <2>2, <2>3, <3>2 DEF CalmMigration
    <2>5. CASE c # "migrator"
      BY <1>2, <2>1, <2>2, <2>3, <2>5, CalmMigrationBecomes
    <2> QED BY <2>4, <2>5
  <1>8. CASE Migrated \/ MigrationFailed
    <2>1. PICK value \in {"exit0", "exit1"} : Become("migrator", value)
      BY <1>8 DEF Migrated, MigrationFailed
    <2>2. UNCHANGED <<migration, work, faults>>
      BY <1>8 DEF Migrated, MigrationFailed
    <2>3. MigrationInterruptions = 0 => ~ dirty
      BY <1>8 DEF Migrated, MigrationFailed, CalmMigration, Is
    <2>4. CalmMigration'
      BY <1>1, <1>2, <2>1, <2>2, <2>3, CalmMigrationBecomes
    <2> QED BY <1>1, <2>1, <2>2, <2>4, CalmWorkBecomes
  <1>9. CASE BeginMigration \/ EndMigration
    <2>1. PICK value \in {"applying", "starting"} :
             /\ Become("migrator", value)
             /\ dirty' => value = "applying"
      BY <1>9 DEF BeginMigration, EndMigration
    <2>2. \A d \in Containers : status'[d] = IF d = "migrator" THEN value ELSE status[d]
      BY <1>1, <2>1, Becomes
    <2>3. Is("db", "serving") /\ UNCHANGED <<work, faults>>
      BY <1>9 DEF BeginMigration, EndMigration
    <2>4. CalmMigration'
      BY <1>1, <2>1, <2>2, <2>3 DEF CalmMigration, Is
    <2> QED BY <1>1, <2>1, <2>3, <2>4, CalmWorkBecomes
  <1>10. CASE KafkaInitStep \/ ServeGateway
    <2>1. /\ \A d \in {"db", "problem_service", "migrator"} : status'[d] = status[d]
          /\ UNCHANGED <<migration, work, faults>>
      BY <1>1, <1>10, Becomes DEF KafkaInitStep, KafkaInitTries, CreateTopic, TopicsCreated, ServeGateway,
         composeVars, TypeOK, Become
    <2> QED BY <1>2, <2>1 DEF CalmMigration, CalmWork, Is, Serving, migration, work
  <1>11. CASE CreateProblem \/ (\E t \in Targets : Submit(t) \/ Judge(t))
    <2>1. /\ UNCHANGED <<status, migration, faults>>
          /\ problems' => problems \/ Serving({"problem_service", "db"})
          /\ problems => problems'
          /\ backlog'["problem"] > 0 => problems' \/ backlog["problem"] > 0
          /\ blind' => blind \/ (backlog["problem"] > 0 /\ ~ Serving({"problem_service", "db"}))
      <3>1. CASE CreateProblem
        BY <3>1 DEF CreateProblem, composeVars, Serving
      <3>2. ASSUME NEW t \in Targets, Submit(t)
            PROVE  /\ UNCHANGED <<status, migration, faults, problems, blind>>
                   /\ backlog'["problem"] > 0 => problems \/ backlog["problem"] > 0
        BY <3>2 DEF Submit, composeVars, TypeOK, Targets
      <3>3. ASSUME NEW t \in Targets, Judge(t)
            PROVE  /\ UNCHANGED <<status, migration, faults, problems>>
                   /\ backlog'["problem"] > 0 => backlog["problem"] > 0
                   /\ blind' => blind \/ (backlog["problem"] > 0
                                            /\ ~ Serving({"problem_service", "db"}))
        BY <3>3 DEF Judge, composeVars, TypeOK, Targets
      <3> QED BY <1>11, <3>1, <3>2, <3>3
    <2> QED BY <1>2, <2>1 DEF CalmMigration, CalmWork, Is, Serving, migration
  <1> QED
    BY <1>3, <1>4, <1>5, <1>6, <1>7, <1>8, <1>9, <1>10, <1>11, <1>12
       DEF Next, vars, composeVars, ContainerStep, MigratorStep, KafkaInitStep, Abort
-----------------------------------------------------------------------------
THEOREM Invariance == Spec => []Inv
  <1>1. Inv /\ [Next]_vars => Inv'
    BY TypeStep, StagedStep, CalmStep DEF Inv
  <1> QED BY Initially, <1>1, PTL DEF Spec

(* Every variable has its type.                                            *)
THEOREM TypeCorrect == Spec => []TypeOK
  <1>1. Inv => TypeOK
    BY DEF Inv
  <1> QED BY Invariance, <1>1, PTL

(* However often the system is stopped, removed or killed in parts, a      *)
(* gateway that takes requests has a complete schema and both topics.      *)
THEOREM GatewayIsReady == Spec => []GatewayFindsAll
  <1>1. Inv => GatewayFindsAll
    BY DEF Inv, Staged, Alive, Ready, GatewayFindsAll
  <1> QED BY Invariance, <1>1, PTL

(* However many migrations there are, one is only left dirty where the     *)
(* migrator or the database was killed or everything was stopped, and the  *)
(* migrator completes with all of them applied and clean.                  *)
THEOREM DirtyIsExplained == Spec => []DirtyMeansInterrupted
  <1>1. Inv => DirtyMeansInterrupted
    <2> SUFFICES ASSUME Inv PROVE DirtyMeansInterrupted
      OBVIOUS
    <2>1. MigrationInterruptions \in Nat
      BY Counts DEF Inv, TypeOK
    <2> QED BY <2>1 DEF Inv, Staged, CalmMigration, Is, DirtyMeansInterrupted
  <1> QED BY Invariance, <1>1, PTL

(* However many submissions wait, to a problem or to an id that is none,   *)
(* the judge only finds nobody to ask for existing test cases where        *)
(* something was interrupted.                                              *)
THEOREM BlindIsExplained == Spec => []BlindNeedsRestart
  <1>1. Inv => BlindNeedsRestart
    <2> SUFFICES ASSUME Inv PROVE BlindNeedsRestart
      OBVIOUS
    <2>1. Interruptions \in Nat
      BY Counts DEF Inv, TypeOK
    <2> QED BY <2>1 DEF Inv, CalmWork, BlindNeedsRestart
  <1> QED BY Invariance, <1>1, PTL
=============================================================================
