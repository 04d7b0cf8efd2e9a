---------------------------- MODULE JudgeStartup ----------------------------
(***************************************************************************)
(* judge_service: what NewService does before the first submission, over   *)
(* the lives of the process.  It makes sure that the runtime image is the  *)
(* one of this version of the judge, that the work volume exists, that the *)
(* worker containers of an earlier life are gone, and fills the pool with  *)
(* new ones.  Docker outlives the process, so what one life leaves behind  *)
(* is what the next one finds.                                             *)
(*   internal/service/service.go   NewService and its four helpers         *)
(*   cmd/main.go, docker-compose.yml  log.Fatalf, restart: on-failure      *)
(* Every call to Docker is a step of its own: the process may be killed    *)
(* before, between and during them.                                        *)
(***************************************************************************)
EXTENDS Faults, Integers, Sequences, FiniteSets

CONSTANTS
    WorkerCount,  \* config.WorkerCount, at least 1 (ConfigInit)
    Versions,     \* versions of the judge that may be deployed
    Runtimes,     \* contents of runtime/Dockerfile and runner.sh
    Embedded,     \* Embedded[v]: the runtime that version v embeds
    NoImage       \* the label when there is no image under the tag

ASSUME StartupConstants ==
    /\ WorkerCount \in Nat \ {0}
    /\ Embedded \in [Versions -> Runtimes]
    /\ NoImage \notin Runtimes

VARIABLES
    pc,          \* what NewService does next, see Steps
    version,     \* the version of the judge that is deployed
    life,        \* how many times the process was started
    pool,        \* the channel workerPool: the containers put into it
    image,       \* Docker: the signature the tagged image is labelled with
    volume,      \* Docker: the work volume exists
    containers,  \* Docker: the containers with the worker's label
    listed,      \* what is left of the answer to ContainerList
    cleaned,     \* history: the clean-up of this life removed all it listed
    cut,         \* history: the build of this life ended before its last message
    old          \* history: the containers that this life found

\* "down": not running.  "serving": NewService returned.
Steps == {"down", "image", "build", "volume", "list", "remove",
          "create", "start", "serving"}

dockerVars  == <<image, volume, containers>>
historyVars == <<cleaned, cut, old>>
vars == <<pc, version, life, pool, listed, dockerVars, historyVars, faults>>

\* Docker names a container for good: the uuid in judge-worker-<uuid>-<i> is
\* new in every life.
Container(i) == <<life, i>>

\* The digest of the two embedded files with LF line endings: equal for
\* versions whose runtime is the same, and the label of the image built here.
Signature == Embedded[version]

Init ==
    /\ pc = "down"
    /\ version \in Versions
    /\ life = 0
    /\ pool = <<>>
    /\ image = NoImage
    /\ volume \in BOOLEAN
    /\ containers = {}
    /\ listed = {}
    /\ cleaned = FALSE
    /\ cut = FALSE
    /\ old = {}
    /\ FaultsInit
-----------------------------------------------------------------------------
(* The process *)

\* Compose starts the container, the first time or after a failure.
Start ==
    /\ pc = "down"
    /\ pc' = "image"
    /\ life' = life + 1
    /\ pool' = <<>>
    /\ listed' = {}
    /\ cleaned' = FALSE
    /\ cut' = FALSE
    /\ old' = containers
    /\ UNCHANGED <<version, dockerVars, faults>>

\* log.Fatalf: exit status 1, Docker keeps what it has.
Fatal ==
    /\ pc' = "down"
    /\ UNCHANGED <<version, life, pool, listed, dockerVars, historyVars>>

\* The container that a call to ContainerCreate is for at this moment.
UnderWay == IF pc = "create" THEN {Len(pool) + 1} \cap 1 .. WorkerCount ELSE {}

\* The process is killed.  A container whose creation was under way may still
\* be created.
Kill ==
    /\ pc # "down"
    /\ Fails("kill")
    /\ pc' = "down"
    /\ containers' \in {containers} \cup
           {containers \cup {Container(i)} : i \in UnderWay}
    /\ UNCHANGED <<version, life, pool, listed, image, volume, historyVars>>

\* Another version of the judge is deployed in place of this one.
Deploy ==
    /\ Fails("deploy")
    /\ version' \in Versions \ {version}
    /\ pc' = "down"
    /\ UNCHANGED <<life, pool, listed, dockerVars, historyVars>>
-----------------------------------------------------------------------------
(* ensureRuntimeImage *)

\* Mutant of ImageMatches: an image under the tag is enough.
ImageExists ==
    /\ pc = "image"
    /\ image # NoImage
    /\ pc' = "volume"
    /\ UNCHANGED <<version, life, pool, listed, dockerVars, historyVars, faults>>

\* The label of the image is the signature of what this judge embeds.
ImageMatches ==
    /\ pc = "image"
    /\ image = Signature
    /\ pc' = "volume"
    /\ UNCHANGED <<version, life, pool, listed, dockerVars, historyVars, faults>>

\* There is no image under the tag, or it has another label.
ImageDiffers ==
    /\ pc = "image"
    /\ image # Signature
    /\ pc' = "build"
    /\ UNCHANGED <<version, life, pool, listed, dockerVars, historyVars, faults>>

\* ImageBuild and its output up to the end: the new image has the tag.
Build ==
    /\ pc = "build"
    /\ image' = Signature
    /\ pc' = "volume"
    /\ UNCHANGED <<version, life, pool, listed, volume, containers, historyVars, faults>>

\* The output of the build breaks off, after the two minutes of the context or
\* with the connection, between two of its messages: More returns false and
\* parseBuildErrors returns nil.  The daemon finished the image or gave it up.
BuildCut ==
    /\ pc = "build"
    /\ Fails("build_cut")
    /\ image' \in {image, Signature}
    /\ cut' = TRUE
    /\ pc' = "volume"
    /\ UNCHANGED <<version, life, pool, listed, volume, containers, cleaned, old>>

\* The inspection failed with anything but "not found"; a file of the build
\* context could not be written; the build reported an error.
RuntimeImageError ==
    /\ pc \in {"image", "build"}
    /\ Fails("docker_error")
    /\ Fatal

-----------------------------------------------------------------------------
(* ensureWorkVolume *)

EnsureWorkVolume ==
    /\ pc = "volume"
    /\ volume' = TRUE
    /\ pc' = "list"
    /\ UNCHANGED <<version, life, pool, listed, image, containers, historyVars, faults>>

WorkVolumeError ==
    /\ pc = "volume"
    /\ Fails("docker_error")
    /\ Fatal
-----------------------------------------------------------------------------
(* cleanupWorkerContainers *)

\* Mutant of ListWorkerContainers: the label tells the lives apart.
ListOwnContainers ==
    /\ pc = "list"
    /\ listed' = {c \in containers : c[1] = life}
    /\ pc' = "remove"
    /\ UNCHANGED <<version, life, pool, dockerVars, historyVars, faults>>

ListWorkerContainers ==
    /\ pc = "list"
    /\ listed' = containers
    /\ pc' = "remove"
    /\ UNCHANGED <<version, life, pool, dockerVars, historyVars, faults>>

RemoveContainer ==
    /\ pc = "remove"
    /\ \E c \in listed :
          /\ containers' = containers \ {c}
          /\ listed' = listed \ {c}
    /\ UNCHANGED <<pc, version, life, pool, image, volume, historyVars, faults>>

CleanupDone ==
    /\ pc = "remove"
    /\ listed = {}
    /\ cleaned' = TRUE
    /\ pc' = "create"
    /\ UNCHANGED <<version, life, pool, listed, dockerVars, cut, old, faults>>

\* The list or a removal fails, or the 30 seconds for all of them are over:
\* the rest of the list stays, NewService logs the error and goes on.
CleanupError ==
    /\ pc \in {"list", "remove"}
    /\ Fails("cleanup_error")
    /\ containers' \in {containers} \cup {containers \ {c} : c \in listed}
    /\ listed' = {}
    /\ pc' = "create"
    /\ UNCHANGED <<version, life, pool, image, volume, historyVars>>
-----------------------------------------------------------------------------
(* createWorkerContainers *)

\* ContainerCreate resolves the tag when it is called.
CreateContainer ==
    /\ pc = "create"
    /\ Len(pool) < WorkerCount
    /\ image # NoImage
    /\ containers' = containers \cup {Container(Len(pool) + 1)}
    /\ pc' = "start"
    /\ UNCHANGED <<version, life, pool, listed, image, volume, historyVars, faults>>

\* An error of ContainerCreate; it fails for sure without an image.
CreateContainerError ==
    /\ pc = "create"
    /\ Len(pool) < WorkerCount
    /\ \/ image = NoImage /\ UNCHANGED faults
       \/ Fails("docker_error")
    /\ Fatal

\* Mutant of StartContainer: a container that is there already is taken.
StartAnyContainer ==
    /\ pc = "start"
    /\ \E c \in containers : pool' = Append(pool, c)
    /\ pc' = "create"
    /\ UNCHANGED <<version, life, listed, dockerVars, historyVars, faults>>

\* Mutant of StartContainer: the channel is made without a buffer.
StartContainerBlocks == pc = "start" /\ UNCHANGED vars

StartContainer ==
    /\ pc = "start"
    /\ pool' = Append(pool, Container(Len(pool) + 1))
    /\ pc' = "create"
    /\ UNCHANGED <<version, life, listed, dockerVars, historyVars, faults>>

\* The container was created and stays.
StartContainerError ==
    /\ pc = "start"
    /\ Fails("docker_error")
    /\ Fatal

\* The pool is full, grpc.NewClient does not connect: NewService returns.
Serve ==
    /\ pc = "create"
    /\ Len(pool) = WorkerCount
    /\ pc' = "serving"
    /\ UNCHANGED <<version, life, pool, listed, dockerVars, historyVars, faults>>
-----------------------------------------------------------------------------
StartupStep ==
    \/ Start
    \/ ImageMatches \/ ImageDiffers \/ Build
    \/ EnsureWorkVolume
    \/ ListWorkerContainers \/ RemoveContainer \/ CleanupDone
    \/ CreateContainer \/ CreateContainerError \/ StartContainer
    \/ Serve

\* The judge serves: what it does then is the module JudgeService.
Serving == pc = "serving" /\ UNCHANGED vars

Next ==
    \/ StartupStep
    \/ Kill \/ Deploy
    \/ BuildCut \/ RuntimeImageError \/ WorkVolumeError
    \/ CleanupError \/ StartContainerError
    \/ Serving

\* NewService runs on, and compose restarts the judge when it failed.
Spec == Init /\ [][Next]_vars /\ WF_vars(StartupStep)
-----------------------------------------------------------------------------
(* Properties *)

Workers == {pool[i] : i \in DOMAIN pool}

\* Every variable has its type.
TypeOK ==
    /\ pc \in Steps
    /\ version \in Versions
    /\ life \in Nat
    /\ pool \in Seq(Nat \X (1 .. WorkerCount))
    /\ image \in Runtimes \cup {NoImage}
    /\ volume \in BOOLEAN
    /\ containers \subseteq Nat \X (1 .. WorkerCount)
    /\ listed \subseteq Nat \X (1 .. WorkerCount)
    /\ cleaned \in BOOLEAN
    /\ cut \in BOOLEAN
    /\ old \subseteq Nat \X (1 .. WorkerCount)
    /\ FaultsType

(* A judge that serves has WorkerCount containers, all different, all      *)
(* there, and none that an earlier life used: what an abandoned exec of    *)
(* that life still runs in one is never beside a submission of this life.  *)
PoolIsFresh ==
    pc = "serving" =>
        /\ Cardinality(Workers) = WorkerCount
        /\ Workers \subseteq containers \ old

(* A life that could list and remove without an error has no container     *)
(* beside its pool, whatever the lives before it left: killed between two  *)
(* creations, or after a creation and before the start.                    *)
CleanStart == pc = "serving" /\ cleaned => containers = Workers

(* The clean-up stops at its first error and the error is only logged; yet *)
(* the containers on the host never exceed one pool per such error and the *)
(* pool of the present life, however often the judge is killed.            *)
ContainersBounded ==
    Cardinality(containers) <= WorkerCount * (1 + Failed("cleanup_error"))

(* A judge that serves runs submissions in the runtime of its own version, *)
(* unless the build of this life was cut off.                              *)
RuntimeIsOursOrCut == pc = "serving" => image = Signature \/ cut

(* Whatever failed, and whatever earlier lives left behind, the judge      *)
(* serves in the end and goes on serving.                                  *)
ServesInTheEnd == <>[](pc = "serving")

=============================================================================
