------------------------- MODULE JudgeStartup_proofs -------------------------
(***************************************************************************)
(* Safety of the start of the judge for pools of any size, any versions    *)
(* and any number of kills, deployments and errors of Docker.  The heart   *)
(* of it is what a life knows of the containers on the host: that all it   *)
(* finds are older than its own, that it removes them before it creates    *)
(* any, and, when it could not, how many there can be.                     *)
(***************************************************************************)
EXTENDS JudgeStartup, TLAPS, FiniteSetTheorems, SequenceTheorems

\* NewService has passed the clean-up.
Filling == pc \in {"create", "start", "serving"}

Own == {Container(i) : i \in 1 .. WorkerCount}

\* How many containers of this life were created: one of them may not be
\* started yet.
Created == IF pc = "start" THEN Len(pool) + 1 ELSE Len(pool)

PoolInOrder ==
    /\ Len(pool) <= WorkerCount
    /\ \A i \in 1 .. Len(pool) : pool[i] = Container(i)
    /\ pc = "start" => Len(pool) < WorkerCount
    /\ pc = "serving" => Len(pool) = WorkerCount
    /\ ~ Filling /\ pc # "down" => pool = <<>>

Lives ==
    /\ \A c \in containers : c[1] <= life
    /\ \A c \in old : c[1] < life
    /\ ~ Filling /\ pc # "down" => containers \subseteq old

PoolIsThere ==
    Filling => \A i \in 1 .. Created : Container(i) \in containers

CleanedUp ==
    /\ pc = "remove" => listed = containers
    /\ cleaned => pc = "down" \/ Filling
    /\ Filling /\ cleaned => containers \subseteq {Container(i) : i \in 1 .. Created}

RuntimeKnown ==
    pc \notin {"down", "image", "build"} => image = Signature \/ cut

Bounded ==
    /\ IsFiniteSet(containers)
    /\ Cardinality(containers) <= WorkerCount * (1 + Failed("cleanup_error"))
    /\ Filling => Cardinality(containers \ Own) <= WorkerCount * Failed("cleanup_error")

Inv ==
    /\ TypeOK
    /\ PoolInOrder /\ Lives /\ PoolIsThere /\ CleanedUp
    /\ RuntimeKnown /\ Bounded
-----------------------------------------------------------------------------
(* Faults and the containers of one life *)

LEMMA FaultStep ==
  ASSUME FaultsType, NEW kind, Fails(kind)
  PROVE  /\ FaultsType'
         /\ kind # "cleanup_error" => Failed("cleanup_error")' = Failed("cleanup_error")
         /\ kind = "cleanup_error" => Failed("cleanup_error")' = Failed("cleanup_error") + 1
  BY FaultBudget DEF FaultsType, Fails, Failed

LEMMA NoFault ==
  ASSUME FaultsType, UNCHANGED faults
  PROVE  FaultsType' /\ Failed("cleanup_error")' = Failed("cleanup_error")
  BY DEF FaultsType, Failed

LEMMA FailedType ==
  ASSUME FaultsType
  PROVE  Failed("cleanup_error") \in Nat
  BY FaultBudget DEF FaultsType, Failed

\* One life has as many containers as its pool has places.
LEMMA OwnSize ==
  ASSUME TypeOK
  PROVE  IsFiniteSet(Own) /\ Cardinality(Own) = WorkerCount
  <1> DEFINE f == [i \in 1 .. WorkerCount |-> Container(i)]
  <1>1. IsFiniteSet(1 .. WorkerCount) /\ Cardinality(1 .. WorkerCount) = WorkerCount
    BY StartupConstants, FS_Interval
  <1>2. f \in Surjection(1 .. WorkerCount, Own)
    BY DEF Surjection, Own
  <1>3. f \in Injection(1 .. WorkerCount, Own)
    <2>1. f \in [1 .. WorkerCount -> Own]
      BY DEF Own
    <2>2. \A a, b \in 1 .. WorkerCount : f[a] = f[b] => a = b
      BY DEF Container
    <2> HIDE DEF f
    <2> QED BY <2>1, <2>2 DEF Injection, IsInjective
  <1> QED BY <1>1, <1>2, <1>3, FS_Surjection

\* What a life may add to the containers it could not remove.
LEMMA OwnAdds ==
  ASSUME TypeOK, Bounded, Filling, NEW C, C \subseteq containers \cup Own
  PROVE  /\ IsFiniteSet(C)
         /\ Cardinality(C) <= WorkerCount * (1 + Failed("cleanup_error"))
         /\ Cardinality(C \ Own) <= WorkerCount * Failed("cleanup_error")
  <1> DEFINE B == containers \ Own
             F == Failed("cleanup_error")
  <1>1. IsFiniteSet(Own) /\ Cardinality(Own) = WorkerCount
    BY OwnSize
  <1>2. IsFiniteSet(B) /\ Cardinality(B) \in Nat /\ Cardinality(B) <= WorkerCount * F
    BY FS_Subset, FS_CardinalityType DEF Bounded
  <1>3. /\ IsFiniteSet(B \cup Own)
        /\ Cardinality(B \cup Own) = Cardinality(B) + Cardinality(Own) - Cardinality(B \cap Own)
    BY <1>1, <1>2, FS_Union
  <1>4. Cardinality(B \cap Own) = 0
    <2>1. B \cap Own = {}
      OBVIOUS
    <2> QED BY <2>1, FS_EmptySet
  <1>5. Cardinality(B \cup Own) = Cardinality(B) + WorkerCount
    BY <1>1, <1>2, <1>3, <1>4, StartupConstants
  <1>6. IsFiniteSet(C) /\ Cardinality(C) <= Cardinality(B \cup Own)
    BY <1>3, FS_Subset
  <1>7. Cardinality(C \ Own) <= Cardinality(B)
    BY <1>2, FS_Subset
  <1>8. IsFiniteSet(C \ Own)
    BY <1>6, FS_Subset
  <1>9. Cardinality(C) \in Nat /\ Cardinality(C \ Own) \in Nat /\ F \in Nat
    BY <1>6, <1>8, FS_CardinalityType, FailedType DEF TypeOK
  <1>10. WorkerCount * (1 + F) = WorkerCount + WorkerCount * F /\ WorkerCount * F \in Nat
    BY <1>9, StartupConstants
  <1> HIDE DEF F
  <1> QED BY <1>2, <1>5, <1>6, <1>7, <1>9, <1>10, StartupConstants DEF F
-----------------------------------------------------------------------------
LEMMA Initially == Init => Inv
  <1> SUFFICES ASSUME Init PROVE Inv
    OBVIOUS
  <1>1. FaultsType
    BY FaultBudget DEF Init, FaultsInit, FaultsType
  <1>2. pool = <<>> /\ pool \in Seq(Nat \X (1 .. WorkerCount)) /\ Len(pool) = 0
    BY DEF Init
  <1>3. TypeOK
    BY <1>1, <1>2 DEF Init, TypeOK, Steps
  <1>4. PoolInOrder
    BY <1>2, StartupConstants DEF Init, PoolInOrder, Filling
  <1>5. Lives /\ PoolIsThere /\ CleanedUp /\ RuntimeKnown
    BY DEF Init, Lives, PoolIsThere, CleanedUp, RuntimeKnown, Filling
  <1>6. Bounded
    <2>1. Failed("cleanup_error") \in Nat
      BY <1>1, FailedType
    <2>2. WorkerCount * (1 + Failed("cleanup_error")) \in Nat
      BY <2>1, StartupConstants
    <2> QED BY <2>2, FS_EmptySet DEF Init, Bounded, Filling
  <1> QED BY <1>3, <1>4, <1>5, <1>6 DEF Inv

LEMMA TypeStep == TypeOK /\ PoolInOrder /\ [Next]_vars => TypeOK'
  <1> SUFFICES ASSUME TypeOK, PoolInOrder, [Next]_vars PROVE TypeOK'
    OBVIOUS
  <1> USE DEF TypeOK, Steps, Fatal, dockerVars, historyVars
  <1>1. FaultsType'
    BY FaultStep, NoFault DEF Next, vars, StartupStep, Start, ImageMatches, ImageDiffers, Build,
       EnsureWorkVolume, ListWorkerContainers, RemoveContainer, CleanupDone, CreateContainer,
       CreateContainerError, StartContainer, Serve, Kill, Deploy, BuildCut, RuntimeImageError,
       WorkVolumeError, CleanupError, StartContainerError, Serving
  <1>2. ASSUME NEW i \in 1 .. WorkerCount
        PROVE  Container(i) \in Nat \X (1 .. WorkerCount)
    BY DEF Container
  <1>3. /\ pool' \in Seq(Nat \X (1 .. WorkerCount))
        /\ pc' \in Steps
    <2>1. CASE StartContainer
      <3>1. Len(pool) + 1 \in 1 .. WorkerCount
        BY <2>1, StartupConstants DEF StartContainer, PoolInOrder
      <3> QED BY <1>2, <2>1, <3>1 DEF StartContainer
    <2>2. CASE ~ StartContainer
      <3> <<>> \in Seq(Nat \X (1 .. WorkerCount))
        OBVIOUS
      <3>1. pool' \in {pool, <<>>} /\ pc' \in Steps
        BY <2>2 DEF Next, vars, StartupStep, Start, ImageMatches, ImageDiffers, Build,
           EnsureWorkVolume, ListWorkerContainers, RemoveContainer, CleanupDone, CreateContainer,
           CreateContainerError, Serve, Kill, Deploy, BuildCut, RuntimeImageError,
           WorkVolumeError, CleanupError, StartContainerError, Serving
      <3>2. pool' \in Seq(Nat \X (1 .. WorkerCount))
        BY <3>1
      <3> QED BY <3>1, <3>2
    <2> QED BY <2>1, <2>2
  <1>4. containers' \subseteq Nat \X (1 .. WorkerCount)
    <2>1. CASE CreateContainer
      <3>1. Len(pool) + 1 \in 1 .. WorkerCount
        BY <2>1, StartupConstants DEF CreateContainer
      <3> QED BY <1>2, <2>1, <3>1 DEF CreateContainer
    <2>2. CASE Kill
      <3>1. UnderWay \subseteq 1 .. WorkerCount
        BY DEF UnderWay
      <3>2. containers' = containers \/ \E i \in UnderWay : containers' = containers \cup {Container(i)}
        BY <2>2 DEF Kill
      <3> QED BY <1>2, <3>1, <3>2
    <2>3. CASE ~ CreateContainer /\ ~ Kill
      <3>1. containers' \subseteq containers
        BY <2>3 DEF Next, vars, StartupStep, Start, ImageMatches, ImageDiffers, Build,
           EnsureWorkVolume, ListWorkerContainers, RemoveContainer, CleanupDone, 
           CreateContainerError, StartContainer, Serve, Deploy, BuildCut, RuntimeImageError,
           WorkVolumeError, CleanupError, StartContainerError, Serving
      <3> QED BY <3>1
    <2> QED BY <2>1, <2>2, <2>3
  <1>5. /\ version' \in Versions /\ life' \in Nat
        /\ image' \in Runtimes \cup {NoImage} /\ volume' \in BOOLEAN
        /\ listed' \subseteq Nat \X (1 .. WorkerCount)
        /\ cleaned' \in BOOLEAN /\ cut' \in BOOLEAN
        /\ old' \subseteq Nat \X (1 .. WorkerCount)
    <2>1. version' \in Versions /\ life' \in Nat
      <3>1. version' \in Versions \cup {version} /\ life' \in {life, life + 1}
        BY DEF Next, vars, StartupStep, Start, ImageMatches, ImageDiffers, Build,
           EnsureWorkVolume, ListWorkerContainers, RemoveContainer, CleanupDone, CreateContainer,
           CreateContainerError, StartContainer, Serve, Kill, Deploy, BuildCut, RuntimeImageError,
           WorkVolumeError, CleanupError, StartContainerError, Serving
      <3> QED BY <3>1
    <2>4. cleaned' \in BOOLEAN /\ cut' \in BOOLEAN
      <3>1. cleaned' \in {cleaned, TRUE, FALSE} /\ cut' \in {cut, TRUE, FALSE}
        BY DEF Next, vars, StartupStep, Start, ImageMatches, ImageDiffers, Build,
           EnsureWorkVolume, ListWorkerContainers, RemoveContainer, CleanupDone, CreateContainer,
           CreateContainerError, StartContainer, Serve, Kill, Deploy, BuildCut, RuntimeImageError,
           WorkVolumeError, CleanupError, StartContainerError, Serving
      <3> QED BY <3>1
    <2>2. image' \in Runtimes \cup {NoImage} /\ volume' \in BOOLEAN
      <3>1. Signature \in Runtimes
        BY StartupConstants DEF Signature
      <3>2. image' \in {image, Signature} /\ volume' \in {volume, TRUE}
        BY DEF Next, vars, StartupStep, Start, ImageMatches, ImageDiffers, Build,
           EnsureWorkVolume, ListWorkerContainers, RemoveContainer, CleanupDone, CreateContainer,
           CreateContainerError, StartContainer, Serve, Kill, Deploy, BuildCut, RuntimeImageError,
           WorkVolumeError, CleanupError, StartContainerError, Serving
      <3> QED BY <3>1, <3>2
    <2>3. listed' \subseteq containers \cup listed /\ old' \in {containers, old}
      BY DEF Next, vars, StartupStep, Start, ImageMatches, ImageDiffers, Build,
       EnsureWorkVolume, ListWorkerContainers, RemoveContainer, CleanupDone, CreateContainer,
       CreateContainerError, StartContainer, Serve, Kill, Deploy, BuildCut, RuntimeImageError,
       WorkVolumeError, CleanupError, StartContainerError, Serving
    <2> QED BY <2>1, <2>2, <2>3, <2>4
  <1> QED BY <1>1, <1>3, <1>4, <1>5

LEMMA PoolStep == TypeOK /\ PoolInOrder /\ [Next]_vars => PoolInOrder'
  <1> SUFFICES ASSUME TypeOK, PoolInOrder, [Next]_vars PROVE PoolInOrder'
    OBVIOUS
  <1> USE DEF PoolInOrder, Filling, Container, dockerVars, historyVars
  <1>1. CASE StartContainer
    <2>1. pool \in Seq(Nat \X (1 .. WorkerCount)) /\ WorkerCount \in Nat
      BY StartupConstants DEF TypeOK
    <2>2. /\ Len(pool') = Len(pool) + 1
          /\ \A i \in 1 .. Len(pool) : pool'[i] = pool[i]
          /\ pool'[Len(pool) + 1] = Container(Len(pool) + 1)
      BY <1>1, <2>1 DEF StartContainer
    <2> QED BY <1>1, <2>1, <2>2 DEF StartContainer
  <1>2. CASE Start
    BY <1>2, StartupConstants DEF Start
  <1>3. CASE UNCHANGED <<pool, life>> /\ (pc' = "down" \/ (pc' = pc))
    BY <1>3
  <1>4. CASE UNCHANGED <<pool, life>> /\ pc' \in Steps \ {"down", "start", "serving"}
                                     /\ ~ Filling /\ pc # "down"
    BY <1>4
  <1>5. CASE CreateContainer \/ Serve
    BY <1>5 DEF CreateContainer, Serve
  <1> QED
    BY <1>1, <1>2, <1>3, <1>4, <1>5
       DEF Next, vars, StartupStep, ImageMatches, ImageDiffers, Build, Fatal, Steps,
       EnsureWorkVolume, ListWorkerContainers, RemoveContainer, CleanupDone, 
       CreateContainerError, Kill, Deploy, BuildCut, RuntimeImageError,
       WorkVolumeError, CleanupError, StartContainerError, Serving
-----------------------------------------------------------------------------
LEMMA LivesStep == TypeOK /\ PoolInOrder /\ Lives /\ [Next]_vars => Lives'
  <1> SUFFICES ASSUME TypeOK, PoolInOrder, Lives, [Next]_vars PROVE Lives'
    OBVIOUS
  <1> USE DEF Lives, Filling, dockerVars, historyVars
  <1>1. life \in Nat /\ \A c \in containers \cup old : c[1] \in Nat
    BY DEF TypeOK
  <1>2. CASE Start
    BY <1>1, <1>2 DEF Start
  <1>3. CASE CreateContainer \/ Kill
    <2>1. \A c \in containers' \ containers : c[1] = life
      BY <1>3 DEF CreateContainer, Kill, Container
    <2>2. life' = life /\ old' = old /\ pc' \in {"start", "down"}
      BY <1>3 DEF CreateContainer, Kill
    <2> QED BY <1>1, <2>1, <2>2
  <1>4. CASE /\ life' = life /\ old' = old /\ containers' \subseteq containers
             /\ pc' \in {"down", "create", "start", "serving"} \/ (~ Filling /\ pc # "down")
    BY <1>4
  <1> QED
    BY <1>2, <1>3, <1>4
       DEF Next, vars, StartupStep, ImageMatches, ImageDiffers, Build, Fatal, Steps,
       EnsureWorkVolume, ListWorkerContainers, RemoveContainer, CleanupDone, 
       CreateContainerError, StartContainer, Serve, Deploy, BuildCut, RuntimeImageError,
       WorkVolumeError, CleanupError, StartContainerError, Serving

LEMMA PoolIsThereStep == TypeOK /\ PoolInOrder /\ PoolIsThere /\ [Next]_vars => PoolIsThere'
  <1> SUFFICES ASSUME TypeOK, PoolInOrder, PoolIsThere, [Next]_vars, Filling'
               PROVE  \A i \in 1 .. Created' : Container(i)' \in containers'
    BY DEF PoolIsThere
  <1> USE DEF PoolIsThere, Filling, Created, dockerVars, historyVars
  <1>1. pool \in Seq(Nat \X (1 .. WorkerCount)) /\ Len(pool) \in Nat
    BY DEF TypeOK
  <1>2. CASE CreateContainer
    BY <1>1, <1>2 DEF CreateContainer, Container
  <1>3. CASE StartContainer
    <2>1. Len(pool') = Len(pool) + 1
      BY <1>1, <1>3 DEF StartContainer
    <2> QED BY <1>1, <1>3, <2>1 DEF StartContainer, Container
  <1>4. CASE CleanupDone \/ CleanupError
    <2>1. pool' = <<>> /\ pc' = "create"
      BY <1>4 DEF CleanupDone, CleanupError, PoolInOrder
    <2> QED BY <2>1
  <1>5. CASE Serve \/ UNCHANGED <<pc, pool, life, containers>>
    BY <1>5 DEF Serve, Container
  <1> QED
    BY <1>2, <1>3, <1>4, <1>5
       DEF Next, vars, StartupStep, Start, ImageMatches, ImageDiffers, Build, Fatal,
       EnsureWorkVolume, ListWorkerContainers, RemoveContainer, Kill,
       CreateContainerError, Deploy, BuildCut, RuntimeImageError,
       WorkVolumeError, StartContainerError, Serving

LEMMA CleanedUpStep == TypeOK /\ PoolInOrder /\ CleanedUp /\ [Next]_vars => CleanedUp'
  <1> SUFFICES ASSUME TypeOK, PoolInOrder, CleanedUp, [Next]_vars PROVE CleanedUp'
    OBVIOUS
  <1> USE DEF CleanedUp, Filling, Created, dockerVars, historyVars
  <1>1. pool \in Seq(Nat \X (1 .. WorkerCount)) /\ Len(pool) \in Nat
    BY DEF TypeOK
  <1>2. CASE CreateContainer
    BY <1>1, <1>2 DEF CreateContainer, Container
  <1>3. CASE StartContainer
    <2>1. Len(pool') = Len(pool) + 1
      BY <1>1, <1>3 DEF StartContainer
    <2> QED BY <1>1, <1>3, <2>1 DEF StartContainer, Container
  <1>4. CASE Serve
    BY <1>4 DEF Serve, Container
  <1>5. CASE CleanupDone
    BY <1>5 DEF CleanupDone
  <1>6. CASE CleanupError
    BY <1>6 DEF CleanupError
  <1>7. CASE ListWorkerContainers
    BY <1>7 DEF ListWorkerContainers
  <1>11. CASE RemoveContainer
    <2>1. /\ pc = "remove" /\ pc' = "remove" /\ cleaned' = cleaned
          /\ \E c \in listed : containers' = containers \ {c} /\ listed' = listed \ {c}
      BY <1>11 DEF RemoveContainer
    <2> QED BY <2>1
  <1>8. CASE Start
    BY <1>8 DEF Start
  <1>9. CASE UNCHANGED vars
    BY <1>9 DEF vars, Container
  <1>10. CASE pc' = "down" \/ (~ Filling /\ pc # "down" /\ cleaned' = cleaned
                                /\ pc' \in {"build", "volume", "list"})
    BY <1>10
  <1> QED
    BY <1>2, <1>3, <1>4, <1>5, <1>6, <1>7, <1>8, <1>9, <1>10, <1>11
       DEF Next, StartupStep, ImageMatches, ImageDiffers, Build, Fatal,
       EnsureWorkVolume, Kill, CreateContainerError, Deploy, BuildCut, RuntimeImageError,
       WorkVolumeError, StartContainerError, Serving

LEMMA RuntimeStep == TypeOK /\ RuntimeKnown /\ [Next]_vars => RuntimeKnown'
  BY DEF RuntimeKnown, dockerVars, historyVars, Signature, TypeOK, Steps,
     Next, vars, StartupStep, Start, ImageMatches, ImageDiffers, Build, Fatal,
     EnsureWorkVolume, ListWorkerContainers, RemoveContainer, CleanupDone, CreateContainer,
     CreateContainerError, StartContainer, Serve, Kill, Deploy, BuildCut, RuntimeImageError,
     WorkVolumeError, CleanupError, StartContainerError, Serving
-----------------------------------------------------------------------------
LEMMA BoundedStep == Inv /\ [Next]_vars => Bounded'
  <1> SUFFICES ASSUME Inv, [Next]_vars PROVE Bounded'
    OBVIOUS
  <1> DEFINE F == Failed("cleanup_error")
  <1> USE DEF dockerVars, historyVars, Fatal
  <1>1. TypeOK /\ Bounded /\ F \in Nat /\ WorkerCount \in Nat
    BY FailedType, StartupConstants DEF Inv, TypeOK
  <1>2. /\ WorkerCount * F \in Nat
        /\ WorkerCount * (1 + F) \in Nat
        /\ WorkerCount * (1 + F) <= WorkerCount * (1 + (F + 1))
    BY <1>1
  <1>3. ASSUME NEW C, C \subseteq containers
        PROVE  IsFiniteSet(C) /\ Cardinality(C) \in Nat /\ Cardinality(C) <= WorkerCount * (1 + F)
    <2>1. IsFiniteSet(C) /\ Cardinality(C) <= Cardinality(containers)
      BY <1>1, <1>3, FS_Subset DEF Bounded
    <2>2. Cardinality(C) \in Nat /\ Cardinality(containers) \in Nat
      BY <1>1, <2>1, FS_CardinalityType DEF Bounded
    <2> QED BY <1>1, <1>2, <2>1, <2>2 DEF Bounded
  <1>4. CASE CleanupError
    <2>1. F' = F + 1
      BY <1>1, <1>4, FaultStep DEF CleanupError, TypeOK
    <2>2. containers' \subseteq containers
      BY <1>4 DEF CleanupError
    <2>3. containers' \ Own' \subseteq containers
      BY <2>2
    <2>4. WorkerCount * F' = WorkerCount * (1 + F)
      BY <1>1, <2>1
    <2>5. Cardinality(containers') <= WorkerCount * (1 + F')
      <3>1. Cardinality(containers') \in Nat /\ Cardinality(containers') <= WorkerCount * (1 + F)
        BY <1>3, <2>2
      <3>2. WorkerCount * (1 + F') = WorkerCount * (1 + F) + WorkerCount
        BY <1>1, <2>1
      <3> QED BY <1>1, <1>2, <3>1, <3>2
    <2> QED BY <1>3, <2>2, <2>3, <2>4, <2>5 DEF Bounded
  <1>5. CASE ~ CleanupError
    <2>1. F' = F
      BY <1>1, <1>5, FaultStep, NoFault DEF TypeOK, Next, vars, StartupStep, Start, ImageMatches,
         ImageDiffers, Build, EnsureWorkVolume, ListWorkerContainers, RemoveContainer, CleanupDone,
         CreateContainer, CreateContainerError, StartContainer, Serve, Kill, Deploy, BuildCut,
         RuntimeImageError, WorkVolumeError, StartContainerError, Serving
    <2>2. CASE CreateContainer
      <3>1. Filling /\ Own' = Own
        BY <2>2 DEF CreateContainer, Filling, Own, Container
      <3>2. Len(pool) + 1 \in 1 .. WorkerCount
        BY <1>1, <2>2 DEF CreateContainer, TypeOK
      <3>3. containers' \subseteq containers \cup Own
        BY <2>2, <3>2 DEF CreateContainer, Own
      <3> QED BY <1>1, <2>1, <3>1, <3>3, OwnAdds DEF Bounded
    <2>3. CASE Kill
      <3>1. ~ Filling'
        BY <2>3 DEF Kill, Filling
      <3>2. CASE containers' = containers
        BY <1>3, <2>1, <3>1, <3>2 DEF Bounded
      <3>3. CASE containers' # containers
        <4>1. Filling /\ containers' \subseteq containers \cup Own
          BY <2>3, <3>3 DEF Kill, UnderWay, Filling, Own
        <4> QED BY <1>1, <2>1, <3>1, <4>1, OwnAdds DEF Bounded
      <3> QED BY <3>2, <3>3
    <2>4. CASE CleanupDone
      <3>1. containers' = {}
        BY <2>4 DEF CleanupDone, Inv, CleanedUp
      <3>2. containers' \ Own' = {}
        BY <3>1
      <3> QED BY <1>2, <2>1, <3>1, <3>2, FS_EmptySet DEF Bounded
    <2>5. CASE StartContainer \/ Serve \/ UNCHANGED vars
      <3>1. containers' = containers /\ Own' = Own /\ (Filling' => Filling)
        BY <2>5 DEF StartContainer, Serve, vars, Own, Container, Filling
      <3> QED BY <1>1, <2>1, <3>1 DEF Bounded
    <2>6. CASE ~ Filling' /\ containers' \subseteq containers
      BY <1>3, <2>1, <2>6 DEF Bounded
    <2> QED
      BY <1>5, <2>2, <2>3, <2>4, <2>5, <2>6
         DEF Next, StartupStep, Start, ImageMatches, ImageDiffers, Build, EnsureWorkVolume,
         ListWorkerContainers, RemoveContainer, CreateContainerError, Deploy, BuildCut,
         RuntimeImageError, WorkVolumeError, StartContainerError, Serving, Filling
  <1> QED BY <1>4, <1>5

THEOREM Invariance == Spec => []Inv
  <1>1. Inv /\ [Next]_vars => Inv'
    BY TypeStep, PoolStep, LivesStep, PoolIsThereStep, CleanedUpStep, RuntimeStep, BoundedStep
       DEF Inv
  <1> QED BY Initially, <1>1, PTL DEF Spec

(* Every variable has its type: in particular the pool never has a place   *)
(* outside 1 .. WorkerCount.                                               *)
THEOREM TypeCorrect == Spec => []TypeOK
  <1>1. Inv => TypeOK
    BY DEF Inv
  <1> QED BY Invariance, <1>1, PTL

(* A pool of any size is complete and new whenever the judge serves.       *)
THEOREM ServesFreshPool == Spec => []PoolIsFresh
  <1>1. Inv => PoolIsFresh
    <2> SUFFICES ASSUME Inv, pc = "serving"
                 PROVE  /\ Cardinality(Workers) = WorkerCount
                        /\ Workers \subseteq containers \ old
      BY DEF PoolIsFresh
    <2>1. Len(pool) = WorkerCount /\ DOMAIN pool = 1 .. WorkerCount
      BY DEF Inv, PoolInOrder, TypeOK
    <2>2. Workers = Own
      BY <2>1 DEF Inv, PoolInOrder, Workers, Own
    <2>3. Own \subseteq containers
      BY <2>1 DEF Inv, PoolIsThere, Filling, Created, Own
    <2>4. \A c \in Own : c[1] = life
      BY DEF Own, Container
    <2>5. life \in Nat
      BY DEF Inv, TypeOK
    <2>6. Own \cap old = {}
      BY <2>4, <2>5 DEF Inv, Lives
    <2> QED BY <2>2, <2>3, <2>6, OwnSize DEF Inv
  <1> QED BY Invariance, <1>1, PTL

(* Whatever earlier lives left: nothing of it is left after a clean-up     *)
(* without an error.                                                       *)
THEOREM StartsClean == Spec => []CleanStart
  <1>1. Inv => CleanStart
    <2> SUFFICES ASSUME Inv, pc = "serving", cleaned PROVE containers = Workers
      BY DEF CleanStart
    <2>1. DOMAIN pool = 1 .. Len(pool)
      BY DEF Inv, TypeOK
    <2>2. Workers = {Container(i) : i \in 1 .. Len(pool)}
      BY <2>1 DEF Inv, PoolInOrder, Workers
    <2> QED BY <2>2 DEF Inv, PoolIsThere, CleanedUp, Filling, Created
  <1> QED BY Invariance, <1>1, PTL

(* For pools of any size and any number of kills: one pool per failed      *)
(* clean-up, and that of the present life.                                 *)
THEOREM HostIsBounded == Spec => []ContainersBounded
  <1>1. Inv => ContainersBounded
    BY DEF Inv, Bounded, ContainersBounded
  <1> QED BY Invariance, <1>1, PTL

(* For any versions and any embedded runtimes, two of which may be equal.  *)
THEOREM RuntimeIsKnown == Spec => []RuntimeIsOursOrCut
  <1>1. Inv => RuntimeIsOursOrCut
    BY DEF Inv, RuntimeKnown, RuntimeIsOursOrCut
  <1> QED BY Invariance, <1>1, PTL
=============================================================================
