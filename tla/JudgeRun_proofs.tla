--------------------------- MODULE JudgeRun_proofs ---------------------------
(***************************************************************************)
(* Safety of judge() for any number of tests and any faults.  The          *)
(* invariant says what judge() knows at each place: which phases are       *)
(* behind it, and that every test before the current one was passed.       *)
(***************************************************************************)
EXTENDS JudgeRun, SequenceTheorems, TLAPS

InExec == pc \in {"exec", "stdin", "wait", "inspect"}

\* Only a language with a configuration and a problem with tests get here.
Reachable ==
    /\ pc \in {"down", "idle"} => test = 0
    /\ pc \in {"tests", "prepare"} \/ InExec => program.lang \in {"go", "python"}
    /\ pc = "prepare" \/ InExec => program.tests # <<>>

\* The phases and tests before the current one were passed.
Progress ==
    InExec =>
       /\ test = 0 => program.lang = "go"
       /\ test > 0 /\ program.lang = "go" => program.build = "ok"
       /\ \A j \in 1 .. test - 1 :
             program.tests[j] = "match" \/ "stream_error" \in hurt

\* What the history variables record of the exec that runs.
Recorded ==
    /\ InExec /\ cut => "stream_error" \in hurt \/ pc = "exec"
    /\ pc \in {"stdin", "wait", "inspect"} /\ exitCode = Running /\ leftovers # {} =>
          disturbed
    /\ pc \in {"stdin", "wait", "inspect"} /\ exitCode # Running =>
          exitCode \in OwnExitCodes \/ (disturbed /\ exitCode = TimedOut)

\* Until it is decided a judging has left nothing but a child of its program.
OnlyChildren ==
    pc \in {"tests", "prepare"} \/ InExec =>
       leftovers \subseteq {"earlier"} \cup {k \in {"child"} : program.detaches}

RunInv ==
    /\ TypeOK /\ Reachable /\ Progress /\ Recorded /\ OnlyChildren
    /\ VerdictExplained /\ LeftoversExplained
-----------------------------------------------------------------------------
LEMMA FaultStep ==
  ASSUME NEW kind, FaultsType, Fails(kind)
  PROVE  /\ FaultsType'
         /\ Failed(kind)' = Failed(kind) + 1
         /\ \A other : other # kind => Failed(other)' = Failed(other)
  BY FaultBudget DEF FaultsType, Fails, Failed

\* A program is a language, a build and a sequence of behaviours.
LEMMA ProgramShape ==
  ASSUME NEW p \in Programs
  PROVE  /\ p.lang \in Languages /\ p.build \in Builds
         /\ p.tests \in Seq(Behaviours)
         /\ Len(p.tests) \in Nat /\ DOMAIN p.tests = 1 .. Len(p.tests)
         /\ p.tests # <<>> => Len(p.tests) > 0
  <1>1. PICK n \in 0 .. MaxTests :
           p \in [lang : Languages, build : Builds, detaches : BOOLEAN,
                  tests : [1 .. n -> Behaviours]]
    BY DEF Programs
  <1>2. p.tests \in [1 .. n -> Behaviours] /\ n \in Nat
    BY <1>1, RunConstants
  <1>3. p.tests \in Seq(Behaviours)
    BY <1>2, SeqDef
  <1>4. Len(p.tests) \in Nat /\ DOMAIN p.tests = 1 .. Len(p.tests)
    BY <1>3
  <1>5. p.tests # <<>> => Len(p.tests) > 0
    BY <1>3
  <1> QED BY <1>1, <1>3, <1>4, <1>5

\* The tests of a program that passes all of them deserve AC.
LEMMA DeservedAC ==
  ASSUME NEW p \in Programs, p.lang \in {"go", "python"},
         p.lang = "go" => p.build = "ok",
         \A j \in 1 .. Len(p.tests) : p.tests[j] = "match"
  PROVE  Deserved(p) = "AC"
  BY ProgramShape DEF Deserved, PassesAll

\* The first test that is not passed decides.
LEMMA DeservedAt ==
  ASSUME NEW p \in Programs, p.lang \in {"go", "python"},
         p.lang = "go" => p.build = "ok",
         NEW i \in 1 .. Len(p.tests),
         \A j \in 1 .. i - 1 : p.tests[j] = "match", p.tests[i] # "match"
  PROVE  Deserved(p) = CASE p.tests[i] = "differ" -> "WA"
                         [] p.tests[i] = "crash"  -> "RE"
                         [] OTHER                 -> "TLE"
  <1>1. Len(p.tests) \in Nat /\ DOMAIN p.tests = 1 .. Len(p.tests)
    BY ProgramShape
  <1> DEFINE First(k) == p.tests[k] # "match" /\ \A j \in 1 .. k - 1 : p.tests[j] = "match"
  <1>2. i \in DOMAIN p.tests /\ First(i)
    BY <1>1
  <1>3. ASSUME NEW k \in DOMAIN p.tests, First(k)  PROVE k = i
    <2>1. CASE k < i
      BY <1>1, <1>3, <2>1
    <2>2. CASE i < k
      BY <1>1, <1>3, <2>2
    <2> QED BY <1>1, <2>1, <2>2
  <1>4. Failing(p) = i
    BY <1>2, <1>3 DEF Failing
  <1>5. ~PassesAll(p) /\ p.tests # <<>>
    BY <1>1, <1>2 DEF PassesAll
  <1> QED BY <1>4, <1>5 DEF Deserved
-----------------------------------------------------------------------------
\* The exit codes of the program itself.
LEMMA OwnCodes ==
  ASSUME TypeOK
  PROVE  /\ OwnExitCodes \subseteq {0, 1, TimedOut}
         /\ test = 0 /\ 0 \in OwnExitCodes => program.build = "ok"
         /\ test = 0 /\ 1 \in OwnExitCodes => program.build = "error"
         /\ test = 0 => TimedOut \notin OwnExitCodes
         /\ test > 0 => /\ test \in 1 .. Len(program.tests)
                        /\ 0 \in OwnExitCodes => Behaviour \in {"match", "differ"}
                        /\ 1 \in OwnExitCodes => Behaviour = "crash"
                        /\ TimedOut \in OwnExitCodes => Behaviour = "killed"
  <1>1. /\ program.build \in Builds /\ Len(program.tests) \in Nat
        /\ DOMAIN program.tests = 1 .. Len(program.tests)
        /\ program.tests \in Seq(Behaviours)
    BY ProgramShape DEF TypeOK
  <1>2. CASE test = 0
    BY <1>1, <1>2 DEF OwnExitCodes, Overruns, Builds, TimedOut
  <1>3. CASE test # 0
    <2>1. test \in 1 .. Len(program.tests)
      BY <1>1, <1>3 DEF TypeOK
    <2>2. Behaviour \in Behaviours
      BY <1>1, <2>1 DEF Behaviour
    <2>3. OwnExitCodes = IF Overruns THEN {}
                         ELSE CASE Behaviour \in {"match", "differ"} -> {0}
                                [] Behaviour = "crash"               -> {1}
                                [] OTHER                             -> {TimedOut}
      BY <1>3 DEF OwnExitCodes
    <2>4. Overruns <=> Behaviour \in {"stubborn", "deaf"}
      BY <1>3 DEF Overruns
    <2> QED BY <1>3, <2>1, <2>2, <2>3, <2>4 DEF Behaviours, TimedOut
  <1> QED BY <1>2, <1>3

LEMMA InitRun == Init => RunInv
  <1> SUFFICES ASSUME Init  PROVE RunInv
    OBVIOUS
  <1>1. Nothing \in Programs /\ Nothing.tests = <<>>
    <2>1. <<>> \in [1 .. 0 -> Behaviours] /\ 0 \in 0 .. MaxTests
      BY RunConstants
    <2> QED BY <2>1 DEF Nothing, Programs, Languages, Builds
  <1>2. FaultsType
    BY FaultBudget DEF Init, FaultsInit, FaultsType
  <1>3. TypeOK
    <2>1. test \in 0 .. Len(program.tests)
      BY <1>1 DEF Init
    <2> QED BY <1>1, <1>2, <2>1 DEF Init, TypeOK, Places, Statuses
  <1> QED BY <1>3 DEF Init, RunInv, Reachable, Progress, Recorded, OnlyChildren,
          VerdictExplained, LeftoversExplained, InExec

LEMMA ForgetType ==
  ASSUME TypeOK, Forget
  PROVE  /\ program' \in Programs /\ test' \in 0 .. Len(program'.tests)
         /\ exitCode' \in {Running, 0, 1, TimedOut} /\ cut' \in BOOLEAN
         /\ verdict' \in Statuses \cup {"none"} /\ ownDir' \in BOOLEAN
         /\ hurt' \subseteq FaultKinds /\ disturbed' \in BOOLEAN
  <1>1. <<>> \in [1 .. 0 -> Behaviours] /\ 0 \in 0 .. MaxTests
    BY RunConstants
  <1>2. Nothing \in Programs /\ Nothing.tests = <<>>
    BY <1>1 DEF Nothing, Programs, Languages, Builds
  <1>3. test' \in 0 .. Len(program'.tests)
    BY <1>2 DEF Forget
  <1> QED BY <1>2, <1>3 DEF Forget

LEMMA TypeStep ==
  ASSUME TypeOK, Reachable, [Next]_vars
  PROVE  TypeOK'
  <1> USE DEF runVars, vars
  <1>1. Len(program.tests) \in Nat /\ (program.tests # <<>> => Len(program.tests) > 0)
    BY ProgramShape DEF TypeOK
  <1>2. CASE Start
    BY <1>2 DEF Start, TypeOK, Places, FaultsType
  <1>3. CASE Crash
    <2>1. leftDirs' \in Nat /\ leftovers' \subseteq Kinds /\ pc' \in Places
      BY <1>3 DEF Crash, TypeOK, Places
    <2>2. FaultsType'
      BY <1>3, FaultStep DEF Crash, TypeOK
    <2> QED BY <1>3, <2>1, <2>2, ForgetType DEF Crash, TypeOK
  <1>4. ASSUME NEW q \in Programs, Begin(q)  PROVE TypeOK'
    <2>1. test' \in 0 .. Len(program'.tests)
      <3>1. Len(q.tests) \in Nat
        BY ProgramShape
      <3> QED BY <1>4, <3>1 DEF Begin, Reachable
    <2> QED BY <1>4, <2>1 DEF Begin, Decide, TypeOK, Places, Statuses, Kinds, FaultsType
  <1>5. CASE GetTestCases
    BY <1>5 DEF GetTestCases, Decide, TypeOK, Places, Statuses, FaultsType
  <1>16. CASE Prepare
    <2>1. test' \in 0 .. Len(program'.tests)
      BY <1>1, <1>16 DEF Prepare, Reachable
    <2> QED BY <1>16, <2>1 DEF Prepare, TypeOK, Places, FaultsType
  <1>6. CASE Attach \/ WriteStdin \/ StreamEnds
    BY <1>6 DEF Attach, WriteStdin, StreamEnds, TypeOK, Places, FaultsType
  <1>7. CASE Deadline
    BY <1>7 DEF Deadline, Abandon, Kind, Kinds, Detached, ExecError, Decide, TypeOK, Places,
                Statuses, FaultsType
  <1>8. CASE Compiled \/ TimeLimitExceeded \/ RuntimeError \/ Compared
    <2>1. test' \in 0 .. Len(program.tests)
      BY <1>1, <1>8 DEF Compiled, TimeLimitExceeded, RuntimeError, Compared, NextTest, TypeOK
    <2> QED BY <1>8, <2>1 DEF Compiled, TimeLimitExceeded, RuntimeError, Compared, NextTest,
                              Inspected, Decide, TypeOK, Places, Statuses, FaultsType
  <1>9. CASE Finish
    BY <1>9, ForgetType DEF Finish, TypeOK, Places, FaultsType
  <1>10. CASE FinishLeavesDir
    <2>1. FaultsType'
      BY <1>10, FaultStep DEF FinishLeavesDir, TypeOK
    <2> QED BY <1>10, <2>1, ForgetType DEF FinishLeavesDir, TypeOK, Places
  <1>11. CASE GetTestCasesFailed \/ PrepareFailed
    <2>1. FaultsType'
      BY <1>11, FaultStep DEF GetTestCasesFailed, PrepareFailed, Hits, TypeOK
    <2> QED BY <1>11, <2>1 DEF GetTestCasesFailed, PrepareFailed, Hits, Decide, TypeOK,
                               Places, Statuses, FaultKinds
  <1>12. CASE AttachFailed \/ WriteStdinFailed \/ StreamBreaks \/ InspectFailed
    <2>1. FaultsType'
      BY <1>12, FaultStep DEF AttachFailed, WriteStdinFailed, StreamBreaks, InspectFailed,
                              Hits, TypeOK
    <2> QED BY <1>12, <2>1 DEF AttachFailed, WriteStdinFailed, StreamBreaks, InspectFailed,
                               Abandon, Kind, Kinds, Detached, ExecError, Hits, Decide,
                               TypeOK, Places, Statuses, FaultKinds
  <1>13. CASE ProgramEnds
    <2>1. ExitCodes \subseteq {0, 1, TimedOut}
      BY OwnCodes DEF ExitCodes
    <2> QED BY <1>13, <2>1 DEF ProgramEnds, Detached, Kinds, TypeOK, FaultsType
  <1>14. CASE \E k \in Kinds : LeftoverEnds(k)
    BY <1>14 DEF LeftoverEnds, TypeOK, FaultsType
  <1>15. CASE UNCHANGED vars
    BY <1>15 DEF TypeOK, FaultsType
  <1> QED BY <1>2, <1>3, <1>4, <1>5, <1>6, <1>7, <1>8, <1>9, <1>10, <1>11, <1>12, <1>13,
             <1>14, <1>15, <1>16 DEF Next, JudgeStep, JudgeFault, Blocked

\* Reachable, Progress and Recorded are preserved.  Only Prepare and NextTest
\* move on to an exec, so only they have to show what it starts from.
LEMMA KnowledgeStep ==
  ASSUME TypeOK, Reachable, Progress, Recorded, [Next]_vars
  PROVE  Reachable' /\ Progress' /\ Recorded'
  <1> USE DEF runVars, vars, InExec
  <1>0. Len(program.tests) \in Nat /\ test \in 0 .. Len(program.tests)
    BY ProgramShape DEF TypeOK
  <1>1. CASE Start \/ Crash \/ Finish \/ FinishLeavesDir
    BY <1>1 DEF Start, Crash, Finish, FinishLeavesDir, Forget, Reachable, Progress, Recorded
  <1>2. ASSUME NEW q \in Programs, Begin(q)  PROVE Reachable' /\ Progress' /\ Recorded'
    BY <1>2 DEF Begin, Decide, Reachable, Progress, Recorded
  <1>3. CASE GetTestCases \/ GetTestCasesFailed \/ PrepareFailed
    BY <1>3 DEF GetTestCases, GetTestCasesFailed, PrepareFailed, Decide, Reachable, Progress,
                Recorded
  <1>4. CASE Prepare
    BY <1>4 DEF Prepare, Reachable, Progress, Recorded
  <1>5. CASE AttachFailed \/ WriteStdinFailed \/ InspectFailed \/ Deadline
    BY <1>5 DEF AttachFailed, WriteStdinFailed, InspectFailed, Deadline, ExecError, Decide,
                Reachable, Progress, Recorded
  <1>6. CASE Attach
    BY <1>6 DEF Attach, Reachable, Progress, Recorded
  <1>7. CASE WriteStdin \/ StreamEnds
    <2>1. UNCHANGED <<OwnExitCodes, hurt, leftovers, disturbed>>
      BY <1>7 DEF WriteStdin, StreamEnds, OwnExitCodes, Overruns, Behaviour
    <2> QED BY <1>7, <2>1 DEF WriteStdin, StreamEnds, Reachable, Progress, Recorded
  <1>8. CASE StreamBreaks
    <2>1. UNCHANGED OwnExitCodes /\ "stream_error" \in hurt'
      BY <1>8 DEF StreamBreaks, Hits, OwnExitCodes, Overruns, Behaviour
    <2> QED BY <1>8, <2>1 DEF StreamBreaks, Hits, Reachable, Progress, Recorded
  <1>9. CASE ProgramEnds
    <2>1. UNCHANGED OwnExitCodes
      BY <1>9 DEF ProgramEnds, OwnExitCodes, Overruns, Behaviour
    <2>2. exitCode' \in OwnExitCodes \/ (disturbed /\ exitCode' = TimedOut)
      BY <1>9 DEF ProgramEnds, ExitCodes, Recorded
    <2>3. exitCode' # Running
      BY <2>2, OwnCodes DEF Running, TimedOut
    <2> QED BY <1>9, <2>1, <2>2, <2>3 DEF ProgramEnds, Reachable, Progress, Recorded
  <1>10. CASE \E k \in Kinds : LeftoverEnds(k)
    <2>1. UNCHANGED OwnExitCodes
      BY <1>10 DEF LeftoverEnds, OwnExitCodes, Overruns, Behaviour
    <2> QED BY <1>10, <2>1 DEF LeftoverEnds, Reachable, Progress, Recorded
  <1>11. CASE UNCHANGED vars
    <2>1. UNCHANGED OwnExitCodes
      BY <1>11 DEF OwnExitCodes, Overruns, Behaviour
    <2> QED BY <1>11, <2>1 DEF Reachable, Progress, Recorded
  <1>12. CASE Compiled
    <2>1. CASE exitCode = 0
      <3>1. program.build = "ok"
        BY <1>12, <2>1, OwnCodes DEF Compiled, Inspected, Recorded, Running, TimedOut
      <3>2. Len(program.tests) > 0
        BY <1>12, ProgramShape DEF Compiled, Inspected, Reachable, TypeOK
      <3>3. test' = 1 /\ pc' = "exec"
        BY <1>0, <1>12, <2>1, <3>2 DEF Compiled, NextTest
      <3> QED BY <1>12, <3>1, <3>3 DEF Compiled, Inspected, Reachable, Progress, Recorded
    <2>2. CASE exitCode # 0
      BY <1>12, <2>2 DEF Compiled, Inspected, Decide, Reachable, Progress, Recorded
    <2> QED BY <2>1, <2>2
  <1>13. CASE TimeLimitExceeded \/ RuntimeError
    BY <1>13 DEF TimeLimitExceeded, RuntimeError, Inspected, Decide, Reachable, Progress,
                 Recorded
  <1>14. CASE Compared
    <2>1. CASE pc' = "done"
      BY <1>14, <2>1 DEF Compared, Inspected, Reachable, Progress, Recorded
    <2>2. CASE pc' # "done"
      <3>1. test' = test + 1 /\ pc' = "exec" /\ test > 0
        BY <1>14, <2>2 DEF Compared, NextTest, Decide
      <3>2. program.tests[test] = "match" \/ "stream_error" \in hurt
        BY <1>14, <2>2 DEF Compared, Inspected, Decide, Recorded, Behaviour
      <3>3. \A j \in 1 .. test' - 1 : program.tests[j] = "match" \/ "stream_error" \in hurt
        BY <1>0, <1>14, <3>1, <3>2 DEF Compared, Inspected, Progress
      <3> QED BY <1>0, <1>14, <3>1, <3>3 DEF Compared, Inspected, Reachable, Progress, Recorded
    <2> QED BY <2>1, <2>2
  <1> QED BY <1>1, <1>2, <1>3, <1>4, <1>5, <1>6, <1>7, <1>8, <1>9, <1>10, <1>11, <1>12, <1>13,
             <1>14 DEF Next, JudgeStep, JudgeFault, Blocked

\* Every verdict that is decided has its explanation.
LEMMA VerdictStep ==
  ASSUME RunInv, [Next]_vars
  PROVE  VerdictExplained'
  <1> USE DEF runVars, vars, InExec
  <1>0. /\ Len(program.tests) \in Nat /\ test \in 0 .. Len(program.tests)
        /\ program \in Programs /\ program.lang \in Languages /\ program.build \in Builds
    BY ProgramShape DEF TypeOK, RunInv
  <1>1. CASE pc' # "done"
    BY <1>1 DEF VerdictExplained
  <1> SUFFICES ASSUME pc' = "done"  PROVE VerdictExplained'
    BY <1>1
  <1> DEFINE Passed == \A j \in 1 .. test - 1 : program.tests[j] = "match"
  <1>2. ASSUME Inspected, test > 0, UNCHANGED test
        PROVE  /\ exitCode \in OwnExitCodes \/ (disturbed /\ exitCode = TimedOut)
               /\ "stream_error" \in hurt \/ Passed
               /\ test \in 1 .. Len(program.tests)
               /\ program.lang \in {"go", "python"}
               /\ program.lang = "go" => program.build = "ok"
               /\ UNCHANGED <<Deserved(program), Overruns, hurt, disturbed>>
    BY <1>0, <1>2 DEF Inspected, RunInv, Reachable, Progress, Recorded, Overruns, Behaviour
  <1>3. ASSUME NEW q \in Programs, Begin(q)  PROVE VerdictExplained'
    BY <1>3, ProgramShape DEF Begin, Decide, VerdictExplained, Deserved, Languages
  <1>4. CASE GetTestCases
    BY <1>4 DEF GetTestCases, Decide, VerdictExplained, Deserved, RunInv, Reachable
  <1>5. CASE GetTestCasesFailed \/ PrepareFailed
    BY <1>5 DEF GetTestCasesFailed, PrepareFailed, Hits, Decide, VerdictExplained
  <1>6. CASE AttachFailed \/ WriteStdinFailed \/ InspectFailed
    BY <1>6 DEF AttachFailed, WriteStdinFailed, InspectFailed, Hits, ExecError, Decide,
                VerdictExplained
  <1>7. CASE Deadline
    <2>1. UNCHANGED <<Deserved(program), Overruns, hurt, disturbed, test>>
      BY <1>7 DEF Deadline, Overruns, Behaviour
    <2>2. CASE test = 0
      <3>1. verdict' = "CE"
        BY <1>7, <2>2 DEF Deadline, ExecError, Decide
      <3>2. disturbed \/ program.build = "long"
        BY <1>7, <2>2 DEF Deadline, Overruns, RunInv, Recorded
      <3>3. program.build = "long" => Deserved(program) = "CE"
        BY <1>7, <2>2 DEF Deadline, Deserved, RunInv, Reachable, Progress
      <3> QED BY <2>1, <3>1, <3>2, <3>3 DEF VerdictExplained
    <2>3. CASE test # 0
      <3>1. verdict' = "RE" /\ (Overruns \/ disturbed)
        BY <1>7, <2>3 DEF Deadline, ExecError, Decide, RunInv, Recorded
      <3> QED BY <2>1, <3>1 DEF VerdictExplained
    <2> QED BY <2>2, <2>3
  <1>8. CASE Compiled
    <2>1. exitCode # 0 /\ verdict' = "CE"
      <3>1. Len(program.tests) > 0
        BY <1>8, ProgramShape DEF Compiled, Inspected, RunInv, Reachable, TypeOK
      <3> QED BY <1>0, <1>8, <3>1 DEF Compiled, NextTest, Decide
    <2>2. UNCHANGED <<Deserved(program), disturbed>>
      BY <1>8 DEF Compiled, Inspected
    <2>3. disturbed \/ program.build = "error"
      <3>1. exitCode \in OwnExitCodes \/ disturbed
        BY <1>8 DEF Compiled, Inspected, RunInv, Recorded
      <3> QED BY <1>8, <2>1, <3>1, OwnCodes DEF Compiled, RunInv
    <2>4. program.build = "error" => Deserved(program) = "CE"
      BY <1>8 DEF Compiled, Inspected, Deserved, RunInv, Reachable, Progress
    <2> QED BY <2>1, <2>2, <2>3, <2>4 DEF VerdictExplained
  <1>9. CASE TimeLimitExceeded
    <2>1. Inspected /\ test > 0 /\ UNCHANGED test /\ exitCode = TimedOut /\ verdict' = "TLE"
      BY <1>9 DEF TimeLimitExceeded, Decide
    <2>2. disturbed \/ Behaviour = "killed"
      BY <1>2, <2>1, OwnCodes DEF RunInv
    <2>3. Passed /\ Behaviour = "killed" => Deserved(program) = "TLE"
      BY <1>0, <1>2, <2>1, DeservedAt DEF Behaviour
    <2> QED BY <1>2, <2>1, <2>2, <2>3 DEF VerdictExplained
  <1>10. CASE RuntimeError
    <2>1. Inspected /\ test > 0 /\ UNCHANGED test /\ exitCode \notin {0, TimedOut} /\ verdict' = "RE"
      BY <1>10 DEF RuntimeError, Decide
    <2>2. Behaviour = "crash"
      BY <1>2, <2>1, OwnCodes DEF RunInv
    <2>3. Passed => Deserved(program) = "RE"
      BY <1>0, <1>2, <2>1, <2>2, DeservedAt DEF Behaviour
    <2> QED BY <1>2, <2>1, <2>3 DEF VerdictExplained
  <1>11. CASE Compared
    <2>1. Inspected /\ test > 0 /\ exitCode = 0 /\ UNCHANGED test
      BY <1>11 DEF Compared, NextTest, Decide
    <2>2. Behaviour \in {"match", "differ"}
      BY <1>2, <2>1, OwnCodes DEF RunInv, TimedOut
    <2>3. cut => "stream_error" \in hurt
      BY <2>1 DEF Inspected, RunInv, Recorded
    <2>4. CASE verdict' = "WA" /\ (Behaviour # "match" \/ cut)
      <3>1. Passed /\ Behaviour = "differ" => Deserved(program) = "WA"
        BY <1>0, <1>2, <2>1, DeservedAt DEF Behaviour
      <3> QED BY <1>2, <2>1, <2>2, <2>3, <2>4, <3>1 DEF VerdictExplained
    <2>5. CASE verdict' = "AC" /\ (Behaviour = "match" \/ cut) /\ ~(test < Len(program.tests))
      <3>1. test = Len(program.tests)
        BY <1>0, <2>5
      <3>2. Passed /\ Behaviour = "match" => Deserved(program) = "AC"
        <4>1. Passed /\ Behaviour = "match" =>
                 \A j \in 1 .. Len(program.tests) : program.tests[j] = "match"
          BY <1>0, <3>1 DEF Behaviour
        <4> QED BY <1>0, <1>2, <2>1, <4>1, DeservedAC
      <3> QED BY <1>2, <2>1, <2>3, <2>5, <3>2 DEF VerdictExplained
    <2> QED BY <1>11, <2>4, <2>5 DEF Compared, NextTest, Decide
  <1>12. CASE \E k \in Kinds : LeftoverEnds(k)
    <2>1. UNCHANGED <<Overruns, Deserved(program)>>
      BY <1>12 DEF LeftoverEnds, Overruns, Behaviour
    <2> QED BY <1>12, <2>1 DEF LeftoverEnds, RunInv, VerdictExplained
  <1>13. CASE UNCHANGED vars
    <2>1. UNCHANGED <<Overruns, Deserved(program)>>
      BY <1>13 DEF Overruns, Behaviour
    <2> QED BY <1>13, <2>1 DEF RunInv, VerdictExplained
  <1>14. ~(Start \/ Crash \/ Finish \/ FinishLeavesDir \/ Prepare \/ Attach \/ WriteStdin
             \/ StreamEnds \/ StreamBreaks \/ ProgramEnds)
    BY DEF Start, Crash, Finish, FinishLeavesDir, Prepare, Attach, WriteStdin, StreamEnds,
           StreamBreaks, ProgramEnds
  <1> QED BY <1>3, <1>4, <1>5, <1>6, <1>7, <1>8, <1>9, <1>10, <1>11, <1>12, <1>13, <1>14
          DEF Next, JudgeStep, JudgeFault, Blocked

\* What is left behind is left by the judging that says why.
LEMMA LeftoversStep ==
  ASSUME RunInv, [Next]_vars
  PROVE  OnlyChildren' /\ LeftoversExplained'
  <1> USE DEF runVars, vars, InExec
  <1>1. CASE Start \/ Crash \/ Finish \/ FinishLeavesDir
    BY <1>1 DEF Start, Crash, Finish, FinishLeavesDir, OnlyChildren, LeftoversExplained
  <1>2. ASSUME NEW q \in Programs, Begin(q)  PROVE OnlyChildren' /\ LeftoversExplained'
    BY <1>2 DEF Begin, Decide, OnlyChildren, LeftoversExplained
  <1>3. CASE GetTestCases \/ GetTestCasesFailed \/ Prepare \/ PrepareFailed
    BY <1>3 DEF GetTestCases, GetTestCasesFailed, Prepare, PrepareFailed, Decide, RunInv,
                OnlyChildren, LeftoversExplained
  <1>4. CASE Attach \/ WriteStdin \/ StreamEnds \/ StreamBreaks
    BY <1>4 DEF Attach, WriteStdin, StreamEnds, StreamBreaks, RunInv, OnlyChildren,
                LeftoversExplained
  <1>5. CASE ProgramEnds
    BY <1>5 DEF ProgramEnds, Detached, RunInv, OnlyChildren, LeftoversExplained
  <1>6. CASE Compiled \/ TimeLimitExceeded \/ RuntimeError \/ Compared
    BY <1>6 DEF Compiled, TimeLimitExceeded, RuntimeError, Compared, Inspected, RunInv,
                OnlyChildren, LeftoversExplained
  <1>7. ASSUME AttachFailed \/ WriteStdinFailed \/ InspectFailed \/ Deadline
        PROVE  OnlyChildren' /\ LeftoversExplained'
    <2>1. /\ UNCHANGED <<program, test, disturbed>> /\ pc' = "done"
          /\ leftovers' \subseteq leftovers \cup {Kind} \cup Detached
          /\ verdict' = IF test = 0 THEN "CE" ELSE "RE"
      BY <1>7 DEF AttachFailed, WriteStdinFailed, InspectFailed, Deadline, Abandon, ExecError,
                  Decide
    <2>2. leftovers \subseteq {"earlier"} \cup {k \in {"child"} : program.detaches}
      BY <1>7 DEF AttachFailed, WriteStdinFailed, InspectFailed, Deadline, RunInv, OnlyChildren
    <2>3. (Overruns \/ disturbed)' \/ "docker_error" \in hurt'
      <3>1. CASE Deadline
        BY <2>1, <3>1 DEF Deadline, RunInv, Recorded, Overruns, Behaviour
      <3>2. CASE AttachFailed \/ WriteStdinFailed \/ InspectFailed
        BY <3>2 DEF AttachFailed, WriteStdinFailed, InspectFailed, Hits
      <3> QED BY <1>7, <3>1, <3>2
    <2>4. ASSUME NEW k \in leftovers' \ {"earlier"}
          PROVE  (k = "child" /\ program.detaches) \/ k = Kind
      BY <2>1, <2>2 DEF Detached
    <2> QED BY <2>1, <2>3, <2>4 DEF OnlyChildren, LeftoversExplained, Kind
  <1>8. CASE \E k \in Kinds : LeftoverEnds(k)
    <2>1. UNCHANGED <<Overruns, Kind>> /\ leftovers' \subseteq leftovers
      BY <1>8 DEF LeftoverEnds, Overruns, Behaviour, Kind
    <2> QED BY <1>8, <2>1 DEF LeftoverEnds, RunInv, OnlyChildren, LeftoversExplained
  <1>9. CASE UNCHANGED vars
    <2>1. UNCHANGED <<Overruns, Kind>>
      BY <1>9 DEF Overruns, Behaviour, Kind
    <2> QED BY <1>9, <2>1 DEF RunInv, OnlyChildren, LeftoversExplained
  <1> QED BY <1>1, <1>2, <1>3, <1>4, <1>5, <1>6, <1>7, <1>8, <1>9
          DEF Next, JudgeStep, JudgeFault, Blocked

\* The invariant is inductive.
LEMMA RunStep == RunInv /\ [Next]_vars => RunInv'
  BY TypeStep, KnowledgeStep, VerdictStep, LeftoversStep DEF RunInv

(* The type invariant of JudgeRun: judge() never runs a test that does not *)
(* exist, for any number of tests.                                         *)
THEOREM TypeCorrect == Spec => []TypeOK
  <1>1. RunInv => TypeOK
    BY DEF RunInv
  <1> QED BY InitRun, RunStep, <1>1, PTL DEF Spec

(* Whatever the program does on however many tests, with children that     *)
(* outlive it or without, and whatever fails, the verdict is the deserved  *)
(* one or has one of the named reasons.                                    *)
THEOREM VerdictsAreExplained == Spec => []VerdictExplained
  <1>1. RunInv => VerdictExplained
    BY DEF RunInv
  <1> QED BY InitRun, RunStep, <1>1, PTL DEF Spec

(* Work directories do not pile up, however many submissions are judged:   *)
(* each that stays is paid for by one kill or one failed removal.          *)
THEOREM NoDirsPileUp == Spec => []DirsAccounted
  <1>1. Init => DirsAccounted
    BY FaultBudget DEF Init, FaultsInit, Failed, DirsAccounted
  <1>2. ASSUME TypeOK, DirsAccounted, [Next]_vars  PROVE DirsAccounted'
    <2> USE DEF runVars, vars
    <2>0. /\ leftDirs \in Nat
          /\ Failed("judge_crash") \in Nat /\ Failed("remove_error") \in Nat
      BY <1>2, FaultBudget DEF TypeOK, FaultsType, Failed
    <2>1. CASE Crash
      <3>1. /\ Failed("judge_crash")' = Failed("judge_crash") + 1
            /\ Failed("remove_error")' = Failed("remove_error")
        BY <1>2, <2>1, FaultStep DEF Crash, TypeOK
      <3>2. leftDirs' <= leftDirs + 1
        BY <2>0, <2>1 DEF Crash
      <3> QED BY <1>2, <2>0, <2>1, <3>1, <3>2 DEF Crash, DirsAccounted
    <2>2. CASE FinishLeavesDir
      <3>1. /\ Failed("judge_crash")' = Failed("judge_crash")
            /\ Failed("remove_error")' = Failed("remove_error") + 1
        BY <1>2, <2>2, FaultStep DEF FinishLeavesDir, TypeOK
      <3> QED BY <1>2, <2>0, <2>2, <3>1 DEF FinishLeavesDir, DirsAccounted
    <2>3. CASE \/ GetTestCasesFailed \/ PrepareFailed \/ AttachFailed
               \/ WriteStdinFailed \/ StreamBreaks \/ InspectFailed
      <3>1. UNCHANGED leftDirs /\ \E kind : kind \notin {"judge_crash", "remove_error"} /\ Fails(kind)
        BY <2>3 DEF GetTestCasesFailed, PrepareFailed, AttachFailed, WriteStdinFailed,
                    StreamBreaks, InspectFailed, Hits
      <3>2. UNCHANGED <<Failed("judge_crash"), Failed("remove_error")>>
        BY <1>2, <3>1, FaultStep DEF TypeOK
      <3> QED BY <1>2, <3>1, <3>2 DEF DirsAccounted
    <2>4. CASE UNCHANGED <<leftDirs, faults>>
      BY <1>2, <2>4 DEF DirsAccounted, Failed
    <2>5. CASE Start \/ (\E p \in Programs : Begin(p)) \/ ProgramEnds \/ Blocked
               \/ (\E k \in Kinds : LeftoverEnds(k))
      BY <2>4, <2>5 DEF Start, Begin, ProgramEnds, Blocked, LeftoverEnds
    <2>6. CASE JudgeStep
      BY <2>4, <2>6 DEF JudgeStep, GetTestCases, Prepare, Attach, WriteStdin, StreamEnds,
           Deadline, Compiled, TimeLimitExceeded, RuntimeError, Compared, Inspected, Finish
    <2> QED BY <1>2, <2>1, <2>2, <2>3, <2>4, <2>5, <2>6 DEF Next, JudgeFault
  <1> QED BY TypeCorrect, <1>1, <1>2, PTL DEF Spec

(* What a judging leaves in the container is a child of its program, or    *)
(* the exec that decided CE or RE and could not be waited for.             *)
THEOREM LeftoversAreExplained == Spec => []LeftoversExplained
  <1>1. RunInv => LeftoversExplained
    BY DEF RunInv
  <1> QED BY InitRun, RunStep, <1>1, PTL DEF Spec

=============================================================================
