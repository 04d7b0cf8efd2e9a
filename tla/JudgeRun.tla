------------------------------ MODULE JudgeRun ------------------------------
(***************************************************************************)
(* judge_service, what happens between Acquire and WriteResult of          *)
(* JudgeService: judge() runs one submission after the other in the        *)
(* container a worker holds, and finds a verdict for each.                 *)
(*   internal/service/service.go         judge, runTestCase, execInWorker  *)
(*   internal/service/runtime/runner.sh  what an exec runs                 *)
(* A program is what it does on each test, see Behaviours.  Time is        *)
(* abstracted to what happens first: the program ends (on its own or by    *)
(* timeout's SIGTERM) or the context of the exec does.  Two things go on   *)
(* in the container beside the next exec and the next submission: an exec  *)
(* whose context ended, which is abandoned and not killed, and a child     *)
(* that a program detached, as timeout signals only its own process group. *)
(* They touch what runs later through CPU and memory only.                 *)
(***************************************************************************)
EXTENDS Faults, Integers, Sequences

CONSTANT
    MaxTests  \* bound: test cases of a problem

ASSUME RunConstants == MaxTests \in Nat

VARIABLES
    pc,         \* where judge() is, see Places
    program,    \* the submission that is judged, or Nothing
    test,       \* the test case that runs; 0 is the compile phase
    exitCode,   \* of the current exec; Running until the program ends
    cut,        \* the output of the current exec was cut short
    verdict,    \* the status of the result (pc = "done")
    ownDir,     \* the submission's work directory exists
    leftDirs,   \* work directories that nobody will remove
    leftovers,  \* what still runs in the container and nobody waits for
    hurt,       \* history: the kinds of faults that hit this judging
    disturbed   \* history: an exec of this judging began beside leftovers

runVars == <<program, test, exitCode, cut, verdict>>
vars    == <<pc, runVars, ownDir, leftDirs, leftovers, hurt, disturbed, faults>>

Places == {"down", "idle", "tests", "prepare", "exec", "stdin", "wait",
           "inspect", "done"}

Languages == {"go", "python", "other"}

\* "long": go mod tidy and go build both take almost their whole timeout.
Builds == {"ok", "error", "long"}

\* What a program does on a test.  "match" and "differ" exit with 0, "crash"
\* with another code; "killed" ends with 124 or 137, by timeout's SIGTERM, the
\* memory limit or its own choice; "stubborn" ignores SIGTERM, or a child keeps
\* its output open, and the exec does not end; "deaf" neither ends nor reads an
\* input that fills every buffer.
Behaviours == {"match", "differ", "crash", "killed", "stubborn", "deaf"}

\* "detaches": it starts a process, its output elsewhere, that goes on when the
\* program has ended: in a session of its own, or one that ignores SIGTERM.
Programs ==
    {p \in UNION {[lang : Languages, build : Builds, detaches : BOOLEAN,
                   tests : [1 .. n -> Behaviours]] : n \in 0 .. MaxTests} :
        /\ p.lang # "go" => p.build = "ok"
        /\ p.tests = <<>> => ~p.detaches}

Nothing  == [lang |-> "other", build |-> "ok", detaches |-> FALSE, tests |-> <<>>]
Running  == -1
TimedOut == 124  \* and 137: runTestCase does not tell them apart

\* What may go on running: the exec of a compile phase or of a test, a detached
\* child, and whatever earlier submissions left.
Kinds == {"build", "program", "child", "earlier"}

Hits(kind) == Fails(kind) /\ hurt' = hurt \cup {kind}
-----------------------------------------------------------------------------
Init ==
    /\ pc = "down"
    /\ program = Nothing
    /\ test = 0
    /\ exitCode = Running
    /\ cut = FALSE
    /\ verdict = "none"
    /\ ownDir = FALSE
    /\ leftDirs = 0
    /\ leftovers = {}
    /\ hurt = {}
    /\ disturbed = FALSE
    /\ FaultsInit

\* NewService: the pool is filled with containers that were just created.
Start ==
    /\ pc = "down"
    /\ pc' = "idle"
    /\ leftovers' = {}
    /\ UNCHANGED <<runVars, ownDir, leftDirs, hurt, disturbed, faults>>

\* The judging is over: nothing of it stays but what it left behind.
Forget ==
    /\ program' = Nothing
    /\ test' = 0
    /\ exitCode' = Running
    /\ cut' = FALSE
    /\ verdict' = "none"
    /\ ownDir' = FALSE
    /\ hurt' = {}
    /\ disturbed' = FALSE

\* The process is killed: its deferred calls do not run.
Crash ==
    /\ pc # "down"
    /\ Fails("judge_crash")
    /\ pc' = "down"
    /\ leftDirs' = IF ownDir THEN leftDirs + 1 ELSE leftDirs
    /\ Forget
    /\ UNCHANGED leftovers

Decide(status) == verdict' = status /\ pc' = "done"
-----------------------------------------------------------------------------
(* judge() up to the first exec *)

\* A language without a configuration is answered at once.
Begin(p) ==
    /\ pc = "idle"
    /\ program' = p
    /\ IF p.lang \in {"go", "python"}
       THEN pc' = "tests" /\ UNCHANGED verdict
       ELSE Decide("RE")
    /\ leftovers' = IF leftovers = {} THEN {} ELSE {"earlier"}
    /\ UNCHANGED <<test, exitCode, cut, ownDir, leftDirs, hurt, disturbed, faults>>

\* GetTestCases.  Without test cases the submission is accepted.
GetTestCases ==
    /\ pc = "tests"
    /\ IF program.tests = <<>>
       THEN Decide("AC")
       ELSE pc' = "prepare" /\ UNCHANGED verdict
    /\ UNCHANGED <<program, test, exitCode, cut, ownDir, leftDirs, leftovers,
                   hurt, disturbed, faults>>

GetTestCasesFailed ==
    /\ pc = "tests"
    /\ Hits("prepare_error")
    /\ Decide("RE")
    /\ UNCHANGED <<program, test, exitCode, cut, ownDir, leftDirs, leftovers,
                   disturbed>>

\* The work directory and the code in it; only go has a compile phase.
Prepare ==
    /\ pc = "prepare"
    /\ ownDir' = TRUE
    /\ test' = IF program.lang = "go" THEN 0 ELSE 1
    /\ pc' = "exec"
    /\ UNCHANGED <<program, exitCode, cut, verdict, leftDirs, leftovers, hurt,
                   disturbed, faults>>

\* MkdirAll, MkdirTemp or WriteFile fails; only then the directory exists.
PrepareFailed ==
    /\ pc = "prepare"
    /\ Hits("prepare_error")
    /\ ownDir' \in BOOLEAN
    /\ Decide("RE")
    /\ UNCHANGED <<program, test, exitCode, cut, leftDirs, leftovers, disturbed>>
-----------------------------------------------------------------------------
(* The program in the container *)

Kind      == IF test = 0 THEN "build" ELSE "program"
Behaviour == program.tests[test]
Detached  == IF test > 0 /\ program.detaches THEN {"child"} ELSE {}

\* It does not end before the context of the exec does.
Overruns ==
    IF test = 0 THEN program.build = "long" ELSE Behaviour \in {"stubborn", "deaf"}

\* How runner.sh and timeout end when nothing else runs in the container.
OwnExitCodes ==
    IF Overruns THEN {}
    ELSE IF test = 0 THEN (IF program.build = "ok" THEN {0} ELSE {1})
    ELSE CASE Behaviour \in {"match", "differ"} -> {0}
           [] Behaviour = "crash"               -> {1}
           [] OTHER                             -> {TimedOut}

\* Leftovers, of an earlier submission or of an earlier test of this one, share
\* the container's half CPU and 128 MB: beside them any program may run out of
\* time or of memory.
ExitCodes == OwnExitCodes \cup (IF leftovers = {} THEN {} ELSE {TimedOut})

\* Nothing signals a child that the program detached.
ProgramEnds ==
    /\ pc \in {"wait", "inspect"}
    /\ exitCode = Running
    /\ exitCode' \in ExitCodes
    /\ leftovers' = leftovers \cup Detached
    /\ UNCHANGED <<pc, program, test, cut, verdict, ownDir, leftDirs, hurt,
                   disturbed, faults>>

\* An abandoned exec or a child ends after all; it need not.
LeftoverEnds(k) ==
    /\ k \in leftovers
    /\ leftovers' = leftovers \ {k}
    /\ UNCHANGED <<pc, runVars, ownDir, leftDirs, hurt, disturbed, faults>>
-----------------------------------------------------------------------------
(* execInWorker *)

\* Mutant of ExecError: a context that ended is reported as TLE.
ExecErrorIsTimeout == Decide(IF test = 0 THEN "CE" ELSE "TLE")

\* An error of execInWorker is a compile error in the compile phase and a
\* runtime error in a test.
ExecError == Decide(IF test = 0 THEN "CE" ELSE "RE")

Abandon == leftovers' = leftovers \cup {Kind} \cup Detached

\* ContainerExecCreate and ContainerExecAttach, which starts the program.
Attach ==
    /\ pc = "exec"
    /\ pc' = "stdin"
    /\ exitCode' = Running
    /\ cut' = FALSE
    /\ disturbed' = (disturbed \/ leftovers # {})
    /\ UNCHANGED <<program, test, verdict, ownDir, leftDirs, leftovers, hurt, faults>>

AttachFailed ==
    /\ pc = "exec"
    /\ Hits("docker_error")
    /\ Abandon \/ UNCHANGED leftovers
    /\ ExecError
    /\ UNCHANGED <<program, test, exitCode, cut, ownDir, leftDirs, disturbed>>

\* Conn.Write of the whole input, then CloseWrite.  Nothing drains the output
\* yet and no context ends it: it blocks while nobody reads the input.
WriteStdin ==
    /\ pc = "stdin"
    /\ test > 0 => Behaviour # "deaf"
    /\ pc' = "wait"
    /\ UNCHANGED <<runVars, ownDir, leftDirs, leftovers, hurt, disturbed, faults>>

\* The write fails and the exec, which has begun, is abandoned.
WriteStdinFailed ==
    /\ pc = "stdin"
    /\ test > 0
    /\ Hits("docker_error")
    /\ Abandon
    /\ ExecError
    /\ UNCHANGED <<program, test, exitCode, cut, ownDir, leftDirs, disturbed>>

\* StdCopy reached the end of the output.
StreamEnds ==
    /\ pc = "wait"
    /\ exitCode # Running
    /\ pc' = "inspect"
    /\ UNCHANGED <<runVars, ownDir, leftDirs, leftovers, hurt, disturbed, faults>>

\* StdCopy failed: its error is dropped, and so is the rest of the output.
StreamBreaks ==
    /\ pc = "wait"
    /\ Hits("stream_error")
    /\ cut' = TRUE
    /\ pc' = "inspect"
    /\ UNCHANGED <<program, test, exitCode, verdict, ownDir, leftDirs, leftovers,
                   disturbed>>

\* Mutant of Deadline: the select waits for the output only.
DeadlineIgnored ==
    /\ pc = "inspect"
    /\ exitCode = Running
    /\ Overruns \/ leftovers # {}
    /\ Abandon
    /\ ExecError
    /\ UNCHANGED <<program, test, exitCode, cut, ownDir, leftDirs, hurt,
                   disturbed, faults>>

\* The context ends before the program: in the select, or in the inspect call
\* of the polling loop.  Beside leftovers anything may take that long.
Deadline ==
    /\ pc \in {"wait", "inspect"}
    /\ exitCode = Running
    /\ Overruns \/ leftovers # {}
    /\ Abandon
    /\ ExecError
    /\ UNCHANGED <<program, test, exitCode, cut, ownDir, leftDirs, hurt,
                   disturbed, faults>>

\* The inspect call fails, or Docker is so slow that the context ends although
\* the program would have ended in time; it may still run.
InspectFailed ==
    /\ pc \in {"wait", "inspect"}
    /\ Hits("docker_error")
    /\ IF exitCode = Running THEN Abandon ELSE UNCHANGED leftovers
    /\ ExecError
    /\ UNCHANGED <<program, test, exitCode, cut, ownDir, leftDirs, disturbed>>
-----------------------------------------------------------------------------
(* judge() on the result of an exec that was inspected *)

Inspected ==
    /\ pc = "inspect"
    /\ exitCode # Running
    /\ UNCHANGED <<program, exitCode, cut, ownDir, leftDirs, leftovers, hurt,
                   disturbed, faults>>

NextTest ==
    IF test < Len(program.tests)
    THEN test' = test + 1 /\ pc' = "exec" /\ UNCHANGED verdict
    ELSE Decide("AC") /\ UNCHANGED test

Compiled ==
    /\ Inspected
    /\ test = 0
    /\ IF exitCode = 0 THEN NextTest ELSE Decide("CE") /\ UNCHANGED test

TimeLimitExceeded ==
    /\ Inspected
    /\ test > 0
    /\ exitCode = TimedOut
    /\ Decide("TLE")
    /\ UNCHANGED test

RuntimeError ==
    /\ Inspected
    /\ test > 0
    /\ exitCode \notin {0, TimedOut}
    /\ Decide("RE")
    /\ UNCHANGED test

\* Mutant of Compared: only the exit code is looked at.
ComparedNothing ==
    /\ Inspected
    /\ test > 0
    /\ exitCode = 0
    /\ NextTest

\* The outputs are compared.  One that was cut short may or may not be the
\* expected one.
Compared ==
    /\ Inspected
    /\ test > 0
    /\ exitCode = 0
    /\ \/ (Behaviour = "match" \/ cut) /\ NextTest
       \/ (Behaviour # "match" \/ cut) /\ Decide("WA") /\ UNCHANGED test

\* Mutant of Finish: RemoveAll only after the loop, not deferred.
FinishKeepsDir ==
    /\ pc = "done"
    /\ pc' = "idle"
    /\ leftDirs' = IF ownDir /\ verdict # "AC" THEN leftDirs + 1 ELSE leftDirs
    /\ Forget
    /\ UNCHANGED <<leftovers, faults>>

\* The deferred RemoveAll; the worker then writes the result.
Finish ==
    /\ pc = "done"
    /\ pc' = "idle"
    /\ Forget
    /\ UNCHANGED <<leftDirs, leftovers, faults>>

\* The error of RemoveAll is dropped.
FinishLeavesDir ==
    /\ pc = "done"
    /\ ownDir
    /\ Fails("remove_error")
    /\ pc' = "idle"
    /\ leftDirs' = leftDirs + 1
    /\ Forget
    /\ UNCHANGED leftovers
-----------------------------------------------------------------------------
JudgeStep ==
    \/ GetTestCases \/ Prepare
    \/ Attach \/ WriteStdin \/ StreamEnds \/ Deadline
    \/ Compiled \/ TimeLimitExceeded \/ RuntimeError \/ Compared
    \/ Finish

JudgeFault ==
    \/ GetTestCasesFailed \/ PrepareFailed
    \/ AttachFailed \/ WriteStdinFailed \/ StreamBreaks \/ InspectFailed
    \/ FinishLeavesDir \/ Crash

\* Conn.Write waits for a program that does not read.
Blocked ==
    /\ pc = "stdin"
    /\ test > 0 /\ Behaviour = "deaf"
    /\ UNCHANGED vars

Next ==
    \/ Start
    \/ \E p \in Programs : Begin(p)
    \/ JudgeStep
    \/ JudgeFault
    \/ ProgramEnds
    \/ \E k \in Kinds : LeftoverEnds(k)
    \/ Blocked

\* judge() goes on when it can, contexts end, and a program ends that obeys
\* timeout.  Nothing makes a leftover end.
Fairness ==
    /\ WF_vars(JudgeStep)
    /\ WF_vars(ProgramEnds)

Spec == Init /\ [][Next]_vars /\ Fairness
-----------------------------------------------------------------------------
(* Properties *)

FaultKinds == {"prepare_error", "docker_error", "stream_error",
               "remove_error", "judge_crash"}
Statuses   == {"AC", "WA", "TLE", "RE", "CE"}

\* Every variable has its type, and a run is of an existing test.
TypeOK ==
    /\ pc \in Places
    /\ program \in Programs
    /\ test \in 0 .. Len(program.tests)
    /\ exitCode \in {Running, 0, 1, TimedOut}
    /\ cut \in BOOLEAN
    /\ verdict \in Statuses \cup {"none"}
    /\ ownDir \in BOOLEAN
    /\ leftDirs \in Nat
    /\ leftovers \subseteq Kinds
    /\ hurt \subseteq FaultKinds
    /\ disturbed \in BOOLEAN
    /\ FaultsType

\* The first test that the program does not pass.
Failing(p) ==
    CHOOSE i \in DOMAIN p.tests :
       p.tests[i] # "match" /\ \A j \in 1 .. i - 1 : p.tests[j] = "match"

PassesAll(p) == \A i \in DOMAIN p.tests : p.tests[i] = "match"

\* What the problem's tests say of a program.
Deserved(p) ==
    CASE p.lang = "other"                     -> "RE"
      [] p.lang # "other" /\ p.tests = <<>>   -> "AC"
      [] p.lang = "go" /\ p.tests # <<>> /\ p.build # "ok" -> "CE"
      [] OTHER ->
            IF PassesAll(p) THEN "AC"
            ELSE CASE p.tests[Failing(p)] = "differ" -> "WA"
                   [] p.tests[Failing(p)] = "crash"  -> "RE"
                   [] OTHER                          -> "TLE"

(* The verdict is the one the tests say, or there is a reason for it:      *)
(* a program that ignores SIGTERM gets RE instead of TLE; leftovers, of an *)
(* earlier submission or of its own earlier tests, may turn a verdict into *)
(* TLE, RE or CE; a failed call gives RE or CE; and an output that was cut *)
(* short makes a test pass or fail.  Nothing else makes a verdict wrong    *)
(* (service.go: the order of the checks in judge and runTestCase).         *)
VerdictExplained ==
    pc = "done" =>
       \/ verdict = Deserved(program)
       \/ verdict \in {"TLE", "RE", "CE"} /\ disturbed
       \/ verdict = "CE" /\ hurt # {}
       \/ verdict = "RE" /\ (Overruns \/ hurt # {})
       \/ verdict # "CE" /\ "stream_error" \in hurt

(* Work directories do not pile up: every return path of judge removes the *)
(* submission's, and only a kill or a removal that fails leaves one.       *)
DirsAccounted == leftDirs <= Failed("judge_crash") + Failed("remove_error")

(* What a judging adds to the container that goes back to the pool is      *)
(* either a child its program detached, which may follow any verdict, or   *)
(* the exec that decided CE or RE, and then that one ran too long, ran     *)
(* beside leftovers or lost its connection.  So AC, WA and TLE, and a CE   *)
(* or RE by the exit code, leave no exec running (service.go: return on    *)
(* ctx.Done; runner.sh: timeout).                                          *)
LeftoversExplained ==
    pc = "done" =>
       \A k \in leftovers \ {"earlier"} :
          \/ k = "child" /\ program.detaches
          \/ /\ k = Kind
             /\ verdict = IF test = 0 THEN "CE" ELSE "RE"
             /\ Overruns \/ disturbed \/ "docker_error" \in hurt

(* A judging ends, with whatever verdict, unless its input is written to a *)
(* program that is deaf (service.go: the contexts of compile and run).     *)
JudgingEnds ==
    pc = "exec" /\ (\A i \in DOMAIN program.tests : program.tests[i] # "deaf")
       ~> pc \in {"idle", "down"}

=============================================================================
