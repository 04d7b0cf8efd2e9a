------------------------------ MODULE Problems ------------------------------
(***************************************************************************)
(* problem_service and those who use it: authors (an admin, or seed.sh)    *)
(* who create a problem and then its test cases one by one, clients who    *)
(* list the problems and submit, and the judge that reads the test cases   *)
(* when it comes to a submission.  A problem is visible before its first   *)
(* test case is.                                                           *)
(*   problem_service/internal/service/service.go  CreateProblem, ...       *)
(*   problem_service/internal/store/store.go      the two tables           *)
(*   gateway/internal/handler/http_handler.go     the HTTP side            *)
(*   judge_service/internal/service/service.go    judge                    *)
(*   scripts/seed.sh                              an author                *)
(***************************************************************************)
EXTENDS Faults, Integers, SequencesExt

CONSTANTS
    ProblemIds, TestIds,  \* uuids the service will choose
    Authors,
    TestsPerProblem,      \* how many test cases an author adds to a problem
    Submissions,
    Outcome,              \* Outcome[s][t]: what the program of s does on test t
    NoProblem,
    Unlisted,             \* a uuid that is no problem's
    ProblemEventsTopic    \* config.ProblemEventsTopic

ASSUME ProblemConstants ==
    /\ TestsPerProblem \in Nat /\ IsFiniteSet(TestIds)
    /\ Outcome \in [Submissions -> [TestIds -> {"pass", "WA", "RE"}]]
    /\ NoProblem \notin ProblemIds \cup {Unlisted}
    /\ Unlisted \notin ProblemIds

VARIABLES
    problems,   \* the problems table: ids
    problemOf,  \* the test_cases table: problem_id of a test, or NoProblem
    events,     \* the topic of problem events
    author,     \* where an author is, see AuthorStates
    current,    \* the problem an author got from CreateProblem
    added,      \* the test cases an author has added to it
    target,     \* the problem a submission is for, NoProblem if not sent
    tests,      \* the test cases the judge has still to run, in its order
    verdict,    \* of the last judging: "none", "judging" or its status
    known,      \* history: the test cases of the target when it was submitted
    judgedOn    \* history: the test cases of the last judging, once it read them

AuthorStates == {"idle", "event", "created", "done", "failed"}
Verdicts     == {"AC", "WA", "RE"}

tables      == <<problems, problemOf>>
authorVars  == <<author, current, added>>
judgeVars   == <<target, tests, verdict, known, judgedOn>>
vars == <<tables, events, authorVars, judgeVars, faults>>

TestsOf(p) == {t \in TestIds : problemOf[t] = p}

Init ==
    /\ problems = {}
    /\ problemOf = [t \in TestIds |-> NoProblem]
    /\ events = <<>>
    /\ author = [a \in Authors |-> "idle"]
    /\ current = [a \in Authors |-> NoProblem]
    /\ added = [a \in Authors |-> {}]
    /\ target = [s \in Submissions |-> NoProblem]
    /\ tests = [s \in Submissions |-> <<>>]
    /\ verdict = [s \in Submissions |-> "none"]
    /\ known = [s \in Submissions |-> {}]
    /\ judgedOn = [s \in Submissions |-> {}]
    /\ FaultsInit
-----------------------------------------------------------------------------
(* POST /problems *)

Goto(a, state) == author' = [author EXCEPT ![a] = state]

\* handleCreateProblem up to the INSERT.
CreateProblem(a) ==
    /\ author[a] = "idle"
    /\ \E p \in ProblemIds \ problems :
          /\ problems' = problems \cup {p}
          /\ current' = [current EXCEPT ![a] = p]
    /\ Goto(a, "event")
    /\ UNCHANGED <<problemOf, events, added, judgeVars, faults>>

\* kafka-go's Writer takes a message when either itself or the message names
\* the topic, and refuses it when both do.
WriterTakes(writerTopic, messageTopic) == (writerTopic = "") # (messageTopic = "")

\* Mutant of EmitEvent: the event was made before the INSERT gave the id.
EmitEventWithoutId(a) ==
    /\ author[a] = "event"
    /\ events' = Append(events, NoProblem)
    /\ Goto(a, "created")
    /\ UNCHANGED <<tables, current, added, judgeVars, faults>>

\* WriteMessages; its error is logged and the problem is returned.
EmitEvent(a) ==
    /\ author[a] = "event"
    /\ events' = IF WriterTakes(ProblemEventsTopic, ProblemEventsTopic)
                 THEN Append(events, current[a]) ELSE events
    /\ Goto(a, "created")
    /\ UNCHANGED <<tables, current, added, judgeVars, faults>>

\* The payload is refused, the call fails, or the author's connection breaks:
\* the row may be there, the author does not know its id.
CreateProblemFailed(a) ==
    /\ author[a] = "idle"
    /\ Fails("author_error")
    /\ \/ UNCHANGED problems
       \/ \E p \in ProblemIds \ problems : problems' = problems \cup {p}
    /\ Goto(a, "failed")
    /\ UNCHANGED <<problemOf, events, current, added, judgeVars>>
-----------------------------------------------------------------------------
(* POST /problems/{problemID}/testcases *)

Stored == {t \in TestIds : problemOf[t] # NoProblem}

CreateTestCase(a) ==
    /\ author[a] = "created"
    /\ Cardinality(added[a]) < TestsPerProblem
    /\ \E t \in TestIds \ Stored :
          /\ problemOf' = [problemOf EXCEPT ![t] = current[a]]
          /\ added' = [added EXCEPT ![a] = @ \cup {t}]
    /\ UNCHANGED <<problems, events, author, current, judgeVars, faults>>

\* Mutant of CreateTestCaseFailed: seed.sh goes on.
CreateTestCaseFailedGoesOn(a) ==
    /\ author[a] = "created"
    /\ Cardinality(added[a]) < TestsPerProblem
    /\ Fails("author_error")
    /\ Goto(a, "done")
    /\ UNCHANGED <<tables, events, current, added, judgeVars>>

\* As above: without an "id" in the response seed.sh exits.
CreateTestCaseFailed(a) ==
    /\ author[a] = "created"
    /\ Cardinality(added[a]) < TestsPerProblem
    /\ Fails("author_error")
    /\ \/ UNCHANGED problemOf
       \/ \E t \in TestIds \ Stored :
             problemOf' = [problemOf EXCEPT ![t] = current[a]]
    /\ Goto(a, "failed")
    /\ UNCHANGED <<problems, events, current, added, judgeVars>>

\* An admin adds a test case to any problem at any time; for an id that is not
\* in the table the foreign key refuses it.
CreateLateTestCase ==
    /\ \E p \in problems, t \in TestIds \ Stored :
          problemOf' = [problemOf EXCEPT ![t] = p]
    /\ Fails("late_test")
    /\ UNCHANGED <<problems, events, authorVars, judgeVars>>

\* "seed completed".
AllTestsAdded(a) ==
    /\ author[a] = "created"
    /\ Cardinality(added[a]) = TestsPerProblem
    /\ Goto(a, "done")
    /\ UNCHANGED <<tables, events, current, added, judgeVars, faults>>

\* Run again, seed.sh starts over: it creates a second problem of that title.
RunAgain(a) ==
    /\ author[a] = "failed"
    /\ Goto(a, "idle")
    /\ current' = [current EXCEPT ![a] = NoProblem]
    /\ added' = [added EXCEPT ![a] = {}]
    /\ UNCHANGED <<tables, events, judgeVars, faults>>
-----------------------------------------------------------------------------
(* GET /problems, POST /submissions *)

\* ListProblems shows every row of the table, GetProblem one; the client
\* submits to one, or to any uuid: nobody checks that the problem exists.
Submit(s) ==
    /\ target[s] = NoProblem
    /\ \E p \in problems \cup {Unlisted} :
          /\ target' = [target EXCEPT ![s] = p]
          /\ known' = [known EXCEPT ![s] = TestsOf(p)]
    /\ UNCHANGED <<tables, events, authorVars, tests, verdict, judgedOn, faults>>
-----------------------------------------------------------------------------
(* The judge *)

Judges(s, queue) ==
    /\ tests' = [tests EXCEPT ![s] = queue]
    /\ judgedOn' = [judgedOn EXCEPT ![s] = ToSet(queue)]
    /\ verdict' = [verdict EXCEPT ![s] = IF queue = <<>> THEN "AC" ELSE "judging"]
    /\ UNCHANGED <<tables, events, authorVars, target, known>>

\* Mutant of GetTestCases: a problem without test cases is not judged.
GetTestCasesIfAny(s) ==
    /\ target[s] # NoProblem /\ verdict[s] = "none"
    /\ TestsOf(target[s]) # {}
    /\ \E queue \in SetToSeqs(TestsOf(target[s])) : Judges(s, queue)
    /\ UNCHANGED faults

\* One SELECT without ORDER BY: all rows of the moment, in any order.  None at
\* all is AC.
GetTestCases(s) ==
    /\ target[s] # NoProblem /\ verdict[s] = "none"
    /\ \E queue \in SetToSeqs(TestsOf(target[s])) : Judges(s, queue)
    /\ UNCHANGED faults

\* The record of the submission is read again after a rebalance or a restart:
\* judge() begins anew, with the tests of the moment it reads them.
JudgeAgain(s) ==
    /\ verdict[s] \in Verdicts
    /\ Fails("redelivery")
    /\ verdict' = [verdict EXCEPT ![s] = "none"]
    /\ judgedOn' = [judgedOn EXCEPT ![s] = {}]
    /\ UNCHANGED <<tables, events, authorVars, target, tests, known>>

\* Mutant of GetTestCasesFailed: rows.Err is not looked at after the loop, so
\* what was read before the connection broke passes for all rows.
RowsErrIgnored(s) ==
    /\ target[s] # NoProblem /\ verdict[s] = "none"
    /\ Fails("tests_error")
    /\ \E some \in SUBSET TestsOf(target[s]) :
          \E queue \in SetToSeqs(some) : Judges(s, queue)

\* The call, the query or the iteration over its rows fails: RE, whatever an
\* earlier judging said.
GetTestCasesFailed(s) ==
    /\ target[s] # NoProblem /\ verdict[s] = "none"
    /\ Fails("tests_error")
    /\ verdict' = [verdict EXCEPT ![s] = "RE"]
    /\ UNCHANGED <<tables, events, authorVars, target, tests, known, judgedOn>>

Runs(s, outcomes) ==
    /\ verdict[s] = "judging"
    /\ Outcome[s][Head(tests[s])] \in outcomes

\* Mutant of TestPassed: the loop ends with the first test.
FirstTestDecides(s) ==
    /\ Runs(s, {"pass"})
    /\ tests' = [tests EXCEPT ![s] = <<>>]
    /\ verdict' = [verdict EXCEPT ![s] = "AC"]
    /\ UNCHANGED <<tables, events, authorVars, target, known, judgedOn, faults>>

TestPassed(s) ==
    /\ Runs(s, {"pass"})
    /\ tests' = [tests EXCEPT ![s] = Tail(@)]
    /\ verdict' = [verdict EXCEPT ![s] = IF Len(tests[s]) = 1 THEN "AC" ELSE @]
    /\ UNCHANGED <<tables, events, authorVars, target, known, judgedOn, faults>>

\* The first test that does not pass gives the verdict.
TestFailed(s) ==
    /\ Runs(s, {"WA", "RE"})
    /\ verdict' = [verdict EXCEPT ![s] = Outcome[s][Head(tests[s])]]
    /\ tests' = [tests EXCEPT ![s] = <<>>]
    /\ UNCHANGED <<tables, events, authorVars, target, known, judgedOn, faults>>
-----------------------------------------------------------------------------
AuthorStep(a) ==
    \/ CreateProblem(a) \/ EmitEvent(a) \/ CreateTestCase(a) \/ AllTestsAdded(a)
JudgeStep(s)  == GetTestCases(s) \/ TestPassed(s) \/ TestFailed(s)

\* Everybody is done, or out of fresh ids.
Quiet ==
    /\ \A s \in Submissions : verdict[s] \in Verdicts \/ target[s] = NoProblem
    /\ UNCHANGED vars

Next ==
    \/ \E a \in Authors :
          \/ AuthorStep(a) \/ RunAgain(a)
          \/ CreateProblemFailed(a) \/ CreateTestCaseFailed(a)
    \/ CreateLateTestCase
    \/ \E s \in Submissions :
          \/ Submit(s) \/ JudgeStep(s) \/ JudgeAgain(s) \/ GetTestCasesFailed(s)
    \/ Quiet

\* JudgeService gives every submission its turn.  Authors and clients act when
\* they like; a call of an author that began is carried through.
Spec ==
    /\ Init /\ [][Next]_vars
    /\ \A s \in Submissions : WF_vars(JudgeStep(s))
    /\ \A a \in Authors : WF_vars(EmitEvent(a))
-----------------------------------------------------------------------------
(* Properties *)

\* Every variable has its type.
TypeOK ==
    /\ problems \subseteq ProblemIds
    /\ problemOf \in [TestIds -> ProblemIds \cup {NoProblem}]
    /\ events \in Seq(ProblemIds)
    /\ author \in [Authors -> AuthorStates]
    /\ current \in [Authors -> ProblemIds \cup {NoProblem}]
    /\ added \in [Authors -> SUBSET TestIds]
    /\ target \in [Submissions -> ProblemIds \cup {NoProblem, Unlisted}]
    /\ tests \in [Submissions -> Seq(TestIds)]
    /\ verdict \in [Submissions -> {"none", "judging"} \cup Verdicts]
    /\ known \in [Submissions -> SUBSET TestIds]
    /\ judgedOn \in [Submissions -> SUBSET TestIds]
    /\ FaultsType

(* AC means that every test case the problem had when the submission was   *)
(* sent was passed, and every later one that the judge saw: authors add    *)
(* tests meanwhile, the order of the rows is anyone's guess, the read may  *)
(* break off half way.                                                     *)
AcceptedPassedKnownTests ==
    \A s \in Submissions : verdict[s] = "AC" =>
        \A t \in known[s] \cup judgedOn[s] : Outcome[s][t] = "pass"

(* A verdict depends on the order of the rows only in which of WA and RE   *)
(* it is: AC is given to the programs that pass every test of the judging  *)
(* and to no other.                                                        *)
OrderDecidesNoAccept ==
    \A s \in Submissions : verdict[s] \in Verdicts /\ judgedOn[s] # {} =>
        (verdict[s] = "AC") = (\A t \in judgedOn[s] : Outcome[s][t] = "pass")

(* "seed completed" means that the problem has all the test cases the      *)
(* author gave it, although other authors work in between and earlier      *)
(* attempts broke off after any number of calls.                           *)
DoneMeansComplete ==
    \A a \in Authors : author[a] = "done" =>
        /\ Cardinality(added[a]) = TestsPerProblem
        /\ added[a] \subseteq TestsOf(current[a])

(* Every submission gets a verdict.                                        *)
EverySubmissionJudged ==
    \A s \in Submissions : (target[s] # NoProblem) ~> (verdict[s] \in Verdicts)

=============================================================================
