--------------------------- MODULE Problems_proofs ---------------------------
(***************************************************************************)
(* Safety of problem_service and of the judging it feeds, for any number   *)
(* of authors, problems, test cases and submissions and any outcomes.  The *)
(* table of test cases only grows, so what a client could see when it      *)
(* submitted is part of what the judge reads later; and while it judges,   *)
(* every test that is not in its queue any more was passed.                *)
(***************************************************************************)
EXTENDS Problems, TLAPS, SequenceTheorems, FiniteSetTheorems

Passes(s, t) == Outcome[s][t] = "pass"

Authoring ==
    \A a \in Authors :
       /\ author[a] = "idle" => added[a] = {}
       /\ author[a] \in {"event", "created", "done"} => current[a] \in ProblemIds
       /\ \A t \in added[a] : problemOf[t] = current[a] /\ problemOf[t] # NoProblem
       /\ author[a] = "done" => Cardinality(added[a]) = TestsPerProblem

Submitted ==
    \A s \in Submissions :
       /\ verdict[s] # "none" => target[s] # NoProblem
       /\ verdict[s] = "none" => judgedOn[s] = {}
       /\ \A t \in known[s] : problemOf[t] = target[s] /\ problemOf[t] # NoProblem

Judged ==
    \A s \in Submissions :
       /\ verdict[s] = "judging" =>
             /\ tests[s] # <<>>
             /\ ToSet(tests[s]) \subseteq judgedOn[s]
             /\ \A t \in judgedOn[s] : t \in ToSet(tests[s]) \/ Passes(s, t)
       /\ verdict[s] \in {"judging", "AC"} => known[s] \subseteq judgedOn[s]
       /\ verdict[s] = "AC" => \A t \in judgedOn[s] : Passes(s, t)
       /\ verdict[s] \in {"WA", "RE"} /\ judgedOn[s] # {} =>
             \E t \in judgedOn[s] : ~ Passes(s, t)

Inv == TypeOK /\ Authoring /\ Submitted /\ Judged
-----------------------------------------------------------------------------
(* Faults, queues and the table *)

LEMMA FaultStep ==
  ASSUME FaultsType, NEW kind, Fails(kind)
  PROVE  FaultsType'
  BY FaultBudget DEF FaultsType, Fails

\* The rows of a SELECT in some order: all of them, and nothing else.
LEMMA QueueOf ==
  ASSUME NEW S \in SUBSET TestIds, NEW queue \in SetToSeqs(S)
  PROVE  /\ queue \in Seq(TestIds)
         /\ ToSet(queue) = S
  <1> DEFINE n == Cardinality(S)
  <1>1. IsFiniteSet(S) /\ n \in Nat
    BY ProblemConstants, FS_Subset, FS_CardinalityType
  <1>2. queue \in [1 .. n -> S] /\ \A i, j \in 1 .. n : i # j => queue[i] # queue[j]
    BY DEF SetToSeqs
  <1>3. queue \in Injection(1 .. n, S)
    BY <1>2 DEF Injection, IsInjective
  <1>4. Cardinality(1 .. n) = n
    BY <1>1, FS_Interval
  <1>5. queue \in Surjection(1 .. n, S)
    BY <1>1, <1>3, <1>4, FS_Injection
  <1>6. \A t \in S : \E i \in 1 .. n : queue[i] = t
    BY <1>5 DEF Surjection
  <1>7. queue \in Seq(TestIds)
    BY <1>1, <1>2, IsASeq
  <1> QED BY <1>2, <1>6, <1>7 DEF ToSet

\* The first test of the queue, and the others.
LEMMA QueueTail ==
  ASSUME NEW q \in Seq(TestIds), q # <<>>
  PROVE  /\ Head(q) \in ToSet(q) /\ Tail(q) \in Seq(TestIds)
         /\ ToSet(Tail(q)) \subseteq ToSet(q)
         /\ \A t \in ToSet(q) : t = Head(q) \/ t \in ToSet(Tail(q))
         /\ Len(q) = 1 => Tail(q) = <<>>
         /\ Tail(q) = <<>> => Len(q) = 1
  <1>1. /\ Len(q) \in Nat \ {0} /\ DOMAIN q = 1 .. Len(q)
        /\ Head(q) = q[1] /\ Tail(q) \in Seq(TestIds)
        /\ Len(Tail(q)) = Len(q) - 1 /\ DOMAIN Tail(q) = 1 .. (Len(q) - 1)
        /\ \A i \in 1 .. (Len(q) - 1) : Tail(q)[i] = q[i + 1]
    OBVIOUS
  <1>2. Head(q) \in ToSet(q)
    BY <1>1 DEF ToSet
  <1>3. ToSet(Tail(q)) \subseteq ToSet(q)
    <2>1. \A i \in 1 .. (Len(q) - 1) : i + 1 \in 1 .. Len(q)
      BY <1>1
    <2> QED BY <1>1, <2>1 DEF ToSet
  <1>4. ASSUME NEW t \in ToSet(q) PROVE t = Head(q) \/ t \in ToSet(Tail(q))
    <2>1. PICK i \in 1 .. Len(q) : t = q[i]
      BY <1>1 DEF ToSet
    <2>2. CASE i = 1
      BY <1>1, <2>1, <2>2
    <2>3. CASE i # 1
      <3>1. i - 1 \in 1 .. (Len(q) - 1) /\ (i - 1) + 1 = i
        BY <1>1, <2>1, <2>3
      <3> QED BY <1>1, <2>1, <3>1 DEF ToSet
    <2> QED BY <2>2, <2>3
  <1>5. /\ Len(q) = 1 => Tail(q) = <<>>
        /\ Tail(q) = <<>> => Len(q) = 1
    BY <1>1, EmptySeq
  <1> QED BY <1>1, <1>2, <1>3, <1>4, <1>5

\* A test case stays with its problem.
LEMMA TableGrows ==
  ASSUME TypeOK, Authoring, [Next]_vars
  PROVE  /\ problemOf' \in [TestIds -> ProblemIds \cup {NoProblem}]
         /\ \A t \in TestIds : problemOf[t] # NoProblem => problemOf'[t] = problemOf[t]
  <1> USE DEF TypeOK
  <1>1. ASSUME NEW t \in TestIds \ Stored, NEW p \in ProblemIds,
               problemOf' = [problemOf EXCEPT ![t] = p]
        PROVE  /\ problemOf' \in [TestIds -> ProblemIds \cup {NoProblem}]
               /\ \A u \in TestIds : problemOf[u] # NoProblem => problemOf'[u] = problemOf[u]
    BY <1>1 DEF Stored
  <1>2. CASE \E a \in Authors : CreateTestCase(a) \/ CreateTestCaseFailed(a)
    <2>1. PICK a \in Authors : CreateTestCase(a) \/ CreateTestCaseFailed(a)
      BY <1>2
    <2>2. current[a] \in ProblemIds
      BY <2>1 DEF CreateTestCase, CreateTestCaseFailed, Authoring
    <2>3. \/ UNCHANGED problemOf
          \/ \E t \in TestIds \ Stored : problemOf' = [problemOf EXCEPT ![t] = current[a]]
      BY <2>1 DEF CreateTestCase, CreateTestCaseFailed
    <2> QED BY <1>1, <2>2, <2>3
  <1>3. CASE CreateLateTestCase
    BY <1>1, <1>3 DEF CreateLateTestCase
  <1>4. CASE UNCHANGED problemOf
    BY <1>4
  <1> QED BY <1>2, <1>3, <1>4 DEF Next, vars, tables, AuthorStep, CreateProblem, EmitEvent,
      AllTestsAdded, RunAgain, CreateProblemFailed, Submit, JudgeStep, GetTestCases, TestPassed,
      TestFailed, JudgeAgain, Judges, GetTestCasesFailed, Quiet
-----------------------------------------------------------------------------
LEMMA Initially == Init => Inv
  <1> SUFFICES ASSUME Init PROVE Inv
    OBVIOUS
  <1> USE DEF Init
  <1>1. FaultsType
    BY FaultBudget DEF FaultsInit, FaultsType
  <1>2. <<>> \in Seq(TestIds) /\ <<>> \in Seq(ProblemIds)
    OBVIOUS
  <1>3. TypeOK
    BY <1>1, <1>2 DEF TypeOK, AuthorStates
  <1>4. Authoring /\ Submitted /\ Judged
    BY DEF Authoring, Submitted, Judged
  <1> QED BY <1>3, <1>4 DEF Inv

LEMMA AuthoringStep == TypeOK /\ Authoring /\ [Next]_vars => Authoring'
  <1> SUFFICES ASSUME TypeOK, Authoring, [Next]_vars, NEW b \in Authors
               PROVE  /\ author'[b] = "idle" => added'[b] = {}
                      /\ author'[b] \in {"event", "created", "done"} => current'[b] \in ProblemIds
                      /\ \A t \in added'[b] : problemOf'[t] = current'[b] /\ problemOf'[t] # NoProblem
                      /\ author'[b] = "done" => Cardinality(added'[b]) = TestsPerProblem
    BY DEF Authoring
  <1>1. added[b] \subseteq TestIds
    BY DEF TypeOK
  <1>2. /\ author[b] = "idle" => added[b] = {}
        /\ author[b] \in {"event", "created", "done"} => current[b] \in ProblemIds
        /\ \A t \in added[b] : problemOf'[t] = current[b] /\ problemOf'[t] # NoProblem
        /\ author[b] = "done" => Cardinality(added[b]) = TestsPerProblem
    BY <1>1, TableGrows DEF Authoring
  <1>3. CASE UNCHANGED authorVars
    BY <1>2, <1>3 DEF authorVars
  <1>4. ASSUME NEW a \in Authors, CreateProblem(a)
        PROVE  /\ author'[b] = IF a = b THEN "event" ELSE author[b]
               /\ added'[b] = added[b]
               /\ a # b => current'[b] = current[b]
               /\ a = b => current'[b] \in ProblemIds /\ added[b] = {}
    BY <1>2, <1>4 DEF CreateProblem, Goto, TypeOK
  <1>5. ASSUME NEW a \in Authors, EmitEvent(a) \/ CreateTestCaseFailed(a) \/ AllTestsAdded(a)
                                  \/ CreateProblemFailed(a)
        PROVE  /\ current'[b] = current[b] /\ added'[b] = added[b]
               /\ \/ author'[b] = author[b]
                  \/ author'[b] = "created" /\ author[b] = "event"
                  \/ author'[b] = "failed"
                  \/ /\ author'[b] = "done" /\ author[b] = "created"
                     /\ Cardinality(added[b]) = TestsPerProblem
    BY <1>5 DEF EmitEvent, CreateTestCaseFailed, AllTestsAdded, CreateProblemFailed, Goto, TypeOK
  <1>6. ASSUME NEW a \in Authors, CreateTestCase(a)
        PROVE  /\ author'[b] = author[b] /\ current'[b] = current[b]
               /\ \/ added'[b] = added[b]
                  \/ /\ a = b /\ author[b] = "created"
                     /\ \E t \in TestIds : problemOf'[t] = current[b] /\ added'[b] = added[b] \cup {t}
    BY <1>6 DEF CreateTestCase, TypeOK
  <1>7. ASSUME NEW a \in Authors, RunAgain(a)
        PROVE  \/ author'[b] = author[b] /\ current'[b] = current[b] /\ added'[b] = added[b]
               \/ author'[b] = "idle" /\ added'[b] = {}
    BY <1>7 DEF RunAgain, Goto, TypeOK
  <1>8. CASE \E a \in Authors : CreateProblem(a)
    <2>1. PICK a \in Authors : CreateProblem(a)
      BY <1>8
    <2>2. CASE a = b
      BY <1>4, <2>1, <2>2
    <2>3. CASE a # b
      BY <1>2, <1>4, <2>1, <2>3
    <2> QED BY <2>2, <2>3
  <1>9. CASE \E a \in Authors : EmitEvent(a) \/ CreateTestCaseFailed(a) \/ AllTestsAdded(a)
                                  \/ CreateProblemFailed(a)
    BY <1>2, <1>5, <1>9
  <1>10. CASE \E a \in Authors : CreateTestCase(a)
    <2>1. PICK a \in Authors : CreateTestCase(a)
      BY <1>10
    <2>2. CASE added'[b] = added[b]
      BY <1>2, <1>6, <2>1, <2>2
    <2>3. CASE added'[b] # added[b]
      <3>1. author'[b] = "created" /\ current'[b] = current[b] /\ current[b] \in ProblemIds
        BY <1>2, <1>6, <2>1, <2>3
      <3>2. current[b] # NoProblem
        BY <3>1, ProblemConstants
      <3> QED BY <1>2, <1>6, <2>1, <2>3, <3>1, <3>2
    <2> QED BY <2>2, <2>3
  <1>11. CASE \E a \in Authors : RunAgain(a)
    BY <1>2, <1>7, <1>11
  <1> QED
    BY <1>3, <1>8, <1>9, <1>10, <1>11
       DEF Next, vars, AuthorStep, CreateLateTestCase, Submit, JudgeStep, GetTestCases, TestPassed,
       TestFailed, JudgeAgain, Judges, GetTestCasesFailed, Quiet

LEMMA TypeStep == TypeOK /\ Authoring /\ Judged /\ [Next]_vars => TypeOK'
  <1> SUFFICES ASSUME TypeOK, Authoring, Judged, [Next]_vars PROVE TypeOK'
    OBVIOUS
  <1> USE DEF TypeOK
  <1>1. FaultsType'
    <2>1. UNCHANGED faults => FaultsType'
      BY DEF FaultsType
    <2> QED BY FaultStep, <2>1 DEF Next, vars, AuthorStep, CreateProblem, EmitEvent, CreateTestCase,
          AllTestsAdded, RunAgain, CreateProblemFailed, CreateTestCaseFailed, CreateLateTestCase,
          Submit, JudgeStep, GetTestCases, TestPassed, TestFailed, JudgeAgain,
          GetTestCasesFailed, Quiet
  <1>2. problemOf' \in [TestIds -> ProblemIds \cup {NoProblem}]
    BY TableGrows
  <1>3. /\ problems' \subseteq ProblemIds
        /\ events' \in Seq(ProblemIds)
        /\ author' \in [Authors -> AuthorStates]
        /\ current' \in [Authors -> ProblemIds \cup {NoProblem}]
        /\ added' \in [Authors -> SUBSET TestIds]
    <2>1. CASE UNCHANGED <<problems, events, authorVars>>
      BY <2>1 DEF authorVars
    <2>2. ASSUME NEW a \in Authors, CreateProblem(a) \/ CreateProblemFailed(a)
          PROVE  /\ problems' \subseteq ProblemIds /\ events' = events
                 /\ author' \in [Authors -> AuthorStates]
                 /\ current' \in [Authors -> ProblemIds \cup {NoProblem}]
                 /\ added' = added
      BY <2>2 DEF CreateProblem, CreateProblemFailed, Goto, AuthorStates
    <2>3. ASSUME NEW a \in Authors, EmitEvent(a)
          PROVE  /\ events' \in Seq(ProblemIds)
                 /\ author' \in [Authors -> AuthorStates]
                 /\ UNCHANGED <<problems, current, added>>
      <3>1. current[a] \in ProblemIds
        BY <2>3 DEF EmitEvent, Authoring
      <3>2. events' \in {events, Append(events, current[a])}
        BY <2>3 DEF EmitEvent
      <3> QED BY <2>3, <3>1, <3>2 DEF EmitEvent, Goto, AuthorStates, tables
    <2>4. ASSUME NEW a \in Authors,
                 CreateTestCase(a) \/ CreateTestCaseFailed(a) \/ AllTestsAdded(a) \/ RunAgain(a)
          PROVE  /\ author' \in [Authors -> AuthorStates]
                 /\ current' \in [Authors -> ProblemIds \cup {NoProblem}]
                 /\ added' \in [Authors -> SUBSET TestIds]
                 /\ UNCHANGED <<problems, events>>
      <3>1. added' \in [Authors -> SUBSET TestIds]
        <4>1. CASE CreateTestCase(a)
          BY <4>1 DEF CreateTestCase
        <4>2. CASE ~ CreateTestCase(a)
          BY <2>4, <4>2 DEF CreateTestCaseFailed, AllTestsAdded, RunAgain
        <4> QED BY <4>1, <4>2
      <3> QED BY <2>4, <3>1 DEF CreateTestCase, CreateTestCaseFailed, AllTestsAdded, RunAgain,
            Goto, AuthorStates, tables
    <2> QED BY <2>1, <2>2, <2>3, <2>4 DEF Next, vars, tables, AuthorStep, CreateLateTestCase,
          Submit, JudgeStep, GetTestCases, TestPassed, TestFailed, JudgeAgain, Judges,
          GetTestCasesFailed, Quiet
  <1>4. /\ target' \in [Submissions -> ProblemIds \cup {NoProblem, Unlisted}]
        /\ tests' \in [Submissions -> Seq(TestIds)]
        /\ verdict' \in [Submissions -> {"none", "judging"} \cup Verdicts]
        /\ known' \in [Submissions -> SUBSET TestIds]
        /\ judgedOn' \in [Submissions -> SUBSET TestIds]
    <2>1. CASE UNCHANGED judgeVars
      BY <2>1 DEF judgeVars
    <2>2. CASE \E s \in Submissions : Submit(s)
      BY <2>2 DEF Submit, TestsOf
    <2>3. ASSUME NEW s \in Submissions, NEW queue \in SetToSeqs(TestsOf(target[s])), Judges(s, queue)
          PROVE  /\ tests' \in [Submissions -> Seq(TestIds)]
                 /\ verdict' \in [Submissions -> {"none", "judging"} \cup Verdicts]
                 /\ judgedOn' \in [Submissions -> SUBSET TestIds]
                 /\ UNCHANGED <<target, known>>
      <3>1. queue \in Seq(TestIds) /\ ToSet(queue) \in SUBSET TestIds
        BY QueueOf DEF TestsOf
      <3> QED BY <2>3, <3>1 DEF Judges, Verdicts
    <2>4. CASE \E s \in Submissions : GetTestCases(s) \/ JudgeAgain(s)
      BY <2>3, <2>4 DEF GetTestCases, JudgeAgain, Verdicts
    <2>5. CASE \E s \in Submissions : GetTestCasesFailed(s)
      BY <2>5 DEF GetTestCasesFailed, Verdicts
    <2>6. CASE \E s \in Submissions : TestPassed(s) \/ TestFailed(s)
      <3>1. PICK s \in Submissions : TestPassed(s) \/ TestFailed(s)
        BY <2>6
      <3>2. tests[s] \in Seq(TestIds) /\ tests[s] # <<>>
        BY <3>1 DEF TestPassed, TestFailed, Runs, Judged
      <3>3. Tail(tests[s]) \in Seq(TestIds) /\ <<>> \in Seq(TestIds)
        BY <3>2, QueueTail
      <3>4. tests' \in [Submissions -> Seq(TestIds)]
        BY <3>1, <3>3 DEF TestPassed, TestFailed
      <3>5. verdict' \in [Submissions -> {"none", "judging"} \cup Verdicts]
        BY <3>1 DEF TestPassed, TestFailed, Runs, Verdicts
      <3> QED BY <3>1, <3>4, <3>5 DEF TestPassed, TestFailed
    <2> QED BY <2>1, <2>2, <2>4, <2>5, <2>6 DEF Next, vars, AuthorStep, CreateProblem, EmitEvent,
          CreateTestCase, AllTestsAdded, RunAgain, CreateProblemFailed, CreateTestCaseFailed,
          CreateLateTestCase, JudgeStep, Quiet
  <1> QED BY <1>1, <1>2, <1>3, <1>4
-----------------------------------------------------------------------------
LEMMA SubmittedStep == TypeOK /\ Authoring /\ Submitted /\ [Next]_vars => Submitted'
  <1> SUFFICES ASSUME TypeOK, Authoring, Submitted, [Next]_vars, NEW r \in Submissions
               PROVE  /\ verdict'[r] # "none" => target'[r] # NoProblem
                      /\ verdict'[r] = "none" => judgedOn'[r] = {}
                      /\ \A t \in known'[r] : problemOf'[t] = target'[r] /\ problemOf'[t] # NoProblem
    BY DEF Submitted
  <1> USE DEF TypeOK
  <1>1. /\ verdict[r] # "none" => target[r] # NoProblem
        /\ verdict[r] = "none" => judgedOn[r] = {}
        /\ \A t \in known[r] : problemOf'[t] = target[r] /\ problemOf'[t] # NoProblem
    BY TableGrows DEF Submitted
  <1>2. CASE UNCHANGED judgeVars
    BY <1>1, <1>2 DEF judgeVars
  <1>3. ASSUME NEW s \in Submissions, Submit(s)
        PROVE  /\ verdict'[r] = verdict[r] /\ judgedOn'[r] = judgedOn[r] /\ problemOf' = problemOf
               /\ \/ target'[r] = target[r] /\ known'[r] = known[r]
                  \/ target'[r] # NoProblem /\ known'[r] = TestsOf(target'[r])
    <2>1. PICK p \in problems \cup {Unlisted} : /\ target' = [target EXCEPT ![s] = p]
                                                /\ known' = [known EXCEPT ![s] = TestsOf(p)]
      BY <1>3 DEF Submit
    <2>2. p # NoProblem
      BY ProblemConstants
    <2> QED BY <1>3, <2>1, <2>2 DEF Submit, tables
  <1>4. ASSUME NEW s \in Submissions, GetTestCases(s) \/ JudgeAgain(s)
        PROVE  /\ UNCHANGED <<target, known>>
               /\ \/ verdict'[r] = verdict[r] /\ judgedOn'[r] = judgedOn[r]
                  \/ verdict'[r] # "none" /\ target[r] # NoProblem
                  \/ verdict'[r] = "none" /\ judgedOn'[r] = {}
    <2>1. target[s] # NoProblem
      BY <1>4 DEF GetTestCases, JudgeAgain, Verdicts, Submitted
    <2> QED BY <1>4, <2>1 DEF GetTestCases, JudgeAgain, Judges
  <1>5. ASSUME NEW s \in Submissions, GetTestCasesFailed(s) \/ TestPassed(s) \/ TestFailed(s)
        PROVE  /\ UNCHANGED <<target, known, judgedOn>>
               /\ \/ verdict'[r] = verdict[r]
                  \/ verdict'[r] # "none" /\ target[r] # NoProblem
    BY <1>5 DEF GetTestCasesFailed, TestPassed, TestFailed, Runs, Submitted
  <1> QED
    BY <1>1, <1>2, <1>3, <1>4, <1>5
       DEF TestsOf, Next, vars, AuthorStep, CreateProblem, EmitEvent, CreateTestCase, AllTestsAdded,
       RunAgain, CreateProblemFailed, CreateTestCaseFailed, CreateLateTestCase, JudgeStep, Quiet

\* What holds of a submission when the judge has its queue.
JudgingOf(v, queue, on, before, s) ==
    /\ v = "judging" =>
          /\ queue # <<>>
          /\ ToSet(queue) \subseteq on
          /\ \A t \in on : t \in ToSet(queue) \/ Passes(s, t)
    /\ v \in {"judging", "AC"} => before \subseteq on
    /\ v = "AC" => \A t \in on : Passes(s, t)
    /\ v \in {"WA", "RE"} /\ on # {} => \E t \in on : ~ Passes(s, t)

LEMMA JudgedStep == TypeOK /\ Submitted /\ Judged /\ [Next]_vars => Judged'
  <1> SUFFICES ASSUME TypeOK, Submitted, Judged, [Next]_vars, NEW s \in Submissions
               PROVE  JudgingOf(verdict'[s], tests'[s], judgedOn'[s], known'[s], s)
    BY DEF Judged, JudgingOf, Passes
  <1> USE DEF TypeOK
  <1>1. JudgingOf(verdict[s], tests[s], judgedOn[s], known[s], s)
    BY DEF Judged, JudgingOf
  <1>2. CASE UNCHANGED <<tests[s], verdict[s], known[s], judgedOn[s]>>
    BY <1>1, <1>2
  <1>3. CASE Submit(s)
    <2>1. verdict'[s] = "none"
      BY <1>3 DEF Submit, Submitted
    <2> QED BY <2>1 DEF JudgingOf
  <1>10. CASE JudgeAgain(s)
    <2>1. verdict'[s] = "none"
      BY <1>10 DEF JudgeAgain
    <2> QED BY <2>1 DEF JudgingOf
  <1>4. CASE GetTestCases(s)
    <2>1. PICK queue \in SetToSeqs(TestsOf(target[s])) : Judges(s, queue)
      BY <1>4 DEF GetTestCases
    <2>2. ToSet(queue) = TestsOf(target[s])
      BY <2>1, QueueOf DEF TestsOf
    <2>3. known[s] \subseteq ToSet(queue)
      BY <2>2 DEF Submitted, TestsOf
    <2>4. queue = <<>> => ToSet(queue) = {}
      BY DEF ToSet
    <2>5. /\ tests'[s] = queue /\ judgedOn'[s] = ToSet(queue) /\ known'[s] = known[s]
          /\ verdict'[s] = IF queue = <<>> THEN "AC" ELSE "judging"
      BY <2>1 DEF Judges
    <2> QED BY <2>3, <2>4, <2>5 DEF JudgingOf
  <1>5. CASE GetTestCasesFailed(s)
    <2>1. verdict'[s] = "RE" /\ judgedOn'[s] = {}
      BY <1>5 DEF GetTestCasesFailed, Submitted
    <2> QED BY <2>1 DEF JudgingOf
  <1>6. CASE TestPassed(s)
    <2>1. /\ verdict[s] = "judging" /\ Passes(s, Head(tests[s]))
          /\ tests'[s] = Tail(tests[s]) /\ UNCHANGED <<known, judgedOn>>
          /\ verdict'[s] = IF Len(tests[s]) = 1 THEN "AC" ELSE "judging"
      BY <1>6 DEF TestPassed, Runs, Passes
    <2>2. tests[s] \in Seq(TestIds) /\ tests[s] # <<>>
      BY <1>1, <2>1 DEF JudgingOf
    <2>3. \A t \in judgedOn[s] : t \in ToSet(Tail(tests[s])) \/ Passes(s, t)
      BY <1>1, <2>1, <2>2, QueueTail DEF JudgingOf
    <2>4. ToSet(Tail(tests[s])) \subseteq judgedOn[s]
      BY <1>1, <2>1, <2>2, QueueTail DEF JudgingOf
    <2>5. CASE Len(tests[s]) = 1
      <3>1. Tail(tests[s]) = <<>>
        BY <2>2, <2>5, QueueTail
      <3>2. ToSet(<<>>) = {}
        BY DEF ToSet
      <3> QED BY <1>1, <2>1, <2>3, <2>5, <3>1, <3>2 DEF JudgingOf
    <2>6. CASE Len(tests[s]) # 1
      <3>1. Tail(tests[s]) # <<>>
        BY <2>2, <2>6, QueueTail
      <3> QED BY <1>1, <2>1, <2>3, <2>4, <2>6, <3>1 DEF JudgingOf
    <2> QED BY <2>5, <2>6
  <1>7. CASE TestFailed(s)
    <2>1. /\ verdict[s] = "judging" /\ Outcome[s][Head(tests[s])] \in {"WA", "RE"}
          /\ verdict'[s] \in {"WA", "RE"} /\ UNCHANGED <<known, judgedOn>>
      BY <1>7 DEF TestFailed, Runs
    <2>2. tests[s] \in Seq(TestIds) /\ tests[s] # <<>>
      BY <1>1, <2>1 DEF JudgingOf
    <2>3. Head(tests[s]) \in judgedOn[s] /\ ~ Passes(s, Head(tests[s]))
      BY <1>1, <2>1, <2>2, QueueTail DEF JudgingOf, Passes
    <2> QED BY <2>1, <2>3 DEF JudgingOf
  <1>8. ASSUME NEW r \in Submissions \ {s},
               \/ Submit(r) \/ GetTestCases(r) \/ JudgeAgain(r)
               \/ GetTestCasesFailed(r) \/ TestPassed(r) \/ TestFailed(r)
        PROVE  UNCHANGED <<tests[s], verdict[s], known[s], judgedOn[s]>>
    BY <1>8 DEF Submit, GetTestCases, JudgeAgain, Judges, GetTestCasesFailed, TestPassed, TestFailed
  <1>9. CASE UNCHANGED judgeVars
    BY <1>2, <1>9 DEF judgeVars
  <1> QED
    BY <1>2, <1>3, <1>4, <1>5, <1>6, <1>7, <1>8, <1>9, <1>10
       DEF Next, vars, AuthorStep, CreateProblem, EmitEvent, CreateTestCase, AllTestsAdded,
       RunAgain, CreateProblemFailed, CreateTestCaseFailed, CreateLateTestCase, JudgeStep, Quiet
-----------------------------------------------------------------------------
THEOREM Invariance == Spec => []Inv
  <1>1. Inv /\ [Next]_vars => Inv'
    BY TypeStep, AuthoringStep, SubmittedStep, JudgedStep DEF Inv
  <1> QED BY Initially, <1>1, PTL DEF Spec

(* Every variable has its type.                                            *)
THEOREM TypeCorrect == Spec => []TypeOK
  <1>1. Inv => TypeOK
    BY DEF Inv
  <1> QED BY Invariance, <1>1, PTL

(* For any number of test cases, authors and judgings: AC is given only    *)
(* for what passed all tests the client could see, and all the judge saw.  *)
THEOREM AcceptedPassed == Spec => []AcceptedPassedKnownTests
  <1>1. Inv => AcceptedPassedKnownTests
    BY DEF Inv, Judged, Passes, AcceptedPassedKnownTests
  <1> QED BY Invariance, <1>1, PTL

(* For any set of rows in any order: AC does not depend on the order.      *)
THEOREM AnyOrder == Spec => []OrderDecidesNoAccept
  <1>1. Inv => OrderDecidesNoAccept
    BY DEF Inv, Judged, Passes, Verdicts, OrderDecidesNoAccept
  <1> QED BY Invariance, <1>1, PTL

(* For any number of authors that work and fail beside each other: a       *)
(* problem whose author is done has all of its test cases.                 *)
THEOREM DoneIsComplete == Spec => []DoneMeansComplete
  <1>1. Inv => DoneMeansComplete
    BY DEF Inv, Authoring, TypeOK, TestsOf, DoneMeansComplete
  <1> QED BY Invariance, <1>1, PTL
=============================================================================
