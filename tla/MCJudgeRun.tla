----------------------------- MODULE MCJudgeRun -----------------------------
(* A small instance of JudgeRun for TLC. *)
EXTENDS JudgeRun

AnyFault == [k \in FaultKinds |-> 1]
=============================================================================
