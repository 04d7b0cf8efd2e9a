--------------------------- MODULE SubmissionCalls ---------------------------
(***************************************************************************)
(* submission_service as the modules around it see it: CodeChecker, which  *)
(* goes on with what it stored and published, and Upload, which brings the *)
(* code to it.  Both share its calls, its table and its topic.             *)
(***************************************************************************)
EXTENDS Faults, Integers, Sequences

CONSTANTS
    Ids,         \* submission ids, one per CreateSubmission call
    MaxAttempts  \* kafka.Writer's MaxAttempts

VARIABLES
    calls, rows, submissions  \* see SubmissionService

S == INSTANCE SubmissionService

=============================================================================
