--------------------------- MODULE MCJudgeStartup ---------------------------
(* A small instance of JudgeStartup for TLC. *)
EXTENDS JudgeStartup, TLC

CONSTANTS v1, v2, v3, r1, r2

\* The second and the third version have the same runtime.
MCVersions == {v1, v2, v3}
MCRuntimes == {r1, r2}
MCEmbedded == (v1 :> r1) @@ (v2 :> r2) @@ (v3 :> r2)

AnyFault == [k \in {"kill", "deploy", "build_cut", "docker_error"} |-> 1]
            @@ ("cleanup_error" :> 2)
=============================================================================
