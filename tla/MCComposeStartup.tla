-------------------------- MODULE MCComposeStartup --------------------------
(* A small instance of ComposeStartup for TLC.                             *)
EXTENDS ComposeStartup

AllFaults  == [k \in {"kill", "kill_migration", "stop", "down"} |-> 1]
\* One interruption in a behaviour.
OneOfThem == {{k} : k \in DOMAIN AllFaults}
=============================================================================
