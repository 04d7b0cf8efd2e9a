---------------------------- MODULE MCAuthTokens ----------------------------
(* A small instance of AuthTokens for TLC. *)
EXTENDS AuthTokens, TLC

CONSTANTS alice, c1, c2, p1, p2, short, long

MCClients == {c1, c2}
MCLength   == (p1 :> 8) @@ (p2 :> 8) @@ (short :> 5) @@ (long :> 73)
OneLength  == (p1 :> 8)

MCFaults  == [k \in {"auth_error", "promotion", "revocation"} |-> 1]
OnlyRoles == [k \in {"promotion", "revocation"} |-> 1]
=============================================================================
