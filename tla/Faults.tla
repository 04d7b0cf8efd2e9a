------------------------------- MODULE Faults -------------------------------
(***************************************************************************)
(* The failures of the environment that the services of code-checker meet: *)
(* a killed process, a broker that does not acknowledge, a database that   *)
(* refuses a statement.  None of them is decided by the code, so each is   *)
(* an external choice; MaxFaults bounds how often each kind may happen, so *)
(* that a model without a kind simply leaves it out of DOMAIN MaxFaults,   *)
(* and FaultMixes says which kinds one behaviour may combine.              *)
(***************************************************************************)
EXTENDS Naturals

CONSTANTS
    MaxFaults,  \* bound: how many faults of each kind a behaviour may contain
    FaultMixes  \* bound: the sets of kinds that may occur in one behaviour

ASSUME FaultBudget == MaxFaults \in [DOMAIN MaxFaults -> Nat]

VARIABLE
    faults     \* faults[kind]: how many faults of that kind happened so far

FaultsInit == faults = [kind \in DOMAIN MaxFaults |-> 0]

FaultsType == faults \in [DOMAIN MaxFaults -> Nat]

\* The bound that leaves every combination of kinds possible.
AnyMix == {DOMAIN MaxFaults}

\* The kinds that occurred and this one may occur together.
Mixes(kind) ==
    \E mix \in FaultMixes :
        {kind} \cup {k \in DOMAIN MaxFaults : faults[k] > 0} \subseteq mix

\* A step that is a fault of the given kind: possible while the budget lasts.
Fails(kind) ==
    /\ kind \in DOMAIN MaxFaults
    /\ faults[kind] < MaxFaults[kind]
    /\ Mixes(kind)
    /\ faults' = [faults EXCEPT ![kind] = @ + 1]

\* How many faults of the given kind happened.
Failed(kind) == IF kind \in DOMAIN MaxFaults THEN faults[kind] ELSE 0

=============================================================================
