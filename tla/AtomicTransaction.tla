------------------------- MODULE AtomicTransaction -------------------------
(***************************************************************************)
(* What a tuning transaction promises (ARCHITECTURE.md, "Transaction       *)
(* mechanism"): it is decided once, a rollback leaves the system as it     *)
(* was, and after the decision only outsiders write the system.  How the   *)
(* system is changed while the transaction is undecided is left open.      *)
(***************************************************************************)
CONSTANTS Resource, Value

VARIABLES world, origin, drifted, outcome

vars == <<world, origin, drifted, outcome>>

Init ==
  /\ world \in [Resource -> Value]
  /\ origin = world
  /\ drifted = {}
  /\ outcome = "Undecided"

\* The runtime tries a value out, or takes one back.
Tune ==
  /\ outcome = "Undecided"
  /\ world' \in [Resource -> Value]
  /\ UNCHANGED <<origin, drifted, outcome>>

Commit ==
  /\ outcome = "Undecided"
  /\ outcome' = "Committed"
  /\ UNCHANGED <<world, origin, drifted>>

\* A rollback is decided over the original system only.
Rollback ==
  /\ outcome = "Undecided"
  /\ \A r \in Resource \ drifted : world[r] = origin[r]
  /\ outcome' = "RolledBack"
  /\ UNCHANGED <<world, origin, drifted>>

OutsiderWrites(r, v) ==
  /\ world' = [world EXCEPT ![r] = v]
  /\ drifted' = drifted \cup {r}
  /\ UNCHANGED <<origin, outcome>>

Next ==
  \/ Tune \/ Commit \/ Rollback
  \/ \E r \in Resource, v \in Value : OutsiderWrites(r, v)

Spec == Init /\ [][Next]_vars

=============================================================================
