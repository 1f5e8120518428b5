--------------------------- MODULE MCTransaction ---------------------------
(* Small instances of TransactionLifecycle for TLC. *)
EXTENDS TransactionInvariants

Values3 == 0 .. 2

\* The values before the transaction are all 0; which value that is does not
\* matter to the kernel, so one initial world stands for all of them.
MCInit == Init /\ world = [r \in Resource |-> 0]

MCSpec == MCInit /\ [][Next]_vars

MCFairSpec == MCSpec /\ Fairness

=============================================================================
