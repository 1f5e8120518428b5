--------------------------- MODULE VerdictKernel ---------------------------
(***************************************************************************)
(* The central verdict of an A/B evaluation (verdict.rs), from what the    *)
(* evidence is worth and what the comparisons of each group concluded.     *)
(***************************************************************************)
EXTENDS Functions

\* The verdict from what the two pairs of batches are and what the comparisons
\* of each group concluded.
DecideFrom(systemOutcomes, complete, comparable, sameWorkload, groups) ==
  LET policies == {groups.primary, groups.regression, groups.workload}
  IN IF "Failed" \in systemOutcomes \/ "NotImproved" \in Range(groups.regression) THEN "Unsafe"
     ELSE IF \/ ~complete
             \/ ~comparable
             \/ ~sameWorkload
             \/ "Inconclusive" \in systemOutcomes
             \/ \E policy \in policies : "Inconclusive" \in Range(policy)
             \/ "NotImproved" \in Range(groups.workload) THEN "Inconclusive"
     ELSE IF /\ groups.primary # <<>>
             /\ \A i \in DOMAIN groups.primary : groups.primary[i] = "Improved" THEN "Improved"
     ELSE "NoSignal"

NoEvidence == [primary |-> <<>>, regression |-> <<>>, workload |-> <<>>]
=============================================================================
