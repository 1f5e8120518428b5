------------------------------ MODULE MCRules ------------------------------
(***************************************************************************)
(* The rules of the scheduler from its control socket outwards: the        *)
(* control plane by itself, with drift of the map and losses of power; the *)
(* same with the MCP server and its journal on the other end; and the      *)
(* measurement that server offers. A behaviour is one of a single subject, *)
(* the rest keeps an initial state.                                        *)
(***************************************************************************)
EXTENDS RuleProvider, RuleMeasurement, TLC

CONSTANTS c, d, e, Latency, p, q, x, t, o

VARIABLE subject

mcVars == <<subject, allVars, measurementVars>>

\* A read-only rule for d, and one entry of the map left for c and e.
MCBase == [k \in Comms |-> IF k = d THEN Latency ELSE Absent]

MCInit ==
  /\ subject \in {"control", "provider", "measurement"}
  /\ IF subject = "provider" THEN TRUE ELSE server = p
  /\ IF subject = "measurement" THEN TRUE
       ELSE task = [k \in Tids |-> NoValue] /\ inForce = {} /\ errors = 0
  /\ ProviderInit /\ MeasurementInit

\* A measurement is over after its two samples.
Measured == Len(samples) = 2 /\ UNCHANGED measurementVars

MCNext ==
  /\ UNCHANGED subject
  /\ \/ subject = "control" /\ RuleNext({x}) /\ UNCHANGED <<providerVars, measurementVars>>
     \/ subject = "provider" /\ ProviderNext /\ UNCHANGED measurementVars
     \/ subject = "measurement" /\ (MeasurementNext \/ Measured) /\ UNCHANGED allVars

MCSpec == MCInit /\ [][MCNext]_mcVars

MCSymmetry == Permutations({p, q})
=============================================================================
