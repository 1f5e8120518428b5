---------------------------- MODULE MCEvaluation ----------------------------
(***************************************************************************)
(* An episode of the tuning agent, the contract it freezes, the A/B        *)
(* evaluation and the verdict. Each is a component with a state of its     *)
(* own that sees the others by their results only. A behaviour is one of a *)
(* single subject, the rest keeps an initial state.                        *)
(***************************************************************************)
EXTENDS Episode, AbEvaluation, Sampling, Contract

VARIABLE subject

mcVars == <<subject, episodeVars, abVars, verdictVars, contractVars>>

----------------------------------------------------------------------------
(* AbEvaluation: a budget that the longer plan nearly fills, and a plan    *)
(* that does not fit.                                                      *)

MCPlans == {[settle |-> 1, count |-> 2, interval |-> 1],
            [settle |-> 0, count |-> 1, interval |-> 0],
            [settle |-> 2, count |-> 2, interval |-> 3]}
MCCallTimeout == [measurement |-> 2, comparison |-> 1]

----------------------------------------------------------------------------
(* Sampling: single samples with every fault of a batch, operator and      *)
(* group; and all sequences of three samples on one side.                  *)

Gauge(v) == [kind |-> "Gauge", unit |-> "u", value |-> v]
Measured(metrics) == [quality |-> "Valid", fingerprint |-> "w1", metrics |-> metrics]
Of(v) == Measured([m |-> Gauge(v)])

AllSamples ==
  {Of(v) : v \in {-4, 0, 4, 8}} \cup
  {[Of(4) EXCEPT !.quality = "Partial"], [Of(4) EXCEPT !.fingerprint = "w2"],
   [Of(4) EXCEPT !.fingerprint = NoFingerprint],
   Measured([m |-> [Gauge(4) EXCEPT !.kind = "Counter"]]),
   Measured([m |-> [kind |-> "Boolean", unit |-> "u", value |-> TRUE]]),
   Measured([m |-> Gauge(4), extra |-> Gauge(4)])}
FewSamples ==
  {Of(-4), Of(8), Measured([m |-> Gauge(4), extra |-> Gauge(4)]),
   [Of(0) EXCEPT !.quality = "Partial"], [Of(0) EXCEPT !.fingerprint = "w2"],
   Measured([m |-> [Gauge(4) EXCEPT !.kind = "Counter"]])}

Rows == {"psi.cpu.some", "psi.cpu.full"}
QuietSystem == CollectCore(2, [r \in Rows |-> 2])
AnySystem ==
  {[baseline |-> QuietSystem, candidate |-> b] :
     b \in {QuietSystem, CollectCore(2, [r \in {"psi.cpu.some"} |-> 2]),
            CollectCore(2, [r \in Rows |-> 8])}}

Condition(op, v) == [metric |-> "m", op |-> op, value |-> v]
LostMetric == [metric |-> "lost", op |-> "CurrentLe", value |-> 8]
Terms(primary, regression, workload) ==
  [primary |-> primary, regression |-> regression, workload |-> workload]
AllTerms ==
  {Terms(<< <<k>> >>, r, w) :
     k \in {Condition(op, v) : op \in MetricOperator, v \in {2, 50}},
     r \in {<<>>, << <<Condition("IncreaseAbsLe", 2)>> >>,
            << <<LostMetric, Condition("IncreaseAbsLe", 2)>> >>},
     w \in {<<>>, << <<Condition("ChangeAbsLe", 8)>> >>}}

MCCases ==
  <<[count |-> 1, samples |-> [s \in Sides |-> AllSamples],
     systems |-> AnySystem, contracts |-> AllTerms],
    [count |-> 3, samples |-> [baseline |-> FewSamples, candidate |-> {Of(4)}],
     systems |-> {[s \in Sides |-> QuietSystem]},
     contracts |-> {Terms(<< <<Condition("DecreaseAbsGe", 2)>> >>, <<>>, <<>>)}]>>

----------------------------------------------------------------------------
(* Contract: registries with and without the guardrail, and contracts with *)
(* every fault.                                                            *)

Meta(mkind, role, class, phases, metrics) ==
  [kind |-> mkind, role |-> role, class |-> class, phases |-> phases, metrics |-> metrics,
   effect |-> IF mkind = "Comparison" THEN "PureComputation" ELSE "ReadOnly",
   provider |-> <<class, mkind>>]

Full ==
  [x \in {"guard", "m", "open", "c", "probe"} |->
     CASE x = "guard" -> Meta("Measurement", "RuntimeSystemGuardrail", "Builtin", {"CommitPending"}, {"load"})
       [] x = "m"     -> Meta("Measurement", "AgentSelectable", "Mcp", {"CommitPending"}, {"p99"})
       [] x = "open"  -> Meta("Measurement", "AgentSelectable", "Mcp", {"CommitPending"}, {})
       [] x = "c"     -> Meta("Comparison", "AgentSelectable", "Builtin", {"CommitPending"}, {})
       [] x = "probe" -> Meta("Probe", "AgentSelectable", "Builtin", {"Clean"}, {})]

MCSnapshots ==
  {[generation |-> Cardinality(ids), metas |-> [x \in ids |-> Full[x]]] :
     ids \in {DOMAIN Full, DOMAIN Full \ {"guard"}, {"guard", "m", "c"}, {"guard", "m"}}}

SamplingPlans == [settle : {0, 3, 5}, count : {0, 1, 3}, interval : {0, 1, 2}]

Bound(id, metrics, object) == [id |-> id, metrics |-> metrics, object |-> object]

BoundGroups ==
  {<<>>, <<Bound("c", {"p99"}, TRUE)>>, <<Bound("c", {"load"}, TRUE)>>,
   <<Bound("probe", {}, TRUE)>>, <<Bound("c", {}, FALSE)>>,
   <<Bound("c", {}, TRUE), Bound("c", {"p99"}, TRUE), Bound("c", {}, TRUE)>>}

MCContractSpecs ==
  [measurement : {[id |-> i, object |-> TRUE] : i \in {"m", "open", "guard", "c"}}
                   \union {[id |-> "m", object |-> FALSE]},
   primary : BoundGroups, regression : BoundGroups,
   invariants : {<<>>, <<Bound("c", {"p99"}, TRUE)>>}, sampling : SamplingPlans]

----------------------------------------------------------------------------
MCInit ==
  /\ subject \in {"episode", "evaluation", "verdict", "contract"}
  /\ IF subject = "evaluation" THEN TRUE ELSE plan = CHOOSE q \in Plans : TRUE
  /\ IF subject = "verdict" THEN TRUE ELSE evaluation = 1
  /\ IF subject = "contract" THEN TRUE ELSE snapshot = CHOOSE s \in Snapshots : TRUE
  /\ EpisodeInit /\ AbInit /\ VerdictInit /\ ContractInit

MCNext ==
  /\ UNCHANGED subject
  /\ \/ subject = "episode" /\ EpisodeNext /\ UNCHANGED <<abVars, verdictVars, contractVars>>
     \/ subject = "evaluation" /\ AbNext /\ UNCHANGED <<episodeVars, verdictVars, contractVars>>
     \/ subject = "verdict" /\ VerdictNext /\ UNCHANGED <<episodeVars, abVars, contractVars>>
     \/ subject = "contract" /\ ContractNext /\ UNCHANGED <<episodeVars, abVars, verdictVars>>

\* The coordinator's loop runs, and the reasoner's requests return: its HTTP client
\* has a timeout. The evaluation is one call whose steps have timeouts or deadlines.
MCSpec ==
  /\ MCInit /\ [][MCNext]_mcVars
  /\ WF_episodeVars(subject = "episode" /\ EpisodeNext)
  /\ WF_abVars(subject = "evaluation" /\ AbNext)

\* The loop of EpisodeCoordinator::run ends every episode, whatever turns the
\* reasoner takes (EpisodeEnds, in the behaviours that are about an episode).
EpisodeIsEnded == subject = "episode" => EpisodeEnds

\* evaluate returns from every combination of failing, overrunning and late provider
\* calls (EvaluationReturns, in the behaviours that are about an evaluation).
EvaluationIsEnded == subject = "evaluation" => EvaluationReturns

\* Both loops that a reasoner or a provider could hold up come to an end: the episode
\* and the evaluation within it.
EveryRunEnds == EpisodeIsEnded /\ EvaluationIsEnded
=============================================================================
