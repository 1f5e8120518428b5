------------------------------ MODULE Contract ------------------------------
(***************************************************************************)
(* The freezing of an evaluation intent (begin_experiment of the           *)
(* coordinator, kernel/evaluation/freezer.rs, contract.rs, intent.rs), the *)
(* check of the protocol that runs before the intent is installed          *)
(* (protocol.rs) and the decoding of what was frozen: contract, intent and *)
(* commit authorization each carry a digest of their contents.             *)
(*                                                                         *)
(* A digest is the tuple of the contents it is computed from. What a       *)
(* provider says of a specification is a choice made anew for every call.  *)
(***************************************************************************)
EXTENDS Integers, Sequences, FiniteSets, SequencesExt

CONSTANTS
  Snapshots,       \* [generation, metas]: what an episode may find registered
  ContractSpecs,   \* the contracts an agent may ask for
  Objectives,      \* objective statements; "" stands for one that is refused
  Guardrail,       \* the identifier of the trusted guardrail measurement
  EvaluationTimeout,
  MaxComparisons,  \* in each of the three groups
  MaxSampleCount, MaxSettle, MaxInterval, MaxScheduled,
  NoContract

ASSUME ContractAssumption ==
  {EvaluationTimeout, MaxComparisons, MaxSampleCount, MaxSettle, MaxInterval, MaxScheduled}
    \subseteq Nat

VARIABLES
  snapshot,   \* the capabilities of the episode
  intent,     \* the installed intent, or NoContract
  stored,     \* an encoded record read back later, or NoContract
  accepted    \* whether decoding accepted it

contractVars == <<snapshot, intent, stored, accepted>>

Bindings(c)  == c.primary \o c.regression \o c.invariants
Referenced(c) == {c.measurement.id} \union {b.id : b \in Range(Bindings(c))}

Has(s, id, kind) == id \in DOMAIN s.metas /\ s.metas[id].kind = kind

----------------------------------------------------------------------------
(* ContractFreezer::freeze and FrozenEvaluationContract::from_parts.       *)

\* SamplingPlan::validate
ValidSampling(plan) ==
  /\ plan.count \in 1 .. MaxSampleCount
  /\ plan.settle <= MaxSettle /\ plan.interval <= MaxInterval
  /\ plan.settle + (plan.count - 1) * plan.interval <= MaxScheduled

ContractDigest(c) ==
  <<c.id, c.measurement, c.primary, c.regression, c.invariants, c.sampling, c.generation, c.pins>>

\* from_parts; the pins are a function, so they are sorted and without duplicates.
ValidParts(c) ==
  /\ Len(c.primary) \in 1 .. MaxComparisons
  /\ Len(c.regression) <= MaxComparisons /\ Len(c.invariants) <= MaxComparisons
  /\ ValidSampling(c.sampling)
  /\ \A b \in Range(Bindings(c)) : b.object
  /\ c.measurement.object
  /\ DOMAIN c.pins = Referenced(c)

Parts(id, spec, generation, pins) ==
  [id |-> id, measurement |-> spec.measurement, primary |-> spec.primary, regression |-> spec.regression,
   invariants |-> spec.invariants, sampling |-> spec.sampling, generation |-> generation,
   pins |-> pins]

WithDigest(c) == c @@ [digest |-> ContractDigest(c)]

\* A measurement or comparison may serve an evaluation.
MayEvaluate(meta) == "CommitPending" \in meta.phases

\* The checks of freeze; ok is the set of capabilities whose provider accepts.
Freezable(s, spec, ok) ==
  /\ Has(s, spec.measurement.id, "Measurement")
  /\ s.metas[spec.measurement.id].role = "AgentSelectable"
  /\ MayEvaluate(s.metas[spec.measurement.id])
  /\ spec.measurement.id \in ok
  /\ \A b \in Range(Bindings(spec)) :
       Has(s, b.id, "Comparison") /\ MayEvaluate(s.metas[b.id]) /\ b.id \in ok

Freeze(s, spec) ==
  Parts("contract", spec, s.generation, [id \in Referenced(spec) |-> s.metas[id].provider])

----------------------------------------------------------------------------
(* AbEvaluationProtocol::new and validate_contract.                        *)

ProtocolAvailable(s) ==
  /\ EvaluationTimeout > 0
  /\ Has(s, Guardrail, "Measurement")
  /\ s.metas[Guardrail].class = "Builtin" /\ s.metas[Guardrail].effect = "ReadOnly"
  /\ MayEvaluate(s.metas[Guardrail])

\* Variant: the guardrail's own collection is not counted.
EnsureScheduleFitsOnce(c) ==
  2 * c.sampling.settle + 2 * (c.sampling.count - 1) * c.sampling.interval <= EvaluationTimeout

EnsureScheduleFits(c) ==
  LET collections == IF c.measurement.id = Guardrail THEN 1 ELSE 2
  IN 2 * c.sampling.settle + 2 * collections * (c.sampling.count - 1) * c.sampling.interval
       <= EvaluationTimeout

\* Variant: a metric that is not declared is left to the evaluation.
ReferencesAnything(c, meta) == TRUE

\* validate_declared_metric_references
ReferencesDeclared(c, meta) ==
  meta.metrics = {} \/ \A b \in Range(Bindings(c)) : b.metrics \subseteq meta.metrics

ValidContract(s, c, ok) ==
  /\ EnsureScheduleFits(c)
  /\ c.generation = s.generation
  /\ \A id \in DOMAIN c.pins : id \in DOMAIN s.metas /\ s.metas[id].provider = c.pins[id]
  /\ Has(s, c.measurement.id, "Measurement")
  /\ s.metas[c.measurement.id].role = "AgentSelectable"
  /\ c.measurement.id \in ok
  /\ ReferencesDeclared(c, s.metas[c.measurement.id])
  /\ \A b \in Range(Bindings(c)) : Has(s, b.id, "Comparison") /\ b.id \in ok

----------------------------------------------------------------------------
(* The intent, the authorization and their decoding.                       *)

PinOf(episode, objective, contract) ==
  [episode |-> episode, intent |-> <<episode, objective, contract.digest>>,
   contract |-> contract.digest]

\* FrozenEvaluationIntent::from_parts
FrozenIntent(episode, objective, contract) ==
  [pin |-> PinOf(episode, objective, contract), objective |-> objective, contract |-> contract]

AuthorizationDigest(a) == <<a.pin, a.candidate, a.decision, a.evidence>>

Authorization(pin, candidate, decision, evidence) ==
  LET a == [pin |-> pin, candidate |-> candidate, decision |-> decision, evidence |-> evidence]
  IN a @@ [digest |-> AuthorizationDigest(a)]

DecodesContract(c) == ValidParts(c) /\ c.digest = ContractDigest(c)

\* Variant: the pin of an intent is taken as it is.
DecodesIntentUnpinned(i) == i.objective # "" /\ DecodesContract(i.contract)

DecodesIntent(i) ==
  /\ i.objective # "" /\ DecodesContract(i.contract)
  /\ i.pin = PinOf(i.pin.episode, i.objective, i.contract)

DecodesAuthorization(a) == a.digest = AuthorizationDigest(a)

----------------------------------------------------------------------------
ContractInit ==
  /\ snapshot \in Snapshots
  /\ intent = NoContract /\ stored = NoContract /\ accepted = FALSE

\* begin_experiment: freeze, then the protocol's own check, then the installation.
BeginContract(spec, objective) ==
  /\ intent = NoContract /\ objective # ""
  /\ \E frozen \in SUBSET Referenced(spec), checked \in SUBSET Referenced(spec) :
       /\ Freezable(snapshot, spec, frozen)
       /\ LET contract == WithDigest(Freeze(snapshot, spec))
          IN /\ ValidParts(contract)
             /\ ProtocolAvailable(snapshot)
             /\ ValidContract(snapshot, contract, checked)
             /\ intent' = FrozenIntent(1, objective, contract)
  /\ UNCHANGED <<snapshot, stored, accepted>>

\* An encoded intent or authorization in which one field may have changed.
Changed(record) ==
  {record} \union
    (IF "contract" \in DOMAIN record
       THEN {[record EXCEPT !.objective = "other"],
             [record EXCEPT !.pin.episode = 2],
             [record EXCEPT !.contract.sampling.settle = @ + 1],
             [record EXCEPT !.contract.regression = <<>>],
             [record EXCEPT !.contract.generation = @ + 1],
             [record EXCEPT !.contract = WithDigest(Parts(@.id, [@ EXCEPT !.regression = <<>>],
                                                         @.generation, @.pins))]}
       ELSE {[record EXCEPT !.candidate = "other"], [record EXCEPT !.decision = "other"],
             [record EXCEPT !.evidence = "other"], [record EXCEPT !.pin.episode = 2],
             [record EXCEPT !.pin.contract = <<>>]})

Decode ==
  /\ intent # NoContract /\ stored = NoContract
  /\ \E record \in {intent, Authorization(intent.pin, "candidate", "decision", "evidence")} :
       stored' \in Changed(record)
  /\ accepted' = IF "contract" \in DOMAIN stored' THEN DecodesIntent(stored')
                 ELSE DecodesAuthorization(stored')
  /\ UNCHANGED <<snapshot, intent>>

ContractNext ==
  \/ \E spec \in ContractSpecs, objective \in Objectives : BeginContract(spec, objective)
  \/ Decode

ContractSpec == ContractInit /\ [][ContractNext]_contractVars

----------------------------------------------------------------------------
\* What begin_experiment installs can be evaluated: the evaluation will find
\* every capability under the provider that was pinned, the guardrail apart from
\* the chosen measurement, at least one sample, and no condition on a metric that
\* the measurement does not export.
InstalledIsExecutable ==
  intent # NoContract =>
    LET c == intent.contract IN
    /\ DOMAIN c.pins = Referenced(c)
    /\ \A id \in Referenced(c) :
         /\ id \in DOMAIN snapshot.metas
         /\ c.pins[id] = snapshot.metas[id].provider
         /\ "CommitPending" \in snapshot.metas[id].phases
    /\ c.measurement.id # Guardrail /\ Guardrail \in DOMAIN snapshot.metas
    /\ c.sampling.count >= 1 /\ c.primary # <<>>
    /\ \A b \in Range(Bindings(c)) :
         \/ snapshot.metas[c.measurement.id].metrics = {}
         \/ b.metrics \subseteq snapshot.metas[c.measurement.id].metrics

\* The waits an evaluation of the installed contract makes on both sides, for the
\* guardrail and for the domain measurement, fit into the budget.
WaitsFitBudget ==
  intent # NoContract =>
    LET plan == intent.contract.sampling
        wait(side) == plan.settle + 2 * (plan.count - 1) * plan.interval
    IN wait("Baseline") + wait("Candidate") <= EvaluationTimeout

\* Decoding never accepts an intent or an authorization other than the one that
\* was encoded: the digests and the pin cover every field.
DecodedIsUnchanged ==
  accepted => stored \in {intent, Authorization(intent.pin, "candidate", "decision", "evidence")}

\* What is frozen can be carried out within its budget, and what is read back later is
\* what was frozen (begin_experiment, validate, the decoders of contract and intent).
ContractIsKept == InstalledIsExecutable /\ WaitsFitBudget /\ DecodedIsUnchanged
=============================================================================
