------------------------------ MODULE Sampling ------------------------------
(***************************************************************************)
(* The two sides of an evaluation collect their samples one by one, and    *)
(* the verdict is drawn from them with the operators of Verdict. The       *)
(* properties compare those operators with reference definitions.          *)
(***************************************************************************)
EXTENDS Verdict

CONSTANT
  Cases      \* a sequence of [count, samples, systems, contracts]: count is the
             \* sample_count of the plan, samples what each side may measure, systems
             \* the pairs of system batches and contracts the contracts

VARIABLES
  evaluation,   \* which of the Cases
  samples,      \* the domain samples of each side
  drawn         \* what the verdict was drawn from, and the verdict

verdictVars == <<evaluation, samples, drawn>>

Sides == {"baseline", "candidate"}
Case == Cases[evaluation]
Nothing == [verdict |-> "None"]

VerdictInit ==
  evaluation \in DOMAIN Cases /\ samples = [s \in Sides |-> <<>>] /\ drawn = Nothing

\* sample_session takes a sample that MetricBatch::validate accepts; the
\* candidate is measured after the baseline.
TakeSample(s) ==
  /\ Len(samples[s]) < Case.count
  /\ s = "candidate" => Len(samples["baseline"]) = Case.count
  /\ \E b \in Case.samples[s] :
       ValidBatch(b) /\ samples' = [samples EXCEPT ![s] = Append(@, b)]
  /\ UNCHANGED <<evaluation, drawn>>

Pair == [s \in Sides |-> AggregateSamples(samples[s])]

DrawVerdict ==
  /\ drawn = Nothing
  /\ \A s \in Sides : Len(samples[s]) = Case.count
  /\ \E system \in Case.systems, contract \in Case.contracts :
       drawn' = [verdict |-> Conclude(system, Pair, contract),
                 system |-> system, contract |-> contract]
  /\ UNCHANGED <<evaluation, samples>>

VerdictNext == (\E s \in Sides : TakeSample(s)) \/ DrawVerdict

VerdictSpec == VerdictInit /\ [][VerdictNext]_verdictVars

---------------------------------------------------------------------------
Permuted(q) ==
  {[i \in DOMAIN q |-> q[p[i]]] : p \in {f \in [DOMAIN q -> DOMAIN q] : IsInjective(f)}}

\* aggregate_samples does not depend on the order of the samples, although it
\* compares every kind, unit and fingerprint with the first sample only.
AggregateIgnoresOrder ==
  \A s \in Sides : samples[s] # <<>> =>
    \A q \in Permuted(samples[s]) : AggregateSamples(q) = AggregateSamples(samples[s])

\* aggregate_samples is fail closed: a batch it calls Valid comes from samples
\* that were all Valid, with the same metrics and workload fingerprint, and every
\* number in it has at least half of the samples on either side.
ValidMeansAgreed ==
  \A s \in Sides : samples[s] # <<>> /\ Pair[s].quality = "Valid" =>
    \A i \in DOMAIN samples[s] :
      /\ samples[s][i].quality = "Valid"
      /\ samples[s][i].fingerprint = Pair[s].fingerprint
      /\ DOMAIN samples[s][i].metrics = DOMAIN Pair[s].metrics
      /\ \A n \in DOMAIN Pair[s].metrics :
           Pair[s].metrics[n].kind \in Numeric /\ Pair[s].metrics[n].value # NotANumber =>
             \A below \in BOOLEAN :
               2 * Cardinality({k \in DOMAIN samples[s] :
                    LET x == samples[s][k].metrics[n].value
                        y == Pair[s].metrics[n].value IN
                    IF below THEN x <= y ELSE x >= y}) >= Len(samples[s])

\* The aggregate of a side depends on what was sampled, not on the order, and is Valid
\* only if all samples agree (aggregate_samples).
AggregateIsFair == AggregateIgnoresOrder /\ ValidMeansAgreed

\* Reference: the candidates that an operator accepts for a baseline, as the
\* description of the condition schema (threshold.rs) words it.
Accepted(op, before, after, value) ==
  LET percent == op \in {"DecreasePercentGe", "IncreasePercentGe", "IncreasePercentLe",
                         "DecreasePercentLe", "ChangePercentLe"}
      scale == IF percent THEN 100 ELSE 1
      limit == IF percent THEN value * Magnitude(before) ELSE value
      up    == scale * (after - before)
  IN /\ percent => before # 0
     /\ CASE op \in {"DecreasePercentGe", "DecreaseAbsGe"} -> up <= -limit
          [] op \in {"IncreasePercentGe", "IncreaseAbsGe"} -> up >= limit
          [] op \in {"IncreasePercentLe", "IncreaseAbsLe"} -> up <= limit
          [] op \in {"DecreasePercentLe", "DecreaseAbsLe"} -> up >= -limit
          [] op \in {"ChangePercentLe", "ChangeAbsLe"} -> up <= limit /\ up >= -limit
          [] op = "CurrentLe" -> after <= value
          [] op = "CurrentGe" -> after >= value

Conditions(bindings) ==
  UNION {{bindings[i][k] : k \in DOMAIN bindings[i]} : i \in DOMAIN bindings}

\* Improved is earned: all four batches were Valid, the two domain batches have
\* the same known workload, and every condition of every group of the contract
\* holds by its reference meaning.
ImprovedIsEarned ==
  drawn.verdict = "Improved" =>
    /\ \A s \in Sides : drawn.system[s].quality = "Valid" /\ Pair[s].quality = "Valid"
    /\ Pair["baseline"].fingerprint = Pair["candidate"].fingerprint
    /\ Pair["baseline"].fingerprint # NoFingerprint
    /\ \A c \in Conditions(drawn.contract.primary) \cup Conditions(drawn.contract.regression)
                  \cup Conditions(drawn.contract.workload) :
         LET before == Pair["baseline"].metrics[c.metric].value
             after  == Pair["candidate"].metrics[c.metric].value
         IN Accepted(c.op, before, after, c.value)

Comparable ==
  /\ MetricSchemasMatch(Pair["baseline"], Pair["candidate"])
  /\ \A s \in Sides : \A n \in DOMAIN Pair[s].metrics :
       Pair[s].metrics[n].kind \in Numeric /\ Pair[s].metrics[n].value # NotANumber
  /\ MetricSchemasMatch(drawn.system["baseline"], drawn.system["candidate"])

\* A regression that was measured is never lost: when the schemas agree and a
\* condition of a regression guard is false of the two batches, the verdict is
\* Unsafe, whatever else is missing, partial or unknown (threshold.rs: "An explicit
\* failure takes precedence over missing evidence").
MeasuredRegressionIsUnsafe ==
  drawn # Nothing /\ Comparable =>
    ((\E c \in Conditions(drawn.contract.regression) :
        /\ c.metric \in DOMAIN Pair["baseline"].metrics
        /\ ~Accepted(c.op, Pair["baseline"].metrics[c.metric].value,
                     Pair["candidate"].metrics[c.metric].value, c.value))
     <=> drawn.verdict = "Unsafe")

\* The verdict is the one the evidence earns at both ends: Improved only if everything
\* holds, Unsafe exactly if a regression was measured (threshold.rs, verdict.rs).
VerdictIsEarned == ImprovedIsEarned /\ MeasuredRegressionIsUnsafe
=============================================================================
