------------------------------ MODULE Verdict ------------------------------
(***************************************************************************)
(* What one side of an A/B evaluation measured and what is concluded from  *)
(* the two sides: the aggregation of samples (evaluation/measurement.rs),  *)
(* the typed metric conditions (condition.rs), the threshold comparison    *)
(* (adapters/local/comparator/threshold.rs), and the evidence that the     *)
(* central verdict is given (verdict.rs).                                  *)
(*                                                                         *)
(* A metric is [kind, unit, value].  Values are integers; NotANumber is a  *)
(* value that as_f64 does not read or reads as non-finite.  The samples    *)
(* hold even numbers, so that the mean of two of them is an integer.  A    *)
(* sum beyond MaxFinite stands for a float that overflows to infinity,     *)
(* which json! stores as null.                                             *)
(***************************************************************************)
EXTENDS Integers, Sequences, FiniteSets, FiniteSetsExt, SequencesExt, VerdictKernel

CONSTANTS
  MaxFinite,   \* the largest sum that stays a finite number
  NotANumber,
  NoFingerprint,
  PsiRows      \* the rows of /proc/pressure the core measurement looks for

ASSUME FiniteAssumption == MaxFinite \in Nat

MetricKind == {"Gauge", "Counter", "Boolean", "Histogram"}
Numeric == {"Gauge", "Counter"}
MetricQuality == {"Valid", "Partial", "Invalid"}

MetricOperator ==
  {"DecreasePercentGe", "DecreaseAbsGe", "IncreasePercentGe", "IncreaseAbsGe",
   "IncreasePercentLe", "IncreaseAbsLe", "DecreasePercentLe", "DecreaseAbsLe",
   "ChangePercentLe", "ChangeAbsLe", "CurrentLe", "CurrentGe"}

Magnitude(x) == IF x < 0 THEN -x ELSE x

---------------------------------------------------------------------------
(* Aggregation of the samples of one collection.                           *)

\* Variant: one Valid sample makes up for the others.
BestQuality(current, next) == IF "Valid" \in {current, next} THEN "Valid" ELSE "Partial"

WorstQuality(current, next) ==
  IF "Invalid" \in {current, next} THEN "Invalid"
  ELSE IF "Partial" \in {current, next} THEN "Partial" ELSE "Valid"

Median(numbers) ==
  LET sorted == SortSeq(numbers, <)
      middle == Len(sorted) \div 2
      sum    == sorted[middle] + sorted[middle + 1]
  IN IF Len(sorted) % 2 = 1 THEN sorted[middle + 1]
     ELSE IF Magnitude(sum) > MaxFinite THEN NotANumber ELSE sum \div 2

\* The metric over all samples: one value, or none if a sample lacks it, if the
\* samples disagree on kind or unit, or if the values cannot be combined.
AggregateMetric(samples, metric) ==
  IF \E i \in DOMAIN samples : metric \notin DOMAIN samples[i].metrics THEN {}
  ELSE
    LET value(i) == samples[i].metrics[metric]
        first == value(1)
        uniform == \A i \in DOMAIN samples :
                     value(i).kind = first.kind /\ value(i).unit = first.unit
        values == [i \in DOMAIN samples |-> value(i).value]
    IN IF ~uniform \/ first.kind = "Histogram" THEN {}
       ELSE IF first.kind = "Boolean" THEN
         IF \A i \in DOMAIN samples : values[i] = values[1] THEN {first} ELSE {}
       ELSE IF \E i \in DOMAIN samples : values[i] = NotANumber THEN {}
       ELSE {[first EXCEPT !.value = Median(values)]}

\* Variant: a metric that cannot be combined leaves the batch Valid.
AggregateSamplesQuietly(samples) ==
  LET names == {n \in UNION {DOMAIN samples[i].metrics : i \in DOMAIN samples} :
                  AggregateMetric(samples, n) # {}}
  IN [quality |-> FoldLeft(WorstQuality, "Valid", [i \in DOMAIN samples |-> samples[i].quality]),
      fingerprint |-> samples[1].fingerprint,
      metrics |-> [n \in names |-> CHOOSE v \in AggregateMetric(samples, n) : TRUE]]

\* aggregate_samples of one or more samples.  A single sample is used as it is.
AggregateSamples(samples) ==
  IF Len(samples) = 1 THEN samples[1]
  ELSE
    LET all       == UNION {DOMAIN samples[i].metrics : i \in DOMAIN samples}
        names     == {n \in all : AggregateMetric(samples, n) # {}}
        sampled   == FoldLeft(WorstQuality, "Valid",
                              [i \in DOMAIN samples |-> samples[i].quality])
        sameLoad  == \A i \in DOMAIN samples : samples[i].fingerprint = samples[1].fingerprint
        lost      == names # all \/ ~sameLoad
    IN [quality     |-> IF lost THEN WorstQuality(sampled, "Partial") ELSE sampled,
        fingerprint |-> IF sameLoad THEN samples[1].fingerprint ELSE NoFingerprint,
        metrics     |-> [n \in names |-> CHOOSE v \in AggregateMetric(samples, n) : TRUE]]

\* CoreSystemMeasurementProvider::collect: the load average and the rows of the
\* pressure files that could be parsed.  It knows no workload.
CollectCore(load, rows) ==
  [quality     |-> IF DOMAIN rows = PsiRows THEN "Valid" ELSE "Partial",
   fingerprint |-> NoFingerprint,
   metrics     |-> [n \in DOMAIN rows \cup {"loadavg.1m"} |->
                      IF n \in DOMAIN rows
                        THEN [kind |-> "Gauge", unit |-> "percent", value |-> rows[n]]
                        ELSE [kind |-> "Gauge", unit |-> "load", value |-> load]]]

\* MetricBatch::validate, on what the abstraction keeps.
ValidBatch(batch) ==
  /\ DOMAIN batch.metrics # {}
  /\ \A n \in DOMAIN batch.metrics :
       CASE batch.metrics[n].kind \in Numeric -> batch.metrics[n].value \in Int
         [] batch.metrics[n].kind = "Boolean" -> batch.metrics[n].value \in BOOLEAN
         [] OTHER -> batch.metrics[n].value \notin Int

---------------------------------------------------------------------------
(* Conditions, comparisons and the verdict.                                *)

\* MetricCondition::validate.
ValidCondition(condition) ==
  condition.op \in {"CurrentLe", "CurrentGe"} \/ condition.value >= 0

\* What the operator tests of two finite numbers: "Undefined" where a
\* percentage of a zero baseline is asked for.  x / |b| * 100 >= v is
\* compared as 100 * x >= v * |b|.
OperatorResult(op, before, after, value) ==
  LET percentGe(delta) == IF before = 0 THEN "Undefined"
                          ELSE IF 100 * delta >= value * Magnitude(before) THEN "Passed" ELSE "Failed"
      percentLe(delta) == IF before = 0 THEN "Undefined"
                          ELSE IF 100 * delta <= value * Magnitude(before) THEN "Passed" ELSE "Failed"
      test(b) == IF b THEN "Passed" ELSE "Failed"
  IN CASE op = "DecreasePercentGe" -> percentGe(before - after)
       [] op = "DecreaseAbsGe"     -> test(before - after >= value)
       [] op = "IncreasePercentGe" -> percentGe(after - before)
       [] op = "IncreaseAbsGe"     -> test(after - before >= value)
       [] op = "IncreasePercentLe" -> percentLe(Max({after - before, 0}))
       [] op = "IncreaseAbsLe"     -> test(after - before <= value)
       [] op = "DecreasePercentLe" -> percentLe(Max({before - after, 0}))
       [] op = "DecreaseAbsLe"     -> test(before - after <= value)
       [] op = "ChangePercentLe"   -> percentLe(Magnitude(after - before))
       [] op = "ChangeAbsLe"       -> test(Magnitude(after - before) <= value)
       [] op = "CurrentLe"         -> test(after <= value)
       [] op = "CurrentGe"         -> test(after >= value)

EvaluateMetricCondition(condition, baseline, candidate) ==
  LET known  == condition.metric \in DOMAIN baseline.metrics \cap DOMAIN candidate.metrics
      before == baseline.metrics[condition.metric]
      after  == candidate.metrics[condition.metric]
      result == OperatorResult(condition.op, before.value, after.value, condition.value)
  IN IF \/ ~ValidCondition(condition)
        \/ ~known
        \/ before.kind # after.kind \/ before.unit # after.unit
        \/ before.kind \notin Numeric
        \/ NotANumber \in {before.value, after.value}
        \/ result = "Undefined"
       THEN "Inconclusive" ELSE result

\* Variant: missing evidence hides an explicit failure.
CompareCautious(conditions, baseline, candidate) ==
  LET outcomes == {EvaluateMetricCondition(conditions[i], baseline, candidate) :
                     i \in DOMAIN conditions}
  IN IF "Inconclusive" \in outcomes THEN "Inconclusive"
     ELSE IF "Failed" \in outcomes THEN "NotImproved" ELSE "Improved"

\* ThresholdComparisonPolicy::compare of a specification that parse_specification
\* accepts (one to 256 valid conditions).
Compare(conditions, baseline, candidate) ==
  LET outcomes == {EvaluateMetricCondition(conditions[i], baseline, candidate) :
                     i \in DOMAIN conditions}
  IN IF "Failed" \in outcomes THEN "NotImproved"
     ELSE IF "Inconclusive" \in outcomes THEN "Inconclusive" ELSE "Improved"

MetricSchemasMatch(baseline, candidate) ==
  /\ Cardinality(DOMAIN baseline.metrics) = Cardinality(DOMAIN candidate.metrics)
  /\ \A n \in DOMAIN baseline.metrics :
       /\ n \in DOMAIN candidate.metrics
       /\ baseline.metrics[n].kind = candidate.metrics[n].kind
       /\ baseline.metrics[n].unit = candidate.metrics[n].unit

\* The fixed guardrails are an empty array: the thresholds are commented out.
FixedSystemGuardrails == {}

\* Variant: a missing fingerprint on both sides counts as the same workload.
SameWorkloadOrUnknown(baseline, candidate) == baseline.fingerprint = candidate.fingerprint

SameWorkload(baseline, candidate) ==
  /\ baseline.fingerprint = candidate.fingerprint
  /\ baseline.fingerprint # NoFingerprint

\* VerdictKernel::decide over the pair of system and the pair of domain batches.
Decide(system, domain, groups) ==
  DecideFrom(
    {EvaluateMetricCondition(c, system.baseline, system.candidate) : c \in FixedSystemGuardrails},
    \A b \in {system.baseline, system.candidate, domain.baseline, domain.candidate} :
      b.quality = "Valid",
    /\ MetricSchemasMatch(system.baseline, system.candidate)
    /\ MetricSchemasMatch(domain.baseline, domain.candidate),
    SameWorkload(domain.baseline, domain.candidate),
    groups)

\* The last part of AbEvaluationProtocol::evaluate: compare_all runs only for
\* comparable schemas, and the verdict is central.  A contract is a record of
\* three sequences of condition sequences.
Conclude(system, domain, contract) ==
  LET comparable == /\ MetricSchemasMatch(system.baseline, system.candidate)
                    /\ MetricSchemasMatch(domain.baseline, domain.candidate)
      compareAll(bindings) ==
        [i \in DOMAIN bindings |-> Compare(bindings[i], domain.baseline, domain.candidate)]
      groups == IF comparable
                  THEN [primary    |-> compareAll(contract.primary),
                        regression |-> compareAll(contract.regression),
                        workload   |-> compareAll(contract.workload)]
                  ELSE NoEvidence
  IN Decide(system, domain, groups)
=============================================================================
