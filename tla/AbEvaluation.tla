---------------------------- MODULE AbEvaluation ----------------------------
(***************************************************************************)
(* AbEvaluationProtocol::evaluate (kernel/evaluation/protocol.rs) with     *)
(* collect_measurement (measurement.rs): one A/B evaluation under one      *)
(* monotonic deadline.  Time is counted in ticks.  A provider call, a      *)
(* transaction step or a sleep takes some number of ticks, and a call may  *)
(* take up to Overrun ticks more than the provider declares: local         *)
(* providers cannot be interrupted.                                        *)
(***************************************************************************)
EXTENDS Integers, Sequences, FiniteSetsExt, VerdictKernel

CONSTANTS
  Timeout,      \* evaluation_timeout
  Plans,        \* the sampling plans a contract may have
  CallTimeout,  \* declared timeout of a measurement and a comparison provider
  StepTicks,    \* longest restore_baseline or replay_candidate
  Overrun       \* what a call or a sleep may take beyond its due time

ASSUME TicksAssumption ==
  /\ Timeout \in Nat \ {0} /\ StepTicks \in Nat /\ Overrun \in Nat
  /\ CallTimeout \in [measurement : Nat \ {0}, comparison : Nat \ {0}]
  /\ \A p \in Plans : p \in [settle : Nat, count : Nat \ {0}, interval : Nat]

VARIABLES
  now,        \* ticks since EvaluationDeadline::start
  step,         \* the next step of evaluate
  plan,       \* contract.sampling()
  side,       \* "baseline" or "candidate"
  kind,       \* which collection of the side: "guardrail" or "domain"
  position,   \* what the transaction has put into the resources
  movedAt,    \* when it did
  sessions,   \* provider side: state of the session of each collection
  closeCalls, \* how often close was called for each
  taken,      \* samples of the open session so far
  sampling,   \* Ok, or the error that ended the sampling
  evidence,   \* history: one record for each collection that succeeded
  groups,     \* conclusions of the comparisons, by group
  comparable, \* the four batches: "yes", "incomplete", "schema", "workload"
  result,     \* "None" until evaluate returns, then a verdict or an error kind
  authorized  \* commit_authorization issued a token

collection == <<sessions, closeCalls, taken, sampling>>
abVars == <<now, step, plan, side, kind, position, movedAt, collection, evidence,
            groups, comparable, result, authorized>>

Side == {"baseline", "candidate"}
Collection == {"guardrail", "domain"}
Group == {"primary", "regression", "workload"}

EvaluationErrorKind ==
  {"InvalidContract", "BudgetExceeded", "Transaction", "Measurement", "Cleanup",
   "Comparison", "Protocol"}

EvaluationVerdict == {"Improved", "NoSignal", "Inconclusive", "Unsafe"}

---------------------------------------------------------------------------
(* EvaluationDeadline                                                      *)

\* check
InTime(t) == t < Timeout

\* Variant: only the time is checked, not whether the call fits.
AdmitsInTime(timeout) == InTime(now)

\* ensure_provider_call
Admits(timeout) == InTime(now) /\ timeout <= Timeout - now

CallTicks(timeout) == 0..(timeout + Overrun)

\* evaluate returns.
Return(r) == result' = r /\ step' = "returned"

\* The check after a call that took d ticks comes before its result is looked at.
AfterCall(d, r, Continue) ==
  /\ now' = now + d
  /\ IF ~InTime(now + d) THEN Return("BudgetExceeded")
     ELSE IF r # "Ok" THEN Return(r) ELSE Continue

Refuse == Return("BudgetExceeded") /\ UNCHANGED now

\* ensure_schedule_fits; the guardrail measurement is reserved, so a side always
\* has two collections.
ScheduleFits(p) == 2 * p.settle + (p.count - 1) * p.interval * 2 * 2 <= Timeout

---------------------------------------------------------------------------
AbInit ==
  /\ now = 0 /\ step = "begin" /\ plan \in Plans
  /\ side = "baseline" /\ kind = "guardrail"
  /\ position = "candidate" /\ movedAt = 0
  /\ sessions = [c \in Side \X Collection |-> "none"]
  /\ closeCalls = [c \in Side \X Collection |-> 0]
  /\ taken = 0 /\ sampling = "Ok" /\ evidence = {}
  /\ groups = [g \in Group |-> <<>>] /\ comparable = "yes"
  /\ result = "None" /\ authorized = FALSE

Unmeasured == UNCHANGED <<collection, evidence, groups, comparable, authorized>>

\* The schedule is checked before anything else.
Begin ==
  /\ step = "begin"
  /\ IF ScheduleFits(plan) THEN step' = "validate" /\ UNCHANGED <<now, result>> ELSE Refuse
  /\ UNCHANGED <<plan, side, kind, position, movedAt>> /\ Unmeasured

\* validate_contract_with_deadline: the measurement provider and then a comparison
\* policy re-validate their frozen specifications.
Validate ==
  /\ step \in {"validate", "validateComparison"}
  /\ LET measuring == step = "validate"
         timeout == IF measuring THEN CallTimeout.measurement ELSE CallTimeout.comparison
     IN IF ~Admits(timeout) THEN Refuse
        ELSE \E d \in CallTicks(timeout), r \in {"Ok", "InvalidContract"} :
               AfterCall(d, r, /\ step' = IF measuring THEN "validateComparison" ELSE "move"
                               /\ UNCHANGED result)
  /\ UNCHANGED <<plan, side, kind, position, movedAt>> /\ Unmeasured

\* Variant: the candidate is measured without being replayed.
MoveOnce ==
  /\ step = "move"
  /\ \E d \in 0..StepTicks : now' = now + d
  /\ step' = "settle" /\ position' = "baseline" /\ movedAt' = now'
  /\ UNCHANGED <<plan, side, kind, result>> /\ Unmeasured

\* restore_baseline or replay_candidate of the transaction, which may fail half way.
Move ==
  /\ step = "move"
  /\ IF ~InTime(now) THEN Refuse /\ UNCHANGED <<position, movedAt>>
     ELSE \E d \in 0..StepTicks, r \in {"Ok", "Transaction"} :
            /\ AfterCall(d, r, step' = "settle" /\ UNCHANGED result)
            /\ position' = IF r = "Ok" THEN side ELSE "unknown"
            /\ movedAt' = now + d
  /\ UNCHANGED <<plan, side, kind>> /\ Unmeasured

\* deadline.settle(duration): refused if it does not fit, and checked after the sleep.
SettleFor(duration, Continue) ==
  IF ~Admits(duration) THEN Refuse
  ELSE \E late \in 0..Overrun :
         AfterCall(IF duration = 0 THEN 0 ELSE duration + late, "Ok", Continue)

Settle ==
  /\ step = "settle"
  /\ SettleFor(plan.settle, step' = "open" /\ UNCHANGED result)
  /\ UNCHANGED <<plan, side, kind, position, movedAt>> /\ Unmeasured

---------------------------------------------------------------------------
(* collect_measurement                                                     *)

Session == <<side, kind>>

\* Variant: a session that was opened too late is not closed.
OpenAndGiveUp ==
  /\ step = "open"
  /\ \E d \in CallTicks(CallTimeout.measurement) :
       /\ AfterCall(d, "Ok", step' = "sample" /\ UNCHANGED result)
       /\ sessions' = [sessions EXCEPT ![Session] = "open"]
       /\ taken' = 0 /\ sampling' = "Ok"
  /\ UNCHANGED <<plan, side, kind, position, movedAt, closeCalls, evidence, groups,
                 comparable, authorized>>

\* open.  A provider that answers an error may have opened a session all the same.
\* A session that is opened too late is closed without a sample.
Open ==
  /\ step = "open"
  /\ taken' = 0
  /\ IF ~Admits(CallTimeout.measurement)
       THEN Refuse /\ sampling' = "Ok" /\ UNCHANGED sessions
       ELSE \E d \in CallTicks(CallTimeout.measurement) :
              \/ /\ now' = now + d /\ step' = "sample"
                 /\ sampling' = IF InTime(now + d) THEN "Ok" ELSE "BudgetExceeded"
                 /\ sessions' = [sessions EXCEPT ![Session] = "open"]
                 /\ UNCHANGED result
              \/ /\ AfterCall(d, "Measurement", FALSE)
                 /\ sampling' = "Ok"
                 /\ \E leaked \in BOOLEAN :
                      sessions' = IF leaked THEN [sessions EXCEPT ![Session] = "lost"]
                                  ELSE sessions
  /\ UNCHANGED <<plan, side, kind, position, movedAt, closeCalls, evidence, groups,
                 comparable, authorized>>

\* What sample_session has after a step of it.
Sampled(t, s) == now' = t /\ sampling' = s /\ UNCHANGED taken

\* Variant: one sample too many.
SampleOnceMore ==
  /\ step = "sample" /\ sampling = "Ok" /\ taken <= plan.count
  /\ \E d \in CallTicks(CallTimeout.measurement) : now' = now + d
  /\ taken' = taken + 1 /\ sampling' = IF InTime(now') THEN "Ok" ELSE "BudgetExceeded"
  /\ UNCHANGED <<step, plan, side, kind, position, movedAt, sessions, closeCalls, evidence,
                 groups, comparable, result, authorized>>

\* Variant: a failed sample is tried again, and takes no time.
SampleUntilOk ==
  /\ step = "sample" /\ sampling = "Ok" /\ taken < plan.count
  /\ taken' \in {0, taken + 1}
  /\ UNCHANGED <<now, step, plan, side, kind, position, movedAt, sessions, closeCalls, sampling,
                 evidence, groups, comparable, result, authorized>>

\* One round of sample_session: the sample, the checks of its size and contents,
\* and the wait before the next one.
Sample ==
  /\ step = "sample" /\ sampling = "Ok" /\ taken < plan.count
  /\ IF ~Admits(CallTimeout.measurement) THEN Sampled(now, "BudgetExceeded")
     ELSE \E d \in CallTicks(CallTimeout.measurement), r \in {"Ok", "Measurement"} :
            IF ~InTime(now + d) THEN Sampled(now + d, "BudgetExceeded")
            ELSE IF r # "Ok" THEN Sampled(now + d, r)
            ELSE /\ taken' = taken + 1
                 /\ IF taken' = plan.count \/ plan.interval = 0
                      THEN now' = now + d /\ sampling' = "Ok"
                      ELSE IF plan.interval > Timeout - (now + d)
                      THEN now' = now + d /\ sampling' = "BudgetExceeded"
                      ELSE \E late \in 0..Overrun :
                             /\ now' = now + d + plan.interval + late
                             /\ sampling' = IF InTime(now') THEN "Ok" ELSE "BudgetExceeded"
  /\ UNCHANGED <<step, plan, side, kind, position, movedAt, sessions, closeCalls, evidence,
                 groups, comparable, result, authorized>>

\* Where evaluate goes after a collection that succeeded.
NextStep ==
  CASE kind = "guardrail" -> step' = "open" /\ kind' = "domain" /\ UNCHANGED side
    [] kind = "domain" /\ side = "baseline" ->
         step' = "move" /\ kind' = "guardrail" /\ side' = "candidate"
    [] OTHER -> step' = "compare" /\ UNCHANGED <<kind, side>>

\* Variant: the budget comes before what close answered.
CloseBudgetFirst ==
  /\ step = "sample" /\ (sampling # "Ok" \/ taken = plan.count)
  /\ closeCalls' = [closeCalls EXCEPT ![Session] = @ + 1]
  /\ \E d \in CallTicks(CallTimeout.measurement), r \in {"Cleanup", "Ok"} :
       /\ AfterCall(d, r, Return("Measurement"))
       /\ sessions' = [sessions EXCEPT ![Session] = IF r = "Ok" THEN "closed" ELSE "lost"]
  /\ UNCHANGED <<plan, side, kind, position, movedAt, taken, sampling, evidence, groups,
                 comparable, authorized>>

\* close is attempted in any case.  A wrong receipt, an unconfirmed cleanup and an
\* error of close come before the budget, and that before an error of the sampling.
Close ==
  /\ step = "sample" /\ (sampling # "Ok" \/ taken = plan.count)
  /\ closeCalls' = [closeCalls EXCEPT ![Session] = @ + 1]
  /\ \E d \in CallTicks(CallTimeout.measurement),
        r \in {"Ok", "OkTooLarge", "WrongReceipt", "NotCleaned", "Error"} :
       /\ now' = now + d
       /\ sessions' = [sessions EXCEPT ![Session] =
                         IF r \in {"Ok", "OkTooLarge"} THEN "closed" ELSE "lost"]
       /\ LET refusal == IF r \in {"WrongReceipt", "NotCleaned", "Error"} THEN "Cleanup"
                         ELSE IF r = "OkTooLarge" THEN "Measurement"
                         ELSE IF ~Admits(CallTimeout.measurement) \/ ~InTime(now + d)
                              THEN "BudgetExceeded"
                         ELSE sampling
          IN IF refusal # "Ok" THEN Return(refusal) /\ UNCHANGED <<kind, side, evidence>>
             ELSE
                 /\ evidence' = evidence \cup
                      {[side |-> side, kind |-> kind, position |-> position,
                        settled |-> now - movedAt >= plan.settle, samples |-> taken]}
                 /\ NextStep /\ UNCHANGED result
  /\ UNCHANGED <<plan, position, movedAt, taken, sampling, groups, comparable, authorized>>

---------------------------------------------------------------------------
(* Comparison and verdict                                                  *)

Order == <<"primary", "regression", "workload">>

\* The group of the next comparison: the contract has one of each.
NextGroup == {g \in Group : groups[g] = <<>> /\
                \A i, j \in 1..3 : Order[j] = g /\ i < j => groups[Order[i]] # <<>>}

\* The batches are looked at once; comparisons are skipped if the schemas differ.
Comparability ==
  /\ step = "compare"
  /\ IF InTime(now)
       THEN /\ comparable' \in {"yes", "incomplete", "schema", "workload"}
            /\ step' = IF comparable' = "schema" THEN "verdict" ELSE "comparisons"
            /\ UNCHANGED <<now, result>>
       ELSE Refuse /\ UNCHANGED comparable
  /\ UNCHANGED <<plan, side, kind, position, movedAt, collection, evidence, groups, authorized>>

\* compare_all: one comparison, its conclusion and the size of its evidence.
CompareOne ==
  /\ step = "comparisons"
  /\ \E g \in NextGroup :
       IF ~Admits(CallTimeout.comparison) THEN Refuse /\ UNCHANGED groups
       ELSE \E d \in CallTicks(CallTimeout.comparison), r \in {"Ok", "Comparison"},
               c \in {"Improved", "NotImproved", "Inconclusive"} :
              /\ AfterCall(d, r, /\ step' = IF g = "workload" THEN "verdict" ELSE "comparisons"
                                 /\ UNCHANGED result)
              /\ groups' = [groups EXCEPT ![g] = <<c>>]
  /\ UNCHANGED <<plan, side, kind, position, movedAt, collection, evidence, comparable, authorized>>

\* The central verdict (no system guardrail is configured, see Verdict).
CentralVerdict ==
  /\ step = "verdict"
  /\ IF ~InTime(now) THEN Refuse
     ELSE /\ Return(DecideFrom({}, comparable # "incomplete", comparable # "schema",
                               comparable # "workload", groups))
          /\ UNCHANGED now
  /\ UNCHANGED <<plan, side, kind, position, movedAt, collection, evidence, groups,
                 comparable, authorized>>

\* Variant: any verdict authorizes.
CommitAuthorizationOfAny ==
  /\ step = "returned" /\ result \in EvaluationVerdict /\ ~authorized
  /\ authorized' = TRUE
  /\ UNCHANGED <<now, step, plan, side, kind, position, movedAt, collection, evidence, groups,
                 comparable, result>>

\* commit_authorization: only an improved evaluation authorizes a commit.
CommitAuthorization ==
  /\ step = "returned" /\ result \in EvaluationVerdict /\ ~authorized
  /\ result = "Improved"
  /\ authorized' = TRUE
  /\ UNCHANGED <<now, step, plan, side, kind, position, movedAt, collection, evidence, groups,
                 comparable, result>>

AbNext ==
  \/ Begin \/ Validate \/ Move \/ Settle \/ Open \/ Sample \/ Close
  \/ Comparability \/ CompareOne \/ CentralVerdict \/ CommitAuthorization

AbSpec == AbInit /\ [][AbNext]_abVars

---------------------------------------------------------------------------
(* Properties                                                              *)

\* The state of an evaluation is what the protocol keeps between two steps.
AbTypeOK ==
  /\ now \in Nat /\ plan \in Plans /\ side \in Side /\ kind \in Collection
  /\ step \in {"begin", "validate", "validateComparison", "move", "settle", "open", "sample",
             "compare", "comparisons", "verdict", "returned"}
  /\ position \in Side \cup {"unknown"}
  /\ sessions \in [Side \X Collection -> {"none", "open", "closed", "lost"}]
  /\ taken \in 0..plan.count /\ sampling \in EvaluationErrorKind \cup {"Ok"}
  /\ result \in EvaluationVerdict \cup EvaluationErrorKind \cup {"None"}
  /\ (step = "returned") = (result # "None")

\* measurement.rs: "once open succeeds, close is always attempted exactly once, even
\* when its declared timeout no longer fits".  No session is closed twice, at most the
\* session of the running collection is open, and none is open when evaluate returns.
ClosedExactlyOnce ==
  /\ \A c \in Side \X Collection :
       /\ closeCalls[c] <= 1
       /\ closeCalls[c] = 1 => sessions[c] \in {"closed", "lost"}
       /\ sessions[c] = "open" => step = "sample" /\ c = Session
  /\ result # "None" => \A c \in Side \X Collection : sessions[c] # "open"

\* A session that a provider may still hold after evaluate has returned is reported:
\* the evaluation failed with Cleanup, which makes the episode require recovery, or
\* open itself had answered an error.
LostSessionIsReported ==
  \A c \in Side \X Collection : sessions[c] = "lost" /\ step = "returned" =>
    IF closeCalls[c] = 1 THEN result = "Cleanup"
    ELSE result \in {"Measurement", "BudgetExceeded"}

\* On every path out of evaluate, each session that was opened is closed once or its
\* loss is reported (collect_measurement and the error paths of evaluate).
SessionsAreSettled == AbTypeOK /\ ClosedExactlyOnce /\ LostSessionIsReported

\* One deadline bounds the whole evaluation: whatever the order of calls, waits and
\* failures, evaluate is over at most one transaction step, or one overrunning call
\* and the close that follows it, after the budget is spent.
BudgetBoundsEvaluation ==
  now <= Timeout + Max({StepTicks, 2 * Overrun + CallTimeout.measurement})

\* A verdict was drawn from paired evidence: each side was measured completely, by
\* both collections, in its own position of the transaction and after the settle time;
\* and the candidate is in place when the verdict is given, within the budget.
VerdictFromPairedEvidence ==
  result \in EvaluationVerdict =>
    /\ InTime(now) /\ position = "candidate"
    /\ \A s \in Side, k \in Collection :
         [side |-> s, kind |-> k, position |-> s, settled |-> TRUE, samples |-> plan.count]
           \in evidence
    /\ \A c \in Side \X Collection : sessions[c] = "closed"

\* A commit is authorized only if all three comparisons concluded Improved for batches
\* that can be compared, before the deadline.
AuthorizedIsImproved ==
  authorized =>
    /\ comparable = "yes" /\ InTime(now)
    /\ \A g \in Group : groups[g] = <<"Improved">>

\* A commit is authorized only on paired evidence, gathered in time, of which all
\* comparisons say Improved (evaluate, from the first restore to the authorization).
CommitIsWarranted == VerdictFromPairedEvidence /\ AuthorizedIsImproved

\* evaluate always returns.
EvaluationReturns == <>(step = "returned")
=============================================================================
