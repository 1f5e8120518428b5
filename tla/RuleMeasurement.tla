-------------------------- MODULE RuleMeasurement --------------------------
(***************************************************************************)
(* The classification-integrity measurement of the rule MCP server         *)
(* (scx_agent_classed_mcp/src/provider.rs, workload.rs). A session is data *)
(* in the client's hands; a sample polls the scheduler until the rules of  *)
(* its targets are in force or a timeout passes, takes the growth of the   *)
(* scheduler's counters since the session was opened, and identifies the   *)
(* tasks of the targets by walking /proc, while tasks come and go, change  *)
(* their names, and the scheduler may be restarted.                        *)
(*                                                                         *)
(* Tasks of all processes are one list, walked in the order of their       *)
(* thread ids. A start time is the number of tasks started before, so that *)
(* a thread id that is used again has another start time. One of the two   *)
(* counters stands for both.                                               *)
(***************************************************************************)
EXTENDS Naturals, Sequences, FiniteSets

CONSTANTS
  MaxTid,       \* thread ids are 1 .. MaxTid
  TaskComms,
  Targets,      \* the comms the specification names
  NoValue,
  SettleTimeout,  \* settle_timeout_ms in polls
  MaxMatched,   \* MAX_MATCHED_TASKS
  MaxStarts, MaxErrors   \* bounds of the model: tasks started, errors counted

ASSUME MeasurementAssumption ==
  /\ Targets \subseteq TaskComms /\ Targets # {}
  /\ {MaxTid, SettleTimeout, MaxMatched, MaxStarts, MaxErrors} \subseteq Nat

Tids == 1 .. MaxTid

VARIABLES
  task,       \* tid -> NoValue or [start, comm]
  starts,     \* tasks started so far
  inForce,    \* the targets whose rule is active, persisted and consistent
  errors,     \* nr_task_state_errors of the running scheduler
  session,    \* NoValue, or the counter at open
  happened,   \* history: errors since open
  pc, polls, tid, comm,  \* the sample: where it is, polls so far, the entry it is at
  delta, identities,     \* the sample: its results so far
  real, quiet,  \* history of the walk: the tasks looked at; no task changed so far
  samples       \* the samples returned

world == <<task, starts, inForce, errors>>
walk == <<tid, comm, identities, real>>
measurementVars == <<world, session, happened, pc, polls, delta, walk, quiet, samples>>

Matching == {t \in Tids : task[t] # NoValue /\ task[t].comm \in Targets}

----------------------------------------------------------------------------
(* The world                                                               *)

TaskStart(t, c) ==
  /\ task[t] = NoValue /\ starts < MaxStarts
  /\ task' = [task EXCEPT ![t] = [start |-> starts, comm |-> c]]
  /\ starts' = starts + 1
  /\ quiet' = FALSE
  /\ UNCHANGED <<inForce, errors, session, happened, pc, polls, delta, walk, samples>>

TaskExit(t) ==
  /\ task[t] # NoValue
  /\ task' = [task EXCEPT ![t] = NoValue]
  /\ quiet' = FALSE
  /\ UNCHANGED <<starts, inForce, errors, session, happened, pc, polls, delta, walk,
                 samples>>

Rename(t, c) ==
  /\ task[t] # NoValue /\ task[t].comm # c
  /\ task' = [task EXCEPT ![t].comm = c]
  /\ quiet' = FALSE
  /\ UNCHANGED <<starts, inForce, errors, session, happened, pc, polls, delta, walk,
                 samples>>

Reclassify(target) ==
  /\ inForce' = IF target \in inForce THEN inForce \ {target} ELSE inForce \cup {target}
  /\ UNCHANGED <<task, starts, errors, session, happened, pc, polls, delta, walk,
                 quiet, samples>>

CountError ==
  /\ happened < MaxErrors /\ errors < MaxErrors
  /\ errors' = errors + 1
  /\ happened' = IF session = NoValue THEN happened ELSE happened + 1
  /\ UNCHANGED <<task, starts, inForce, session, pc, polls, delta, walk, quiet, samples>>

Restart ==
  /\ errors' = 0
  /\ UNCHANGED <<task, starts, inForce, session, happened, pc, polls, delta, walk, quiet, samples>>

----------------------------------------------------------------------------
(* measurement_open, and the settling of measurement_sample.               *)

Open ==
  /\ session = NoValue
  /\ session' = errors
  /\ happened' = 0
  /\ UNCHANGED <<world, pc, polls, delta, walk, quiet, samples>>

Sample ==
  /\ session # NoValue /\ pc = "idle" /\ Len(samples) < 2
  /\ pc' = "settle" /\ polls' = 0
  /\ UNCHANGED <<world, session, happened, delta, walk, quiet, samples>>

\* Variant: the counter itself is reported.
DeltaOf(now, base) == IF now < base THEN NoValue ELSE now

\* checked_sub: a counter below its value at open was reset.
Delta(now, base) == IF now < base THEN NoValue ELSE now - base

Integrity == inForce = Targets

\* Variant: the sample waits for the rules as long as it takes.
SettledByRules == Integrity

CountersSettled == Integrity \/ polls >= SettleTimeout

\* One snapshot of the scheduler. The one that ends the loop is also the one the
\* counters are taken from.
Poll ==
  /\ pc = "settle"
  /\ \/ /\ CountersSettled
        /\ IF Delta(errors, session) = NoValue
             THEN pc' = "idle" /\ UNCHANGED <<delta, walk, quiet>>
             ELSE /\ delta' = Delta(errors, session)
                  /\ pc' = "walk" /\ tid' = 1 /\ comm' = NoValue
                  /\ identities' = {} /\ real' = {} /\ quiet' = TRUE
        /\ UNCHANGED polls
     \/ /\ ~CountersSettled
        /\ polls' = polls + 1
        /\ UNCHANGED <<pc, delta, walk, quiet>>
  /\ UNCHANGED <<world, session, happened, samples>>

----------------------------------------------------------------------------
(* workload_fingerprint: two files are read of a task, one after the       *)
(* other; a task that is gone is passed over.                              *)

\* Variant: a task is its thread id and its name.
IdentityByName(t, c) == [tid |-> t, start |-> 0, comm |-> c]

Identity(t, c) == [tid |-> t, start |-> task[t].start, comm |-> c]

\* Variant: the walk ends with the first task of each target.
ReadCommFirst ==
  /\ pc = "walk" /\ tid <= MaxTid
  /\ IF task[tid] # NoValue /\ task[tid].comm \in Targets \ {i.comm : i \in identities}
       THEN comm' = task[tid].comm /\ pc' = "stat" /\ UNCHANGED tid
       ELSE tid' = tid + 1 /\ UNCHANGED <<comm, pc>>
  /\ UNCHANGED <<world, session, happened, polls, delta, identities, real, quiet, samples>>

ReadComm ==
  /\ pc = "walk" /\ tid <= MaxTid
  /\ IF tid \in Matching
       THEN comm' = task[tid].comm /\ pc' = "stat" /\ UNCHANGED tid
       ELSE tid' = tid + 1 /\ UNCHANGED <<comm, pc>>
  /\ UNCHANGED <<world, session, happened, polls, delta, identities, real, quiet, samples>>

ReadStat ==
  /\ pc = "stat"
  /\ IF task[tid] = NoValue
       THEN UNCHANGED <<identities, real>>
       ELSE /\ identities' = identities \cup {Identity(tid, comm)}
            /\ real' = real \cup {<<tid, task[tid].start, comm>>}
  /\ IF Cardinality(identities') > MaxMatched
       THEN pc' = "idle" /\ tid' = tid /\ comm' = NoValue
       ELSE pc' = "walk" /\ tid' = tid + 1 /\ comm' = NoValue
  /\ UNCHANGED <<world, session, happened, polls, delta, quiet, samples>>

\* canonical_workload_digest is over the sorted targets and identities.
Digest(ids) == <<Targets, ids>>

\* A target without a task fails the sample.
FinishWalk ==
  /\ pc = "walk" /\ tid > MaxTid
  /\ pc' = "idle"
  /\ samples' = IF Targets \subseteq {i.comm : i \in identities}
                  THEN Append(samples,
                         [fingerprint |-> Digest(identities), real |-> real, delta |-> delta,
                          exact |-> quiet => {i.tid : i \in identities} = Matching,
                          bounded |-> delta <= happened])
                  ELSE samples
  /\ UNCHANGED <<world, session, happened, polls, delta, walk, quiet>>

----------------------------------------------------------------------------
MeasurementInit ==
  /\ task \in [Tids -> {NoValue} \cup {[start |-> 0, comm |-> c] : c \in TaskComms}]
  /\ starts = 1
  /\ inForce \in SUBSET Targets
  /\ errors \in 0 .. 1
  /\ session = NoValue /\ happened = 0
  /\ pc = "idle" /\ polls = 0 /\ tid = 1 /\ comm = NoValue
  /\ delta = 0 /\ identities = {} /\ real = {} /\ quiet = FALSE
  /\ samples = << >>

World ==
  \/ \E t \in Tids : TaskExit(t) \/ \E c \in TaskComms : TaskStart(t, c) \/ Rename(t, c)
  \/ \E target \in Targets : Reclassify(target)
  \/ CountError \/ Restart

Provider == Poll \/ ReadComm \/ ReadStat \/ FinishWalk

MeasurementNext == World \/ Open \/ Sample \/ Provider

MeasurementSpec == MeasurementInit /\ [][MeasurementNext]_measurementVars

----------------------------------------------------------------------------
\* Two samples with the same fingerprint looked at the same tasks, though thread
\* ids are used again and names are changed between and during the walks: a
\* baseline and a candidate that compare equal were measured on one workload.
EqualFingerprintsEqualTasks ==
  \A i, j \in DOMAIN samples :
    samples[i].fingerprint = samples[j].fingerprint => samples[i].real = samples[j].real

\* A walk during which no task started, exited or changed its name found exactly
\* the tasks of the targets.
QuietWalkIsExact == \A i \in DOMAIN samples : samples[i].exact

\* The reported growth of a counter is at most what was counted since the session was
\* opened, also when the scheduler was restarted in between and its counter began
\* again at zero: a restart hides errors, it never invents them.
DeltaWasCounted == \A i \in DOMAIN samples : samples[i].bounded

\* A sample waits for the rules of its targets no longer than the settle timeout,
\* however often they are changed, and then goes on by itself to its end.
SampleIsBounded == polls <= SettleTimeout /\ (pc # "idle" => ENABLED Provider)

\* A sample says what was there: equal fingerprints stand for equal tasks, a quiet walk
\* is exact, growth was counted, and the wait for the rules is bounded
\* (measurement_sample, workload.rs).
SampleIsTrue ==
  /\ EqualFingerprintsEqualTasks /\ QuietWalkIsExact
  /\ DeltaWasCounted /\ SampleIsBounded
=============================================================================
