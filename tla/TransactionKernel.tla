------------------------- MODULE TransactionKernel -------------------------
(***************************************************************************)
(* TransactionKernel (kernel/transaction/kernel.rs) over its write-ahead   *)
(* log and the mutation drivers it calls.  The kernel is a sequential      *)
(* object: `call` is its program counter.  Every append to the log and     *)
(* every call of a driver is a step of its own, so that a crash, a lost    *)
(* reply, a failed append or an external write can fall between any two.   *)
(***************************************************************************)
EXTENDS TransactionLog

CONSTANTS
  MaxFaults,   \* bound on the adverse events of one behaviour
  MaxEntries   \* a log with this many entries is not recovered again

ASSUME BoundsAssumption == MaxFaults \in Nat /\ MaxEntries \in Nat

VARIABLES
  \* the tuned system, and who wrote it
  world,             \* value of every resource
  origin,            \* history: the values before the transaction
  drifted,           \* history: resources somebody else has written
  normalised,        \* history: resources that stored something else than a
                     \* driver wrote to them
  \* durable
  log,               \* the transaction's log, see TransactionLog
  prepared,          \* the immutable part of every change record
  \* the kernel's memory
  changes,           \* state of every known change, Absent otherwise
  verified,          \* experiment_verified
  nextSequence,
  operationCounter,
  activeCandidate,   \* {} is None
  candidate,         \* the Candidate argument of replay and finalize
  call,
  \* history
  issued,            \* number of the last operation id sent to a driver
  walFailed,         \* some append returned an error, or its process died in it
  faults             \* adverse events so far

memory == <<changes, verified, nextSequence, operationCounter, activeCandidate>>
environment == <<world, origin, drifted, normalised>>
kernelVars == <<environment, log, prepared, memory, candidate, call,
                issued, walFailed, faults>>

Known == {c \in Change : changes[c] # Absent}
Head(r) == ResourceHead(prepared, Known, r)
IsHead(c) == c \in Head(prepared[c].resource)
Heads == {c \in Known : IsHead(c)}

Location ==
  {"ok", "error", "outcomeUnknown", "append", "loop", "reviseCheck",
   "revisePrepare", "apply", "applyWrite", "applyStatus", "applyVerify",
   "restoreOne", "matchDesired", "restore", "restoreWrite", "restoreStatus",
   "restoreVerify", "finalize", "ackVerify"}

Operation ==
  {"begin", "experiment", "restore_baseline", "replay_check", "replay",
   "finalize_check", "finalize", "finalize_recheck", "rollback_all"}

NoOperation == [label |-> "experiment", number |-> 0]

\* at: next step; op: public operation (with the loop of it being run);
\* change: the change the step is about; revision: the change being created;
\* todo: changes the loop has still to visit; event, then, afterEffect: the
\* pending append, where it continues, and whether update_after_effect does it.
Call ==
  [at : Location, op : Operation, change : Change, revision : Change,
   todo : SUBSET Change, opid : OperationId, event : WalEvent,
   then : Location, afterEffect : BOOLEAN]

IdleCall ==
  [at |-> "ok", op |-> "begin", change |-> 1, revision |-> 1, todo |-> {},
   opid |-> NoOperation, event |-> Started, then |-> "ok",
   afterEffect |-> FALSE]

Fault == faults < MaxFaults /\ faults' = faults + 1
NoFault == UNCHANGED faults

---------------------------------------------------------------------------
(* Control helpers. *)

\* next_operation_id; OnlyOperationId advances the counter.
NextOperationId(label) == [label |-> label, number |-> operationCounter + 1]

\* Continue control state k with an append; `location` follows its success.
AppendThen(k, event, opid, location, afterEffect) ==
  call' = [k EXCEPT !.at = "append", !.event = event, !.opid = opid,
                    !.then = location, !.afterEffect = afterEffect]

\* persist_change: the record of k's change in a new state.  Its supersedes
\* link is part of the immutable record and is not repeated here.
Persist(k, state, opid, location, afterEffect) ==
  AppendThen(k, ChangeUpsert(k.change, state,
                             k.change \in verified \/ state = "AppliedVerified",
                             opid, {}),
             opid, location, afterEffect)

OnlyControl == UNCHANGED <<environment, log, prepared, memory, candidate,
                           issued, walFailed>>

OnlyOperationId ==
  /\ operationCounter' = operationCounter + 1
  /\ UNCHANGED <<environment, log, prepared, changes, verified, nextSequence,
                 activeCandidate, candidate, issued, walFailed>>

\* update_change under a freshly allocated operation id.
UpdateChange(k, label, state, location) ==
  OnlyOperationId /\ Persist(k, state, NextOperationId(label), location, FALSE)

\* update_change under the operation id of the operation in progress.
RecordOutcome(state, location, afterEffect) ==
  OnlyControl /\ Persist(call, state, call.opid, location, afterEffect)

\* mark_drift records the drift and returns an error.
MarkDrift(k) == NoFault /\ UpdateChange(k, "drift", "DriftDetected", "error")

\* append_operation_intent under a freshly allocated operation id.
AnnounceThen(k, label, kind, location) ==
  LET op == NextOperationId(label) IN
  OnlyOperationId /\ AppendThen(k, OperationIntent(k.change, op, kind), op,
                                location, FALSE)

\* The same operation returns an error, or continues at a location.
Goto(location) == OnlyControl /\ call' = [call EXCEPT !.at = location]

\* matches_expected: the driver reads the resource back; the call may fail.
Holds(c) == world[prepared[c].resource]
AtBaseline(c) == Holds(c) = prepared[c].baseline
AtDesired(c) == Holds(c) = prepared[c].desired
ReadbackFails == Fault /\ Goto("error")

\* ensure_expected for the change of control state k.
EnsureExpected(k, matched, location) ==
  \/ matched /\ NoFault /\ OnlyControl /\ call' = [k EXCEPT !.at = location]
  \/ ~matched /\ MarkDrift(k)
  \/ ReadbackFails

---------------------------------------------------------------------------
(* The log: append_event, seal and commit_seal over FileWal::write_synced. *)

\* What a durable event does to the kernel's memory.
Memorise(ev) ==
  /\ changes' = [c \in Change |->
                   IF Upserts(ev, c) THEN ev.state
                   ELSE IF ev.type = "CommitSealed" /\ changes[c] # Absent
                     THEN IF c \in ev.candidate THEN "Finalized" ELSE "RolledBack"
                   ELSE changes[c]]
  /\ verified' = {c \in Change : IF Upserts(ev, c) THEN ev.verified
                                                   ELSE c \in verified}

Written == Replay(log, prepared, nextSequence, call.event)

AppendDurable ==
  /\ call.at = "append"
  /\ log' = Written
  /\ nextSequence' = nextSequence + 1
  /\ Memorise(call.event)
  /\ call' = [call EXCEPT !.at = call.then, !.event = Started, !.then = "ok",
                          !.afterEffect = FALSE]
  /\ NoFault
  /\ UNCHANGED <<environment, prepared, operationCounter, activeCandidate,
                 candidate, issued, walFailed>>

\* The JSON and its newline are two writes: an append that stops in between
\* leaves a part of the entry that no reader can parse, or all of it and no
\* end of line.
CutShort == {[log EXCEPT !.intact = FALSE], [Written EXCEPT !.terminated = FALSE]}

\* write_synced returns an error: nothing reached the file, all of the line
\* did, or a part.  next_sequence stays, and only update_after_effect changes
\* the memory.
AppendFails ==
  /\ call.at = "append"
  /\ log' \in {log, Written} \cup CutShort
  /\ changes' = IF call.afterEffect
                  THEN [changes EXCEPT ![call.change] = "AppliedUnknown"]
                  ELSE changes
  /\ call' = [call EXCEPT
                !.at = IF call.event.type = "CommitSealed" THEN "outcomeUnknown"
                                                           ELSE "error",
                !.event = Started, !.then = "ok", !.afterEffect = FALSE]
  /\ walFailed' = TRUE
  /\ Fault
  /\ UNCHANGED <<environment, prepared, verified, nextSequence,
                 operationCounter, activeCandidate, candidate, issued>>

---------------------------------------------------------------------------
(* The mutation drivers.  A request first reads the resource and compares,  *)
(* then writes, and reads back: an outsider may write in between, and a     *)
(* system may store something else than what was written (linux_file.rs).   *)

\* apply and restore go on only when they read one of the two values of the
\* change; anything else is a conflict.
Conflict(c) == ~AtBaseline(c) /\ ~AtDesired(c)

\* The request went out under this operation id, and has only read so far.
DriverFrame ==
  /\ issued' = call.opid.number
  /\ UNCHANGED <<environment, log, prepared, memory, candidate, walFailed>>

Set(c, v) == world' = [world EXCEPT ![prepared[c].resource] = v]

\* The write of v for call.change stores v over whatever is there by now.
Stores(v) == Set(call.change, v) /\ UNCHANGED normalised

\* The write stores a value that is neither v nor the old one.
StoresOther(v) ==
  /\ \E u \in Value \ {v, Holds(call.change)} : Set(call.change, u)
  /\ normalised' = normalised \cup {prepared[call.change].resource}

StoresNothing == UNCHANGED <<world, normalised>>

\* A write that fails, or whose readback or reply is lost, may have done any
\* of this.
StoresSomething(v) == Stores(v) \/ StoresOther(v) \/ StoresNothing

WriteFrame ==
  UNCHANGED <<origin, drifted, log, prepared, memory, candidate, issued, walFailed>>

At(location) == call' = [call EXCEPT !.at = location]

Inconclusive(state) == Persist(call, state, call.opid, "error", FALSE)

---------------------------------------------------------------------------
(* apply_and_verify *)

Desired == prepared[call.change].desired
Baseline == prepared[call.change].baseline

\* The driver reads; or the request does not reach it, is refused, or fails.
Apply ==
  /\ call.at = "apply"
  /\ DriverFrame
  /\ \/ AtBaseline(call.change) /\ NoFault /\ At("applyWrite")
     \/ AtDesired(call.change) /\ NoFault /\ At("applyVerify")
     \/ Conflict(call.change) /\ NoFault /\ At("applyStatus")
     \/ Fault /\ Inconclusive("FailedNotApplied")
     \/ Fault /\ (At("applyStatus") \/ Inconclusive("AppliedUnknown"))

\* The driver writes.  Its own readback and the kernel's verify lead to the same
\* record: a value other than the desired one is AppliedUnknown.
ApplyWrite ==
  /\ call.at = "applyWrite"
  /\ WriteFrame
  /\ \/ NoFault /\ Stores(Desired) /\ At("applyVerify")
     \/ /\ Fault
        /\ StoresSomething(Desired)
        /\ At("applyStatus") \/ Inconclusive("AppliedUnknown")

\* The readback behind an answer to status may be older than an outsider's
\* write.
Outdated == prepared[call.change].resource \in drifted

\* status after a failed apply: a driver answers Applied or NotApplied only
\* from a readback; otherwise, or when status fails too, the outcome is open.
ApplyStatus ==
  /\ call.at = "applyStatus"
  /\ NoFault
  /\ \/ (AtDesired(call.change) \/ Outdated) /\ Goto("applyVerify")
     \/ /\ AtBaseline(call.change) \/ Outdated
        /\ RecordOutcome("FailedNotApplied", "error", FALSE)
     \/ RecordOutcome("AppliedUnknown", "error", FALSE)

SuccessState == IF call.op = "experiment" THEN "AppliedVerified"
                                          ELSE "CandidateApplied"

AfterApply == IF call.op = "experiment" THEN "ok" ELSE "loop"

ApplyVerify ==
  /\ call.at = "applyVerify"
  /\ \/ AtDesired(call.change) /\ NoFault /\ RecordOutcome(SuccessState, AfterApply, TRUE)
     \/ ~AtDesired(call.change) /\ NoFault /\ RecordOutcome("AppliedUnknown", "error", FALSE)
     \/ Fault /\ RecordOutcome("AppliedUnknown", "error", FALSE)

---------------------------------------------------------------------------
(* restore_one *)

RestoredState == IF call.op = "rollback_all" THEN "RolledBack"
                                             ELSE "BaselineRestored"

AfterRestore == IF call.op = "experiment" THEN "revisePrepare" ELSE "loop"

\* A change already rolled back is only read back: a mismatch there is drift.
AlreadyRolledBack ==
  changes[call.change] = "RolledBack" /\ RestoredState = "RolledBack"

\* (A Finalized change, which restore_one refuses, never gets here.)
RestoreOne ==
  /\ call.at = "restoreOne"
  /\ \/ /\ AtBaseline(call.change)
        /\ changes[call.change] = RestoredState
        /\ NoFault /\ Goto(AfterRestore)
     \/ /\ AtBaseline(call.change)
        /\ changes[call.change] # RestoredState
        /\ NoFault
        /\ UpdateChange(call, "baseline-observed", RestoredState, AfterRestore)
     \/ /\ ~AtBaseline(call.change)
        /\ AlreadyRolledBack
        /\ MarkDrift(call)
     \/ /\ ~AtBaseline(call.change)
        /\ ~AlreadyRolledBack
        /\ NoFault /\ Goto("matchDesired")
     \/ ReadbackFails

MatchDesired ==
  /\ call.at = "matchDesired"
  /\ \/ AtDesired(call.change) /\ NoFault
          /\ AnnounceThen(call, "restore", "Restore", "restore")
     \/ ~AtDesired(call.change) /\ MarkDrift(call)
     \/ ReadbackFails

Restore ==
  /\ call.at = "restore"
  /\ DriverFrame
  /\ \/ AtDesired(call.change) /\ NoFault /\ At("restoreWrite")
     \/ AtBaseline(call.change) /\ NoFault /\ At("restoreVerify")
     \/ Conflict(call.change) /\ NoFault /\ At("restoreStatus")
     \/ Fault /\ (At("restoreStatus") \/ Inconclusive("AppliedUnknown"))

RestoreWrite ==
  /\ call.at = "restoreWrite"
  /\ WriteFrame
  /\ \/ NoFault /\ Stores(Baseline) /\ At("restoreVerify")
     \/ /\ Fault
        /\ StoresSomething(Baseline)
        /\ At("restoreStatus") \/ Inconclusive("AppliedUnknown")

\* Variant: any answer to status counts as restored.
RestoreStatusTrusted ==
  /\ call.at = "restoreStatus"
  /\ NoFault
  /\ RecordOutcome(RestoredState, AfterRestore, TRUE)

RestoreStatus ==
  /\ call.at = "restoreStatus"
  /\ NoFault
  /\ \/ (AtBaseline(call.change) \/ Outdated) /\ Goto("restoreVerify")
     \/ RecordOutcome("AppliedUnknown", "error", FALSE)

\* A failed readback leaves the restore intent without a result.
RestoreVerify ==
  /\ call.at = "restoreVerify"
  /\ \/ AtBaseline(call.change) /\ NoFault /\ RecordOutcome(RestoredState, AfterRestore, TRUE)
     \/ ~AtBaseline(call.change) /\ NoFault /\ RecordOutcome("AppliedUnknown", "error", FALSE)
     \/ ReadbackFails

---------------------------------------------------------------------------
(* experiment *)

\* The ids a coordinator hands out are consecutive.
IsNextChange(c) == c \notin Known /\ \A d \in Change : d < c => d \in Known

Calls(op) == [IdleCall EXCEPT !.op = op]

\* The transaction is full.
ExperimentRejected ==
  /\ Known = Change
  /\ NoFault /\ OnlyControl
  /\ call' = [Calls("experiment") EXCEPT !.at = "error"]

\* prepare fails, prepares no change of value, or the head of the resource is
\* not a verified experiment.
PrepareRejected(r, d) ==
  /\ Known # Change
  /\ \/ Fault
     \/ /\ NoFault
        /\ \/ world[r] = d
           \/ \E h \in Head(r) : changes[h] # "AppliedVerified" \/ h \notin verified
  /\ OnlyOperationId
  /\ call' = [Calls("experiment") EXCEPT !.at = "error"]

\* Variant: apply first, record later.
FirstRecordSkipped(k, c, op, head) ==
  call' = [k EXCEPT !.change = c, !.opid = op, !.at = "apply"]

\* The write-ahead record of the first apply of change c.
FirstRecord(k, c, op, head) ==
  AppendThen([k EXCEPT !.change = c],
             ChangeUpsert(c, "IntentDurable", FALSE, op, head), op, "apply", FALSE)

\* prepare reads the baseline; a resource with a head is revised first.
Prepare(r, d, c) ==
  /\ IsNextChange(c)
  /\ world[r] # d
  /\ \A h \in Head(r) : changes[h] = "AppliedVerified" /\ h \in verified
  /\ prepared' = [prepared EXCEPT ![c] =
                    [resource |-> r, baseline |-> world[r], desired |-> d]]
  /\ operationCounter' = operationCounter + 1
  /\ \/ /\ Head(r) = {}
        /\ FirstRecord(Calls("experiment"), c, NextOperationId("experiment"), {})
     \/ \E h \in Head(r) :
          call' = [Calls("experiment") EXCEPT
                     !.at = "reviseCheck", !.change = h, !.revision = c]
  /\ NoFault
  /\ UNCHANGED <<environment, log, changes, verified, nextSequence,
                 activeCandidate, candidate, issued, walFailed>>

\* The head must still hold its desired value, and prepare must have seen it.
ReviseCheck ==
  /\ call.at = "reviseCheck"
  /\ EnsureExpected(call, AtDesired(call.change),
                    IF prepared[call.revision].baseline = Desired
                      THEN "restoreOne" ELSE "error")

\* The head is back at its baseline: prepare again from there.
RevisePrepare ==
  /\ call.at = "revisePrepare"
  /\ operationCounter' = operationCounter + 1
  /\ LET seen == Holds(call.change) IN
     \/ /\ NoFault
        /\ seen = Baseline
        /\ prepared' = [prepared EXCEPT ![call.revision].baseline = seen]
        /\ seen # prepared[call.revision].desired
        /\ FirstRecord(call, call.revision, NextOperationId("revision"), {call.change})
     \/ /\ \/ NoFault /\ (seen # Baseline \/ seen = prepared[call.revision].desired)
           \/ Fault
        /\ At("error")
        /\ UNCHANGED prepared
  /\ UNCHANGED <<environment, log, changes, verified, nextSequence,
                 activeCandidate, candidate, issued, walFailed>>

---------------------------------------------------------------------------
(* restore_baseline and rollback_all: reverse change order *)

StartLoop(op, todo) ==
  /\ call' = [Calls(op) EXCEPT !.at = "loop", !.todo = todo]
  /\ NoFault /\ OnlyControl

RollbackAll ==
  IF \E c \in Known : changes[c] = "Finalized"
    THEN /\ call' = [Calls("rollback_all") EXCEPT !.at = "error"]
         /\ NoFault /\ OnlyControl
    ELSE StartLoop("rollback_all", Known)

InLoop(op) == call.at = "loop" /\ call.op = op

Visit(c) == [call EXCEPT !.change = c, !.todo = @ \ {c}]

Last(c) == c \in call.todo /\ \A d \in call.todo : d <= c
First(c) == c \in call.todo /\ \A d \in call.todo : c <= d

\* Variant: changes are restored in the order they were made.
RestoreNextForward ==
  /\ InLoop("restore_baseline") \/ InLoop("rollback_all")
  /\ \E c \in Change : First(c) /\ call' = [Visit(c) EXCEPT !.at = "restoreOne"]
  /\ NoFault /\ OnlyControl

RestoreNext ==
  /\ InLoop("restore_baseline") \/ InLoop("rollback_all")
  /\ \E c \in Change : Last(c) /\ call' = [Visit(c) EXCEPT !.at = "restoreOne"]
  /\ NoFault /\ OnlyControl

Restored ==
  /\ call.todo = {}
  /\ activeCandidate' = {}
  /\ \/ InLoop("restore_baseline") /\ At("ok")
     \/ InLoop("rollback_all")
          /\ AppendThen(call, Sealed("RolledBack"), call.opid, "ok", FALSE)
  /\ NoFault
  /\ UNCHANGED <<environment, log, prepared, changes, verified, nextSequence,
                 operationCounter, candidate, issued, walFailed>>

---------------------------------------------------------------------------
(* replay_candidate *)

\* validate_candidate
ValidCandidate == candidate \subseteq verified \cap Heads

ReplayCandidate ==
  IF ValidCandidate /\ \A c \in Known : changes[c] = "BaselineRestored"
    THEN StartLoop("replay_check", Known)
    ELSE /\ call' = [Calls("replay") EXCEPT !.at = "error"]
         /\ NoFault /\ OnlyControl

ReplayCheckNext ==
  /\ InLoop("replay_check")
  /\ \E c \in Change : First(c) /\ EnsureExpected(Visit(c), AtBaseline(c), "loop")

ReplayChecked ==
  /\ InLoop("replay_check") /\ call.todo = {}
  /\ activeCandidate' = candidate
  /\ call' = [call EXCEPT !.op = "replay", !.todo = candidate]
  /\ NoFault
  /\ UNCHANGED <<environment, log, prepared, changes, verified, nextSequence,
                 operationCounter, candidate, issued, walFailed>>

ReplayNext ==
  /\ InLoop("replay")
  /\ \E c \in Change : First(c) /\ AnnounceThen(Visit(c), "replay", "Apply", "apply")
  /\ NoFault

Replayed == InLoop("replay") /\ call.todo = {} /\ NoFault /\ Goto("ok")

---------------------------------------------------------------------------
(* finalize_candidate: check every head, collect the acknowledgements, check *)
(* every head again, seal.                                                 *)

FinalizeCandidate ==
  IF /\ ValidCandidate
     /\ activeCandidate = candidate
     /\ \A c \in candidate : changes[c] = "CandidateApplied"
    THEN StartLoop("finalize_check", Heads)
    ELSE /\ call' = [Calls("finalize") EXCEPT !.at = "error"]
         /\ NoFault /\ OnlyControl

AtCommitValue(c) == IF c \in candidate THEN AtDesired(c) ELSE AtBaseline(c)

CommitCheckNext ==
  /\ InLoop("finalize_check") \/ InLoop("finalize_recheck")
  /\ \E c \in Change : First(c) /\ EnsureExpected(Visit(c), AtCommitValue(c), "loop")

CommitChecked ==
  /\ InLoop("finalize_check") /\ call.todo = {}
  /\ call' = [call EXCEPT !.op = "finalize", !.todo = candidate]
  /\ NoFault /\ OnlyControl

FinalizeNext ==
  /\ InLoop("finalize")
  /\ \E c \in Change :
       First(c) /\ AnnounceThen(Visit(c), "finalize", "Finalize", "finalize")
  /\ NoFault

\* An acknowledgement changes nothing; a driver gives it for its desired value.
Finalize ==
  /\ call.at = "finalize"
  /\ DriverFrame
  /\ \/ /\ AtDesired(call.change) /\ NoFault
        /\ Persist(call, "CandidateApplied", call.opid, "ackVerify", FALSE)
     \/ ~AtDesired(call.change) /\ NoFault /\ Inconclusive("CandidateApplied")
     \/ Fault /\ Inconclusive("CandidateApplied")

AckVerify ==
  /\ call.at = "ackVerify"
  /\ EnsureExpected(call, AtDesired(call.change), "loop")

Acknowledged ==
  /\ InLoop("finalize") /\ call.todo = {}
  /\ call' = [call EXCEPT !.op = "finalize_recheck", !.todo = Heads]
  /\ NoFault /\ OnlyControl

CommitSeal ==
  /\ InLoop("finalize_recheck") /\ call.todo = {}
  /\ AppendThen(call, CommitSealed(candidate), call.opid, "ok", FALSE)
  /\ NoFault /\ OnlyControl

---------------------------------------------------------------------------

\* One step inside a public operation of the kernel.
KernelStep ==
  \/ AppendDurable \/ AppendFails
  \/ Apply \/ ApplyWrite \/ ApplyStatus \/ ApplyVerify
  \/ RestoreOne \/ MatchDesired
  \/ Restore \/ RestoreWrite \/ RestoreStatus \/ RestoreVerify
  \/ ReviseCheck \/ RevisePrepare
  \/ RestoreNext \/ Restored
  \/ ReplayCheckNext \/ ReplayChecked \/ ReplayNext \/ Replayed
  \/ CommitCheckNext \/ CommitChecked \/ FinalizeNext \/ Finalize
  \/ AckVerify \/ Acknowledged \/ CommitSeal

\* Nothing is read from the entry of a change that has no record.
Unprepared == CHOOSE p \in PreparedMutation : TRUE

\* TransactionKernel::begin: a new log, and its Started record to write.
BeginKernel ==
  /\ world \in [Resource -> Value]
  /\ origin = world
  /\ drifted = {}
  /\ normalised = {}
  /\ log = EmptyLog
  /\ prepared = [c \in Change |-> Unprepared]
  /\ changes = [c \in Change |-> Absent]
  /\ verified = {}
  /\ nextSequence = 0
  /\ operationCounter = 0
  /\ activeCandidate = {}
  /\ candidate = {}
  /\ call = [IdleCall EXCEPT !.at = "append"]
  /\ issued = 0
  /\ walFailed = FALSE
  /\ faults = 0

\* The memory of a process that is not running.
LoseMemory ==
  /\ changes' = [c \in Change |-> Absent]
  /\ verified' = {}
  /\ nextSequence' = 0
  /\ operationCounter' = 0
  /\ activeCandidate' = {}
  /\ candidate' = {}
  /\ call' = IdleCall

\* TransactionKernel::recover, and a rollback_all that goes through `todo`.
Rebuild(sequence, counter, todo) ==
  LET rebuilt == [c \in Change |-> RecoveredState(log, c)] IN
  /\ changes' = rebuilt
  /\ verified' = log.verified
  /\ nextSequence' = sequence
  /\ operationCounter' = counter
  /\ activeCandidate' = {c \in log.verified : rebuilt[c] = "CandidateApplied"}
  /\ call' = [Calls("rollback_all") EXCEPT !.at = "loop", !.todo = todo]
  /\ NoFault
  /\ UNCHANGED <<environment, log, prepared, candidate, issued, walFailed>>

\* Variants: sequence numbers or operation ids start again, or only changes
\* whose experiment was verified are rolled back.
RecoverResequenced == Rebuild(1, log.count, LogChanges(log))
RecoverRecounted == Rebuild(log.count, 0, LogChanges(log))
RecoverVerifiedOnly == Rebuild(log.count, log.count, log.verified)

\* recover continues both numberings after the last entry.
RecoverAndRollback == Rebuild(log.count, log.count, LogChanges(log))

\* Somebody outside the transaction writes a resource.
ExternalWrite(r, v) ==
  /\ v # world[r]
  /\ world' = [world EXCEPT ![r] = v]
  /\ drifted' = drifted \cup {r}
  /\ Fault
  /\ UNCHANGED <<origin, normalised, log, prepared, memory, candidate, call, issued,
                 walFailed>>

---------------------------------------------------------------------------

\* Every variable of the kernel and of its environment has its type.
KernelTypeOK ==
  /\ world \in [Resource -> Value]
  /\ origin \in [Resource -> Value]
  /\ drifted \in SUBSET Resource
  /\ normalised \in SUBSET Resource
  /\ log \in Log
  /\ prepared \in [Change -> PreparedMutation]
  /\ changes \in [Change -> ChangeState \cup {Absent}]
  /\ verified \in SUBSET Change
  /\ nextSequence \in Nat
  /\ operationCounter \in Nat
  /\ activeCandidate \in SUBSET Change
  /\ candidate \in SUBSET Change
  /\ call \in Call
  /\ issued \in Nat
  /\ walFailed \in BOOLEAN
  /\ faults \in Nat

=============================================================================
