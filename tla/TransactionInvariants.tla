------------------------ MODULE TransactionInvariants ------------------------
(***************************************************************************)
(* The inductive invariant behind the safety properties of                 *)
(* TransactionLifecycle: where the kernel's control can be, what the       *)
(* change records say about the tuned system, how far a rollback or a      *)
(* commit has got, and what can still happen after a seal.                 *)
(***************************************************************************)
EXTENDS TransactionLifecycle

RestoreLocation ==
  {"restoreOne", "matchDesired", "restore", "restoreWrite", "restoreStatus",
   "restoreVerify"}

ApplyLocation == {"apply", "applyWrite", "applyStatus", "applyVerify"}

ReviseLocation == RestoreLocation \cup {"reviseCheck", "revisePrepare"}

\* Locations at which an operation works on call.change.
ChangeLocation ==
  ReviseLocation \cup ApplyLocation \cup {"finalize", "ackVerify"}

\* Where an operation goes when it does not append.
Visits(op) ==
  CASE op = "begin" -> {"ok", "error"}
    [] op = "experiment" -> {"ok", "error"} \cup ReviseLocation \cup ApplyLocation
    [] op = "restore_baseline" -> {"ok", "error", "loop"} \cup RestoreLocation
    [] op = "replay_check" -> {"error", "loop"}
    [] op = "replay" -> {"ok", "error", "loop"} \cup ApplyLocation
    [] op = "finalize_check" -> {"error", "loop"}
    [] op = "finalize" -> {"error", "loop", "finalize", "ackVerify"}
    [] op = "finalize_recheck" -> {"ok", "error", "loop", "outcomeUnknown"}
    [] op = "rollback_all" -> {"ok", "error", "loop"} \cup RestoreLocation

Appending(type) == call.at = "append" /\ call.event.type = type

\* Where control goes next: past the append in progress, if there is one.
Ahead == IF call.at = "append" THEN call.then ELSE call.at

InEpisode == phase \in EpisodePhase
Active == InEpisode \/ call.op = "rollback_all"

\* The operations of every phase, and the locations of every operation.
ControlInv ==
  /\ Ahead \in Visits(call.op)
  /\ phase = "Experimenting" => call.op \in {"begin", "experiment"}
  /\ phase = "CommitPending" =>
       call.op \notin {"begin", "experiment", "rollback_all"}
  /\ phase = "RollingBack" => call.op = "rollback_all"
  /\ phase \in {"RecoveryRequired", "Committed", "Clean"} =>
       call.at \in {"ok", "error", "outcomeUnknown"}
  /\ phase \in {"Down", "Ready", "Blocked"} => call = IdleCall
  /\ phase \in {"EarlyPass", "Gate"} => call = IdleCall \/ call.op = "rollback_all"

\* A change whose first record is about to be appended.
Creating == Appending("ChangeUpsert") /\ call.event.change \notin Known

\* A change is being revised, and the change that replaces it is not known yet.
Revising == call.op = "experiment" /\ Ahead \in ReviseLocation

\* The append in progress is one that its operation makes.
AppendInv ==
  call.at = "append" =>
    /\ call.afterEffect => call.event.type = "ChangeUpsert" /\ call.change \in Known
    /\ \/ call.event = Started /\ call.op = "begin" /\ call.then = "ok"
       \/ /\ call.event.type = "ChangeUpsert"
          /\ call.event.change = call.change
          /\ Creating => /\ IsNextChange(call.change)
                         /\ call.op = "experiment"
                         /\ call.then = "apply"
       \/ /\ call.event.type = "OperationIntent"
          /\ call.event.change = call.change
          /\ call.change \in Known
       \/ /\ call.event = Sealed("RolledBack")
          /\ call.op = "rollback_all" /\ call.then = "ok" /\ call.todo = {}
       \/ /\ call.event = CommitSealed(candidate)
          /\ call.op = "finalize_recheck" /\ call.then = "ok" /\ call.todo = {}

\* Loops and per-change steps are about known changes; a revision keeps the
\* resource of the change it replaces.
ChangeInv ==
  /\ call.todo \subseteq Known
  /\ Ahead \in ChangeLocation /\ ~Creating => call.change \in Known
  /\ Revising => /\ IsNextChange(call.revision)
                 /\ prepared[call.revision].resource = prepared[call.change].resource

\* What is known is logged; while no operation has failed the converse holds.
MemoryInv ==
  /\ Known \subseteq LogChanges(log)
  /\ ~Active => Known = {}
  /\ phase \in {"Experimenting", "CommitPending"}
       /\ call.at \notin {"error", "outcomeUnknown"} => LogChanges(log) = Known
  /\ PendingOperations(log) \subseteq LogChanges(log)

\* While an episode can still create changes or commit, the known changes are
\* a prefix of the change ids and every resource among them has a head.
OrderInv ==
  phase \in {"Experimenting", "CommitPending"} =>
    /\ \A c \in Known, d \in Change : d < c => d \in Known
    /\ \A c \in Known : Head(prepared[c].resource) # {}

Undrifted(c) == prepared[c].resource \notin drifted

\* The baseline of every change is the original value.
BaselineInv ==
  \A c \in Change :
    (c \in LogChanges(log) \/ (Creating /\ c = call.change)) /\ Undrifted(c) =>
      prepared[c].baseline = origin[prepared[c].resource]

Explains(c, r) ==
  /\ prepared[c].resource = r
  /\ prepared[c].baseline = origin[r]
  /\ prepared[c].desired = world[r] \/ r \in normalised

\* A resource that left its original value did so for a change that the kernel
\* knows, or that the log will tell the next one.
WorldInv ==
  \A r \in Resource \ drifted :
    world[r] # origin[r] =>
      \E c \in (IF Active THEN Known ELSE LogChanges(log)) : Explains(c, r)

Home(c) == Undrifted(c) => world[prepared[c].resource] = origin[prepared[c].resource]

\* The change rollback_all works on.
InHand ==
  IF \/ call.at \in RestoreLocation
     \/ call.at = "append" /\ call.event.type \in {"ChangeUpsert", "OperationIntent"}
    THEN {call.change} ELSE {}

\* Another change of the resource that is being restored, which may hold
\* anything until that is done.
Shared(c) == \E h \in InHand : prepared[h].resource = prepared[c].resource

\* rollback_all: a change it has dealt with is recorded as such, and is home;
\* the one being recorded as such is home too.
RollbackInv ==
  call.op = "rollback_all" /\ Ahead # "error" =>
    /\ \A c \in Known \ (call.todo \cup InHand) :
         changes[c] = "RolledBack" /\ (Home(c) \/ Shared(c))
    /\ Appending("OperationIntent") => call.then \in RestoreLocation
    /\ Appending("ChangeUpsert") =>
         call.then = "loop" /\ Home(call.change) /\ call.event.state = "RolledBack"

AllRolledBack == \A c \in Known : changes[c] = "RolledBack"

\* What the process that wrote a seal may still be doing.
SealInv ==
  /\ log.seal = "Committed" /\ Active =>
       /\ phase \in {"CommitPending", "RecoveryRequired", "Committed"}
       /\ call.op = "finalize_recheck"
       /\ call.at \in {"ok", "outcomeUnknown"}
  /\ log.seal = "RolledBack" /\ Active =>
       /\ call.op = "rollback_all"
       /\ Ahead \in {"ok", "error", "loop", "restoreOne"}
       /\ call.at = "append" => call.then \in {"ok", "error"}
       /\ call.at \in {"loop", "restoreOne", "append"} => ~retry
       /\ call.at \in {"loop", "restoreOne"} \/ retry => AllRolledBack

\* finalize_candidate: the candidate is made of heads; the heads that its last
\* loop has passed hold the value that is committed.
CommitInv ==
  /\ phase = "CommitPending" => candidate \subseteq Heads
  /\ call.op = "finalize_recheck" /\ phase = "CommitPending" /\ Ahead \in {"ok", "loop"} =>
       \A c \in Heads \ call.todo : Undrifted(c) => AtCommitValue(c)

\* Locations that follow the allocation of an operation id and not its record.
Unrecorded == {"append", "error", "outcomeUnknown"}

\* How far the log of control state k is ahead of the operation counter, at
\* least.  A recovered kernel starts even; Started puts a new one ahead by one
\* and every verified experiment by one more.  An id whose record fails, or that
\* was only good for a rejected prepare, costs one, and ends all but the rollback
\* that abort leaves to finish_session.
Reserve(k, again) ==
  (IF k.op = "rollback_all" THEN IF again THEN 1 ELSE 0
   ELSE IF k.op = "begin" THEN 1
   ELSE IF k.op = "experiment" /\ k.at # "ok" /\ ~(k.at = "append" /\ k.then = "ok")
     THEN 1
   ELSE 2)
  - (IF k.at \in Unrecorded THEN 1 ELSE 0)

\* The operation id that a driver is about to see is the last one allocated, and
\* the counter is never ahead of a log that a restart would count from.
NumberInv ==
  /\ retry => InEpisode
  /\ call.op = "begin" => Known = {} /\ call.event = Started /\ ~call.afterEffect
  /\ log.intact => issued <= log.count
  /\ Active => issued <= operationCounter
  /\ Active /\ Ahead \in {"apply", "restore", "finalize"} =>
       call.opid.number = operationCounter /\ issued < operationCounter
  /\ Active /\ log.intact => operationCounter + Reserve(call, retry) <= log.count

\* As long as no append has been cut short the memory mirrors the log, entry by entry; a
\* recovered kernel only differs in what it takes an unfinished operation for.
MirrorInv ==
  /\ log.intact /\ log.terminated
  /\ Active =>
       /\ nextSequence = log.count
       /\ verified = log.verified
       /\ Known = LogChanges(log)
       /\ InEpisode => changes = log.state
       /\ (log.count = 0) <=> Appending("Started")
       /\ call.at # "ok" => log.seal = Open
  /\ \A c \in LogChanges(log) : prepared[c].baseline # prepared[c].desired

\* The entry being appended is one that the readers accept, and the operation id
\* in it is that of the operation in progress.
EventInv ==
  call.at = "append" =>
    /\ AcceptsEntry(log, prepared, log.count, call.event)
    /\ call.event.type \in {"ChangeUpsert", "OperationIntent"} => call.event.op = call.opid
    /\ call.event.type = "OperationIntent" => call.then \in {"apply", "restore", "finalize"}

\* A revision replaces the verified head of its resource, once that is restored.
RevisionInv ==
  Revising =>
    /\ call.change \in verified /\ IsHead(call.change)
    /\ call.at = "revisePrepare" => changes[call.change] = "BaselineRestored"
    /\ call.at = "append" /\ call.then = "revisePrepare" =>
         call.event.type = "ChangeUpsert" /\ call.event.state = "BaselineRestored"

\* An episode that may still commit.
Deciding == phase \in {"Experimenting", "CommitPending"} /\ Ahead \notin {"error", "outcomeUnknown"}

\* An operation has been announced and its result is not in the log.
Unsettled ==
  \/ call.at \in ApplyLocation
  \/ call.at \in {"restore", "restoreWrite", "restoreStatus", "restoreVerify", "finalize"}
  \/ Appending("ChangeUpsert")

\* Only the operation in progress awaits its result.
IntentInv ==
  Deciding =>
    \A c \in PendingOperations(log) :
      c = call.change /\ Unsettled /\ \A i \in log.intent[c] : i.op = call.opid

\* From replay_candidate on, the candidate is verified, is all that is applied, and
\* is what finalize_candidate acknowledges.
CandidateInv ==
  phase = "CommitPending" =>
    /\ candidate # {}
    /\ Deciding /\ log.seal = Open /\ call.op # "restore_baseline" =>
         /\ candidate \subseteq verified
         /\ \A c \in Known \ candidate : changes[c] = "BaselineRestored"
         /\ call.op \in {"finalize_check", "finalize", "finalize_recheck"} =>
              \A c \in candidate : changes[c] = "CandidateApplied"
         /\ call.op \in {"replay", "finalize"} => call.todo \subseteq candidate
         /\ Ahead \in ChangeLocation \/ Appending("ChangeUpsert") => call.change \in candidate
         /\ Appending("ChangeUpsert") => call.event.state = "CandidateApplied"

\* Every entry that the kernel has written is one that its readers accept.
Legible == MirrorInv /\ EventInv /\ RevisionInv /\ IntentInv /\ CandidateInv

LogInv == ~walFailed => Legible

\* The changes that explain the tuned system: those the kernel knows, or those
\* that the log will tell the next one.
Live == IF Active THEN Known ELSE LogChanges(log)

\* The resources that an outsider wrote, or that stored something else than a
\* driver wrote.
Touched == drifted \cup normalised

Clear(c) == prepared[c].resource \notin Touched

Applied(c) == Clear(c) => AtDesired(c)

AtOrigin(c) == Clear(c) => world[prepared[c].resource] = origin[prepared[c].resource]

\* Drift is recorded only of a resource that is not clear.
FlagInv ==
  /\ \A c \in Change : "DriftDetected" \in {changes[c], log.state[c]} => ~Clear(c)
  /\ Appending("ChangeUpsert") /\ call.event.state = "DriftDetected" => ~Clear(call.change)

\* What the transaction has left in a resource is the value of its head; a change
\* that the kernel does not know of has not been applied.
HeadInv ==
  /\ \A r \in Resource \ Touched :
       world[r] # origin[r] => \E c \in ResourceHead(prepared, Live, r) : Explains(c, r)
  /\ \A c \in LogChanges(log) \ Live : AtOrigin(c)
  /\ Creating => AtOrigin(call.change) /\ call.event.state = "IntentDurable"

\* A change is rolled back only when it is home, and only by rollback_all.
RolledInv ==
  /\ Appending("ChangeUpsert") /\ call.event.state = "RolledBack" =>
       call.op = "rollback_all" /\ AtOrigin(call.change)
  /\ log.seal # "Committed" =>
       \A c \in Change : "RolledBack" \in {changes[c], log.state[c]} =>
         AtOrigin(c) /\ phase \notin {"Experimenting", "CommitPending"}

\* The head that a revision is restoring.
Revised == IF Revising /\ Ahead # "reviseCheck" THEN {call.change} ELSE {}

\* A verified experiment keeps its value until it is revised or rolled back.
VerifiedInv ==
  phase = "Experimenting" /\ Ahead # "error" =>
    /\ \A c \in Heads \ Revised : changes[c] = "AppliedVerified" => Applied(c)
    /\ Appending("ChangeUpsert") /\ call.event.state = "AppliedVerified" => Applied(call.change)
    /\ Revising \/ (Ahead \in ApplyLocation /\ ~Creating) => IsHead(call.change)
    /\ call.at = "reviseCheck" => changes[call.change] = "AppliedVerified"
    /\ call.at = "revisePrepare" => changes[call.change] = "BaselineRestored"
    /\ call.at = "append" /\ call.then = "revisePrepare" =>
         call.event.type = "ChangeUpsert" /\ call.event.state = "BaselineRestored"

\* The candidates whose replay is not over.
Unplayed ==
  IF call.op # "replay" THEN {}
  ELSE IF Ahead \in ApplyLocation \/ Appending("ChangeUpsert") THEN call.todo \cup {call.change}
  ELSE call.todo

\* From restore_baseline to the seal: the baseline is restored change by change,
\* and then the candidate applied change by change.
ReplayInv ==
  phase = "CommitPending" /\ Ahead \notin {"error", "outcomeUnknown"} =>
    /\ call.op = "restore_baseline" =>
         /\ \A c \in Known \ (call.todo \cup InHand) : AtOrigin(c)
         /\ Appending("ChangeUpsert") => AtOrigin(call.change)
         /\ Appending("OperationIntent") => call.then \in RestoreLocation
    /\ call.op = "replay_check" => \A c \in Known : AtOrigin(c)
    /\ call.op \in {"restore_baseline", "replay"} /\ Ahead = "ok" => call.todo = {}
    /\ call.op \in {"replay", "finalize"} =>
         /\ call.todo \subseteq candidate
         /\ Ahead \in ChangeLocation \/ Appending("ChangeUpsert") => call.change \in candidate
    /\ call.op = "replay" /\ Appending("ChangeUpsert") => Applied(call.change)
    /\ call.op \in {"finalize_check", "finalize_recheck"} => call.todo \subseteq Heads
    /\ call.op \in {"replay", "finalize_check", "finalize", "finalize_recheck"} =>
         \A c \in Heads \ Unplayed : Clear(c) => AtCommitValue(c)

\* Loops restore the later changes first, and a change that is not at its baseline
\* is at its desired value.
RestoreInv ==
  /\ call.op \in {"restore_baseline", "rollback_all"} =>
       \A c \in InHand, d \in call.todo : d < c
  /\ call.at = "matchDesired" => Applied(call.change)
  /\ call.at = "append" => call.then \notin {"matchDesired", "reviseCheck"}

DriftInv == FlagInv /\ HeadInv /\ RolledInv /\ VerifiedInv /\ ReplayInv /\ RestoreInv

\* What the kernel's control state, its memory, its log and the world say of each
\* other between any two steps.
SafetyInv ==
  /\ TypeOK /\ ControlInv /\ AppendInv /\ ChangeInv /\ MemoryInv /\ OrderInv
  /\ BaselineInv /\ WorldInv /\ RollbackInv /\ SealInv /\ CommitInv
  /\ CommitInstallsCandidate /\ RollbackRestoresOrigin

\* The inductive invariant of the theorems: the above, with what the operation
\* ids and the entries of the log are, and whose values the resources hold.
IInv == SafetyInv /\ NumberInv /\ LogInv /\ DriftInv

=============================================================================
