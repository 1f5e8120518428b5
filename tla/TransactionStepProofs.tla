----------------------- MODULE TransactionStepProofs ------------------------
(***************************************************************************)
(* The shapes of the steps of the transaction kernel: the fields of the    *)
(* next control state, where control can be, and what the memory, the log  *)
(* and the prepared changes say of each other and of the tuned system.     *)
(* The proofs of the invariants rest on these facts.                       *)
(***************************************************************************)
EXTENDS TransactionInvariants, TLAPS

\* The provers: a leaf that cites none is left to Zenon.
USE Zenon

\* The constant parts of the control state have their types.
LEMMA ControlTypes ==
  /\ 1 \in Change
  /\ NoOperation \in OperationId
  /\ IdleCall \in Call
  /\ \A op \in Operation : Calls(op) \in Call
<1>1. 1 \in Change
  BY MaxChangesAssumption, SMT DEF Change
<1>2. NoOperation \in OperationId
  BY DEF NoOperation, OperationId, Label
<1>3. IdleCall \in Call
  BY <1>1, <1>2, SMT DEF IdleCall, Call, Location, Operation, WalEvent, Started
<1>4. \A op \in Operation : Calls(op) \in Call
  BY <1>3 DEF Calls, Call
<1> QED BY <1>1, <1>2, <1>3, <1>4

LEMMA VisitType ==
  ASSUME KernelTypeOK, NEW c \in Change
  PROVE  Visit(c) \in Call
<1>1. call \in Call
  BY DEF KernelTypeOK
<1>2. call.todo \ {c} \in SUBSET Change
  BY <1>1 DEF Call
<1> QED BY <1>1, <1>2 DEF Call, Visit

LEMMA AppendShape ==
  ASSUME NEW k \in Call, NEW ev, NEW op, NEW l, NEW eff,
         AppendThen(k, ev, op, l, eff)
  PROVE  /\ call'.at = "append" /\ call'.event = ev /\ call'.then = l
         /\ call'.afterEffect = eff /\ call'.opid = op
         /\ call'.op = k.op /\ call'.change = k.change /\ call'.todo = k.todo
         /\ call'.revision = k.revision
BY DEF AppendThen, Call

LEMMA PersistShape ==
  ASSUME NEW k \in Call, NEW st, NEW op, NEW l, NEW eff,
         Persist(k, st, op, l, eff)
  PROVE  /\ call'.at = "append" /\ call'.then = l /\ call'.afterEffect = eff
         /\ call'.event.type = "ChangeUpsert" /\ call'.event.change = k.change
         /\ call'.event.state = st /\ call'.opid = op /\ call'.event.op = op
         /\ call'.op = k.op /\ call'.change = k.change /\ call'.todo = k.todo
         /\ call'.revision = k.revision
BY AppendShape, SMT DEF Persist, ChangeUpsert

LEMMA MoveShape ==
  ASSUME NEW k \in Call, NEW l, call' = [k EXCEPT !.at = l]
  PROVE  /\ call'.at = l
         /\ call'.op = k.op /\ call'.change = k.change /\ call'.todo = k.todo
         /\ call'.revision = k.revision /\ call'.opid = k.opid
BY DEF Call

LEMMA VisitShape ==
  ASSUME call \in Call, NEW c
  PROVE  /\ Visit(c).op = call.op /\ Visit(c).change = c
         /\ Visit(c).todo = call.todo \ {c} /\ Visit(c).revision = call.revision
         /\ Visit(c).at = call.at
BY DEF Call, Visit

Still ==
  /\ UNCHANGED <<origin, drifted, log, prepared, changes, candidate, phase, retry>>
  /\ normalised \subseteq normalised'

Structure == ControlInv /\ AppendInv /\ ChangeInv /\ MemoryInv /\ OrderInv
             /\ BaselineInv /\ WorldInv

Within(k) ==
  /\ k.op = call.op /\ k.revision = call.revision
  /\ k.todo \subseteq call.todo
  /\ k.change \in Known
  /\ k.op = "experiment" => k.change = call.change

NewChange == IF Creating THEN {call.change} ELSE {}

LEMMA Running ==
  ASSUME ControlInv, call.at \notin {"ok", "error", "outcomeUnknown"}
  PROVE  /\ phase \notin {"RecoveryRequired", "Committed", "Clean", "Down", "Ready", "Blocked"}
         /\ call # IdleCall
         /\ phase \in {"EarlyPass", "Gate"} => call.op = "rollback_all"
BY SMT DEF ControlInv, IdleCall

LEMMA AppendVisits ==
  ASSUME NEW op \in Operation
  PROVE  "append" \notin Visits(op)
BY DEF Operation, Visits, ReviseLocation, RestoreLocation, ApplyLocation

\* What is in the file, and in the memory, after the append in progress.
LEMMA WrittenChanges ==
  ASSUME TypeOK, Structure, call.at = "append"
  PROVE  /\ LogChanges(Written) = LogChanges(log) \cup NewChange
         /\ PendingOperations(Written) \subseteq LogChanges(Written)
         /\ Memorise(call.event) => Known' = Known \cup NewChange
<1>1. call.event \in WalEvent /\ call.change \in Change /\ log \in Log
  BY DEF TypeOK, KernelTypeOK, Call
<1>2. \A c \in Change :
        /\ Upserts(call.event, c) => call.event.state # Absent /\ call.change = c
        /\ Announces(call.event, c) => c \in Known
  BY <1>1, SMT DEF Upserts, Announces, Structure, AppendInv, WalEvent, ChangeState, Absent,
              Started, Sealed, CommitSealed
<1>3. Creating <=> Upserts(call.event, call.change) /\ call.change \notin Known
  BY <1>1, SMT DEF Creating, Appending, Upserts, Structure, AppendInv, Started, Sealed,
              CommitSealed
<1>4. Known \subseteq LogChanges(log)
  BY DEF Structure, MemoryInv
<1>5. /\ Written.state = FoldState(log, call.event)
      /\ Written.intent = FoldIntent(log, call.event)
  BY DEF Written, Replay
<1>6. LogChanges(Written) = LogChanges(log) \cup NewChange
  <2>1. \A c \in Change : FoldState(log, call.event)[c] # Absent
                            <=> log.state[c] # Absent \/ Upserts(call.event, c)
    BY <1>1, <1>2 DEF FoldState, Absent
  <2> QED BY <1>1, <1>2, <1>3, <1>4, <1>5, <2>1, SMT DEF LogChanges, NewChange
<1>7. PendingOperations(Written) \subseteq LogChanges(Written)
  <2>1. \A c \in Change : FoldIntent(log, call.event)[c] # {}
                            => log.intent[c] # {} \/ Announces(call.event, c)
    BY <1>1 DEF FoldIntent, Unresolved
  <2>2. PendingOperations(log) \subseteq LogChanges(log)
    BY DEF Structure, MemoryInv
  <2> QED BY <1>2, <1>4, <1>5, <1>6, <2>1, <2>2 DEF PendingOperations
<1>8. ASSUME Memorise(call.event) PROVE Known' = Known \cup NewChange
  <2>1. \A c \in Change : changes'[c] # Absent
                            <=> changes[c] # Absent \/ Upserts(call.event, c)
    BY <1>1, <1>2, <1>8 DEF Memorise, Absent
  <2> QED BY <1>1, <1>2, <1>3, <2>1 DEF Known, NewChange
<1> QED BY <1>6, <1>7, <1>8

\* The file has the entries of log l, whatever became of its last line.
SameEntries(l) ==
  /\ log'.state = l.state /\ log'.intent = l.intent /\ log'.verified = l.verified
  /\ log'.seal = l.seal /\ log'.count = l.count

\* The log is left alone, or the append in progress ends, for good or too early.
LogStops ==
  \/ log' = log
  \/ call.at = "append" /\ log' \in {log, Written} \cup CutShort

\* What is in the file when the append in progress stops.
LEMMA StoppedLog ==
  ASSUME TypeOK, Structure, LogStops
  PROVE  /\ SameEntries(log) \/ (call.at = "append" /\ SameEntries(Written))
         /\ LogChanges(log)' \in {LogChanges(log), LogChanges(log) \cup NewChange}
         /\ PendingOperations(log)' \subseteq LogChanges(log)'
<1>1. log \in Log
  BY DEF TypeOK, KernelTypeOK
<1>2. CASE log' \in {log, [log EXCEPT !.intact = FALSE]}
  <2>1. SameEntries(log)
    BY <1>1, <1>2 DEF SameEntries, Log
  <2> QED BY <2>1 DEF SameEntries, LogChanges, PendingOperations, Structure, MemoryInv
<1>3. CASE call.at = "append" /\ log' \in {Written, [Written EXCEPT !.terminated = FALSE]}
  <2>1. SameEntries(Written)
    BY <1>3 DEF SameEntries, Written, Replay
  <2> QED BY <1>3, <2>1, WrittenChanges DEF SameEntries, LogChanges, PendingOperations
<1> QED BY <1>2, <1>3 DEF LogStops, CutShort

LEMMA StillFrames ==
  ASSUME OnlyControl \/ OnlyOperationId, UNCHANGED <<phase, retry>>
  PROVE  Still /\ world' = world
BY DEF OnlyControl, OnlyOperationId, Still, environment, memory

\* Every operation may fail.
LEMMA ErrorVisited ==
  ASSUME NEW op \in Operation
  PROVE  "error" \in Visits(op)
BY DEF Operation, Visits

\* The setting of a step of restore_one, and of one of apply_and_verify.
LEMMA AtRestore ==
  ASSUME TypeOK, Structure, call.at \in RestoreLocation
  PROVE  /\ call.at \notin {"ok", "error", "outcomeUnknown"}
         /\ call.op \in {"experiment", "restore_baseline", "rollback_all"}
         /\ RestoreLocation \cup {"error", AfterRestore} \subseteq Visits(call.op)
         /\ call.op = "experiment" => Revising
         /\ call \in Call /\ Within(call)
<1>1. call \in Call /\ call.op \in Operation
  BY DEF TypeOK, KernelTypeOK, Call
<1>2. call.at \notin {"ok", "error", "outcomeUnknown", "append"}
  BY DEF RestoreLocation
<1>3. call.at \in Visits(call.op)
  BY <1>2 DEF Structure, ControlInv, Ahead
<1>4. call.op \in {"experiment", "restore_baseline", "rollback_all"}
  BY <1>1, <1>3 DEF Operation, Visits, RestoreLocation, ApplyLocation
<1>5. RestoreLocation \cup {"error", AfterRestore} \subseteq Visits(call.op)
  BY <1>4 DEF Visits, AfterRestore, ReviseLocation
<1>6. Within(call)
  BY <1>2 DEF Within, Structure, ChangeInv, Ahead, ChangeLocation, ReviseLocation,
              Creating, Appending
<1>7. call.op = "experiment" => Revising
  BY <1>2 DEF Revising, Ahead, ReviseLocation
<1> QED BY <1>1, <1>2, <1>4, <1>5, <1>6, <1>7

LEMMA AtApply ==
  ASSUME TypeOK, Structure, call.at \in ApplyLocation
  PROVE  /\ call.at \notin {"ok", "error", "outcomeUnknown"}
         /\ call.op \in {"experiment", "replay"}
         /\ ApplyLocation \cup {"error", AfterApply} \subseteq Visits(call.op)
         /\ ({"error", AfterApply} \cup ApplyLocation) \cap ReviseLocation = {}
         /\ call \in Call /\ Within(call)
<1>1. call \in Call /\ call.op \in Operation
  BY DEF TypeOK, KernelTypeOK, Call
<1>2. call.at \notin {"ok", "error", "outcomeUnknown", "append"}
  BY DEF ApplyLocation
<1>3. call.at \in Visits(call.op)
  BY <1>2 DEF Structure, ControlInv, Ahead
<1>4. call.op \in {"experiment", "replay"}
  BY <1>1, <1>3 DEF Operation, Visits, RestoreLocation, ApplyLocation
<1>5. ApplyLocation \cup {"error", AfterApply} \subseteq Visits(call.op)
  BY <1>4 DEF Visits, AfterApply
<1>6. Within(call)
  BY <1>2 DEF Within, Structure, ChangeInv, Ahead, ChangeLocation, Creating, Appending
<1>7. ({"error", AfterApply} \cup ApplyLocation) \cap ReviseLocation = {}
  BY DEF AfterApply, ApplyLocation, ReviseLocation, RestoreLocation
<1> QED BY <1>1, <1>2, <1>4, <1>5, <1>6, <1>7

\* A loop visits one of the changes it has left.
LEMMA AtVisit ==
  ASSUME TypeOK, Structure, call.at = "loop", NEW c \in Change, First(c) \/ Last(c)
  PROVE  /\ call.op # "experiment" /\ "loop" \in Visits(call.op)
         /\ Visit(c) \in Call /\ Within(Visit(c))
<1>1. call \in Call /\ call.op \in Operation
  BY SMT DEF TypeOK, KernelTypeOK, Call
<1>2. "loop" \in Visits(call.op)
  BY DEF Structure, ControlInv, Ahead
<1>3. call.op # "experiment"
  BY <1>2 DEF Visits, ReviseLocation, RestoreLocation, ApplyLocation
<1>4. c \in Known
  BY DEF First, Last, Structure, ChangeInv
<1> QED BY <1>1, <1>2, <1>3, <1>4, VisitType, VisitShape, SMT DEF TypeOK, Within

\* The operations of an evaluation and a commit run while one is pending.
LEMMA PendingPhase ==
  ASSUME TypeOK, ControlInv, call.at \notin {"ok", "error", "outcomeUnknown"},
         call.op \notin {"begin", "experiment", "rollback_all"}
  PROVE  phase = "CommitPending"
BY Running DEF TypeOK, ControlInv, EpisodePhase, StartupStage

\* The steps of the coordinator that leave system, log and records alone.
SameData == UNCHANGED <<world, origin, drifted, normalised, log, prepared, changes>>

\* The record of a change that is not known yet is rewritten.
Rewrites(c) ==
  /\ UNCHANGED <<world, origin, drifted, normalised, log, changes, candidate, phase, retry>>
  /\ \A d \in Change : d # c => prepared'[d] = prepared[d]

LEMMA RewriteKeeps ==
  ASSUME TypeOK, Structure, phase = "Experimenting",
         call.at \notin {"error", "outcomeUnknown"},
         NEW c \in Change, IsNextChange(c), Rewrites(c),
         call'.at \notin {"error", "outcomeUnknown"}
  PROVE  /\ OrderInv' /\ WorldInv' /\ MemoryInv'
         /\ Known' = Known /\ c \notin Known /\ IsNextChange(c)'
         /\ \A d \in LogChanges(log) : d # c
         /\ LogChanges(log)' = LogChanges(log)
<1>0. /\ Known' = Known /\ LogChanges(log)' = LogChanges(log)
      /\ c \notin Known /\ LogChanges(log) = Known
  BY DEF Rewrites, Known, LogChanges, IsNextChange, Structure, MemoryInv
<1>1. \A d \in Known : prepared'[d] = prepared[d] /\ d \in Change
  BY <1>0 DEF Rewrites, Known
<1>2. Active /\ Active'
  BY DEF Active, InEpisode, EpisodePhase, Rewrites
<1>3. \A r : Head(r)' = Head(r)
  BY <1>0, <1>1 DEF Head, ResourceHead
<1>4. OrderInv'
  BY <1>0, <1>1, <1>3 DEF OrderInv, Structure, Rewrites
<1>5. WorldInv'
  BY <1>0, <1>1, <1>2, SMT DEF WorldInv, Structure, Rewrites, Explains
<1>6. MemoryInv'
  BY <1>0, <1>2 DEF MemoryInv, Structure, Rewrites, PendingOperations
<1>7. IsNextChange(c)'
  BY <1>0 DEF IsNextChange
<1> QED BY <1>0, <1>4, <1>5, <1>6, <1>7

\* Only an episode that experiments runs experiment.
LEMMA ExperimentPhase ==
  ASSUME TypeOK, ControlInv, call.at \notin {"ok", "error", "outcomeUnknown"},
         call.op = "experiment"
  PROVE  phase = "Experimenting"
BY Running DEF TypeOK, ControlInv, EpisodePhase, StartupStage

\* Where no known change has the resource, it holds its original value.
LEMMA UntouchedResource ==
  ASSUME TypeOK, Structure, phase = "Experimenting", NEW r \in Resource \ drifted,
         Head(r) = {}
  PROVE  world[r] = origin[r]
<1> SUFFICES ASSUME world[r] # origin[r] PROVE FALSE
  OBVIOUS
<1>1. Active
  BY DEF Active, InEpisode, EpisodePhase
<1>2. PICK c \in Known : Explains(c, r)
  BY <1>1 DEF Structure, WorldInv
<1>3. prepared[c].resource = r
  BY <1>2, SMT DEF Explains
<1> QED BY <1>3 DEF Structure, OrderInv
==============================================================================
