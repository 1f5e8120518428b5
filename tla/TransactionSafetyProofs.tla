---------------------- MODULE TransactionSafetyProofs -----------------------
(***************************************************************************)
(* Structure, rollback, seals, commit and types.  The steps that append to *)
(* the log, act on the tuned system or move control only keep the          *)
(* structural part of the invariant, which is therefore inductive, as the  *)
(* types are.  So is the part that speaks of                               *)
(* a rollback in progress: what the loop has visited is home, what it has  *)
(* not visited is still explained by the log.  So are SealInv and          *)
(* CommitInv: after a seal nothing is done to the tuned system, a rollback *)
(* is sealed over the original system, and a commit over the candidate.    *)
(***************************************************************************)
EXTENDS TransactionStepProofs

\* The provers: a leaf that cites none is left to Zenon.
USE Zenon

---------------------------------------------------------------------------
(* Steps that change nothing but the control state. *)

LEMMA StillStep ==
  ASSUME TypeOK, Structure, Still, world' = world \/ WorldInv',
         (call'.op = "rollback_all") <=> (call.op = "rollback_all"),
         call.at \notin {"ok", "error", "outcomeUnknown"}, ~Creating'
  PROVE  OrderInv' /\ WorldInv' /\ BaselineInv' /\ MemoryInv' /\ Known' = Known
<1>0. Known' = Known /\ LogChanges(log)' = LogChanges(log) /\ Active' = Active
  BY DEF Still, Known, LogChanges, Active, InEpisode
<1>1. OrderInv'
  BY <1>0, SMT DEF Structure, Still, OrderInv, Head, ResourceHead
<1>2. WorldInv'
  BY <1>0, SMT DEF Structure, Still, WorldInv, Explains
<1>3. BaselineInv'
  BY <1>0 DEF Structure, Still, BaselineInv, Undrifted
<1>4. MemoryInv'
  BY <1>0 DEF Structure, Still, MemoryInv, PendingOperations
<1> QED BY <1>0, <1>1, <1>2, <1>3, <1>4

LEMMA PersistStructure ==
  ASSUME TypeOK, Structure, Still, world' = world \/ WorldInv',
         call.at \notin {"ok", "error", "outcomeUnknown"},
         NEW k \in Call, Within(k),
         NEW st, NEW op, NEW l \in Visits(call.op), NEW eff,
         Persist(k, st, op, l, eff),
         call.op = "experiment" /\ l \in ReviseLocation => Revising
  PROVE  Structure'
<1>1. /\ call'.at = "append" /\ call'.then = l /\ call'.afterEffect = eff
      /\ call'.event.type = "ChangeUpsert" /\ call'.event.change = k.change
      /\ call'.op = call.op /\ call'.change = k.change /\ call'.todo = k.todo
      /\ call'.revision = k.revision
  BY PersistShape, SMT DEF Within
<1>2. Known' = Known
  BY DEF Still, Known
<1>3. ~Creating'
  BY <1>1, <1>2 DEF Creating, Within
<1>4. OrderInv' /\ WorldInv' /\ BaselineInv' /\ MemoryInv' /\ call'.todo \subseteq Known'
  BY <1>1, <1>2, <1>3, StillStep DEF Within, Structure, ChangeInv
<1>5. ControlInv'
  BY <1>1, Running DEF Structure, ControlInv, Ahead, Still
<1>6. AppendInv'
  BY <1>1, <1>2, <1>3 DEF AppendInv, Within
<1>7. ChangeInv'
  <2>1. Revising' => Revising /\ k.change = call.change
    BY <1>1 DEF Revising, Ahead, Within
  <2> QED BY <1>1, <1>2, <1>4, <2>1 DEF ChangeInv, Structure, Within, IsNextChange, Still
<1> QED BY <1>4, <1>5, <1>6, <1>7 DEF Structure

LEMMA AnnounceStructure ==
  ASSUME TypeOK, Structure, Still, world' = world \/ WorldInv',
         call.at \notin {"ok", "error", "outcomeUnknown"},
         NEW k \in Call, Within(k), NEW label, NEW kind, NEW l \in Visits(call.op),
         AnnounceThen(k, label, kind, l),
         call.op = "experiment" /\ l \in ReviseLocation => Revising
  PROVE  Structure'
<1>1. /\ call'.at = "append" /\ call'.then = l /\ call'.afterEffect = FALSE
      /\ call'.event.type = "OperationIntent" /\ call'.event.change = k.change
      /\ call'.op = call.op /\ call'.change = k.change /\ call'.todo = k.todo
      /\ call'.revision = k.revision
  <2>1. AppendThen(k, OperationIntent(k.change, NextOperationId(label), kind),
                   NextOperationId(label), l, FALSE)
    BY DEF AnnounceThen
  <2>2. /\ call'.at = "append" /\ call'.then = l /\ call'.afterEffect = FALSE
        /\ call'.event = OperationIntent(k.change, NextOperationId(label), kind)
        /\ call'.op = k.op /\ call'.change = k.change /\ call'.todo = k.todo
        /\ call'.revision = k.revision
    BY <2>1, AppendShape, ZenonT(30)
  <2> QED BY <2>2, SMT DEF OperationIntent, Within
<1>2. Known' = Known
  BY DEF Still, Known
<1>3. ~Creating'
  BY <1>1 DEF Creating, Appending
<1>4. OrderInv' /\ WorldInv' /\ BaselineInv' /\ MemoryInv' /\ call'.todo \subseteq Known'
  BY <1>1, <1>2, <1>3, StillStep DEF Within, Structure, ChangeInv
<1>5. ControlInv'
  BY <1>1, Running DEF Structure, ControlInv, Ahead, Still
<1>6. AppendInv'
  BY <1>1, <1>2, <1>3 DEF AppendInv, Within
<1>7. ChangeInv'
  <2>1. Revising' => Revising /\ k.change = call.change
    BY <1>1 DEF Revising, Ahead, Within
  <2> QED BY <1>1, <1>2, <1>4, <2>1 DEF ChangeInv, Structure, Within, IsNextChange, Still
<1> QED BY <1>4, <1>5, <1>6, <1>7 DEF Structure

LEMMA MoveStructure ==
  ASSUME TypeOK, Structure, Still, world' = world \/ WorldInv',
         call.at \notin {"ok", "error", "outcomeUnknown"},
         NEW l \in Visits(call.op), l # "append",
         call'.at = l, call'.op = call.op, call'.revision = call.revision,
         call'.todo \subseteq call.todo,
         l \in ChangeLocation => call'.change \in Known,
         call.op = "experiment" /\ l \in ReviseLocation
           => Revising /\ call'.change = call.change
  PROVE  Structure'
<1>2. Known' = Known
  BY DEF Still, Known
<1>3. ~Creating'
  BY DEF Creating, Appending
<1>4. OrderInv' /\ WorldInv' /\ BaselineInv' /\ MemoryInv' /\ call'.todo \subseteq Known'
  BY <1>2, <1>3, StillStep DEF Structure, ChangeInv
<1>5. ControlInv'
  BY Running DEF Structure, ControlInv, Ahead, Still
<1>6. AppendInv'
  BY DEF AppendInv
<1>7. ChangeInv'
  <2>1. Revising' => Revising /\ call'.change = call.change
    BY DEF Revising, Ahead
  <2> QED BY <1>2, <1>4, <2>1 DEF ChangeInv, Structure, IsNextChange, Still, Ahead
<1> QED BY <1>4, <1>5, <1>6, <1>7 DEF Structure

LEMMA FailStructure ==
  ASSUME TypeOK, Structure, Still, world' = world,
         call.at \notin {"ok", "error", "outcomeUnknown"}, At("error")
  PROVE  Structure'
<1>1. call \in Call /\ call.op \in Operation
  BY DEF TypeOK, KernelTypeOK, Call
<1>2. /\ call'.at = "error" /\ call'.op = call.op /\ call'.todo = call.todo
      /\ call'.revision = call.revision
  BY <1>1, MoveShape DEF At
<1>3. "error" \notin ChangeLocation /\ "error" \notin ReviseLocation
  BY DEF ChangeLocation, ReviseLocation, RestoreLocation, ApplyLocation
<1> QED BY <1>1, <1>2, <1>3, ErrorVisited, MoveStructure

LEMMA ErrorStructure ==
  ASSUME TypeOK, Structure, UNCHANGED <<phase, retry>>,
         call.at \notin {"ok", "error", "outcomeUnknown"}, Goto("error")
  PROVE  Structure'
BY StillFrames, FailStructure DEF Goto, At

LEMMA MarkDriftStructure ==
  ASSUME TypeOK, Structure, UNCHANGED <<phase, retry>>,
         call.at \notin {"ok", "error", "outcomeUnknown"},
         NEW k \in Call, Within(k), MarkDrift(k)
  PROVE  Structure'
<1>1. call.op \in Operation
  BY DEF TypeOK, KernelTypeOK, Call
<1>2. "error" \notin ReviseLocation
  BY DEF ReviseLocation, RestoreLocation
<1> QED BY <1>1, <1>2, ErrorVisited, StillFrames, PersistStructure
        DEF MarkDrift, UpdateChange

LEMMA EnsureExpectedStructure ==
  ASSUME TypeOK, Structure, UNCHANGED <<phase, retry>>,
         call.at \notin {"ok", "error", "outcomeUnknown"},
         NEW k \in Call, Within(k), NEW matched, NEW l \in Visits(call.op), l # "append",
         call.op = "experiment" /\ l \in ReviseLocation => Revising,
         EnsureExpected(k, matched, l)
  PROVE  Structure'
<1>1. CASE OnlyControl /\ call' = [k EXCEPT !.at = l]
  <2>1. /\ call'.at = l /\ call'.op = k.op /\ call'.change = k.change
        /\ call'.todo = k.todo /\ call'.revision = k.revision
    BY <1>1, MoveShape
  <2> QED BY <1>1, <2>1, StillFrames, MoveStructure DEF Within
<1>2. CASE MarkDrift(k)
  BY <1>2, MarkDriftStructure
<1>3. CASE ReadbackFails
  BY <1>3, ErrorStructure DEF ReadbackFails
<1> QED BY <1>1, <1>2, <1>3 DEF EnsureExpected

LEMMA RecordStructure ==
  ASSUME TypeOK, Structure, UNCHANGED <<phase, retry>>,
         call.at \in ApplyLocation \cup RestoreLocation,
         NEW st, NEW eff, NEW l \in Visits(call.op),
         call.at \in ApplyLocation => l \notin ReviseLocation,
         RecordOutcome(st, l, eff)
  PROVE  Structure'
BY AtRestore, AtApply, StillFrames, PersistStructure DEF RecordOutcome

LEMMA StepStructure ==
  ASSUME TypeOK, Structure, UNCHANGED <<phase, retry>>,
         call.at \in ApplyLocation \cup RestoreLocation,
         NEW l \in ApplyLocation \cup RestoreLocation \cup {"loop", "revisePrepare"},
         l \in Visits(call.op),
         call.at \in ApplyLocation => l \notin ReviseLocation,
         Goto(l)
  PROVE  Structure'
<1>1. /\ call'.at = l /\ call'.op = call.op /\ call'.todo = call.todo
      /\ call'.revision = call.revision /\ call'.change = call.change
  BY AtRestore, AtApply, MoveShape DEF Goto
<1>2. l # "append"
  BY DEF ApplyLocation, RestoreLocation
<1> QED BY <1>1, <1>2, AtRestore, AtApply, StillFrames, MoveStructure DEF Goto, Within

LEMMA ApplyStillStructure ==
  ASSUME TypeOK, Structure, UNCHANGED <<phase, retry>>, ApplyStatus \/ ApplyVerify
  PROVE  Structure'
<1>0. call.at \in ApplyLocation
  BY DEF ApplyStatus, ApplyVerify, ApplyLocation
<1>1. /\ {"applyVerify", "error", AfterApply} \subseteq Visits(call.op)
      /\ {"applyVerify", "error", AfterApply} \cap ReviseLocation = {}
  BY <1>0, AtApply DEF ApplyLocation
<1>2. CASE Goto("applyVerify")
  BY <1>0, <1>1, <1>2, StepStructure DEF ApplyLocation
<1>3. CASE \E st \in ChangeState, eff \in BOOLEAN, l \in {"error", AfterApply} :
             RecordOutcome(st, l, eff)
  BY <1>0, <1>1, <1>3, RecordStructure
<1> QED BY <1>2, <1>3 DEF ApplyStatus, ApplyVerify, ChangeState, SuccessState

LEMMA RestoreStillStructure ==
  ASSUME TypeOK, Structure, UNCHANGED <<phase, retry>>,
         RestoreOne \/ MatchDesired \/ RestoreStatus \/ RestoreVerify
  PROVE  Structure'
<1>0. call.at \in RestoreLocation /\ call.at \notin ApplyLocation
  BY DEF RestoreOne, MatchDesired, RestoreStatus, RestoreVerify, RestoreLocation,
         ApplyLocation
<1>1. /\ {"matchDesired", "restore", "restoreVerify", "error", AfterRestore}
           \subseteq Visits(call.op)
      /\ AfterRestore \in {"loop", "revisePrepare"}
      /\ call \in Call /\ Within(call)
      /\ call.at \notin {"ok", "error", "outcomeUnknown"}
      /\ call.op = "experiment" => Revising
  BY <1>0, AtRestore DEF RestoreLocation, AfterRestore
<1>2. CASE Goto("matchDesired") \/ Goto(AfterRestore) \/ Goto("restoreVerify")
  BY <1>0, <1>1, <1>2, StepStructure DEF RestoreLocation
<1>3. CASE \E st \in ChangeState, eff \in BOOLEAN, l \in {"error", AfterRestore} :
             RecordOutcome(st, l, eff)
  BY <1>0, <1>1, <1>3, RecordStructure
<1>4. CASE UpdateChange(call, "baseline-observed", RestoredState, AfterRestore)
  BY <1>1, <1>4, StillFrames, PersistStructure DEF UpdateChange
<1>5. CASE MarkDrift(call)
  BY <1>1, <1>5, MarkDriftStructure
<1>6. CASE ReadbackFails
  BY <1>1, <1>6, ErrorStructure DEF ReadbackFails
<1>7. CASE AnnounceThen(call, "restore", "Restore", "restore")
  BY <1>1, <1>7, StillFrames, AnnounceStructure DEF AnnounceThen
<1>8. CASE RestoreOne
  BY <1>2, <1>4, <1>5, <1>6, <1>8 DEF RestoreOne
<1>9. CASE MatchDesired
  BY <1>5, <1>6, <1>7, <1>9 DEF MatchDesired
<1>10. CASE RestoreStatus
  BY <1>2, <1>3, <1>10 DEF RestoreStatus, ChangeState
<1>11. CASE RestoreVerify
  BY <1>3, <1>6, <1>11 DEF RestoreVerify, ChangeState, RestoredState
<1> QED BY <1>8, <1>9, <1>10, <1>11

LEMMA LoopStillStructure ==
  ASSUME TypeOK, Structure, UNCHANGED <<phase, retry>>,
         \/ RestoreNext \/ ReplayCheckNext \/ ReplayNext \/ Replayed
         \/ CommitCheckNext \/ FinalizeNext
  PROVE  Structure'
<1>0. call.at = "loop" /\ call.at \notin {"ok", "error", "outcomeUnknown"}
  BY DEF RestoreNext, ReplayCheckNext, ReplayNext, Replayed, CommitCheckNext,
         FinalizeNext, InLoop
<1>1. CASE RestoreNext
  <2>1. PICK c \in Change : Last(c) /\ call' = [Visit(c) EXCEPT !.at = "restoreOne"]
    BY <1>1 DEF RestoreNext
  <2>2. Visit(c) \in Call /\ Within(Visit(c)) /\ call.op # "experiment"
    BY <1>0, <2>1, AtVisit
  <2>3. /\ call'.at = "restoreOne" /\ call'.op = Visit(c).op
        /\ call'.change = Visit(c).change /\ call'.todo = Visit(c).todo
        /\ call'.revision = Visit(c).revision
    BY <2>1, <2>2, MoveShape
  <2>4. "restoreOne" \in Visits(call.op)
    BY <1>1 DEF RestoreNext, InLoop, Visits, RestoreLocation
  <2> QED BY <1>0, <1>1, <2>2, <2>3, <2>4, StillFrames, MoveStructure
          DEF RestoreNext, Within
<1>2. CASE ReplayCheckNext
  BY <1>0, <1>2, AtVisit, EnsureExpectedStructure DEF ReplayCheckNext
<1>3. CASE ReplayNext
  <2>1. PICK c \in Change : First(c) /\ AnnounceThen(Visit(c), "replay", "Apply", "apply")
    BY <1>3 DEF ReplayNext
  <2>2. "apply" \in Visits(call.op)
    BY <1>3 DEF ReplayNext, InLoop, Visits, ApplyLocation
  <2> QED BY <1>0, <2>1, <2>2, AtVisit, StillFrames, AnnounceStructure DEF AnnounceThen
<1>4. CASE Replayed
  <2>1. "ok" \in Visits(call.op) /\ call.op = "replay"
    BY <1>4 DEF Replayed, InLoop, Visits
  <2>2. call \in Call
    BY DEF TypeOK, KernelTypeOK
  <2>3. /\ call'.at = "ok" /\ call'.op = call.op /\ call'.todo = call.todo
        /\ call'.revision = call.revision
    BY <1>4, <2>2, MoveShape DEF Replayed, Goto
  <2>4. "ok" \notin ChangeLocation
    BY DEF ChangeLocation, ReviseLocation, RestoreLocation, ApplyLocation
  <2> QED BY <1>0, <1>4, <2>1, <2>3, <2>4, StillFrames, MoveStructure DEF Replayed, Goto
<1>5. CASE CommitCheckNext
  BY <1>0, <1>5, AtVisit, EnsureExpectedStructure DEF CommitCheckNext
<1>6. CASE FinalizeNext
  <2>1. PICK c \in Change :
          First(c) /\ AnnounceThen(Visit(c), "finalize", "Finalize", "finalize")
    BY <1>6 DEF FinalizeNext
  <2>2. "finalize" \in Visits(call.op)
    BY <1>6 DEF FinalizeNext, InLoop, Visits
  <2> QED BY <1>0, <2>1, <2>2, AtVisit, StillFrames, AnnounceStructure DEF AnnounceThen
<1> QED BY <1>1, <1>2, <1>3, <1>4, <1>5, <1>6

\* One loop of an operation gives way to the next.
LEMMA NextLoopStructure ==
  ASSUME TypeOK, Structure, Still, world' = world \/ WorldInv',
         phase = "CommitPending", call.at = "loop",
         NEW op \in {"replay", "finalize", "finalize_recheck"},
         NEW todo, todo \subseteq Known,
         call' = [call EXCEPT !.op = op, !.todo = todo]
  PROVE  Structure'
<1>1. call'.at = "loop" /\ call'.op = op /\ call'.todo = todo
  BY DEF TypeOK, KernelTypeOK, Call
<1>2. ~Creating'
  BY <1>1 DEF Creating, Appending
<1>3. call.op # "rollback_all"
  BY DEF Structure, ControlInv
<1>4. OrderInv' /\ WorldInv' /\ BaselineInv' /\ MemoryInv' /\ Known' = Known
  BY <1>1, <1>2, <1>3, StillStep
<1>5. ControlInv'
  BY <1>1, SMT DEF ControlInv, Ahead, Visits, Still
<1>6. AppendInv'
  BY <1>1 DEF AppendInv
<1>7. ChangeInv'
  BY <1>1, <1>4 DEF ChangeInv, Revising, Ahead, ChangeLocation, ReviseLocation,
                    RestoreLocation, ApplyLocation
<1> QED BY <1>4, <1>5, <1>6, <1>7 DEF Structure

\* A seal is about to be appended.
LEMMA SealStructure ==
  ASSUME TypeOK, Structure, Still, world' = world \/ WorldInv', call.at = "loop", call.todo = {},
         NEW ev, NEW op,
         \/ call.op = "rollback_all" /\ ev = Sealed("RolledBack")
         \/ call.op = "finalize_recheck" /\ ev = CommitSealed(candidate),
         AppendThen(call, ev, op, "ok", FALSE)
  PROVE  Structure'
<1>1. /\ call'.at = "append" /\ call'.event = ev /\ call'.then = "ok"
      /\ call'.op = call.op /\ call'.todo = {} /\ call'.afterEffect = FALSE
  <2>1. call \in Call
    BY DEF TypeOK, KernelTypeOK
  <2>2. /\ call'.at = "append" /\ call'.event = ev /\ call'.then = "ok"
        /\ call'.op = call.op /\ call'.todo = call.todo /\ call'.afterEffect = FALSE
    BY <2>1 DEF AppendThen, Call
  <2> QED BY <2>2
<1>2. ~Creating'
  BY <1>1, SMT DEF Creating, Appending, Sealed, CommitSealed
<1>3. OrderInv' /\ WorldInv' /\ BaselineInv' /\ MemoryInv' /\ Known' = Known
  BY <1>1, <1>2, StillStep
<1>4. ControlInv'
  BY <1>1, Running DEF Structure, ControlInv, Ahead, Visits, Still
<1>5. AppendInv'
  BY <1>1 DEF AppendInv, Still
<1>6. ChangeInv'
  BY <1>1, <1>3 DEF ChangeInv, Revising, Ahead, ChangeLocation, ReviseLocation,
                    RestoreLocation, ApplyLocation
<1> QED BY <1>3, <1>4, <1>5, <1>6 DEF Structure

LEMMA LoopEndStructure ==
  ASSUME TypeOK, Structure, CommitInv, UNCHANGED <<phase, retry>>,
         Restored \/ ReplayChecked \/ CommitChecked \/ Acknowledged \/ CommitSeal
  PROVE  Structure'
<1>0. call.at = "loop" /\ call.todo = {} /\ call \in Call
  BY DEF Restored, ReplayChecked, CommitChecked, Acknowledged, CommitSeal, InLoop,
         TypeOK, KernelTypeOK
<1>1. Still /\ world' = world
  BY DEF Restored, ReplayChecked, CommitChecked, Acknowledged, CommitSeal, Still,
         OnlyControl, environment, memory
<1>2. phase = "CommitPending" => candidate \subseteq Known /\ Heads \subseteq Known
  BY DEF CommitInv, Heads
<1>3. CASE Restored
  <2>1. CASE InLoop("restore_baseline") /\ At("ok")
    <3>1. /\ call'.at = "ok" /\ call'.op = call.op /\ call'.todo = call.todo
          /\ call'.revision = call.revision
      BY <1>0, <2>1, MoveShape DEF At
    <3>2. "ok" \in Visits(call.op) /\ call.op # "experiment"
      BY <2>1 DEF InLoop, Visits
    <3>3. "ok" \notin ChangeLocation
      BY DEF ChangeLocation, ReviseLocation, RestoreLocation, ApplyLocation
    <3> QED BY <1>0, <1>1, <3>1, <3>2, <3>3, MoveStructure
  <2>2. CASE /\ InLoop("rollback_all")
             /\ AppendThen(call, Sealed("RolledBack"), call.opid, "ok", FALSE)
    BY <1>0, <1>1, <2>2, SealStructure DEF InLoop
  <2> QED BY <1>3, <2>1, <2>2 DEF Restored
<1>4. CASE ReplayChecked \/ CommitChecked \/ Acknowledged
  <2>1. phase = "CommitPending"
    BY <1>0, <1>4, PendingPhase
       DEF Structure, ReplayChecked, CommitChecked, Acknowledged, InLoop
  <2>2. CASE ReplayChecked
    BY <1>0, <1>1, <1>2, <2>1, <2>2, NextLoopStructure DEF ReplayChecked
  <2>3. CASE CommitChecked
    BY <1>0, <1>1, <1>2, <2>1, <2>3, NextLoopStructure DEF CommitChecked
  <2>4. CASE Acknowledged
    BY <1>0, <1>1, <1>2, <2>1, <2>4, NextLoopStructure DEF Acknowledged
  <2> QED BY <1>4, <2>2, <2>3, <2>4
<1>5. CASE CommitSeal
  BY <1>0, <1>1, <1>5, SealStructure DEF CommitSeal, InLoop
<1> QED BY <1>3, <1>4, <1>5

LEMMA CheckStillStructure ==
  ASSUME TypeOK, Structure, UNCHANGED <<phase, retry>>,
         ReviseCheck \/ Finalize \/ AckVerify
  PROVE  Structure'
<1>0. /\ call \in Call /\ call.op \in Operation
      /\ call.at \in {"reviseCheck", "finalize", "ackVerify"}
  BY DEF ReviseCheck, Finalize, AckVerify, TypeOK, KernelTypeOK, Call
<1>1. call.at \in Visits(call.op)
  BY <1>0 DEF Structure, ControlInv, Ahead
<1>2. Within(call)
  BY <1>0 DEF Within, Structure, ChangeInv, Ahead, ChangeLocation, ReviseLocation,
              Creating, Appending
<1>3. call.op = IF call.at = "reviseCheck" THEN "experiment" ELSE "finalize"
  BY <1>0, <1>1 DEF Operation, Visits, ReviseLocation, RestoreLocation, ApplyLocation
<1>4. CASE ReviseCheck
  <2>1. Revising
    BY <1>3, <1>4 DEF ReviseCheck, Revising, Ahead, ReviseLocation
  <2>2. {"restoreOne", "error"} \subseteq Visits(call.op)
    BY <1>3, <1>4 DEF ReviseCheck, Visits, ReviseLocation, RestoreLocation
  <2> QED BY <1>0, <1>2, <1>4, <2>1, <2>2, EnsureExpectedStructure DEF ReviseCheck
<1>5. CASE Finalize
  <2>1. Still /\ world' = world
    BY <1>5 DEF Finalize, DriverFrame, Still, environment, memory
  <2>2. {"ackVerify", "error"} \subseteq Visits(call.op) /\ call.op = "finalize"
    BY <1>3, <1>5 DEF Finalize, Visits
  <2>3. \/ Persist(call, "CandidateApplied", call.opid, "ackVerify", FALSE)
        \/ Persist(call, "CandidateApplied", call.opid, "error", FALSE)
    BY <1>5 DEF Finalize, Inconclusive
  <2> QED BY <1>0, <1>2, <2>1, <2>2, <2>3, PersistStructure
<1>6. CASE AckVerify
  <2>1. "loop" \in Visits(call.op) /\ call.op = "finalize"
    BY <1>3, <1>6 DEF AckVerify, Visits
  <2> QED BY <1>0, <1>2, <1>6, <2>1, EnsureExpectedStructure DEF AckVerify
<1> QED BY <1>4, <1>5, <1>6

---------------------------------------------------------------------------
(* Steps that act on the tuned system. *)

\* Whatever a driver does for a known change, that change explains it.
LEMMA EffectWorld ==
  ASSUME TypeOK, Structure, Still, Within(call),
         (call'.op = "rollback_all") <=> (call.op = "rollback_all"),
         call.at \notin {"ok", "error", "outcomeUnknown"},
         NEW v, Set(call.change, v),
         v \in {Desired, Baseline} \/ prepared[call.change].resource \in normalised'
  PROVE  WorldInv'
<1>0. Known' = Known /\ LogChanges(log)' = LogChanges(log) /\ Active' = Active
  BY DEF Still, Known, LogChanges, Active, InEpisode
<1>1. Active
  BY Running DEF Structure, TypeOK, Active, InEpisode, EpisodePhase, StartupStage
<1> DEFINE q == prepared[call.change].resource
<1>2. call.change \in Change /\ call.change \in Known /\ call.change \in LogChanges(log)
  BY DEF Within, Known, Structure, MemoryInv
<1>3. q \in Resource /\ prepared[call.change] \in PreparedMutation
  BY <1>2 DEF TypeOK, KernelTypeOK, PreparedMutation
<1>4. world' = [world EXCEPT ![q] = v] /\ (v \in {Desired, Baseline} \/ q \in normalised')
  BY DEF Set
<1>5. q \notin drifted => Baseline = origin[q]
  BY <1>2 DEF Structure, BaselineInv, Undrifted, Baseline
<1> HIDE DEF q
<1> SUFFICES ASSUME NEW r \in Resource \ drifted, world'[r] # origin[r]
             PROVE  \E c \in Known : Explains(c, r)'
  BY <1>0, <1>1 DEF WorldInv, Still
<1>6. CASE r # q
  <2>1. world'[r] = world[r]
    BY <1>4, <1>6 DEF TypeOK, KernelTypeOK
  <2>2. \E c \in Known : Explains(c, r)
    BY <1>1, <2>1 DEF Structure, WorldInv
  <2> QED BY <2>1, <2>2 DEF Explains, Still
<1>7. CASE r = q
  <2>1. world'[r] = v
    BY <1>3, <1>4, <1>7 DEF TypeOK, KernelTypeOK
  <2>2. v = Desired \/ q \in normalised'
    BY <1>4, <1>5, <1>7, <2>1
  <2>3. prepared[call.change].resource = r /\ prepared[call.change].baseline = origin[r]
    BY <1>5, <1>7 DEF Baseline, q
  <2> QED BY <1>2, <1>7, <2>1, <2>2, <2>3 DEF Explains, Still, Desired
<1> QED BY <1>6, <1>7

\* Where a request to a driver, or its write, goes on.
Answered == IF call.at \in {"apply", "applyWrite"}
              THEN {"applyWrite", "applyVerify", "applyStatus"}
              ELSE {"restoreWrite", "restoreVerify", "restoreStatus"}

LEMMA EffectStructure ==
  ASSUME TypeOK, Structure, UNCHANGED <<phase, retry>>,
         Apply \/ ApplyWrite \/ Restore \/ RestoreWrite
  PROVE  Structure'
<1>0. /\ call.at \in {"apply", "applyWrite", "restore", "restoreWrite"}
      /\ call \in Call /\ Within(call)
      /\ call.at \notin {"ok", "error", "outcomeUnknown"}
      /\ call.op = "experiment" /\ call.at \in {"restore", "restoreWrite"} => Revising
      /\ {"error"} \cup Answered \subseteq Visits(call.op)
  <2>1. CASE Apply \/ ApplyWrite
    BY <2>1, AtApply DEF Apply, ApplyWrite, ApplyLocation, Answered
  <2>2. CASE Restore \/ RestoreWrite
    BY <2>2, AtRestore DEF Restore, RestoreWrite, RestoreLocation, Answered
  <2> QED BY <2>1, <2>2
<1>1. Still
  BY DEF Apply, Restore, ApplyWrite, RestoreWrite, DriverFrame, WriteFrame, Stores,
         StoresOther, StoresNothing, StoresSomething, Still, environment, memory
<1>2. \/ \E st \in ChangeState : Persist(call, st, call.opid, "error", FALSE)
      \/ \E l \in Answered : call' = [call EXCEPT !.at = l]
  BY DEF Apply, Restore, ApplyWrite, RestoreWrite, At, Inconclusive, ChangeState, Answered
<1>3. call'.op = call.op
  BY <1>0, <1>2, PersistShape, MoveShape
<1>4. \/ world' = world
      \/ \E v : /\ Set(call.change, v)
                /\ v \in {Desired, Baseline} \/ prepared[call.change].resource \in normalised'
  BY DEF Apply, Restore, ApplyWrite, RestoreWrite, DriverFrame, Stores, StoresOther,
         StoresNothing, StoresSomething, environment
<1>5. world' = world \/ WorldInv'
  BY <1>0, <1>1, <1>3, <1>4, EffectWorld
<1>6. {"error", "applyWrite", "applyVerify", "applyStatus"} \cap ReviseLocation = {}
  BY DEF ReviseLocation, RestoreLocation
<1>7. CASE \E st \in ChangeState : Persist(call, st, call.opid, "error", FALSE)
  BY <1>0, <1>1, <1>5, <1>6, <1>7, PersistStructure
<1>8. CASE \E l \in Answered : call' = [call EXCEPT !.at = l]
  <2>1. PICK l \in Answered : call' = [call EXCEPT !.at = l]
    BY <1>8
  <2>2. /\ call'.at = l /\ call'.op = call.op /\ call'.change = call.change
        /\ call'.todo = call.todo /\ call'.revision = call.revision
    BY <1>0, <2>1, MoveShape
  <2>3. l # "append" /\ l \in Visits(call.op)
    BY <1>0 DEF Answered
  <2>4. call.op = "experiment" /\ l \in ReviseLocation => Revising
    BY <1>0, <1>6 DEF Answered
  <2> QED BY <1>0, <1>1, <1>5, <2>2, <2>3, <2>4, MoveStructure DEF Within
<1> QED BY <1>2, <1>7, <1>8

---------------------------------------------------------------------------
(* Steps that prepare a change. *)

LEMMA FirstRecordStructure ==
  ASSUME TypeOK, Structure, phase = "Experimenting",
         call.at \notin {"error", "outcomeUnknown"},
         NEW c \in Change, IsNextChange(c), Rewrites(c),
         prepared'[c].resource \notin drifted =>
           prepared'[c].baseline = origin[prepared'[c].resource],
         NEW k \in Call, k.op = "experiment", k.todo \subseteq Known,
         NEW op, NEW head, FirstRecord(k, c, op, head)
  PROVE  Structure'
<1>1. /\ call'.at = "append" /\ call'.then = "apply" /\ call'.afterEffect = FALSE
      /\ call'.event.type = "ChangeUpsert" /\ call'.event.change = c
      /\ call'.op = "experiment" /\ call'.change = c /\ call'.todo = k.todo
  <2> DEFINE k2 == [k EXCEPT !.change = c]
  <2>1. k2 \in Call
    BY DEF Call
  <2>2. k2.op = k.op /\ k2.change = c /\ k2.todo = k.todo
    BY DEF Call
  <2>3. AppendThen(k2, ChangeUpsert(c, "IntentDurable", FALSE, op, head), op, "apply", FALSE)
    BY DEF FirstRecord
  <2> HIDE DEF k2
  <2>4. /\ call'.at = "append" /\ call'.then = "apply" /\ call'.afterEffect = FALSE
        /\ call'.event = ChangeUpsert(c, "IntentDurable", FALSE, op, head)
        /\ call'.op = k2.op /\ call'.change = k2.change /\ call'.todo = k2.todo
    BY <2>1, <2>3 DEF AppendThen, Call
  <2> QED BY <2>2, <2>4, SMT DEF ChangeUpsert
<1>2. /\ OrderInv' /\ WorldInv' /\ MemoryInv' /\ Known' = Known /\ c \notin Known
      /\ IsNextChange(c)' /\ \A d \in LogChanges(log) : d # c
      /\ LogChanges(log)' = LogChanges(log)
  BY <1>1, RewriteKeeps
<1>3. Creating'
  BY <1>1, <1>2 DEF Creating, Appending
<1>4. "apply" \in Visits("experiment") /\ "apply" \notin ReviseLocation
  BY DEF Visits, ApplyLocation, ReviseLocation, RestoreLocation
<1>5. ControlInv'
  BY <1>1, <1>4 DEF ControlInv, Ahead, Rewrites
<1>6. AppendInv'
  BY <1>1, <1>2, <1>3 DEF AppendInv
<1>7. ChangeInv'
  BY <1>1, <1>2, <1>3, <1>4 DEF ChangeInv, Revising, Ahead
<1>8. BaselineInv'
  <2>1. \A d \in Change : d # c /\ d \in LogChanges(log) /\ Undrifted(d) =>
                            prepared[d].baseline = origin[prepared[d].resource]
    BY DEF Structure, BaselineInv
  <2> QED BY <1>1, <1>2, <2>1 DEF BaselineInv, Rewrites, Undrifted
<1> QED BY <1>2, <1>5, <1>6, <1>7, <1>8 DEF Structure

LEMMA RevisePrepareStructure ==
  ASSUME TypeOK, Structure, UNCHANGED <<phase, retry>>, RevisePrepare
  PROVE  Structure'
<1>0. call \in Call /\ call.op \in Operation /\ call.at = "revisePrepare"
  BY DEF TypeOK, KernelTypeOK, Call, RevisePrepare
<1>1. call.op = "experiment"
  BY <1>0 DEF Structure, ControlInv, Ahead, Operation, Visits, RestoreLocation,
              ApplyLocation
<1>2. phase = "Experimenting"
  BY <1>0, <1>1, ExperimentPhase DEF Structure
<1>3. /\ call.change \in Known /\ call.todo \subseteq Known
      /\ IsNextChange(call.revision) /\ call.revision \in Change
      /\ prepared[call.revision].resource = prepared[call.change].resource
  BY <1>0, <1>1 DEF Structure, ChangeInv, Revising, Ahead, ChangeLocation,
                    ReviseLocation, Creating, Appending, Call
<1>4. CASE At("error") /\ UNCHANGED prepared
  <2>1. Still /\ world' = world
    BY <1>4 DEF RevisePrepare, Still, environment
  <2> QED BY <1>0, <1>4, <2>1, FailStructure
<1>5. CASE /\ prepared' = [prepared EXCEPT ![call.revision].baseline = Holds(call.change)]
           /\ Holds(call.change) = Baseline
           /\ FirstRecord(call, call.revision, NextOperationId("revision"), {call.change})
  <2>1. Rewrites(call.revision)
    BY <1>3, <1>5 DEF RevisePrepare, Rewrites, TypeOK, KernelTypeOK, environment
  <2>2. /\ prepared'[call.revision].resource = prepared[call.change].resource
        /\ prepared'[call.revision].baseline = prepared[call.change].baseline
    BY <1>3, <1>5, SMT DEF TypeOK, KernelTypeOK, PreparedMutation, Baseline
  <2>3. prepared[call.change].resource \notin drifted =>
          prepared[call.change].baseline = origin[prepared[call.change].resource]
    BY <1>3 DEF Structure, MemoryInv, BaselineInv, Undrifted, Known
  <2> QED BY <1>0, <1>1, <1>2, <1>3, <1>5, <2>1, <2>2, <2>3, FirstRecordStructure
<1> QED BY <1>4, <1>5 DEF RevisePrepare

LEMMA PrepareStructure ==
  ASSUME TypeOK, Structure, UNCHANGED <<phase, retry>>, phase = "Experimenting", Idle,
         NEW r \in Resource, NEW d \in Value, NEW c \in Change, Prepare(r, d, c)
  PROVE  Structure'
<1>0. /\ Calls("experiment") \in Call /\ call.at = "ok"
      /\ Calls("experiment").op = "experiment" /\ Calls("experiment").todo = {}
  BY ControlTypes DEF Operation, Calls, IdleCall, Idle
<1>1. Rewrites(c) /\ IsNextChange(c)
  BY DEF Prepare, Rewrites, environment, TypeOK, KernelTypeOK
<1>2. prepared'[c] = [resource |-> r, baseline |-> world[r], desired |-> d]
  BY DEF Prepare, TypeOK, KernelTypeOK
<1>3. CASE /\ Head(r) = {}
           /\ FirstRecord(Calls("experiment"), c, NextOperationId("experiment"), {})
  <2>1. prepared'[c].resource \notin drifted =>
          prepared'[c].baseline = origin[prepared'[c].resource]
    BY <1>2, <1>3, UntouchedResource, SMT
  <2>2. call.at \notin {"error", "outcomeUnknown"}
    BY <1>0
  <2> QED BY <1>0, <1>1, <1>3, <2>1, <2>2, FirstRecordStructure
<1>4. CASE \E h \in Head(r) :
             call' = [Calls("experiment") EXCEPT
                        !.at = "reviseCheck", !.change = h, !.revision = c]
  <2>1. PICK h \in Head(r) :
               call' = [Calls("experiment") EXCEPT
                          !.at = "reviseCheck", !.change = h, !.revision = c]
    BY <1>4
  <2>2. /\ call'.at = "reviseCheck" /\ call'.op = "experiment" /\ call'.change = h
        /\ call'.revision = c /\ call'.todo = {}
    BY <1>0, <2>1 DEF Call
  <2>3. h \in Known /\ prepared[h].resource = r /\ h \in Change
    BY DEF Head, ResourceHead, Known
  <2>4. /\ OrderInv' /\ WorldInv' /\ MemoryInv' /\ Known' = Known /\ c \notin Known
        /\ IsNextChange(c)' /\ \A x \in LogChanges(log) : x # c
        /\ LogChanges(log)' = LogChanges(log)
    BY <1>0, <1>1, <2>2, RewriteKeeps
  <2>5. ~Creating'
    BY <2>2 DEF Creating, Appending
  <2>6. ControlInv'
    BY <2>2 DEF ControlInv, Ahead, Visits, ReviseLocation
  <2>7. AppendInv'
    BY <2>2 DEF AppendInv
  <2>8. ChangeInv'
    <3>1. prepared'[c].resource = r /\ prepared'[h].resource = r
      BY <1>1, <1>2, <2>3, <2>4, SMT DEF Rewrites
    <3> QED BY <2>2, <2>3, <2>4, <3>1 DEF ChangeInv, Revising, Ahead
  <2>9. BaselineInv'
    <3>1. \A x \in Change : x # c /\ x \in LogChanges(log) /\ Undrifted(x) =>
                              prepared[x].baseline = origin[prepared[x].resource]
      BY DEF Structure, BaselineInv
    <3> QED BY <1>1, <2>4, <2>5, <3>1 DEF BaselineInv, Rewrites, Undrifted
  <2> QED BY <2>4, <2>6, <2>7, <2>8, <2>9 DEF Structure
<1> QED BY <1>3, <1>4 DEF Prepare

---------------------------------------------------------------------------
(* Appends. *)

\* A change joins the known ones as the latest of its resource.
LEMMA JoinOrder ==
  ASSUME TypeOK, Structure, NEW c \in Change, IsNextChange(c),
         Known' = Known \cup {c}, UNCHANGED <<prepared, phase>>
  PROVE  OrderInv'
<1> SUFFICES ASSUME phase \in {"Experimenting", "CommitPending"} PROVE OrderInv'
  BY DEF OrderInv
<1>0. \A d \in Known : d \in Change
  BY DEF Known
<1>1. \A d \in Known : d < c
  BY <1>0, SMT DEF Structure, OrderInv, IsNextChange, Change
<1>2. \A x \in Known', d \in Change : d < x => d \in Known'
  BY <1>0 DEF Structure, OrderInv, IsNextChange
<1>3. ASSUME NEW x \in Known' PROVE Head(prepared[x].resource)' # {}
  <2>1. CASE prepared[x].resource = prepared[c].resource
    <3>1. \A d \in Known' : d <= c
      BY <1>0, <1>1, MaxChangesAssumption, SMT DEF Change
    <3>2. c \in Head(prepared[x].resource)'
      BY <2>1, <3>1 DEF Head, ResourceHead
    <3> QED BY <3>2
  <2>2. CASE prepared[x].resource # prepared[c].resource
    <3>1. x \in Known
      BY <2>2
    <3>2. PICK h : h \in Head(prepared[x].resource)
      BY <3>1 DEF Structure, OrderInv
    <3>3. h \in Head(prepared[x].resource)'
      BY <2>2, <3>2 DEF Head, ResourceHead
    <3> QED BY <3>3
  <2> QED BY <2>1, <2>2
<1> QED BY <1>2, <1>3 DEF OrderInv

LEMMA AppendDurableStructure ==
  ASSUME TypeOK, Structure, UNCHANGED <<phase, retry>>, AppendDurable
  PROVE  Structure'
<1>0. call \in Call /\ call.op \in Operation /\ call.at = "append"
  BY DEF TypeOK, KernelTypeOK, Call, AppendDurable
<1>1. /\ call'.at = call.then /\ call'.op = call.op /\ call'.change = call.change
      /\ call'.todo = call.todo /\ call'.revision = call.revision
  BY <1>0 DEF AppendDurable, Call
<1>2. /\ Known' = Known \cup NewChange
      /\ LogChanges(log)' = LogChanges(log) \cup NewChange
      /\ PendingOperations(log)' \subseteq LogChanges(log)'
  <2>1. log' = Written /\ Memorise(call.event)
    BY DEF AppendDurable
  <2>2. LogChanges(log)' = LogChanges(Written) /\ PendingOperations(log)' = PendingOperations(Written)
    BY <2>1 DEF LogChanges, PendingOperations
  <2> QED BY <1>0, <2>1, <2>2, WrittenChanges
<1>3. call.then \in Visits(call.op) /\ call.then # "append"
  BY <1>0, AppendVisits DEF Structure, ControlInv, Ahead
<1>4. UNCHANGED <<world, origin, drifted, normalised, prepared, candidate>>
  BY DEF AppendDurable, environment
<1>5. /\ phase \notin {"RecoveryRequired", "Committed", "Clean", "Down", "Ready", "Blocked"}
      /\ call # IdleCall
      /\ phase \in {"EarlyPass", "Gate"} => call.op = "rollback_all"
  BY <1>0, Running DEF Structure
<1>6. Active /\ Active'
  BY <1>1, <1>5 DEF Active, InEpisode, TypeOK, EpisodePhase, StartupStage
<1>7. ControlInv'
  BY <1>1, <1>3, <1>5 DEF ControlInv, Ahead, Structure
<1>8. AppendInv'
  BY <1>1, <1>3 DEF AppendInv
<1>9. ~Creating' /\ Ahead' = Ahead
  BY <1>0, <1>1, <1>3 DEF Creating, Appending, Ahead
<1>10. ChangeInv'
  <2>1. call'.todo \subseteq Known'
    BY <1>1, <1>2 DEF Structure, ChangeInv
  <2>2. Ahead' \in ChangeLocation => call'.change \in Known'
    BY <1>1, <1>2, <1>9 DEF Structure, ChangeInv, NewChange
  <2>3. Revising' => Revising /\ Known' = Known
    BY <1>0, <1>1, <1>2, <1>9
       DEF Revising, Structure, AppendInv, NewChange, Ahead, ReviseLocation,
           RestoreLocation, Creating, Appending, Started, Sealed, CommitSealed
  <2> QED BY <1>1, <1>4, <1>9, <2>1, <2>2, <2>3 DEF ChangeInv, Structure, IsNextChange
<1>11. MemoryInv'
  BY <1>0, <1>2, <1>6 DEF MemoryInv, Structure
<1>12. OrderInv'
  <2>1. CASE Creating
    <3>1. IsNextChange(call.change) /\ call.change \in Change
      BY <1>0, <2>1, SMT DEF Structure, AppendInv, Creating, Appending, Started, Sealed,
                        CommitSealed, Call
    <3> QED BY <1>2, <1>4, <2>1, <3>1, JoinOrder DEF NewChange
  <2>2. CASE ~Creating
    <3>1. Known' = Known
      BY <1>2, <2>2 DEF NewChange
    <3> QED BY <1>4, <3>1, SMT DEF Structure, OrderInv, Head, ResourceHead
  <2> QED BY <2>1, <2>2
<1>13. BaselineInv'
  BY <1>2, <1>4, <1>9 DEF BaselineInv, Structure, NewChange, Undrifted
<1>14. WorldInv'
  BY <1>2, <1>4, <1>6 DEF WorldInv, Structure, Explains
<1> QED BY <1>7, <1>8, <1>10, <1>11, <1>12, <1>13, <1>14 DEF Structure

LEMMA AppendFailsStructure ==
  ASSUME TypeOK, Structure, UNCHANGED <<phase, retry>>, AppendFails
  PROVE  Structure'
<1>0. /\ call \in Call /\ call.op \in Operation /\ call.at = "append"
      /\ call.change \in Change
  BY DEF TypeOK, KernelTypeOK, Call, AppendFails
<1>1. /\ call'.at = IF call.event.type = "CommitSealed" THEN "outcomeUnknown" ELSE "error"
      /\ call'.op = call.op /\ call'.todo = call.todo
  BY <1>0 DEF AppendFails, Call
<1>2. Known' = Known
  BY <1>0 DEF AppendFails, Structure, AppendInv, Known, Absent, TypeOK, KernelTypeOK
<1>3. /\ LogChanges(log)' \in {LogChanges(log), LogChanges(log) \cup NewChange}
      /\ PendingOperations(log)' \subseteq LogChanges(log)'
  BY <1>0, StoppedLog DEF AppendFails, LogStops
<1>4. UNCHANGED <<world, origin, drifted, normalised, prepared, candidate>>
  BY DEF AppendFails, environment
<1>5. /\ phase \notin {"RecoveryRequired", "Committed", "Clean", "Down", "Ready", "Blocked"}
      /\ phase \in {"EarlyPass", "Gate"} => call.op = "rollback_all"
  BY <1>0, Running DEF Structure
<1>6. Active /\ Active'
  BY <1>1, <1>5 DEF Active, InEpisode, TypeOK, EpisodePhase, StartupStage
<1>7. call'.at \in Visits(call.op) /\ call'.at \in {"error", "outcomeUnknown"}
  <2>1. call.event.type = "CommitSealed" => call.op = "finalize_recheck"
    <3>1. AppendInv
      BY DEF Structure
    <3> QED BY <1>0, <3>1, SMT DEF AppendInv, Started, Sealed
  <2>2. "outcomeUnknown" \in Visits("finalize_recheck")
    BY DEF Visits
  <2> QED BY <1>0, <1>1, <2>1, <2>2, ErrorVisited
<1>8. ControlInv'
  BY <1>1, <1>5, <1>7 DEF ControlInv, Ahead, Structure
<1>9. AppendInv' /\ ~Creating'
  BY <1>7 DEF AppendInv, Creating, Appending
<1>10. ChangeInv'
  BY <1>1, <1>2, <1>7 DEF ChangeInv, Structure, Ahead, Revising, ChangeLocation,
                          ReviseLocation, RestoreLocation, ApplyLocation
<1>11. MemoryInv'
  BY <1>2, <1>3, <1>6, <1>7 DEF MemoryInv, Structure
<1>12. OrderInv'
  BY <1>2, <1>4, SMT DEF Structure, OrderInv, Head, ResourceHead
<1>13. BaselineInv'
  BY <1>3, <1>4, <1>9 DEF BaselineInv, Structure, NewChange, Undrifted
<1>14. WorldInv'
  BY <1>2, <1>4, <1>6 DEF WorldInv, Structure, Explains
<1> QED BY <1>8, <1>9, <1>10, <1>11, <1>12, <1>13, <1>14 DEF Structure

\* Every step inside an operation of the kernel keeps the structure.
LEMMA KernelStepStructure ==
  ASSUME TypeOK, Structure, CommitInv, Step
  PROVE  Structure'
BY AppendDurableStructure, AppendFailsStructure, EffectStructure, ApplyStillStructure,
   RestoreStillStructure, LoopStillStructure, LoopEndStructure, CheckStillStructure,
   RevisePrepareStructure
   DEF Step, KernelStep

---------------------------------------------------------------------------
(* Steps of the coordinator, of the process and of outsiders. *)

\* The coordinator starts an operation, or learns that it may not.
LEMMA NewCallStructure ==
  ASSUME TypeOK, Structure, SameData, InEpisode,
         call'.at \in {"loop", "error"}, call'.at \in Visits(call'.op),
         call'.todo \subseteq Known,
         \/ phase' = "Experimenting" /\ call'.op = "experiment"
         \/ phase' = "CommitPending"
              /\ call'.op \notin {"begin", "experiment", "rollback_all"}
         \/ phase' = "RollingBack" /\ call'.op = "rollback_all",
         phase' \in {"Experimenting", "CommitPending"} =>
           /\ phase \in {"Experimenting", "CommitPending"}
           /\ call.at \notin {"error", "outcomeUnknown"}
  PROVE  Structure'
<1>0. /\ Known' = Known /\ LogChanges(log)' = LogChanges(log)
      /\ PendingOperations(log)' = PendingOperations(log)
  BY DEF SameData, Known, LogChanges, PendingOperations
<1>1. Active /\ Active'
  BY DEF Active, InEpisode, EpisodePhase
<1>2. ~Creating' /\ ~Revising'
  BY DEF Creating, Appending, Revising, Ahead, ReviseLocation, RestoreLocation
<1>3. ControlInv' /\ AppendInv'
  BY DEF ControlInv, Ahead, AppendInv
<1>4. ChangeInv'
  BY <1>0, <1>2 DEF ChangeInv, Ahead, ChangeLocation, ReviseLocation, RestoreLocation,
                    ApplyLocation
<1>5. MemoryInv'
  BY <1>0, <1>1 DEF MemoryInv, Structure
<1>6. OrderInv'
  BY <1>0, SMT DEF OrderInv, Structure, SameData, Head, ResourceHead
<1>7. BaselineInv'
  BY <1>0, <1>2 DEF BaselineInv, Structure, SameData, Undrifted
<1>8. WorldInv'
  BY <1>0, <1>1 DEF WorldInv, Structure, SameData, Explains
<1> QED BY <1>3, <1>4, <1>5, <1>6, <1>7, <1>8 DEF Structure

\* An operation ends, and with it the episode.
LEMMA EndStructure ==
  ASSUME TypeOK, Structure, InEpisode, UNCHANGED kernelVars,
         call.at \in {"ok", "error", "outcomeUnknown"},
         phase' \in {"RecoveryRequired", "Committed", "Clean"}
  PROVE  Structure'
<1>0. /\ SameData /\ call' = call /\ Known' = Known
      /\ LogChanges(log)' = LogChanges(log)
      /\ PendingOperations(log)' = PendingOperations(log)
  BY DEF SameData, Known, LogChanges, PendingOperations, kernelVars, environment, memory
<1>1. Active /\ Active'
  BY DEF Active, InEpisode, EpisodePhase
<1>2. ~Creating' /\ ~Revising' /\ Ahead' = Ahead /\ ~Creating
  BY <1>0 DEF Creating, Appending, Revising, Ahead, ReviseLocation, RestoreLocation
<1>3. ControlInv' /\ AppendInv'
  BY <1>0, <1>2 DEF ControlInv, AppendInv, Structure
<1>4. ChangeInv'
  BY <1>0, <1>2 DEF ChangeInv, Structure
<1>5. MemoryInv'
  BY <1>0, <1>1 DEF MemoryInv, Structure
<1>6. OrderInv'
  BY DEF OrderInv
<1>7. BaselineInv'
  BY <1>0, <1>2 DEF BaselineInv, Structure, SameData, Undrifted
<1>8. WorldInv'
  BY <1>0, <1>1 DEF WorldInv, Structure, SameData, Explains
<1> QED BY <1>3, <1>4, <1>5, <1>6, <1>7, <1>8 DEF Structure

\* The memory is lost, and with it the append in progress.
LEMMA LossStructure ==
  ASSUME TypeOK, Structure, LoseMemory, UNCHANGED <<environment, prepared>>, LogStops,
         phase' \in StartupStage
  PROVE  Structure'
<1>0. /\ Known' = {} /\ LogChanges(log) \subseteq LogChanges(log)'
      /\ LogChanges(log)' \subseteq LogChanges(log) \cup NewChange
      /\ PendingOperations(log)' \subseteq LogChanges(log)'
      /\ UNCHANGED <<world, origin, drifted, normalised>>
  <2>1. Known' = {} /\ UNCHANGED <<world, origin, drifted, normalised>>
    BY DEF Known, LoseMemory, environment
  <2> QED BY <2>1, StoppedLog
<1>1. /\ call' = IdleCall /\ call'.at = "ok" /\ call'.op = "begin" /\ call'.todo = {}
  BY DEF LoseMemory, IdleCall
<1>2. ~Active'
  BY <1>1 DEF Active, InEpisode, EpisodePhase, StartupStage
<1>3. ~Creating' /\ ~Revising' /\ Ahead' = "ok"
  BY <1>1 DEF Creating, Appending, Revising, Ahead
<1>4. ControlInv' /\ AppendInv'
  BY <1>1, <1>3 DEF ControlInv, AppendInv, Visits, StartupStage
<1>5. ChangeInv'
  BY <1>1, <1>3 DEF ChangeInv, ChangeLocation, ReviseLocation, RestoreLocation,
                    ApplyLocation
<1>6. MemoryInv'
  BY <1>0 DEF MemoryInv, StartupStage
<1>7. OrderInv'
  BY DEF OrderInv, StartupStage
<1>8. BaselineInv'
  BY <1>0, <1>3 DEF BaselineInv, Structure, Undrifted, NewChange
<1>9. WorldInv'
  <2>1. Known \subseteq LogChanges(log)'
    BY <1>0 DEF Structure, MemoryInv
  <2> QED BY <1>0, <1>2, <2>1 DEF WorldInv, Structure, Explains
<1> QED BY <1>4, <1>5, <1>6, <1>7, <1>8, <1>9 DEF Structure

LEMMA RestartStructure ==
  ASSUME TypeOK, Structure, Restart
  PROVE  Structure'
<1>0. /\ SameData /\ call' = call /\ Known' = Known /\ call = IdleCall
      /\ LogChanges(log)' = LogChanges(log)
      /\ PendingOperations(log)' = PendingOperations(log)
      /\ phase = "Down" /\ phase' = "EarlyPass"
  BY DEF SameData, Known, LogChanges, PendingOperations, kernelVars, environment, memory,
         Restart, Structure, ControlInv
<1>1. ~Active /\ ~Active'
  BY <1>0 DEF Active, InEpisode, EpisodePhase, IdleCall
<1>2. ~Creating' /\ ~Creating /\ Revising' = Revising /\ Ahead' = Ahead
  BY <1>0 DEF Creating, Appending, Revising, Ahead, IdleCall
<1>3. ControlInv' /\ AppendInv'
  BY <1>0, <1>2 DEF ControlInv, AppendInv, Structure, IdleCall
<1>4. ChangeInv'
  BY <1>0, <1>2 DEF ChangeInv, Structure, SameData, IsNextChange
<1>5. MemoryInv'
  BY <1>0, <1>1 DEF MemoryInv, Structure
<1>6. OrderInv'
  BY <1>0 DEF OrderInv
<1>7. BaselineInv'
  BY <1>0, <1>2 DEF BaselineInv, Structure, SameData, Undrifted
<1>8. WorldInv'
  BY <1>0, <1>1 DEF WorldInv, Structure, SameData, Explains
<1> QED BY <1>3, <1>4, <1>5, <1>6, <1>7, <1>8 DEF Structure

\* recover rebuilds every change of the log.
LEMMA RecoverStructure ==
  ASSUME TypeOK, Structure, RecoverPending
  PROVE  Structure'
<1>0. /\ phase \in {"EarlyPass", "Gate"} /\ phase' = phase /\ call.op = "begin"
      /\ UNCHANGED <<world, origin, drifted, normalised, log, prepared>>
  BY DEF RecoverPending, RecoverAndRollback, Rebuild, environment
<1>1. /\ call'.at = "loop" /\ call'.op = "rollback_all" /\ call'.todo = LogChanges(log)
  <2>1. Calls("rollback_all") \in Call /\ Calls("rollback_all").op = "rollback_all"
    BY ControlTypes DEF Operation, Calls, IdleCall
  <2> QED BY <2>1 DEF RecoverPending, RecoverAndRollback, Rebuild, Call
<1>2. Known' = LogChanges(log)
  <2>1. \A c \in Change : changes'[c] = RecoveredState(log, c)
    BY DEF RecoverPending, RecoverAndRollback, Rebuild
  <2>2. \A c \in Change : log.intent[c] # {} => log.state[c] # Absent
    BY DEF Structure, MemoryInv, PendingOperations, LogChanges
  <2>3. \A c \in Change : RecoveredState(log, c) # Absent <=> log.state[c] # Absent
    BY <2>2 DEF RecoveredState, Absent
  <2> QED BY <2>1, <2>3 DEF Known, LogChanges
<1>3. ~Active /\ Active'
  BY <1>0, <1>1 DEF Active, InEpisode, EpisodePhase
<1>4. ~Creating' /\ ~Revising' /\ Ahead' = "loop"
  BY <1>1 DEF Creating, Appending, Revising, Ahead
<1>5. ControlInv' /\ AppendInv'
  BY <1>0, <1>1, <1>4 DEF ControlInv, AppendInv, Visits
<1>6. ChangeInv'
  BY <1>1, <1>2, <1>4 DEF ChangeInv, ChangeLocation, ReviseLocation, RestoreLocation,
                          ApplyLocation
<1>7. MemoryInv'
  BY <1>0, <1>2, <1>3 DEF MemoryInv, Structure, LogChanges, PendingOperations
<1>8. OrderInv'
  BY <1>0 DEF OrderInv
<1>9. BaselineInv'
  BY <1>0, <1>4 DEF BaselineInv, Structure, Undrifted, LogChanges
<1>10. WorldInv'
  BY <1>0, <1>2, <1>3 DEF WorldInv, Structure, Explains
<1> QED BY <1>5, <1>6, <1>7, <1>8, <1>9, <1>10 DEF Structure

\* An outsider takes a resource out of what the kernel answers for.
LEMMA DriftStructure ==
  ASSUME TypeOK, Structure, Drift
  PROVE  Structure'
<1>1. PICK r \in Resource, v \in Value : ExternalWrite(r, v)
  BY DEF Drift
<1>2. /\ UNCHANGED <<origin, normalised, log, prepared, changes, candidate, call, phase, retry>>
      /\ world' = [world EXCEPT ![r] = v] /\ drifted' = drifted \cup {r}
  <2>1. UNCHANGED <<phase, retry>>
    BY DEF Drift
  <2> QED BY <1>1, <2>1 DEF ExternalWrite, memory
<1>3. /\ Known' = Known /\ LogChanges(log)' = LogChanges(log)
      /\ PendingOperations(log)' = PendingOperations(log)
      /\ Active' = Active /\ Creating' = Creating /\ Revising' = Revising /\ Ahead' = Ahead
  BY <1>2 DEF Known, LogChanges, PendingOperations, Active, InEpisode, Creating,
              Appending, Revising, Ahead
<1>4. ControlInv' /\ AppendInv' /\ ChangeInv'
  <2>1. ControlInv'
    BY <1>2, <1>3 DEF ControlInv, Structure
  <2>2. \A c \in Change : IsNextChange(c)' <=> IsNextChange(c)
    BY <1>3 DEF IsNextChange
  <2>3. call.change \in Change /\ call.revision \in Change
    BY DEF TypeOK, KernelTypeOK, Call
  <2>4. AppendInv'
    BY <1>2, <1>3, <2>2, <2>3 DEF AppendInv, Structure
  <2>5. ChangeInv'
    BY <1>2, <1>3, <2>2, <2>3 DEF ChangeInv, Structure
  <2> QED BY <2>1, <2>4, <2>5
<1>5. MemoryInv' /\ OrderInv'
  BY <1>2, <1>3, SMT DEF MemoryInv, OrderInv, Structure, Head, ResourceHead
<1>6. BaselineInv'
  BY <1>2, <1>3 DEF BaselineInv, Structure, Undrifted
<1>7. WorldInv'
  <2>1. \A q \in Resource \ drifted' : world'[q] = world[q] /\ q \in Resource \ drifted
    BY <1>2 DEF TypeOK, KernelTypeOK
  <2>2. WorldInv /\ UNCHANGED <<prepared, origin, normalised>>
    BY <1>2 DEF Structure
  <2>3. ASSUME NEW c, NEW q \in Resource \ drifted'
        PROVE  Explains(c, q)' <=> Explains(c, q)
    BY <2>1, <2>2, <2>3 DEF Explains
  <2> QED BY <1>2, <1>3, <2>1, <2>2, <2>3 DEF WorldInv
<1> QED BY <1>4, <1>5, <1>6, <1>7 DEF Structure

LEMMA RejectStructure ==
  ASSUME TypeOK, Structure, SameData, phase' = phase,
         phase = "Experimenting", Idle,
         call' = [Calls("experiment") EXCEPT !.at = "error"]
  PROVE  Structure'
<1>1. call'.at = "error" /\ call'.op = "experiment" /\ call'.todo = {}
  BY DEF Calls, IdleCall
<1>2. "error" \in Visits("experiment")
  BY DEF Visits
<1>3. InEpisode /\ call.at \notin {"error", "outcomeUnknown"}
  BY DEF InEpisode, EpisodePhase, Idle
<1> QED BY <1>1, <1>2, <1>3, NewCallStructure

LEMMA MutateStructure ==
  ASSUME TypeOK, Structure, Mutate
  PROVE  Structure'
<1>0. phase = "Experimenting" /\ Idle /\ UNCHANGED <<phase, retry>>
  BY DEF Mutate
<1>1. CASE ExperimentRejected
  BY <1>0, <1>1, RejectStructure
     DEF ExperimentRejected, OnlyControl, SameData, environment, memory
<1>2. CASE \E r \in Resource, d \in Value : PrepareRejected(r, d)
  BY <1>0, <1>2, RejectStructure DEF PrepareRejected, OnlyOperationId, SameData, environment
<1>3. CASE \E r \in Resource, d \in Value, c \in Change : Prepare(r, d, c)
  BY <1>0, <1>3, PrepareStructure
<1> QED BY <1>1, <1>2, <1>3 DEF Mutate

\* rollback_all starts in an episode.
LEMMA StartRollbackStructure ==
  ASSUME TypeOK, Structure, InEpisode, phase' = "RollingBack", RollbackAll
  PROVE  Structure'
<1>1. SameData
  BY DEF RollbackAll, StartLoop, OnlyControl, SameData, environment, memory
<1>2. \/ call' = [Calls("rollback_all") EXCEPT !.at = "error"]
      \/ call' = [Calls("rollback_all") EXCEPT !.at = "loop", !.todo = Known]
  BY DEF RollbackAll, StartLoop
<1>4. /\ call'.at \in {"loop", "error"} /\ call'.op = "rollback_all"
      /\ call'.todo \subseteq Known
  <2>1. CASE call' = [Calls("rollback_all") EXCEPT !.at = "error"]
    BY <2>1 DEF Calls, IdleCall
  <2>2. CASE call' = [Calls("rollback_all") EXCEPT !.at = "loop", !.todo = Known]
    BY <2>2 DEF Calls, IdleCall
  <2> QED BY <1>2, <2>1, <2>2
<1>5. {"loop", "error"} \subseteq Visits("rollback_all")
  BY DEF Visits
<1> QED BY <1>1, <1>4, <1>5, NewCallStructure

LEMMA EvaluateStructure ==
  ASSUME TypeOK, Structure, EvaluateCandidate \/ FinalizeImproved
  PROVE  Structure'
<1>1. /\ SameData /\ phase = "CommitPending" /\ phase' = phase /\ call.at = "ok"
  BY DEF EvaluateCandidate, FinalizeImproved, ReplayCandidate, FinalizeCandidate,
         StartLoop, OnlyControl, SameData, environment, memory, Idle
<1>2. Heads \subseteq Known
  BY DEF Heads
<1>4. \/ /\ call'.at = "loop" /\ call'.op \in {"replay_check", "finalize_check"}
         /\ call'.todo \subseteq Known
      \/ /\ call'.at = "error" /\ call'.op \in {"replay", "finalize"} /\ call'.todo = {}
  <2>1. CASE EvaluateCandidate
    <3>1. \/ call' = [Calls("replay_check") EXCEPT !.at = "loop", !.todo = Known]
          \/ call' = [Calls("replay") EXCEPT !.at = "error"]
      BY <2>1 DEF EvaluateCandidate, ReplayCandidate, StartLoop
    <3>2. CASE call' = [Calls("replay_check") EXCEPT !.at = "loop", !.todo = Known]
      BY <1>2, <3>2 DEF Calls, IdleCall
    <3>3. CASE call' = [Calls("replay") EXCEPT !.at = "error"]
      BY <3>3 DEF Calls, IdleCall
    <3> QED BY <3>1, <3>2, <3>3
  <2>2. CASE FinalizeImproved
    <3>1. \/ call' = [Calls("finalize_check") EXCEPT !.at = "loop", !.todo = Heads]
          \/ call' = [Calls("finalize") EXCEPT !.at = "error"]
      BY <2>2 DEF FinalizeImproved, FinalizeCandidate, StartLoop
    <3>2. CASE call' = [Calls("finalize_check") EXCEPT !.at = "loop", !.todo = Heads]
      BY <1>2, <3>2 DEF Calls, IdleCall
    <3>3. CASE call' = [Calls("finalize") EXCEPT !.at = "error"]
      BY <3>3 DEF Calls, IdleCall
    <3> QED BY <3>1, <3>2, <3>3
  <2> QED BY <2>1, <2>2
<1>5. call'.at \in Visits(call'.op)
  BY <1>4 DEF Visits
<1>7. InEpisode
  BY <1>1 DEF InEpisode, EpisodePhase
<1> QED BY <1>1, <1>4, <1>5, <1>7, NewCallStructure

LEMMA RequestCommitStructure ==
  ASSUME TypeOK, Structure, NEW s \in SUBSET Change, RequestCommit(s)
  PROVE  Structure'
<1>1. /\ SameData /\ phase = "Experimenting" /\ phase' = "CommitPending" /\ call.at = "ok"
  BY DEF RequestCommit, SameData, environment, memory, Idle
<1>2. call' = [Calls("restore_baseline") EXCEPT !.at = "loop", !.todo = Known]
  BY DEF RequestCommit
<1>4. /\ call'.at = "loop" /\ call'.op = "restore_baseline" /\ call'.todo = Known
  BY <1>2 DEF Calls, IdleCall
<1>5. "loop" \in Visits("restore_baseline")
  BY DEF Visits
<1>6. InEpisode
  BY <1>1 DEF InEpisode, EpisodePhase
<1> QED BY <1>1, <1>4, <1>5, <1>6, NewCallStructure

LEMMA EpisodeStepStructure ==
  ASSUME TypeOK, Structure, EpisodeStep
  PROVE  Structure'
<1>1. CASE \/ BeginFailed \/ CommitOutcomeUnknown \/ CommitCompleted
           \/ RollbackCompleted \/ RollbackFailed
  <2>1. /\ InEpisode /\ UNCHANGED kernelVars
        /\ call.at \in {"ok", "error", "outcomeUnknown"}
        /\ phase' \in {"RecoveryRequired", "Committed", "Clean"}
    BY <1>1 DEF BeginFailed, CommitOutcomeUnknown, CommitCompleted, RollbackCompleted,
                RollbackFailed, InEpisode, EpisodePhase, Idle
  <2> QED BY <2>1, EndStructure
<1>2. CASE EvaluationRejects \/ Abort \/ FinishSession \/ OperationFailed \/ RollbackRetried
  <2>1. InEpisode /\ phase' = "RollingBack" /\ RollbackAll
    BY <1>2 DEF EvaluationRejects, Abort, FinishSession, OperationFailed, RollbackRetried,
                StartRollback, InEpisode, EpisodePhase
  <2> QED BY <2>1, StartRollbackStructure
<1> QED BY <1>1, <1>2, MutateStructure, EvaluateStructure, RequestCommitStructure
        DEF EpisodeStep

LEMMA ProcessStepStructure ==
  ASSUME TypeOK, Structure, ProcessStep
  PROVE  Structure'
<1>1. CASE Crash \/ Shutdown \/ EarlyPassDone \/ GateOpens \/ GateBlocks
  <2>1. LoseMemory /\ UNCHANGED <<environment, prepared>> /\ LogStops /\ phase' \in StartupStage
    BY <1>1 DEF Crash, Shutdown, EarlyPassDone, GateOpens, GateBlocks, StagePassed,
                StartupStage, LogStops
  <2> QED BY <2>1, LossStructure
<1> QED BY <1>1, RestartStructure, RecoverStructure DEF ProcessStep, StartupStep

LEMMA InitStructure ==
  ASSUME Init
  PROVE  Structure
<1>0. /\ Known = {} /\ LogChanges(log) = {} /\ PendingOperations(log) = {}
      /\ world = origin /\ phase = "Experimenting"
  BY DEF Init, BeginKernel, Known, LogChanges, PendingOperations, EmptyLog
<1>1. /\ call.at = "append" /\ call.op = "begin" /\ call.event = Started
      /\ call.then = "ok" /\ call.todo = {} /\ call.afterEffect = FALSE
  BY DEF Init, BeginKernel, IdleCall
<1>2. ~Creating /\ ~Revising
  <2>1. call.event.type = "Started"
    BY <1>1, SMT DEF Started
  <2> QED BY <1>1, <2>1 DEF Creating, Appending, Revising
<1>3. ControlInv /\ AppendInv
  BY <1>0, <1>1 DEF ControlInv, AppendInv, Ahead, Visits
<1>4. ChangeInv
  BY <1>0, <1>1, <1>2 DEF ChangeInv, Ahead, ChangeLocation, ReviseLocation,
                          RestoreLocation, ApplyLocation
<1>5. MemoryInv /\ OrderInv
  BY <1>0 DEF MemoryInv, OrderInv
<1>6. BaselineInv /\ WorldInv
  BY <1>0, <1>2 DEF BaselineInv, WorldInv
<1> QED BY <1>3, <1>4, <1>5, <1>6 DEF Structure

---------------------------------------------------------------------------
(* Which operation a step belongs to. *)

\* Only the end of a loop changes the operation in progress.
LEMMA OperationKept ==
  ASSUME TypeOK, Structure, KernelStep, ~ReplayChecked, ~CommitChecked, ~Acknowledged
  PROVE  call'.op = call.op
<1>0. call \in Call
  BY DEF TypeOK, KernelTypeOK
<1>1. \A k \in Call : \A st, op, l, eff : Persist(k, st, op, l, eff) => call'.op = k.op
  BY PersistShape
<1>2. \A k \in Call : \A l : call' = [k EXCEPT !.at = l] => call'.op = k.op
  BY MoveShape
<1>3. \A k \in Call : MarkDrift(k) => call'.op = k.op
  BY <1>1 DEF MarkDrift, UpdateChange
<1>4. \A k \in Call : \A label, kind, l : AnnounceThen(k, label, kind, l) => call'.op = k.op
  BY DEF AnnounceThen, AppendThen, Call
<1>5. \A k \in Call : \A m, l : EnsureExpected(k, m, l) => call'.op \in {k.op, call.op}
  BY <1>0, <1>2, <1>3 DEF EnsureExpected, ReadbackFails, Goto
<1>6. \A c \in Change : Visit(c) \in Call /\ Visit(c).op = call.op
  BY <1>0, VisitType, VisitShape DEF TypeOK
<1>7. CASE AppendDurable \/ AppendFails
  BY <1>0, <1>7 DEF AppendDurable, AppendFails, Call
<1>8. CASE Apply \/ ApplyWrite \/ Restore \/ RestoreWrite \/ Finalize
  BY <1>0, <1>1, <1>2, <1>8
     DEF Apply, ApplyWrite, Restore, RestoreWrite, Finalize, At, Inconclusive
<1>9. CASE ApplyStatus \/ ApplyVerify \/ RestoreStatus \/ RestoreVerify
  BY <1>0, <1>1, <1>2, <1>9
     DEF ApplyStatus, ApplyVerify, RestoreStatus, RestoreVerify, RecordOutcome, Goto,
         ReadbackFails
<1>10. CASE RestoreOne \/ MatchDesired
  BY <1>0, <1>1, <1>2, <1>3, <1>4, <1>10
     DEF RestoreOne, MatchDesired, UpdateChange, Goto, ReadbackFails
<1>11. CASE ReviseCheck \/ AckVerify
  BY <1>0, <1>5, <1>11 DEF ReviseCheck, AckVerify
<1>12. CASE ReplayCheckNext \/ CommitCheckNext
  BY <1>5, <1>6, <1>12, SMT DEF ReplayCheckNext, CommitCheckNext
<1>13. CASE RestoreNext \/ ReplayNext \/ FinalizeNext \/ Replayed
  BY <1>0, <1>2, <1>4, <1>6, <1>13, SMT
     DEF RestoreNext, ReplayNext, FinalizeNext, Replayed, Goto
<1>14. CASE Restored \/ CommitSeal
  BY <1>0, <1>2, <1>14 DEF Restored, CommitSeal, At, AppendThen, Call
<1>15. CASE RevisePrepare
  BY <1>0, <1>2, <1>15 DEF RevisePrepare, FirstRecord, AppendThen, At, Call
<1> QED BY <1>7, <1>8, <1>9, <1>10, <1>11, <1>12, <1>13, <1>14, <1>15 DEF KernelStep

---------------------------------------------------------------------------
(* How far a rollback has got. *)

Done(c) == Home(c) /\ changes[c] = "RolledBack"

\* Done, but for what the restore in hand does to the resource they share.
Handled(c, k) ==
  /\ changes[c] = "RolledBack"
  /\ Home(c) \/ prepared[c].resource = prepared[k].resource

\* A known change whose resource is read back at its baseline is home.
LEMMA BaselineIsHome ==
  ASSUME Structure, NEW c \in Known, AtBaseline(c)
  PROVE  Home(c)
BY DEF Structure, MemoryInv, BaselineInv, Known, AtBaseline, Holds, Home, Undrifted

\* When the change in hand is home, so are the others of its resource.
LEMMA HandledIsDone ==
  ASSUME NEW c, NEW k, Handled(c, k), Home(k)
  PROVE  Done(c)
BY DEF Handled, Done, Home, Undrifted

\* Restoring one change disturbs no change of another resource.
LEMMA RestoreKeepsHome ==
  ASSUME TypeOK, Still, Within(call), NEW c \in Known, Home(c),
         world' = world \/ \E v : Set(call.change, v)
  PROVE  Home(c)' \/ prepared[c].resource = prepared[call.change].resource
<1>1. /\ call.change \in Change /\ c \in Change
      /\ prepared[call.change].resource \in Resource /\ prepared[c].resource \in Resource
  BY DEF Within, Known, TypeOK, KernelTypeOK, PreparedMutation
<1>2. CASE world' = world
  BY <1>2 DEF Home, Undrifted, Still
<1>3. CASE \E v : Set(call.change, v)
  <2>1. PICK v : world' = [world EXCEPT ![prepared[call.change].resource] = v]
    BY <1>3 DEF Set
  <2> SUFFICES ASSUME prepared[c].resource # prepared[call.change].resource
               PROVE  Home(c)'
    OBVIOUS
  <2>2. world'[prepared[c].resource] = world[prepared[c].resource]
    BY <1>1, <2>1 DEF TypeOK, KernelTypeOK
  <2> QED BY <2>2 DEF Home, Undrifted, Still
<1> QED BY <1>2, <1>3

\* The steps of rollback_all that go on with the change in hand, or with none.
LEMMA RollbackMoves ==
  ASSUME TypeOK, Structure, RollbackInv, Still, world' = world,
         call.op = "rollback_all", Ahead # "error", call'.at # "append",
         \A c \in Known \ (call'.todo \cup InHand') :
           Done(c) \/ (InHand' = {call.change} /\ Handled(c, call.change))
  PROVE  RollbackInv'
<1>1. Known' = Known
  BY DEF Still, Known
<1>2. \A c \in Known : Done(c) => Home(c)' /\ changes'[c] = "RolledBack"
  BY DEF Done, Home, Undrifted, Still
<1>3. \A c \in Known : Handled(c, call.change) /\ InHand' = {call.change}
                       => (Home(c)' \/ Shared(c)') /\ changes'[c] = "RolledBack"
  BY DEF Handled, Shared, Home, Undrifted, Still
<1> QED BY <1>1, <1>2, <1>3 DEF RollbackInv, Appending

LEMMA RollbackErrors ==
  ASSUME Ahead' = "error"
  PROVE  RollbackInv'
BY DEF RollbackInv

\* MarkDrift and a failed readback end in an error.
LEMMA ErrorAhead ==
  ASSUME TypeOK
  PROVE  /\ MarkDrift(call) => Ahead' = "error"
         /\ ReadbackFails => Ahead' = "error"
         /\ \A st, eff : RecordOutcome(st, "error", eff) => Ahead' = "error"
         /\ \A st : Inconclusive(st) => Ahead' = "error"
<1>0. call \in Call
  BY DEF TypeOK, KernelTypeOK
<1>1. \A k \in Call : \A st, op, l, eff : Persist(k, st, op, l, eff) => Ahead' = l
  BY PersistShape, SMT DEF Ahead
<1>2. ReadbackFails => Ahead' = "error"
  BY <1>0, MoveShape DEF ReadbackFails, Goto, Ahead
<1> QED BY <1>0, <1>1, <1>2 DEF MarkDrift, UpdateChange, RecordOutcome, Inconclusive

\* What RollbackInv says while one change is in hand.
LEMMA OthersDone ==
  ASSUME TypeOK, RollbackInv, call.op = "rollback_all", call.at \in RestoreLocation
  PROVE  /\ Ahead # "error"
         /\ \A c \in Known : c \notin call.todo /\ c # call.change => Handled(c, call.change)
<1>1. call.at \notin {"append", "error"}
  BY DEF RestoreLocation
<1>2. InHand = {call.change} /\ Ahead # "error"
  BY <1>1 DEF InHand, Ahead
<1> QED BY <1>2 DEF RollbackInv, Handled, Shared

\* The change in hand is recorded as rolled back.
LEMMA RecordsRolledBack ==
  ASSUME TypeOK, Structure, RollbackInv, Still, world' = world,
         call.op = "rollback_all", call.at \in RestoreLocation,
         AtBaseline(call.change),
         NEW op, NEW eff, Persist(call, "RolledBack", op, "loop", eff)
  PROVE  RollbackInv'
<1>0. call \in Call /\ Within(call)
  BY AtRestore
<1>1. /\ call'.at = "append" /\ call'.then = "loop"
      /\ call'.event.type = "ChangeUpsert" /\ call'.event.state = "RolledBack"
      /\ call'.change = call.change /\ call'.todo = call.todo
  BY <1>0, PersistShape, SMT
<1>2. InHand' = {call.change} /\ Known' = Known
  <2>1. Known' = Known
    BY DEF Still, Known
  <2>2. InHand' = {call'.change}
    BY <1>1 DEF InHand
  <2> QED BY <1>1, <2>1, <2>2
<1>3. Home(call.change)
  BY <1>0, BaselineIsHome DEF Within
<1>4. \A c \in Known : Home(c) => Home(c)'
  BY DEF Home, Undrifted, Still
<1>5. \A c \in Known : c \notin call.todo /\ c # call.change => Done(c)
  BY <1>3, OthersDone, HandledIsDone
<1>7. Home(call.change)'
  BY <1>1, <1>3 DEF Home, Undrifted, Still
<1>8. \A c \in Known' \ (call'.todo \cup InHand') : Home(c)' /\ changes'[c] = "RolledBack"
  BY <1>1, <1>2, <1>4, <1>5 DEF Done, Still
<1> QED BY <1>1, <1>7, <1>8 DEF RollbackInv, Appending, Home, Undrifted

\* The steps of restore_one on behalf of rollback_all.
LEMMA RollbackRestores ==
  ASSUME TypeOK, Structure, RollbackInv, UNCHANGED <<phase, retry>>,
         call.op = "rollback_all",
         \/ RestoreOne \/ MatchDesired \/ Restore \/ RestoreWrite
         \/ RestoreStatus \/ RestoreVerify
  PROVE  RollbackInv'
<1>0. /\ call.at \in RestoreLocation /\ call \in Call /\ Within(call)
      /\ call.change \in Known
      /\ RestoredState = "RolledBack" /\ AfterRestore = "loop"
  BY AtRestore DEF RestoreOne, MatchDesired, Restore, RestoreWrite, RestoreStatus,
                   RestoreVerify, RestoreLocation, Within, RestoredState, AfterRestore
<1>1. /\ Ahead # "error"
      /\ \A c \in Known : c \notin call.todo /\ c # call.change => Handled(c, call.change)
  BY <1>0, OthersDone
<1>2. ASSUME Goto("matchDesired") \/ Goto("restoreVerify")
      PROVE  RollbackInv'
  <2>1. /\ call'.at \in RestoreLocation /\ call'.at # "append"
        /\ call'.todo = call.todo /\ call'.change = call.change
    BY <1>0, <1>2, MoveShape DEF Goto, RestoreLocation
  <2>2. InHand' = {call'.change}
    BY <2>1 DEF InHand
  <2>3. Still /\ world' = world
    BY <1>2, StillFrames DEF Goto
  <2> QED BY <1>0, <1>1, <2>1, <2>2, <2>3, RollbackMoves
<1>3. CASE RestoreOne
  <2>1. CASE /\ AtBaseline(call.change) /\ changes[call.change] = "RolledBack"
             /\ Goto("loop")
    <3>1. call'.at = "loop" /\ call'.todo = call.todo
      BY <1>0, <2>1, MoveShape DEF Goto
    <3>2. Done(call.change) /\ Home(call.change)
      BY <1>0, <2>1, BaselineIsHome DEF Done
    <3>3. Still /\ world' = world
      BY <2>1, StillFrames DEF Goto
    <3>4. \A c \in Known : c \notin call.todo => Done(c)
      BY <1>1, <3>2, HandledIsDone
    <3> QED BY <1>0, <1>1, <3>1, <3>3, <3>4, RollbackMoves
  <2>2. CASE /\ AtBaseline(call.change)
             /\ UpdateChange(call, "baseline-observed", "RolledBack", "loop")
    BY <1>0, <2>2, StillFrames, RecordsRolledBack DEF UpdateChange
  <2>3. CASE MarkDrift(call) \/ ReadbackFails
    BY <2>3, ErrorAhead, RollbackErrors
  <2>4. CASE Goto("matchDesired")
    BY <1>2, <2>4
  <2> QED BY <1>0, <1>3, <2>1, <2>2, <2>3, <2>4 DEF RestoreOne
<1>4. CASE MatchDesired
  <2>1. CASE AnnounceThen(call, "restore", "Restore", "restore")
    <3>1. /\ call'.at = "append" /\ call'.then = "restore"
          /\ call'.event.type = "OperationIntent"
          /\ call'.change = call.change /\ call'.todo = call.todo
      BY <1>0, <2>1 DEF AnnounceThen, AppendThen, OperationIntent, Call
    <3>2. InHand' = {call'.change}
      BY <3>1 DEF InHand
    <3>3. Still /\ world' = world
      BY <2>1, StillFrames DEF AnnounceThen
    <3>4. /\ Known' = Known
          /\ \A c \in Known : Handled(c, call.change)
                              => (Home(c)' \/ Shared(c)') /\ changes'[c] = "RolledBack"
      BY <3>1, <3>2, <3>3 DEF Handled, Shared, Home, Undrifted, Still, Known
    <3> QED BY <1>1, <3>1, <3>2, <3>4 DEF RollbackInv, Appending, RestoreLocation
  <2>2. CASE MarkDrift(call) \/ ReadbackFails
    BY <2>2, ErrorAhead, RollbackErrors
  <2> QED BY <1>4, <2>1, <2>2 DEF MatchDesired
<1>5. CASE Restore \/ RestoreWrite
  <2>1. CASE \E st : Inconclusive(st)
    BY <2>1, ErrorAhead, RollbackErrors
  <2>2. CASE At("restoreWrite") \/ At("restoreVerify") \/ At("restoreStatus")
    <3>1. /\ call'.at \in RestoreLocation /\ call'.at # "append"
          /\ call'.todo = call.todo /\ call'.change = call.change
      BY <1>0, <2>2, MoveShape DEF At, RestoreLocation
    <3>2. InHand' = {call.change}
      BY <3>1 DEF InHand
    <3>3. Still
      BY <1>5 DEF Restore, RestoreWrite, DriverFrame, WriteFrame, Stores, StoresOther,
                  StoresNothing, StoresSomething, Still, environment, memory
    <3>4. world' = world \/ \E v : Set(call.change, v)
      BY <1>5 DEF Restore, RestoreWrite, DriverFrame, Stores, StoresOther, StoresNothing,
                  StoresSomething, environment
    <3>5. \A c \in Known : Home(c) => Home(c)' \/ prepared[c].resource = prepared[call.change].resource
      BY <1>0, <3>3, <3>4, RestoreKeepsHome
    <3>6. Known' = Known /\ changes' = changes /\ prepared' = prepared
      BY <3>3 DEF Still, Known
    <3>7. \A c \in Known : Handled(c, call.change)
                           => (Home(c)' \/ Shared(c)') /\ changes'[c] = "RolledBack"
      BY <3>2, <3>5, <3>6 DEF Handled, Shared
    <3> QED BY <1>1, <3>1, <3>2, <3>6, <3>7 DEF RollbackInv, Appending
  <2> QED BY <1>5, <2>1, <2>2 DEF Restore, RestoreWrite
<1>6. CASE RestoreStatus
  <2>1. Goto("restoreVerify") \/ RecordOutcome("AppliedUnknown", "error", FALSE)
    BY <1>6 DEF RestoreStatus
  <2> QED BY <1>2, <2>1, ErrorAhead, RollbackErrors
<1>7. CASE RestoreVerify
  <2>1. CASE AtBaseline(call.change) /\ RecordOutcome("RolledBack", "loop", TRUE)
    BY <1>0, <2>1, StillFrames, RecordsRolledBack DEF RecordOutcome
  <2>2. CASE RecordOutcome("AppliedUnknown", "error", FALSE) \/ ReadbackFails
    BY <2>2, ErrorAhead, RollbackErrors
  <2> QED BY <1>0, <1>7, <2>1, <2>2 DEF RestoreVerify
<1> QED BY <1>3, <1>4, <1>5, <1>6, <1>7

\* The loop of rollback_all.
LEMMA RollbackLoops ==
  ASSUME TypeOK, Structure, RollbackInv, UNCHANGED <<phase, retry>>,
         call.op = "rollback_all", RestoreNext \/ Restored
  PROVE  RollbackInv'
<1>0. /\ call \in Call /\ call.at = "loop"
      /\ Ahead # "error" /\ \A c \in Known \ call.todo : Done(c)
  BY DEF RestoreNext, Restored, InLoop, TypeOK, KernelTypeOK, RollbackInv, Ahead, InHand,
         RestoreLocation, Done, Shared
<1>1. CASE RestoreNext
  <2>1. PICK c \in Change : Last(c) /\ call' = [Visit(c) EXCEPT !.at = "restoreOne"]
    BY <1>1 DEF RestoreNext
  <2>2. Visit(c) \in Call /\ Visit(c).change = c /\ Visit(c).todo = call.todo \ {c}
    BY <1>0, VisitType, VisitShape DEF TypeOK
  <2>3. call'.at = "restoreOne" /\ call'.change = c /\ call'.todo = call.todo \ {c}
    BY <2>1, <2>2, MoveShape
  <2>4. InHand' = {c}
    BY <2>3 DEF InHand, RestoreLocation
  <2>5. Still /\ world' = world
    BY <1>1, StillFrames DEF RestoreNext
  <2> QED BY <1>0, <2>3, <2>4, <2>5, RollbackMoves
<1>2. CASE Restored
  <2>1. AppendThen(call, Sealed("RolledBack"), call.opid, "ok", FALSE) /\ call.todo = {}
    BY <1>2 DEF Restored, InLoop
  <2>2. /\ call'.at = "append" /\ call'.event = Sealed("RolledBack")
    BY <1>0, <2>1 DEF AppendThen, Call
  <2>3. Known' = Known /\ \A c \in Known : Done(c) => Home(c)' /\ changes'[c] = "RolledBack"
    BY <1>2 DEF Restored, Known, Done, Home, Undrifted, environment
  <2> QED BY <1>0, <2>1, <2>2, <2>3, SMT DEF RollbackInv, Appending, Sealed
<1> QED BY <1>1, <1>2

LEMMA RollbackAppends ==
  ASSUME TypeOK, Structure, RollbackInv, UNCHANGED <<phase, retry>>,
         call.op = "rollback_all", AppendDurable \/ AppendFails
  PROVE  RollbackInv'
<1>0. /\ call \in Call /\ call.at = "append" /\ call.change \in Change
      /\ changes \in [Change -> ChangeState \cup {Absent}]
  BY DEF AppendDurable, AppendFails, TypeOK, KernelTypeOK, Call
<1>1. CASE AppendFails
  <2>1. call.event.type # "CommitSealed"
    BY <1>0, SMT DEF Structure, AppendInv, Started, Sealed, CommitSealed
  <2>2. call'.at = "error"
    BY <1>0, <1>1, <2>1 DEF AppendFails, Call
  <2> QED BY <2>2, RollbackErrors DEF Ahead
<1>2. CASE AppendDurable
  <2>1. /\ call'.at = call.then /\ call'.change = call.change /\ call'.todo = call.todo
    BY <1>0, <1>2 DEF AppendDurable, Call
  <2>2. call.then # "append"
    BY <1>0, AppendVisits DEF Structure, ControlInv, Ahead, Call
  <2> SUFFICES ASSUME call.then # "error"
               PROVE  \A c \in Known' \ (call'.todo \cup InHand') :
                        changes'[c] = "RolledBack" /\ (Home(c)' \/ Shared(c)')
    BY <2>1, <2>2 DEF RollbackInv, Ahead, Appending
  <2>3. /\ \A c \in Known \ (call.todo \cup InHand) :
             changes[c] = "RolledBack" /\ (Home(c) \/ Shared(c))
        /\ Appending("OperationIntent") => call.then \in RestoreLocation
        /\ Appending("ChangeUpsert") =>
             call.then = "loop" /\ Home(call.change) /\ call.event.state = "RolledBack"
    BY <1>0 DEF RollbackInv, Ahead
  <2>4. \A c : Home(c)' = Home(c)
    BY <1>2 DEF AppendDurable, Home, Undrifted, environment
  <2>5. ~Creating
    BY SMT DEF Structure, AppendInv, Creating, Appending, Started, Sealed, CommitSealed
  <2>6. Known' = Known
    BY <1>0, <1>2, <2>5, WrittenChanges DEF AppendDurable, NewChange
  <2>7. CASE call.event.type = "ChangeUpsert"
    <3>1. InHand = {call.change} /\ call.event.change = call.change
      BY <1>0, <2>7, SMT DEF InHand, Structure, AppendInv, Started, Sealed, CommitSealed,
                        RestoreLocation
    <3>2. \A c \in Change : changes'[c] = IF c = call.change THEN "RolledBack" ELSE changes[c]
      BY <1>0, <1>2, <2>3, <2>7, <3>1 DEF AppendDurable, Memorise, Upserts, Appending
    <3>3. \A c \in Known : c \in Change
      BY DEF Known
    <3>4. ASSUME NEW c \in Known \ call.todo
          PROVE  Home(c)
      <4>1. Home(call.change)
        BY <1>0, <2>3, <2>7 DEF Appending
      <4>2. CASE c # call.change
        <5>1. Home(c) \/ prepared[call.change].resource = prepared[c].resource
          BY <2>3, <3>1, <4>2 DEF Shared
        <5> QED BY <4>1, <5>1 DEF Home, Undrifted
      <4> QED BY <4>1, <4>2
    <3>5. call.todo = call'.todo
      BY <2>1
    <3> QED BY <2>3, <2>4, <2>6, <3>1, <3>2, <3>3, <3>4, <3>5
  <2>8. CASE call.event.type # "ChangeUpsert"
    <3>1. call.event.type # "CommitSealed"
      BY <1>0, SMT DEF Structure, AppendInv, Started, Sealed, CommitSealed
    <3>2. changes' = changes
      BY <1>0, <1>2, <2>8, <3>1 DEF AppendDurable, Memorise, Upserts
    <3>3. InHand \subseteq InHand'
      BY <1>0, <2>1, <2>3, <2>8 DEF InHand, Appending, RestoreLocation
    <3>4. \A c : Shared(c) => Shared(c)'
      BY <1>2, <3>3 DEF AppendDurable, Shared
    <3> QED BY <2>1, <2>3, <2>4, <2>6, <3>2, <3>3, <3>4
  <2> QED BY <2>7, <2>8
<1> QED BY <1>1, <1>2

LEMMA KernelStepRollback ==
  ASSUME TypeOK, Structure, Structure', RollbackInv, Step
  PROVE  RollbackInv'
<1>0. UNCHANGED <<phase, retry>> /\ KernelStep
  BY DEF Step
<1>1. call.at \notin {"ok", "error", "outcomeUnknown"}
  BY <1>0 DEF KernelStep, AppendDurable, AppendFails, Apply, ApplyWrite, ApplyStatus,
     ApplyVerify, RestoreOne, MatchDesired, Restore, RestoreWrite, RestoreStatus,
     RestoreVerify, ReviseCheck,
     RevisePrepare, RestoreNext, Restored, ReplayCheckNext, ReplayChecked, ReplayNext,
     Replayed, CommitCheckNext, CommitChecked, FinalizeNext, Finalize, AckVerify,
     Acknowledged, CommitSeal, InLoop
<1>2. CASE call.op = "rollback_all"
  <2>1. call.at \in {"loop", "append"} \cup RestoreLocation
    BY <1>1, <1>2 DEF Structure, ControlInv, Ahead, Visits
  <2>2. \/ AppendDurable \/ AppendFails \/ RestoreNext \/ Restored
        \/ RestoreOne \/ MatchDesired \/ Restore \/ RestoreWrite
        \/ RestoreStatus \/ RestoreVerify
    BY <1>0, <1>2, <2>1 DEF KernelStep, Apply, ApplyWrite, ApplyStatus, ApplyVerify, ReviseCheck,
       RevisePrepare, ReplayCheckNext, ReplayChecked, ReplayNext, Replayed,
       CommitCheckNext, CommitChecked, FinalizeNext, Finalize, AckVerify, Acknowledged,
       CommitSeal, InLoop, RestoreLocation
  <2> QED BY <1>0, <1>2, <2>2, RollbackAppends, RollbackLoops, RollbackRestores
<1>3. CASE call.op # "rollback_all"
  <2>1. phase \in {"Experimenting", "CommitPending"}
    BY <1>1, <1>3, Running DEF Structure, ControlInv, TypeOK, EpisodePhase, StartupStage
  <2>2. ControlInv'
    BY DEF Structure
  <2>3. call'.op # "rollback_all"
    BY <1>0, <2>1, <2>2 DEF ControlInv
  <2> QED BY <2>3 DEF RollbackInv
<1> QED BY <1>2, <1>3

---------------------------------------------------------------------------
(* Steps outside the kernel's operations. *)

\* A rollback starts with every known change still to do, or is refused.
LEMMA RollbackStarts ==
  ASSUME TypeOK, RollbackAll
  PROVE  /\ call'.op = "rollback_all" /\ Known' = Known /\ changes' = changes
         /\ UNCHANGED <<world, origin, drifted, log, prepared, candidate, issued>>
         /\ \/ call'.at = "error"
            \/ call'.at = "loop" /\ call'.todo = Known
         /\ AllRolledBack => call'.at = "loop"
<1>1. /\ UNCHANGED <<world, origin, drifted, log, prepared, candidate, issued, changes>>
  BY DEF RollbackAll, StartLoop, OnlyControl, environment, memory
<1>2. Known' = Known
  BY <1>1 DEF Known
<1>3. \/ call' = [Calls("rollback_all") EXCEPT !.at = "error"]
           /\ \E c \in Known : changes[c] = "Finalized"
      \/ call' = [Calls("rollback_all") EXCEPT !.at = "loop", !.todo = Known]
  BY DEF RollbackAll, StartLoop
<1>4. CASE call' = [Calls("rollback_all") EXCEPT !.at = "error"]
           /\ \E c \in Known : changes[c] = "Finalized"
  BY <1>1, <1>2, <1>4 DEF Calls, IdleCall, AllRolledBack
<1>5. CASE call' = [Calls("rollback_all") EXCEPT !.at = "loop", !.todo = Known]
  BY <1>1, <1>2, <1>5 DEF Calls, IdleCall
<1> QED BY <1>3, <1>4, <1>5

\* Calls of the coordinator: the episode ends, rolls back, or goes on.
EpisodeEnds ==
  /\ UNCHANGED <<kernelVars, retry>>
  /\ call.at \in {"ok", "error", "outcomeUnknown"}
  /\ phase' \in {"RecoveryRequired", "Committed", "Clean"}

EpisodeRollsBack == phase' = "RollingBack" /\ RollbackAll

EpisodeGoesOn ==
  /\ phase' \in {"Experimenting", "CommitPending"}
  /\ phase' = phase \/ phase = "Experimenting"
  /\ Idle
  /\ UNCHANGED <<world, origin, drifted, log, changes, issued>>

LEMMA EpisodeCases ==
  ASSUME TypeOK, EpisodeStep
  PROVE  InEpisode /\ (EpisodeEnds \/ EpisodeRollsBack \/ EpisodeGoesOn)
<1>1. CASE \/ BeginFailed \/ CommitOutcomeUnknown \/ CommitCompleted
           \/ RollbackCompleted \/ RollbackFailed
  BY <1>1 DEF BeginFailed, CommitOutcomeUnknown, CommitCompleted, RollbackCompleted,
              RollbackFailed, InEpisode, EpisodePhase, Idle, EpisodeEnds
<1>2. CASE EvaluationRejects \/ Abort \/ FinishSession \/ OperationFailed \/ RollbackRetried
  BY <1>2 DEF EvaluationRejects, Abort, FinishSession, OperationFailed, RollbackRetried,
              StartRollback, InEpisode, EpisodePhase, EpisodeRollsBack
<1>3. CASE Mutate
  <2>1. UNCHANGED <<world, origin, drifted, log, changes, issued, phase>>
        /\ phase = "Experimenting" /\ Idle
    BY <1>3 DEF Mutate, ExperimentRejected, PrepareRejected, Prepare, OnlyControl,
                OnlyOperationId, environment, memory
  <2> QED BY <2>1 DEF EpisodeGoesOn, InEpisode, EpisodePhase
<1>4. CASE EvaluateCandidate \/ FinalizeImproved
  <2>1. UNCHANGED <<world, origin, drifted, log, changes, issued, phase>>
        /\ phase = "CommitPending" /\ Idle
    BY <1>4 DEF EvaluateCandidate, FinalizeImproved, ReplayCandidate, FinalizeCandidate,
                StartLoop, OnlyControl, environment, memory
  <2> QED BY <2>1 DEF EpisodeGoesOn, InEpisode, EpisodePhase
<1>5. ASSUME NEW s \in SUBSET Change, RequestCommit(s)
      PROVE  InEpisode /\ EpisodeGoesOn
  <2>1. UNCHANGED <<world, origin, drifted, log, changes, issued>>
        /\ phase' = "CommitPending" /\ phase = "Experimenting" /\ Idle
    BY <1>5 DEF RequestCommit, environment, memory
  <2> QED BY <2>1 DEF EpisodeGoesOn, InEpisode, EpisodePhase
<1> QED BY <1>1, <1>2, <1>3, <1>4, <1>5 DEF EpisodeStep

\* Startups and crashes: nothing, the loss of the memory, or a recovery.
Loses ==
  LoseMemory /\ UNCHANGED <<environment, prepared, issued>> /\ LogStops /\ phase' \in StartupStage

LEMMA ProcessCases ==
  ASSUME ProcessStep
  PROVE  Loses \/ Restart \/ RecoverPending
<1>1. CASE Crash \/ Shutdown \/ EarlyPassDone \/ GateOpens \/ GateBlocks
  BY <1>1 DEF Crash, Shutdown, EarlyPassDone, GateOpens, GateBlocks, StagePassed,
              StartupStage, Loses, LogStops
<1> QED BY <1>1 DEF ProcessStep, StartupStep

LEMMA LossShape ==
  ASSUME Loses
  PROVE  /\ call'.op = "begin" /\ call'.at = "ok" /\ ~Active'
         /\ phase' \notin EpisodePhase /\ LogStops
         /\ UNCHANGED <<world, origin, drifted, prepared, issued>>
<1>1. call' = IdleCall /\ phase' \in StartupStage
  BY DEF Loses, LoseMemory
<1>2. call'.op = "begin" /\ call'.at = "ok"
  BY <1>1 DEF IdleCall
<1> QED BY <1>1, <1>2 DEF Loses, Active, InEpisode, EpisodePhase, StartupStage, environment

\* Recovery rebuilds the logged changes and rolls all of them back.
LEMMA RecoverShape ==
  ASSUME TypeOK, Structure, RecoverPending
  PROVE  /\ call'.at = "loop" /\ call'.op = "rollback_all" /\ call'.todo = LogChanges(log)
         /\ Known' = LogChanges(log) /\ log.seal = Open
         /\ phase \notin EpisodePhase /\ phase' = phase
         /\ UNCHANGED <<world, origin, drifted, log, prepared, issued>>
<1>0. /\ phase \in {"EarlyPass", "Gate"} /\ phase' = phase /\ InspectLog(log) = "Pending"
      /\ UNCHANGED <<world, origin, drifted, log, prepared, issued>>
  BY DEF RecoverPending, RecoverAndRollback, Rebuild, environment
<1>1. /\ call'.at = "loop" /\ call'.op = "rollback_all" /\ call'.todo = LogChanges(log)
  <2>1. call' = [Calls("rollback_all") EXCEPT !.at = "loop", !.todo = LogChanges(log)]
    BY DEF RecoverPending, RecoverAndRollback, Rebuild
  <2> QED BY <2>1 DEF Calls, IdleCall
<1>2. Known' = LogChanges(log)
  <2>1. \A c \in Change : changes'[c] = RecoveredState(log, c)
    BY DEF RecoverPending, RecoverAndRollback, Rebuild
  <2>2. \A c \in Change : log.intent[c] # {} => log.state[c] # Absent
    BY DEF Structure, MemoryInv, PendingOperations, LogChanges
  <2>3. \A c \in Change : RecoveredState(log, c) # Absent <=> log.state[c] # Absent
    BY <2>2 DEF RecoveredState, Absent
  <2> QED BY <2>1, <2>3 DEF Known, LogChanges
<1>3. log.seal = Open
  <2>1. log.intact \in BOOLEAN
    BY DEF TypeOK, KernelTypeOK, Log
  <2> QED BY <1>0, <2>1 DEF InspectLog
<1> QED BY <1>0, <1>1, <1>2, <1>3 DEF EpisodePhase

\* What RollbackInv speaks of is left alone.
LEMMA SameRollback ==
  ASSUME RollbackInv, UNCHANGED <<world, origin, drifted, prepared, changes, call>>
  PROVE  RollbackInv'
<1>1. Known' = Known /\ Ahead' = Ahead /\ InHand' = InHand
  BY DEF Known, Ahead, InHand
<1> QED BY <1>1 DEF RollbackInv, Home, Undrifted, Appending, Shared

LEMMA OtherStepRollback ==
  ASSUME TypeOK, Structure, Structure', RollbackInv, EpisodeStep \/ ProcessStep \/ Drift
  PROVE  RollbackInv'
<1>1. CASE EpisodeStep
  <2>1. CASE EpisodeEnds
    BY <2>1, SameRollback DEF EpisodeEnds, kernelVars, environment, memory
  <2>2. CASE EpisodeRollsBack
    <3>1. call'.at = "error" \/ (call'.at = "loop" /\ call'.todo = Known')
      BY <2>2, RollbackStarts DEF EpisodeRollsBack
    <3> QED BY <3>1 DEF RollbackInv, Ahead, Appending
  <2>3. CASE EpisodeGoesOn
    BY <2>3 DEF Structure, ControlInv, EpisodeGoesOn, RollbackInv
  <2> QED BY <1>1, <2>1, <2>2, <2>3, EpisodeCases
<1>2. CASE ProcessStep
  <2>1. CASE Loses
    <3>1. call'.op # "rollback_all"
      BY <2>1, LossShape
    <3> QED BY <3>1 DEF RollbackInv
  <2>2. CASE Restart
    BY <2>2, SameRollback DEF Restart, kernelVars, environment, memory
  <2>3. CASE RecoverPending
    BY <2>3, RecoverShape DEF RollbackInv, Ahead, Appending
  <2> QED BY <1>2, <2>1, <2>2, <2>3, ProcessCases
<1>3. CASE Drift
  <2>1. PICK r \in Resource, v \in Value : ExternalWrite(r, v)
    BY <1>3 DEF Drift
  <2>2. /\ UNCHANGED <<origin, prepared, changes, call>>
        /\ world' = [world EXCEPT ![r] = v] /\ drifted' = drifted \cup {r}
    BY <2>1 DEF ExternalWrite, memory
  <2>3. \A c \in Change : Home(c) => Home(c)'
    <3>1. prepared \in [Change -> PreparedMutation] /\ world \in [Resource -> Value]
      BY DEF TypeOK, KernelTypeOK
    <3> QED BY <2>2, <3>1 DEF Home, Undrifted, PreparedMutation
  <2>4. Known' = Known /\ InHand' = InHand /\ Ahead' = Ahead /\ Known \subseteq Change
    BY <2>2 DEF Known, InHand, Ahead
  <2>5. call.change \in Change
    BY DEF TypeOK, KernelTypeOK, Call
  <2> QED BY <2>2, <2>3, <2>4, <2>5 DEF RollbackInv, Appending, Shared
<1> QED BY <1>1, <1>2, <1>3

---------------------------------------------------------------------------
(* What a seal means.                                                      *)


---------------------------------------------------------------------------
(* What happens to the log, and after a seal. *)

\* Only an append changes the log.
LEMMA LogKept ==
  ASSUME KernelStep, ~AppendDurable, ~AppendFails
  PROVE  log' = log /\ changes' = changes /\ call.at # "append"
<1>1. CASE Apply \/ ApplyWrite \/ Restore \/ RestoreWrite \/ Finalize
  BY <1>1 DEF Apply, ApplyWrite, Restore, RestoreWrite, Finalize, DriverFrame, WriteFrame,
              memory
<1>2. CASE ApplyStatus \/ ApplyVerify \/ RestoreStatus \/ RestoreVerify
  BY <1>2 DEF ApplyStatus, ApplyVerify, RestoreStatus, RestoreVerify, RecordOutcome, Goto,
              ReadbackFails, OnlyControl, memory
<1>3. CASE RestoreOne \/ MatchDesired \/ ReviseCheck \/ AckVerify
  BY <1>3 DEF RestoreOne, MatchDesired, ReviseCheck, AckVerify, EnsureExpected, MarkDrift,
              UpdateChange, AnnounceThen, Goto, ReadbackFails, OnlyControl, OnlyOperationId,
              memory
<1>4. CASE ReplayCheckNext \/ CommitCheckNext \/ RestoreNext \/ ReplayNext \/ FinalizeNext
           \/ Replayed
  BY <1>4 DEF ReplayCheckNext, CommitCheckNext, RestoreNext, ReplayNext, FinalizeNext,
              Replayed, InLoop, EnsureExpected, MarkDrift, UpdateChange, AnnounceThen, Goto,
              ReadbackFails, OnlyControl, OnlyOperationId, memory
<1>5. CASE Restored \/ ReplayChecked \/ CommitChecked \/ Acknowledged \/ CommitSeal
           \/ RevisePrepare
  BY <1>5 DEF Restored, ReplayChecked, CommitChecked, Acknowledged, CommitSeal,
              RevisePrepare, InLoop, OnlyControl, memory
<1> QED BY <1>1, <1>2, <1>3, <1>4, <1>5 DEF KernelStep

\* An append that seals, finished or not, is the last one of its operation.
LEMMA SealingLog ==
  ASSUME TypeOK, Structure, log.seal = Open, LogStops, log'.seal # Open
  PROVE  /\ call.at = "append" /\ call.todo = {} /\ call.then = "ok" /\ ~call.afterEffect
         /\ log'.state = Written.state
         /\ \/ /\ call.event = Sealed("RolledBack") /\ call.op = "rollback_all"
               /\ log'.seal = "RolledBack"
            \/ /\ call.event = CommitSealed(candidate) /\ call.op = "finalize_recheck"
               /\ log'.seal = "Committed" /\ phase = "CommitPending"
<1>0. call \in Call
  BY DEF TypeOK, KernelTypeOK
<1>1. call.at = "append" /\ log'.seal = Written.seal /\ log'.state = Written.state
  BY StoppedLog DEF SameEntries
<1>2. Written.seal = FoldSeal(log, call.event)
  BY DEF Written, Replay
<1>3. \/ call.event = Sealed("RolledBack") /\ call.op = "rollback_all"
      \/ call.event = CommitSealed(candidate) /\ call.op = "finalize_recheck"
  BY <1>1, <1>2, SMT DEF FoldSeal, Structure, AppendInv, Started
<1>4. call.todo = {} /\ call.then = "ok" /\ ~call.afterEffect
  BY <1>0, <1>1, <1>3, SMT DEF Structure, AppendInv, Started, Sealed, CommitSealed, Call
<1>5. CASE call.event = Sealed("RolledBack") /\ call.op = "rollback_all"
  <2>1. log'.seal = "RolledBack"
    BY <1>1, <1>2, <1>5, SMT DEF FoldSeal, Sealed
  <2> QED BY <1>1, <1>4, <1>5, <2>1
<1>6. CASE call.event = CommitSealed(candidate) /\ call.op = "finalize_recheck"
  <2>1. log'.seal = "Committed"
    BY <1>1, <1>2, <1>6, SMT DEF FoldSeal, CommitSealed
  <2>2. phase = "CommitPending"
    BY <1>1, <1>6, PendingPhase DEF Structure
  <2> QED BY <1>1, <1>4, <1>6, <2>1, <2>2
<1> QED BY <1>3, <1>5, <1>6

LEMMA SealingAppend ==
  ASSUME TypeOK, Structure, log.seal = Open, UNCHANGED <<phase, retry>>,
         AppendDurable \/ AppendFails, log'.seal # Open
  PROVE  /\ call.at = "append" /\ call.todo = {} /\ call.then = "ok"
         /\ log'.state = Written.state
         /\ call'.op = call.op /\ call'.at \in {"ok", "error", "outcomeUnknown"}
         /\ UNCHANGED <<world, origin, drifted, prepared, candidate, issued>>
         /\ \/ /\ call.event = Sealed("RolledBack") /\ call.op = "rollback_all"
               /\ log'.seal = "RolledBack" /\ changes' = changes
               /\ call'.at # "outcomeUnknown"
            \/ /\ call.event = CommitSealed(candidate) /\ call.op = "finalize_recheck"
               /\ log'.seal = "Committed" /\ phase = "CommitPending"
               /\ call'.at # "error"
<1>0. call \in Call /\ changes \in [Change -> ChangeState \cup {Absent}]
  BY DEF TypeOK, KernelTypeOK
<1>1. UNCHANGED <<world, origin, drifted, prepared, candidate, issued>>
  BY DEF AppendDurable, AppendFails, environment
<1>2. LogStops
  BY DEF AppendDurable, AppendFails, LogStops
<1>3. call.at = "append" /\ call.todo = {} /\ call.then = "ok" /\ ~call.afterEffect
      /\ log'.state = Written.state
  BY <1>2, SealingLog
<1>4. call'.op = call.op /\ call'.at \in {"ok", IF call.event.type = "CommitSealed"
                                                THEN "outcomeUnknown" ELSE "error"}
  BY <1>0, <1>3 DEF AppendDurable, AppendFails, Call
<1>5. CASE /\ call.event = Sealed("RolledBack") /\ call.op = "rollback_all"
           /\ log'.seal = "RolledBack"
  <2>1. changes' = changes
    <3>1. CASE AppendDurable
      BY <1>0, <1>5, <3>1, SMT DEF AppendDurable, Memorise, Upserts, Sealed
    <3>2. CASE AppendFails
      BY <1>3, <3>2 DEF AppendFails
    <3> QED BY <3>1, <3>2
  <2>2. call'.at \in {"ok", "error"}
    BY <1>4, <1>5, SMT DEF Sealed
  <2> QED BY <1>1, <1>3, <1>4, <1>5, <2>1, <2>2
<1>6. CASE /\ call.event = CommitSealed(candidate) /\ call.op = "finalize_recheck"
           /\ log'.seal = "Committed" /\ phase = "CommitPending"
  <2>1. call'.at \in {"ok", "outcomeUnknown"}
    BY <1>4, <1>6, SMT DEF CommitSealed
  <2> QED BY <1>1, <1>3, <1>4, <1>6, <2>1
<1> QED BY <1>2, <1>5, <1>6, SealingLog

\* A log that is sealed keeps its seal, whatever is still appended to it.
LEMMA SealStays ==
  ASSUME TypeOK, Structure, SealInv, log.seal # Open, LogStops
  PROVE  /\ log'.seal = log.seal
         /\ log.seal = "Committed" => log' = log
<1>0. log \in Log /\ log.seal \in {"Committed", "RolledBack"}
  BY DEF TypeOK, KernelTypeOK, Log, TransactionSeal
<1> SUFFICES ASSUME call.at = "append"
             PROVE  log'.seal = log.seal /\ log.seal = "RolledBack"
  BY <1>0 DEF LogStops
<1>1. Active
  BY Running DEF Active, InEpisode, EpisodePhase, StartupStage, TypeOK, Structure
<1>2. log.seal = "RolledBack" /\ call.op = "rollback_all"
  BY <1>0, <1>1 DEF SealInv
<1>3. FoldSeal(log, call.event) = "RolledBack"
  BY <1>2, SMT DEF FoldSeal, Structure, AppendInv, Started, Sealed, CommitSealed
<1>4. Written.seal = "RolledBack"
  BY <1>3 DEF Written, Replay
<1> QED BY <1>2, <1>4, StoppedLog DEF SameEntries

\* In a sealed log, the kernel can only be repeating a rollback that is done:
\* its steps read resources back and append.
LEMMA SealedStep ==
  ASSUME TypeOK, Structure, SealInv, Step, log.seal # Open
  PROVE  /\ log.seal = "RolledBack" /\ Active /\ call.op = "rollback_all" /\ ~retry
         /\ RestoreNext \/ Restored \/ RestoreOne \/ AppendDurable \/ AppendFails
         /\ call.at \in {"loop", "restoreOne", "append"}
         /\ call.at \in {"loop", "restoreOne"} => AllRolledBack
         /\ call.at = "append" => call.then \in {"ok", "error"}
<1>0. KernelStep /\ log.seal \in {"Committed", "RolledBack"}
  BY DEF Step, TypeOK, KernelTypeOK, Log, TransactionSeal
<1>1. call.at \notin {"ok", "error", "outcomeUnknown"}
  BY <1>0 DEF KernelStep, AppendDurable, AppendFails, Apply, ApplyWrite, ApplyStatus,
     ApplyVerify, RestoreOne, MatchDesired, Restore, RestoreWrite, RestoreStatus,
     RestoreVerify, ReviseCheck,
     RevisePrepare, RestoreNext, Restored, ReplayCheckNext, ReplayChecked, ReplayNext,
     Replayed, CommitCheckNext, CommitChecked, FinalizeNext, Finalize, AckVerify,
     Acknowledged, CommitSeal, InLoop
<1>2. Active
  BY <1>1, Running DEF Active, InEpisode, EpisodePhase, StartupStage, TypeOK, Structure
<1>3. /\ log.seal = "RolledBack" /\ call.op = "rollback_all"
      /\ call.at \in {"loop", "restoreOne", "append"}
  BY <1>0, <1>1, <1>2 DEF SealInv, Ahead
<1>4. RestoreNext \/ Restored \/ RestoreOne \/ AppendDurable \/ AppendFails
  BY <1>0, <1>3 DEF KernelStep, Apply, ApplyWrite, ApplyStatus, ApplyVerify, MatchDesired,
     Restore, RestoreWrite, RestoreStatus, RestoreVerify, ReviseCheck, RevisePrepare, ReplayCheckNext,
     ReplayChecked, ReplayNext, Replayed, CommitCheckNext, CommitChecked, FinalizeNext,
     Finalize, AckVerify, Acknowledged, CommitSeal, InLoop
<1> QED BY <1>2, <1>3, <1>4 DEF SealInv

\* A sealed log keeps its seal, and the tuned system its values.
LEMMA SealedStepFrame ==
  ASSUME TypeOK, Structure, SealInv, Step, log.seal # Open
  PROVE  UNCHANGED <<world, origin, drifted, issued>> /\ log'.seal = log.seal
<1>1. RestoreNext \/ Restored \/ RestoreOne \/ AppendDurable \/ AppendFails
  BY SealedStep
<1>2. CASE RestoreNext \/ Restored
  BY <1>2 DEF RestoreNext, Restored, OnlyControl, environment
<1>3. CASE RestoreOne
  BY <1>3 DEF RestoreOne, UpdateChange, MarkDrift, Goto, ReadbackFails, OnlyControl,
              OnlyOperationId, environment
<1>4. CASE AppendDurable \/ AppendFails
  <2>1. UNCHANGED <<world, origin, drifted, issued>>
    BY <1>4 DEF AppendDurable, AppendFails, environment
  <2>2. LogStops
    BY <1>4 DEF AppendDurable, AppendFails, LogStops
  <2> QED BY <2>1, <2>2, SealStays
<1> QED BY <1>1, <1>2, <1>3, <1>4

LEMMA SealedStepSealInv ==
  ASSUME TypeOK, Structure, SealInv, Step, log.seal # Open
  PROVE  SealInv'
<1>0. /\ log'.seal = "RolledBack" /\ call.op = "rollback_all" /\ ~retry /\ ~retry'
      /\ call \in Call
      /\ call.at \in {"loop", "restoreOne"} => AllRolledBack
      /\ call.at = "append" => call.then \in {"ok", "error"}
  BY SealedStep, SealedStepFrame DEF Step, TypeOK, KernelTypeOK
<1>1. call'.op = "rollback_all"
  BY <1>0, SealedStep, OperationKept DEF Step, ReplayChecked, CommitChecked, Acknowledged, InLoop
<1> SUFFICES /\ call'.at \in {"ok", "error", "loop", "restoreOne", "append"}
             /\ call'.at = "append" => call'.then \in {"ok", "error"}
             /\ call'.at \in {"loop", "restoreOne"} => AllRolledBack'
  BY <1>0, <1>1 DEF SealInv, Ahead
<1>2. CASE RestoreNext
  <2>1. PICK c \in Change : call' = [Visit(c) EXCEPT !.at = "restoreOne"]
    BY <1>2 DEF RestoreNext
  <2>2. call'.at = "restoreOne"
    BY <2>1, VisitType, MoveShape DEF TypeOK
  <2>3. changes' = changes /\ call.at = "loop"
    BY <1>2 DEF RestoreNext, OnlyControl, memory, InLoop
  <2> QED BY <1>0, <2>2, <2>3 DEF AllRolledBack, Known
<1>3. CASE Restored
  BY <1>0, <1>3 DEF Restored, InLoop, AppendThen, Call
<1>4. CASE RestoreOne
  <2>1. call.at = "restoreOne" /\ call.change \in Known
    BY <1>4 DEF RestoreOne, Structure, ChangeInv, Ahead, ChangeLocation, ReviseLocation,
                RestoreLocation, Creating, Appending
  <2>2. changes[call.change] = "RolledBack" /\ RestoredState = "RolledBack"
        /\ AfterRestore = "loop" /\ AlreadyRolledBack
    BY <1>0, <2>1 DEF AllRolledBack, RestoredState, AfterRestore, AlreadyRolledBack
  <2>3. \/ Goto("loop")
        \/ MarkDrift(call)
        \/ ReadbackFails
    BY <1>4, <2>2 DEF RestoreOne
  <2>4. CASE Goto("loop")
    BY <1>0, <2>1, <2>4, MoveShape, SMT DEF Goto, OnlyControl, memory, AllRolledBack, Known
  <2>5. CASE MarkDrift(call)
    BY <1>0, <2>5, PersistShape DEF MarkDrift, UpdateChange
  <2>6. CASE ReadbackFails
    BY <1>0, <2>6, MoveShape, SMT DEF ReadbackFails, Goto
  <2> QED BY <2>3, <2>4, <2>5, <2>6
<1>5. CASE AppendDurable \/ AppendFails
  <2>1. call.at = "append"
    BY <1>5 DEF AppendDurable, AppendFails
  <2>2. call.event.type # "CommitSealed"
    BY <1>0, <2>1, SMT DEF Structure, AppendInv, Started, Sealed, CommitSealed
  <2>3. call'.at \in {call.then, "error"}
    BY <1>0, <1>5, <2>2 DEF AppendDurable, AppendFails, Call
  <2> QED BY <1>0, <2>1, <2>3
<1> QED BY <1>2, <1>3, <1>4, <1>5, SealedStep

LEMMA KernelStepSealInv ==
  ASSUME TypeOK, Structure, RollbackInv, SealInv, Step
  PROVE  SealInv'
<1>1. CASE log.seal # Open
  BY <1>1, SealedStepSealInv
<1>2. CASE log.seal = Open /\ log'.seal = Open
  BY <1>2 DEF SealInv, Open
<1>3. CASE log.seal = Open /\ log'.seal # Open
  <2>0. UNCHANGED <<phase, retry>> /\ (AppendDurable \/ AppendFails)
    BY <1>3, LogKept DEF Step
  <2>1. call.at = "append" /\ call.todo = {} /\ call.then = "ok" /\ call'.op = call.op
    BY <1>3, <2>0, SealingAppend
  <2>2. CASE /\ call.event = Sealed("RolledBack") /\ call.op = "rollback_all"
             /\ log'.seal = "RolledBack" /\ changes' = changes
             /\ call'.at \in {"ok", "error"}
    <3>1. InHand = {} /\ Ahead = "ok"
      BY <2>1, <2>2, SMT DEF InHand, RestoreLocation, Sealed, Ahead
    <3>2. AllRolledBack'
      BY <2>1, <2>2, <3>1 DEF RollbackInv, AllRolledBack, Known
    <3> QED BY <2>1, <2>2, <3>2 DEF SealInv, Ahead
  <2>3. CASE /\ call.op = "finalize_recheck" /\ log'.seal = "Committed"
             /\ phase = "CommitPending" /\ call'.at \in {"ok", "outcomeUnknown"}
    BY <2>0, <2>1, <2>3 DEF SealInv
  <2> QED BY <1>3, <2>0, <2>2, <2>3, SealingAppend
<1> QED BY <1>1, <1>2, <1>3

\* Between the operations of the kernel, no episode goes on after a seal.
LEMMA SealedEpisode ==
  ASSUME TypeOK, Structure, SealInv, EpisodeStep, log.seal # Open
  PROVE  EpisodeEnds \/ (EpisodeRollsBack /\ RollbackRetried /\ log.seal = "RolledBack")
<1>0. InEpisode /\ Active /\ log.seal \in {"Committed", "RolledBack"}
  BY EpisodeCases DEF Active, TypeOK, KernelTypeOK, Log, TransactionSeal
<1>1. CASE log.seal = "Committed"
  <2>1. /\ phase \in {"CommitPending", "RecoveryRequired", "Committed"}
        /\ call.op = "finalize_recheck" /\ call.at \in {"ok", "outcomeUnknown"}
    BY <1>0, <1>1 DEF SealInv
  <2>2. CommitOutcomeUnknown \/ CommitCompleted
    BY <2>1 DEF EpisodeStep, BeginFailed, Mutate, RequestCommit, EvaluateCandidate,
       FinalizeImproved, EvaluationRejects, Abort, FinishSession, OperationFailed,
       RollbackCompleted, RollbackRetried, RollbackFailed
  <2> QED BY <2>2 DEF CommitOutcomeUnknown, CommitCompleted, EpisodeEnds, Idle
<1>2. CASE log.seal = "RolledBack"
  <2>1. call.op = "rollback_all"
    BY <1>0, <1>2 DEF SealInv
  <2>2. phase \notin {"Experimenting", "CommitPending"}
    BY <2>1 DEF Structure, ControlInv
  <2>3. RollbackCompleted \/ RollbackRetried \/ RollbackFailed
    BY <2>2 DEF EpisodeStep, BeginFailed, Mutate, RequestCommit, EvaluateCandidate,
       FinalizeImproved, EvaluationRejects, Abort, FinishSession, OperationFailed,
       CommitOutcomeUnknown, CommitCompleted
  <2> QED BY <1>2, <2>3 DEF RollbackCompleted, RollbackRetried, RollbackFailed, EpisodeEnds,
             EpisodeRollsBack, StartRollback, Idle
<1> QED BY <1>0, <1>1, <1>2

LEMMA OtherStepSealInv ==
  ASSUME TypeOK, Structure, SealInv, EpisodeStep \/ ProcessStep \/ Drift
  PROVE  SealInv'
<1>1. CASE EpisodeStep /\ log.seal = Open
  <2>1. log' = log
    <3>1. CASE EpisodeEnds
      BY <3>1 DEF EpisodeEnds, kernelVars
    <3>2. CASE EpisodeRollsBack
      BY <3>2, RollbackStarts DEF EpisodeRollsBack
    <3>3. CASE EpisodeGoesOn
      BY <3>3 DEF EpisodeGoesOn
    <3> QED BY <1>1, <3>1, <3>2, <3>3, EpisodeCases
  <2> QED BY <1>1, <2>1 DEF SealInv, Open
<1>2. CASE EpisodeStep /\ log.seal # Open
  <2>1. CASE EpisodeEnds
    <3>1. UNCHANGED <<call, log, retry, changes>> /\ phase' \in EpisodePhase
      BY <2>1 DEF EpisodeEnds, kernelVars, memory, EpisodePhase
    <3>2. InEpisode /\ Active /\ Ahead' = Ahead /\ (AllRolledBack => AllRolledBack')
      BY <1>2, <3>1, EpisodeCases DEF Active, Ahead, AllRolledBack, Known
    <3>3. CASE log.seal = "RolledBack"
      BY <3>1, <3>2, <3>3 DEF SealInv
    <3>4. CASE log.seal = "Committed"
      <4>1. /\ phase \in {"CommitPending", "RecoveryRequired", "Committed"}
            /\ call.op = "finalize_recheck" /\ call.at \in {"ok", "outcomeUnknown"}
        BY <3>2, <3>4 DEF SealInv
      <4>2. CommitOutcomeUnknown \/ CommitCompleted
        BY <1>2, <4>1 DEF EpisodeStep, BeginFailed, Mutate, RequestCommit, EvaluateCandidate,
           FinalizeImproved, EvaluationRejects, Abort, FinishSession, OperationFailed,
           RollbackCompleted, RollbackRetried, RollbackFailed
      <4> QED BY <3>1, <3>4, <4>1, <4>2 DEF SealInv, CommitOutcomeUnknown, CommitCompleted
    <3> QED BY <1>2, <3>3, <3>4 DEF TypeOK, KernelTypeOK, Log, TransactionSeal
  <2>2. CASE EpisodeRollsBack /\ RollbackRetried /\ log.seal = "RolledBack"
    <3>1. retry /\ ~retry' /\ phase = "RollingBack"
      BY <2>2 DEF RollbackRetried, StartRollback
    <3>2. AllRolledBack
      BY <2>2, <3>1 DEF SealInv, Active, InEpisode, EpisodePhase
    <3>3. /\ call'.op = "rollback_all" /\ call'.at = "loop" /\ log' = log
          /\ Known' = Known /\ changes' = changes
      BY <2>2, <3>2, RollbackStarts DEF EpisodeRollsBack
    <3> QED BY <2>2, <3>1, <3>2, <3>3 DEF SealInv, Ahead, AllRolledBack
  <2> QED BY <1>2, <2>1, <2>2, SealedEpisode
<1>3. CASE ProcessStep
  <2>1. CASE Loses
    BY <2>1, LossShape DEF SealInv
  <2>2. CASE Restart
    <3>1. call = IdleCall /\ call' = call /\ phase' = "EarlyPass"
      BY <2>2 DEF Restart, kernelVars, Structure, ControlInv
    <3>2. call'.op = "begin"
      BY <3>1 DEF IdleCall
    <3> QED BY <3>1, <3>2 DEF SealInv, Active, InEpisode, EpisodePhase
  <2>3. CASE RecoverPending
    BY <2>3, RecoverShape DEF SealInv, Open
  <2> QED BY <1>3, <2>1, <2>2, <2>3, ProcessCases
<1>4. CASE Drift
  <2>1. UNCHANGED <<log, changes, call, phase, retry>>
    BY <1>4 DEF Drift, ExternalWrite, memory
  <2> QED BY <2>1 DEF SealInv, Active, InEpisode, Ahead, AllRolledBack, Known
<1> QED BY <1>1, <1>2, <1>3, <1>4

---------------------------------------------------------------------------
(* How far a commit has got. *)

\* While a commit is pending no change is created or prepared again.
LEMMA PendingKeepsHeads ==
  ASSUME TypeOK, Structure, Step, phase = "CommitPending"
  PROVE  /\ UNCHANGED <<prepared, candidate, drifted>> /\ Heads' = Heads
<1>0. KernelStep /\ call \in Call /\ call.op \notin {"begin", "experiment", "rollback_all"}
      /\ changes \in [Change -> ChangeState \cup {Absent}]
  BY DEF Step, TypeOK, KernelTypeOK, Structure, ControlInv
<1>1. UNCHANGED <<prepared, candidate, drifted>>
  <2>1. CASE \/ AppendDurable \/ AppendFails \/ Apply \/ ApplyWrite
             \/ Restore \/ RestoreWrite \/ Finalize
    BY <2>1 DEF AppendDurable, AppendFails, Apply, ApplyWrite, Restore, RestoreWrite, Finalize,
                DriverFrame, WriteFrame, environment
  <2>2. CASE ApplyStatus \/ ApplyVerify \/ RestoreStatus \/ RestoreVerify
    BY <2>2 DEF ApplyStatus, ApplyVerify, RestoreStatus, RestoreVerify, RecordOutcome, Goto,
                ReadbackFails, OnlyControl, environment
  <2>3. CASE RestoreOne \/ MatchDesired \/ ReviseCheck \/ AckVerify
    BY <2>3 DEF RestoreOne, MatchDesired, ReviseCheck, AckVerify, EnsureExpected, MarkDrift,
                UpdateChange, AnnounceThen, Goto, ReadbackFails, OnlyControl,
                OnlyOperationId, environment
  <2>4. CASE ReplayCheckNext \/ CommitCheckNext \/ RestoreNext \/ ReplayNext \/ FinalizeNext
             \/ Replayed
    BY <2>4 DEF ReplayCheckNext, CommitCheckNext, RestoreNext, ReplayNext, FinalizeNext,
                Replayed, EnsureExpected, MarkDrift, UpdateChange, AnnounceThen, Goto,
                ReadbackFails, OnlyControl, OnlyOperationId, environment
  <2>5. CASE Restored \/ ReplayChecked \/ CommitChecked \/ Acknowledged \/ CommitSeal
    BY <2>5 DEF Restored, ReplayChecked, CommitChecked, Acknowledged, CommitSeal,
                OnlyControl, environment
  <2>6. CASE RevisePrepare
    BY <1>0, <2>6 DEF RevisePrepare, Structure, ControlInv, Visits, Ahead, Call, Operation,
       RestoreLocation, ApplyLocation
  <2> QED BY <1>0, <2>1, <2>2, <2>3, <2>4, <2>5, <2>6 DEF KernelStep
<1>2. Known' = Known
  <2>1. CASE ~AppendDurable /\ ~AppendFails
    BY <1>0, <2>1, LogKept DEF Known
  <2>2. CASE AppendDurable
    <3>1. ~Creating
      BY <1>0, <2>2, SMT DEF AppendDurable, Structure, AppendInv, Creating, Appending, Started,
                        Sealed, CommitSealed
    <3> QED BY <2>2, <3>1, WrittenChanges DEF AppendDurable, NewChange
  <2>3. CASE AppendFails
    <3>1. call.afterEffect => call.change \in Known
      BY <2>3 DEF AppendFails, Structure, AppendInv
    <3>2. changes' = changes \/ (call.change \in Known
             /\ changes' = [changes EXCEPT ![call.change] = "AppliedUnknown"])
      BY <1>0, <2>3, <3>1 DEF AppendFails, Call
    <3> QED BY <1>0, <3>2 DEF Known, Absent
  <2> QED BY <2>1, <2>2, <2>3
<1> QED BY <1>1, <1>2 DEF Heads, IsHead, Head

LEMMA KernelStepCommitInv ==
  ASSUME TypeOK, Structure, CommitInv, Step
  PROVE  CommitInv'
<1> SUFFICES ASSUME phase = "CommitPending" PROVE CommitInv'
  BY DEF CommitInv, Step
<1>0. /\ KernelStep /\ call \in Call /\ phase' = phase
      /\ UNCHANGED <<prepared, candidate, drifted>> /\ Heads' = Heads
      /\ candidate \subseteq Heads
  BY PendingKeepsHeads DEF Step, TypeOK, KernelTypeOK, CommitInv
<1> SUFFICES ASSUME call'.op = "finalize_recheck", Ahead' \in {"ok", "loop"},
                    NEW c \in Heads \ call'.todo, Undrifted(c)'
             PROVE  AtCommitValue(c)'
  BY <1>0 DEF CommitInv
<1>1. ~ReplayChecked /\ ~CommitChecked
  BY <1>0 DEF ReplayChecked, CommitChecked, InLoop, Call
<1>2. CASE Acknowledged
  <2>1. call'.todo = Heads
    BY <1>0, <1>2 DEF Acknowledged, Call
  <2> QED BY <2>1
<1>3. CASE ~Acknowledged
  <2>1. call.op = "finalize_recheck"
    BY <1>0, <1>1, <1>3, OperationKept
  <2>2. Ahead \in {"ok", "error", "loop", "outcomeUnknown"}
    BY <2>1 DEF Structure, ControlInv, Visits
  <2>3. AppendDurable \/ AppendFails \/ CommitCheckNext \/ CommitSeal
    BY <1>0, <2>1, <2>2 DEF Ahead, KernelStep, Apply, ApplyWrite, ApplyStatus,
       ApplyVerify, RestoreOne, MatchDesired, Restore, RestoreWrite, RestoreStatus, RestoreVerify, ReviseCheck,
       RevisePrepare, RestoreNext, Restored, ReplayCheckNext, ReplayChecked, ReplayNext,
       Replayed, CommitChecked, FinalizeNext, Finalize, AckVerify, Acknowledged, InLoop
  <2>4. world' = world
    BY <2>3 DEF AppendDurable, AppendFails, CommitCheckNext, CommitSeal, EnsureExpected,
       MarkDrift, UpdateChange, ReadbackFails, Goto, OnlyControl, OnlyOperationId, environment
  <2>5. Undrifted(c) /\ AtCommitValue(c)' = AtCommitValue(c)
    BY <1>0, <2>4 DEF Undrifted, AtCommitValue, AtDesired, AtBaseline, Holds
  <2>6. \A d \in Heads \ call.todo : Ahead \in {"ok", "loop"} /\ Undrifted(d) => AtCommitValue(d)
    BY <2>1 DEF CommitInv
  <2>7. CASE AppendDurable
    <3>1. call'.at = call.then /\ call'.todo = call.todo /\ call.at = "append"
      BY <1>0, <2>7 DEF AppendDurable, Call
    <3>2. Ahead' = Ahead
      BY <2>2, <3>1 DEF Ahead
    <3> QED BY <2>5, <2>6, <3>1, <3>2
  <2>8. CASE AppendFails
    <3>1. call'.at \in {"error", "outcomeUnknown"}
      BY <1>0, <2>8 DEF AppendFails, Call
    <3> QED BY <3>1 DEF Ahead
  <2>9. CASE CommitSeal
    <3>1. call'.todo = call.todo /\ call.at = "loop"
      BY <1>0, <2>9 DEF CommitSeal, InLoop, AppendThen, Call
    <3> QED BY <2>5, <2>6, <3>1 DEF Ahead
  <2>10. CASE CommitCheckNext
    <3>1. PICK d \in Change : EnsureExpected(Visit(d), AtCommitValue(d), "loop")
      BY <2>10 DEF CommitCheckNext
    <3>2. Visit(d) \in Call /\ Visit(d).todo = call.todo \ {d}
      BY <1>0, VisitType, VisitShape DEF TypeOK
    <3>3. CASE AtCommitValue(d) /\ call' = [Visit(d) EXCEPT !.at = "loop"]
      <4>1. call'.todo = call.todo \ {d}
        BY <3>2, <3>3, MoveShape
      <4>2. call.at = "loop"
        BY <2>10 DEF CommitCheckNext, InLoop
      <4> QED BY <2>5, <2>6, <3>3, <4>1, <4>2 DEF Ahead
    <3>4. CASE MarkDrift(Visit(d))
      <4>1. call'.at = "append" /\ call'.then = "error"
        BY <3>2, <3>4, PersistShape DEF MarkDrift, UpdateChange
      <4> QED BY <4>1 DEF Ahead
    <3>5. CASE ReadbackFails
      <4>1. call'.at = "error"
        BY <1>0, <3>5, MoveShape DEF ReadbackFails, Goto
      <4> QED BY <4>1 DEF Ahead
    <3> QED BY <3>1, <3>3, <3>4, <3>5 DEF EnsureExpected
  <2> QED BY <2>3, <2>7, <2>8, <2>9, <2>10
<1> QED BY <1>2, <1>3

LEMMA OtherStepCommitInv ==
  ASSUME TypeOK, Structure, CommitInv, EpisodeStep \/ ProcessStep \/ Drift
  PROVE  CommitInv'
<1>1. CASE EpisodeStep
  <2>2. CASE Mutate
    BY <2>2 DEF Mutate, CommitInv
  <2>3. CASE EvaluateCandidate \/ FinalizeImproved
    <3>1. /\ phase = "CommitPending" /\ UNCHANGED <<phase, prepared, changes, candidate>>
          /\ \E op \in {"replay_check", "replay", "finalize_check", "finalize"} :
               \E at, todo : call' = [Calls(op) EXCEPT !.at = at, !.todo = todo]
                          \/ call' = [Calls(op) EXCEPT !.at = at]
      BY <2>3 DEF EvaluateCandidate, FinalizeImproved, ReplayCandidate, FinalizeCandidate,
                  StartLoop, OnlyControl, memory
    <3>2. call'.op # "finalize_recheck"
      BY <3>1 DEF Calls, IdleCall
    <3> QED BY <3>1, <3>2 DEF CommitInv, Heads, IsHead, Head, Known
  <2>4. ASSUME NEW s \in SUBSET Change, RequestCommit(s) PROVE CommitInv'
    <3>1. candidate' \subseteq Heads /\ UNCHANGED <<prepared, changes>>
      BY <2>4 DEF RequestCommit, memory
    <3>2. call'.op = "restore_baseline"
      BY <2>4 DEF RequestCommit, Calls, IdleCall
    <3> QED BY <3>1, <3>2 DEF CommitInv, Heads, IsHead, Head, Known
  <2>5. CASE \/ BeginFailed \/ CommitOutcomeUnknown \/ CommitCompleted
             \/ RollbackCompleted \/ RollbackFailed
             \/ EvaluationRejects \/ Abort \/ FinishSession \/ OperationFailed
             \/ RollbackRetried
    BY <2>5 DEF BeginFailed, CommitOutcomeUnknown, CommitCompleted, RollbackCompleted,
                RollbackFailed, EvaluationRejects, Abort, FinishSession, OperationFailed,
                RollbackRetried, StartRollback, CommitInv
  <2> QED BY <1>1, <2>2, <2>3, <2>4, <2>5 DEF EpisodeStep
<1>2. CASE ProcessStep
  <2>1. phase' # "CommitPending"
    BY <1>2, ProcessCases, LossShape DEF Restart, RecoverPending, EpisodePhase
  <2> QED BY <2>1 DEF CommitInv
<1>3. CASE Drift
  <2>1. PICK r \in Resource, v \in Value : ExternalWrite(r, v)
    BY <1>3 DEF Drift
  <2>2. /\ UNCHANGED <<prepared, changes, candidate, call, phase>>
        /\ world' = [world EXCEPT ![r] = v] /\ drifted' = drifted \cup {r}
    BY <1>3, <2>1 DEF Drift, ExternalWrite, memory
  <2>3. \A c \in Change : Undrifted(c)' =>
          Undrifted(c) /\ (AtCommitValue(c) => AtCommitValue(c)')
    BY <2>2 DEF Undrifted, AtCommitValue, AtDesired, AtBaseline, Holds, TypeOK,
                KernelTypeOK, PreparedMutation
  <2>4. Heads' = Heads /\ Heads \subseteq Change /\ Ahead' = Ahead
    BY <2>2 DEF Heads, IsHead, Head, Known, Ahead
  <2> QED BY <2>2, <2>3, <2>4 DEF CommitInv
<1> QED BY <1>1, <1>2, <1>3

---------------------------------------------------------------------------
(* The moment of the seal. *)

LEMMA RollbackSeals ==
  ASSUME TypeOK, Structure, RollbackInv, call.op = "rollback_all", call.at = "append",
         call.event = Sealed("RolledBack"), call.todo = {}, call.then = "ok"
  PROVE  \A r \in Resource \ drifted : world[r] = origin[r]
<1> SUFFICES ASSUME NEW r \in Resource \ drifted, world[r] # origin[r] PROVE FALSE
  OBVIOUS
<1>1. PICK c \in Known : Explains(c, r)
  BY DEF Structure, WorldInv, Active
<1>2. Home(c)
  BY SMT DEF RollbackInv, InHand, RestoreLocation, Ahead, Sealed, Shared
<1>3. prepared[c].resource = r
  BY <1>1, SMT DEF Explains
<1> QED BY <1>2, <1>3 DEF Home, Undrifted

LEMMA CommitSeals ==
  ASSUME TypeOK, Structure, CommitInv, phase = "CommitPending",
         call.op = "finalize_recheck", call.at = "append", call.todo = {}, call.then = "ok",
         call.event = CommitSealed(candidate), log'.state = Written.state,
         UNCHANGED <<world, origin, drifted, prepared>>
  PROVE  CommitInstallsCandidate'
<1>1. candidate \subseteq Heads /\ \A c \in Heads : Undrifted(c) => AtCommitValue(c)
  BY DEF CommitInv, Ahead
<1>2. Heads \subseteq LogChanges(log) /\ LogChanges(log) = Known
  BY DEF Heads, Structure, MemoryInv
<1>3. \A c \in Change : log'.state[c] = "Finalized" <=> c \in candidate
  <2>1. \A c \in Change : log'.state[c] =
          IF log.state[c] # Absent
            THEN IF c \in candidate THEN "Finalized" ELSE "RolledBack"
            ELSE log.state[c]
    BY SMT DEF Written, Replay, FoldState, Upserts, CommitSealed
  <2> QED BY <1>1, <1>2, <2>1 DEF LogChanges, Absent
<1> SUFFICES ASSUME NEW r \in Resource \ drifted'
             PROVE  LET finalized == {c \in Change : /\ log'.state[c] = "Finalized"
                                                     /\ prepared'[c].resource = r}
                    IN IF finalized = {} THEN world'[r] = origin'[r]
                       ELSE \A c \in finalized : world'[r] = prepared'[c].desired
  BY DEF CommitInstallsCandidate
<1> DEFINE finalized == {c \in Change : log'.state[c] = "Finalized" /\ prepared[c].resource = r}
<1>4. \A c \in finalized : world[r] = prepared[c].desired
  BY <1>1, <1>3 DEF Undrifted, AtCommitValue, AtDesired, Holds
<1>5. ASSUME finalized = {} PROVE world[r] = origin[r]
  <2> SUFFICES ASSUME world[r] # origin[r] PROVE FALSE
    OBVIOUS
  <2>1. PICK c \in Known : Explains(c, r)
    BY DEF Structure, WorldInv, Active, InEpisode, EpisodePhase
  <2>2. prepared[c].resource = r
    BY <2>1, SMT DEF Explains
  <2>3. PICK h : h \in Head(r)
    <3>1. OrderInv
      BY DEF Structure
    <3> QED BY <2>2, <3>1 DEF OrderInv
  <2>4. h \in Known /\ prepared[h].resource = r
    BY <2>3 DEF Head, ResourceHead
  <2>5. h \in Heads /\ h \in Change /\ Undrifted(h)
    BY <2>3, <2>4 DEF Heads, IsHead, Known, Undrifted
  <2>6. h \notin candidate
    BY <1>3, <1>5, <2>4, <2>5
  <2>7. world[r] = prepared[h].baseline
    BY <1>1, <2>4, <2>5, <2>6 DEF AtCommitValue, AtBaseline, Holds
  <2>8. prepared[h].baseline = origin[r]
    BY <1>2, <2>4, <2>5 DEF Structure, BaselineInv
  <2> QED BY <2>7, <2>8
<1> QED BY <1>4, <1>5

\* The coordinator's own steps touch neither log nor system.
LEMMA EpisodeStepFrame ==
  ASSUME TypeOK, EpisodeStep
  PROVE  UNCHANGED <<world, origin, drifted, log, issued>>
<1>1. CASE EpisodeEnds
  BY <1>1 DEF EpisodeEnds, kernelVars, environment
<1>2. CASE EpisodeRollsBack
  BY <1>2, RollbackStarts DEF EpisodeRollsBack
<1>3. CASE EpisodeGoesOn
  BY <1>3 DEF EpisodeGoesOn
<1> QED BY <1>1, <1>2, <1>3, EpisodeCases

\* Losses and startups leave the system alone, and the log but for an append in
\* progress.
LEMMA ProcessStepFrame ==
  ASSUME TypeOK, Structure, ProcessStep
  PROVE  UNCHANGED <<world, origin, drifted, prepared, issued>> /\ LogStops
<1>1. CASE Restart
  BY <1>1 DEF Restart, kernelVars, environment, LogStops
<1>2. CASE RecoverPending
  BY <1>2, RecoverShape DEF LogStops
<1> QED BY <1>1, <1>2, ProcessCases, LossShape

\* With a seal in the log, nothing but an outsider touches the system.
LEMMA SealedFrame ==
  ASSUME TypeOK, Structure, SealInv, log.seal # Open, Step \/ EpisodeStep \/ ProcessStep
  PROVE  UNCHANGED <<world, origin, drifted, issued>> /\ log'.seal = log.seal
BY SealedStepFrame, EpisodeStepFrame, ProcessStepFrame, SealStays

LEMMA RollbackSealKept ==
  ASSUME SafetyInv, Next
  PROVE  RollbackRestoresOrigin'
<1>0. TypeOK /\ Structure /\ SealInv /\ RollbackInv /\ RollbackRestoresOrigin
  BY DEF SafetyInv, Structure
<1> SUFFICES ASSUME log'.seal = "RolledBack"
             PROVE  \A r \in Resource \ drifted' : world'[r] = origin'[r]
  BY DEF RollbackRestoresOrigin
<1>1. CASE log.seal # Open /\ (Step \/ EpisodeStep \/ ProcessStep)
  BY <1>0, <1>1, SealedFrame DEF RollbackRestoresOrigin
<1>2. CASE Drift
  <2>1. PICK r \in Resource, v \in Value : ExternalWrite(r, v)
    BY <1>2 DEF Drift
  <2>2. /\ UNCHANGED <<origin, log>>
        /\ world' = [world EXCEPT ![r] = v] /\ drifted' = drifted \cup {r}
    BY <2>1 DEF ExternalWrite
  <2> QED BY <1>0, <2>2 DEF RollbackRestoresOrigin, TypeOK, KernelTypeOK
<1>3. CASE log.seal = Open /\ Step
  <2>1. UNCHANGED <<phase, retry>> /\ (AppendDurable \/ AppendFails) /\ log'.seal # Open
    BY <1>3, LogKept DEF Step, Open
  <2>2. /\ call.event = Sealed("RolledBack") /\ call.op = "rollback_all"
        /\ call.at = "append" /\ call.todo = {} /\ call.then = "ok"
        /\ UNCHANGED <<world, origin, drifted>>
    BY <1>0, <1>3, <2>1, SealingAppend
  <2> QED BY <1>0, <2>2, RollbackSeals
<1>4. CASE log.seal = Open /\ EpisodeStep
  BY <1>0, <1>4, EpisodeStepFrame DEF Open
<1>5. CASE log.seal = Open /\ ProcessStep
  <2>1. UNCHANGED <<world, origin, drifted>> /\ LogStops /\ log'.seal # Open
    BY <1>0, <1>5, ProcessStepFrame DEF Open
  <2>2. /\ call.event = Sealed("RolledBack") /\ call.op = "rollback_all"
        /\ call.at = "append" /\ call.todo = {} /\ call.then = "ok"
    BY <1>0, <1>5, <2>1, SealingLog
  <2> QED BY <1>0, <2>1, <2>2, RollbackSeals
<1> QED BY <1>1, <1>2, <1>3, <1>4, <1>5 DEF Next

LEMMA CommitSealKept ==
  ASSUME SafetyInv, Next
  PROVE  CommitInstallsCandidate'
<1>0. /\ TypeOK /\ Structure /\ SealInv /\ RollbackInv /\ CommitInv
      /\ CommitInstallsCandidate
  BY DEF SafetyInv, Structure
<1> SUFFICES ASSUME log'.seal = "Committed" PROVE CommitInstallsCandidate'
  BY DEF CommitInstallsCandidate
<1>1. CASE UNCHANGED <<world, origin, drifted, log, prepared>>
  BY <1>0, <1>1, ZenonT(30) DEF CommitInstallsCandidate
<1>2. CASE Drift
  <2>1. PICK r \in Resource, v \in Value : ExternalWrite(r, v)
    BY <1>2 DEF Drift
  <2>2. /\ UNCHANGED <<origin, log, prepared>>
        /\ world' = [world EXCEPT ![r] = v] /\ drifted' = drifted \cup {r}
    BY <2>1 DEF ExternalWrite
  <2>3. \A s \in Resource \ drifted' : s \in Resource \ drifted /\ world'[s] = world[s]
    BY <1>0, <2>2 DEF TypeOK, KernelTypeOK
  <2> QED BY <1>0, <2>2, <2>3, SMT DEF CommitInstallsCandidate
<1>3. CASE log.seal # Open /\ Step
  BY <1>0, <1>3, SealedStep, SealedStepFrame
<1>4. CASE log.seal = Open /\ Step
  <2>1. UNCHANGED <<phase, retry>> /\ (AppendDurable \/ AppendFails) /\ log'.seal # Open
    BY <1>4, LogKept DEF Step, Open
  <2>2. /\ call.event = CommitSealed(candidate) /\ call.op = "finalize_recheck"
        /\ call.at = "append" /\ call.todo = {} /\ call.then = "ok"
        /\ phase = "CommitPending" /\ log'.state = Written.state
        /\ UNCHANGED <<world, origin, drifted, prepared>>
    BY <1>0, <1>4, <2>1, SealingAppend
  <2> QED BY <1>0, <2>2, CommitSeals
<1>5. CASE log.seal = Open /\ ProcessStep
  <2>1. UNCHANGED <<world, origin, drifted, prepared>> /\ LogStops /\ log'.seal # Open
    BY <1>0, <1>5, ProcessStepFrame DEF Open
  <2>2. /\ call.event = CommitSealed(candidate) /\ call.op = "finalize_recheck"
        /\ call.at = "append" /\ call.todo = {} /\ call.then = "ok"
        /\ phase = "CommitPending" /\ log'.state = Written.state
    BY <1>0, <1>5, <2>1, SealingLog
  <2> QED BY <1>0, <2>1, <2>2, CommitSeals
<1>6. CASE EpisodeStep
  <2>1. CASE EpisodeEnds
    BY <1>1, <2>1 DEF EpisodeEnds, kernelVars, environment
  <2>2. UNCHANGED log
    BY <1>0, <1>6, EpisodeStepFrame
  <2> QED BY <1>0, <1>6, <2>1, <2>2, SealedEpisode DEF Open
<1>7. CASE log.seal # Open /\ ProcessStep
  <2>1. UNCHANGED <<world, origin, drifted, prepared>> /\ LogStops
    BY <1>0, <1>7, ProcessStepFrame
  <2> QED BY <1>0, <1>1, <1>7, <2>1, SealStays
<1> QED BY <1>2, <1>3, <1>4, <1>5, <1>6, <1>7 DEF Next

---------------------------------------------------------------------------
(* Type correctness *)

\* Replaying one entry over a log gives a log, whether it is accepted or not.
LEMMA ReplayType ==
  ASSUME NEW l \in Log, NEW p, NEW n, NEW ev \in WalEvent
  PROVE  Replay(l, p, n, ev) \in Log
<1>1. FoldState(l, ev) \in [Change -> ChangeState \cup {Absent}]
  BY SMT DEF FoldState, Upserts, Log, WalEvent, ChangeState
<1>2. FoldVerified(l, ev) \in SUBSET Change
  BY DEF FoldVerified
<1>3. FoldIntent(l, ev) \in [Change -> SUBSET Intent]
  BY SMT DEF FoldIntent, Unresolved, Upserts, Announces, Log, WalEvent, Intent
<1>4. FoldSeal(l, ev) \in TransactionSeal \cup {Open}
  BY DEF FoldSeal, Log, WalEvent, TransactionSeal
<1>5. (l.intact /\ l.terminated /\ AcceptsEntry(l, p, n, ev)) \in BOOLEAN
  OBVIOUS
<1> QED BY <1>1, <1>2, <1>3, <1>4, <1>5, SMT DEF Replay, Log

\* The events the kernel appends are events.
LEMMA EventTypes ==
  /\ Started \in WalEvent
  /\ Sealed("RolledBack") \in WalEvent
  /\ \A s \in SUBSET Change : CommitSealed(s) \in WalEvent
  /\ \A c \in Change, op \in OperationId, k \in OperationIntentKind :
       OperationIntent(c, op, k) \in WalEvent
  /\ \A c \in Change, st \in ChangeState, v \in BOOLEAN, op \in OperationId,
        h \in SUBSET Change : ChangeUpsert(c, st, v, op, h) \in WalEvent
BY DEF Started, Sealed, CommitSealed, OperationIntent, ChangeUpsert, WalEvent

\* The next operation id is one.
LEMMA NextOperationIdType ==
  ASSUME KernelTypeOK, NEW label \in Label
  PROVE  NextOperationId(label) \in OperationId
BY SMT DEF KernelTypeOK, NextOperationId, OperationId

\* Setting up an append keeps the control state well typed.
LEMMA AppendType ==
  ASSUME NEW k \in Call, NEW ev \in WalEvent, NEW op \in OperationId,
         NEW location \in Location, NEW eff \in BOOLEAN,
         AppendThen(k, ev, op, location, eff)
  PROVE  call' \in Call
BY DEF AppendThen, Call, Location

\* The same for the record of a change.
LEMMA PersistType ==
  ASSUME KernelTypeOK, NEW k \in Call, NEW st \in ChangeState, NEW op \in OperationId,
         NEW location \in Location, NEW eff \in BOOLEAN,
         Persist(k, st, op, location, eff)
  PROVE  call' \in Call
<1>1. k.change \in Change
  BY DEF Call
<1>2. ChangeUpsert(k.change, st, k.change \in verified \/ st = "AppliedVerified",
                   op, {}) \in WalEvent
  BY <1>1, EventTypes
<1> QED BY <1>2, AppendType DEF Persist

\* The three ways an action frames the kernel, with a well-typed new control
\* state, keep every type.
LEMMA OnlyControlType ==
  ASSUME KernelTypeOK, OnlyControl, call' \in Call, faults' \in Nat
  PROVE  KernelTypeOK'
BY DEF KernelTypeOK, OnlyControl, environment, memory

LEMMA OnlyOperationIdType ==
  ASSUME KernelTypeOK, OnlyOperationId, call' \in Call, faults' \in Nat
  PROVE  KernelTypeOK'
BY SMT DEF KernelTypeOK, OnlyOperationId, environment

LEMMA DriverFrameType ==
  ASSUME KernelTypeOK, DriverFrame, call' \in Call, faults' \in Nat
  PROVE  KernelTypeOK'
<1>1. issued' \in Nat
  BY DEF KernelTypeOK, DriverFrame, Call, OperationId
<1> QED BY <1>1 DEF KernelTypeOK, DriverFrame, environment, memory

LEMMA FaultType ==
  ASSUME KernelTypeOK, Fault \/ NoFault
  PROVE  faults' \in Nat
BY SMT DEF KernelTypeOK, Fault, NoFault

\* Moving to a location, or visiting a change, keeps the control state typed.
LEMMA MoveType ==
  ASSUME NEW k \in Call, NEW l \in Location
  PROVE  [k EXCEPT !.at = l] \in Call
BY DEF Call, Location

LEMMA GotoType ==
  ASSUME KernelTypeOK, NEW l \in Location, Goto(l), faults' \in Nat
  PROVE  KernelTypeOK'
<1>1. call' \in Call
  BY MoveType DEF KernelTypeOK, Goto
<1> QED BY <1>1, OnlyControlType DEF Goto

LEMMA UpdateChangeType ==
  ASSUME KernelTypeOK, NEW k \in Call, NEW label \in Label, NEW st \in ChangeState,
         NEW l \in Location, UpdateChange(k, label, st, l), faults' \in Nat
  PROVE  KernelTypeOK'
<1>1. call' \in Call
  BY NextOperationIdType, PersistType DEF UpdateChange
<1> QED BY <1>1, OnlyOperationIdType DEF UpdateChange

LEMMA RecordOutcomeType ==
  ASSUME KernelTypeOK, NEW st \in ChangeState, NEW l \in Location,
         NEW eff \in BOOLEAN, RecordOutcome(st, l, eff), faults' \in Nat
  PROVE  KernelTypeOK'
<1>1. call' \in Call
  BY PersistType, SMT DEF RecordOutcome, KernelTypeOK, Call
<1> QED BY <1>1, OnlyControlType DEF RecordOutcome

LEMMA MarkDriftType ==
  ASSUME KernelTypeOK, NEW k \in Call, MarkDrift(k)
  PROVE  KernelTypeOK'
BY UpdateChangeType, FaultType DEF MarkDrift, Label, ChangeState, Location

LEMMA AnnounceType ==
  ASSUME KernelTypeOK, NEW k \in Call, NEW label \in Label,
         NEW kind \in OperationIntentKind, NEW l \in Location,
         AnnounceThen(k, label, kind, l), faults' \in Nat
  PROVE  KernelTypeOK'
<1>1. call' \in Call
  BY NextOperationIdType, EventTypes, AppendType DEF AnnounceThen, Call
<1> QED BY <1>1, OnlyOperationIdType DEF AnnounceThen

LEMMA ReadbackType ==
  ASSUME KernelTypeOK, ReadbackFails
  PROVE  KernelTypeOK'
BY GotoType, FaultType DEF ReadbackFails, Location

LEMMA EnsureExpectedType ==
  ASSUME KernelTypeOK, NEW k \in Call, NEW matched, NEW l \in Location,
         EnsureExpected(k, matched, l)
  PROVE  KernelTypeOK'
BY MoveType, OnlyControlType, FaultType, MarkDriftType, ReadbackType
   DEF EnsureExpected

\* An append that succeeds or fails keeps the types.
\* So does an append that stops too early.
LEMMA CutShortType ==
  ASSUME KernelTypeOK
  PROVE  Written \in Log /\ CutShort \subseteq Log
<1>1. Written \in Log /\ log \in Log
  BY ReplayType DEF KernelTypeOK, Written, Call
<1> QED BY <1>1 DEF CutShort, Log

LEMMA AppendStepType ==
  ASSUME KernelTypeOK, AppendDurable \/ AppendFails
  PROVE  KernelTypeOK'
<1> USE DEF KernelTypeOK
<1>1. Written \in Log /\ CutShort \subseteq Log
  BY CutShortType
<1>2. Started \in WalEvent
  BY EventTypes
<1>3. CASE AppendDurable
  <2>1. changes' \in [Change -> ChangeState \cup {Absent}]
    BY <1>3 DEF AppendDurable, Memorise, Upserts, Call, WalEvent, ChangeState
  <2>2. verified' \in SUBSET Change
    BY <1>3 DEF AppendDurable, Memorise
  <2>3. call' \in Call
    BY <1>2, <1>3 DEF AppendDurable, Call, Location
  <2> QED BY <1>1, <1>3, <2>1, <2>2, <2>3, FaultType, SMT DEF AppendDurable, environment
<1>4. CASE AppendFails
  <2>1. log' \in Log
    BY <1>1, <1>4 DEF AppendFails, Log
  <2>2. changes' \in [Change -> ChangeState \cup {Absent}]
    BY <1>4 DEF AppendFails, Call, ChangeState
  <2>3. call' \in Call
    BY <1>2, <1>4 DEF AppendFails, Call, Location
  <2> QED BY <1>4, <2>1, <2>2, <2>3, FaultType DEF AppendFails, environment
<1> QED BY <1>3, <1>4

LEMMA PreparedType ==
  ASSUME KernelTypeOK
  PROVE  Desired \in Value /\ Baseline \in Value
BY DEF KernelTypeOK, Desired, Baseline, PreparedMutation, Call

\* A driver's write leaves a value in the resource of its change.
LEMMA WriteType ==
  ASSUME KernelTypeOK, NEW v \in Value, StoresSomething(v), WriteFrame,
         call' \in Call, faults' \in Nat
  PROVE  KernelTypeOK'
<1>1. prepared[call.change].resource \in Resource
  BY DEF KernelTypeOK, PreparedMutation, Call
<1>2. world' \in [Resource -> Value] /\ normalised' \in SUBSET Resource
  BY <1>1 DEF KernelTypeOK, StoresSomething, Stores, StoresOther, StoresNothing, Set
<1> QED BY <1>2 DEF KernelTypeOK, WriteFrame, memory

LEMMA ApplyStepType ==
  ASSUME KernelTypeOK, Apply \/ ApplyWrite \/ ApplyStatus \/ ApplyVerify
  PROVE  KernelTypeOK'
<1> USE DEF Location, ChangeState
<1>0. call \in Call /\ call.opid \in OperationId
  BY DEF KernelTypeOK, Call
<1>1. CASE Apply
  <2>1. faults' \in Nat
    BY <1>1, FaultType DEF Apply
  <2>2. call' \in Call
    BY <1>0, <1>1, MoveType, PersistType, ZenonT(30) DEF Apply, At, Inconclusive
  <2> QED BY <1>1, <2>1, <2>2, DriverFrameType DEF Apply
<1>4. CASE ApplyWrite
  <2>1. faults' \in Nat
    BY <1>4, FaultType DEF ApplyWrite
  <2>2. call' \in Call
    BY <1>0, <1>4, MoveType, PersistType, ZenonT(30) DEF ApplyWrite, At, Inconclusive
  <2>3. StoresSomething(Desired) /\ WriteFrame
    BY <1>4 DEF ApplyWrite, StoresSomething
  <2> QED BY <2>1, <2>2, <2>3, PreparedType, WriteType
<1>2. CASE ApplyStatus
  BY <1>2, FaultType, GotoType, RecordOutcomeType DEF ApplyStatus
<1>3. CASE ApplyVerify
  BY <1>3, FaultType, RecordOutcomeType DEF ApplyVerify, SuccessState, AfterApply
<1> QED BY <1>1, <1>2, <1>3, <1>4

LEMMA RestoreStepType ==
  ASSUME KernelTypeOK,
         \/ RestoreOne \/ MatchDesired \/ Restore \/ RestoreWrite
         \/ RestoreStatus \/ RestoreVerify
  PROVE  KernelTypeOK'
<1> USE DEF Location, ChangeState
<1>0. call \in Call /\ call.opid \in OperationId
  BY DEF KernelTypeOK, Call
<1>t. RestoredState \in ChangeState /\ AfterRestore \in Location
  BY DEF RestoredState, AfterRestore
<1>1. CASE RestoreOne
  <2>1. CASE NoFault /\ Goto(AfterRestore)
    BY <1>t, <2>1, FaultType, GotoType
  <2>2. CASE /\ NoFault
             /\ UpdateChange(call, "baseline-observed", RestoredState, AfterRestore)
    <3>1. "baseline-observed" \in Label /\ faults' \in Nat
      BY <2>2, FaultType DEF Label
    <3> QED BY <1>0, <1>t, <2>2, <3>1, UpdateChangeType, SMT
  <2>3. CASE MarkDrift(call)
    BY <1>0, <2>3, MarkDriftType
  <2>4. CASE NoFault /\ Goto("matchDesired")
    BY <2>4, FaultType, GotoType
  <2>5. CASE ReadbackFails
    BY <2>5, ReadbackType
  <2> QED BY <1>1, <2>1, <2>2, <2>3, <2>4, <2>5 DEF RestoreOne
<1>2. CASE MatchDesired
  BY <1>0, <1>2, FaultType, AnnounceType, MarkDriftType, ReadbackType
     DEF MatchDesired, Label, OperationIntentKind
<1>3. CASE Restore
  <2>1. faults' \in Nat
    BY <1>3, FaultType DEF Restore
  <2>2. call' \in Call
    BY <1>0, <1>3, MoveType, PersistType DEF Restore, At, Inconclusive
  <2> QED BY <1>3, <2>1, <2>2, DriverFrameType DEF Restore
<1>6. CASE RestoreWrite
  <2>1. faults' \in Nat
    BY <1>6, FaultType DEF RestoreWrite
  <2>2. call' \in Call
    BY <1>0, <1>6, MoveType, PersistType, ZenonT(30) DEF RestoreWrite, At, Inconclusive
  <2>3. StoresSomething(Baseline) /\ WriteFrame
    BY <1>6 DEF RestoreWrite, StoresSomething
  <2> QED BY <2>1, <2>2, <2>3, PreparedType, WriteType
<1>4. CASE RestoreStatus
  BY <1>4, FaultType, GotoType, RecordOutcomeType DEF RestoreStatus
<1>5. CASE RestoreVerify
  <2>1. CASE NoFault /\ RecordOutcome(RestoredState, AfterRestore, TRUE)
    <3>1. faults' \in Nat
      BY <2>1, FaultType
    <3>2. RecordOutcome(RestoredState, AfterRestore, TRUE)
      BY <2>1
    <3> HIDE DEF Location, ChangeState
    <3> QED BY <1>t, <3>1, <3>2, RecordOutcomeType
  <2>2. CASE NoFault /\ RecordOutcome("AppliedUnknown", "error", FALSE)
    BY <2>2, FaultType, RecordOutcomeType
  <2> QED BY <1>5, <2>1, <2>2, ReadbackType DEF RestoreVerify
<1> QED BY <1>1, <1>2, <1>3, <1>4, <1>5, <1>6

LEMMA LoopStepType ==
  ASSUME KernelTypeOK,
         \/ RestoreNext \/ Restored \/ ReplayCheckNext \/ ReplayChecked
         \/ ReplayNext \/ Replayed \/ CommitCheckNext \/ CommitChecked
         \/ FinalizeNext \/ Acknowledged \/ CommitSeal
  PROVE  KernelTypeOK'
<1> USE DEF Location
<1>0. call \in Call /\ call.opid \in OperationId /\ candidate \in SUBSET Change
  BY DEF KernelTypeOK, Call
<1>1. CASE RestoreNext
  <2>1. call' \in Call
    BY <1>1, VisitType, MoveType, ZenonT(30) DEF RestoreNext
  <2> QED BY <1>1, <2>1, FaultType, OnlyControlType DEF RestoreNext
<1>2. CASE Restored
  <2>1. call' \in Call
    BY <1>0, <1>2, MoveType, EventTypes, AppendType DEF Restored, At
  <2> QED BY <1>2, <2>1, FaultType DEF Restored, KernelTypeOK, environment
<1>3. CASE ReplayCheckNext
  BY <1>3, VisitType, EnsureExpectedType DEF ReplayCheckNext
<1>4. CASE ReplayChecked
  <2>1. call' \in Call
    BY <1>0, <1>4 DEF ReplayChecked, Call, Operation
  <2> QED BY <1>0, <1>4, <2>1, FaultType DEF ReplayChecked, KernelTypeOK, environment
<1>5. CASE ReplayNext
  BY <1>5, VisitType, AnnounceType, FaultType DEF ReplayNext, Label, OperationIntentKind
<1>6. CASE Replayed
  BY <1>6, GotoType, FaultType DEF Replayed
<1>7. CASE CommitCheckNext
  BY <1>7, VisitType, EnsureExpectedType DEF CommitCheckNext
<1>8. CASE CommitChecked
  <2>1. call' \in Call
    BY <1>0, <1>8 DEF CommitChecked, Call, Operation
  <2> QED BY <1>8, <2>1, FaultType, OnlyControlType DEF CommitChecked
<1>9. CASE FinalizeNext
  BY <1>9, VisitType, AnnounceType, FaultType DEF FinalizeNext, Label, OperationIntentKind
<1>10. CASE Acknowledged
  <2>1. call' \in Call
    BY <1>0, <1>10 DEF Acknowledged, Call, Operation, Heads, Known
  <2> QED BY <1>10, <2>1, FaultType, OnlyControlType DEF Acknowledged
<1>11. CASE CommitSeal
  <2>1. call' \in Call
    BY <1>0, <1>11, EventTypes, AppendType DEF CommitSeal
  <2> QED BY <1>11, <2>1, FaultType, OnlyControlType DEF CommitSeal
<1> QED BY <1>1, <1>2, <1>3, <1>4, <1>5, <1>6, <1>7, <1>8, <1>9, <1>10, <1>11

LEMMA CheckStepType ==
  ASSUME KernelTypeOK, ReviseCheck \/ RevisePrepare \/ Finalize \/ AckVerify
  PROVE  KernelTypeOK'
<1> USE DEF Location
<1>0. call \in Call /\ call.opid \in OperationId /\ call.change \in Change
      /\ call.revision \in Change
  BY DEF KernelTypeOK, Call
<1>1. CASE ReviseCheck
  BY <1>0, <1>1, EnsureExpectedType DEF ReviseCheck
<1>2. CASE RevisePrepare
  <2>1. faults' \in Nat
    BY <1>2, FaultType DEF RevisePrepare
  <2>2. prepared' \in [Change -> PreparedMutation]
    <3>1. prepared[call.revision] \in PreparedMutation /\ Holds(call.change) \in Value
      BY <1>0 DEF KernelTypeOK, PreparedMutation, Holds
    <3>2. \/ prepared' = [prepared EXCEPT ![call.revision].baseline = Holds(call.change)]
          \/ prepared' = prepared
      BY <1>2 DEF RevisePrepare
    <3>3. prepared \in [Change -> PreparedMutation]
      BY DEF KernelTypeOK
    <3> QED BY <1>0, <3>1, <3>2, <3>3, SMT DEF PreparedMutation
  <2>3. CASE At("error")
    <3>1. call' \in Call
      BY <1>0, <2>3, MoveType DEF At
    <3> QED BY <1>2, <2>1, <2>2, <3>1, SMT DEF RevisePrepare, KernelTypeOK, environment
  <2>4. CASE FirstRecord(call, call.revision, NextOperationId("revision"), {call.change})
    <3>1. [call EXCEPT !.change = call.revision] \in Call
      BY <1>0 DEF Call
    <3>2. NextOperationId("revision") \in OperationId
      BY NextOperationIdType DEF Label
    <3>3. ChangeUpsert(call.revision, "IntentDurable", FALSE,
                       NextOperationId("revision"), {call.change}) \in WalEvent
      BY <1>0, <3>2, EventTypes DEF ChangeState
    <3>4. call' \in Call
      BY <2>4, <3>1, <3>2, <3>3, AppendType DEF FirstRecord
    <3> QED BY <1>2, <2>1, <2>2, <3>4, SMT DEF RevisePrepare, KernelTypeOK, environment
  <2> QED BY <1>2, <2>3, <2>4 DEF RevisePrepare
<1>3. CASE Finalize
  <2>1. call' \in Call
    BY <1>0, <1>3, PersistType DEF Finalize, Inconclusive, ChangeState
  <2> QED BY <1>3, <2>1, FaultType, DriverFrameType DEF Finalize
<1>4. CASE AckVerify
  BY <1>0, <1>4, EnsureExpectedType DEF AckVerify
<1> QED BY <1>1, <1>2, <1>3, <1>4

\* Every step inside an operation of the kernel keeps the types.
LEMMA KernelStepType ==
  ASSUME KernelTypeOK, KernelStep
  PROVE  KernelTypeOK'
BY AppendStepType, ApplyStepType, RestoreStepType, LoopStepType, CheckStepType
   DEF KernelStep

\* So does starting one.
LEMMA StartLoopType ==
  ASSUME KernelTypeOK, NEW op \in Operation, NEW todo \in SUBSET Change,
         StartLoop(op, todo)
  PROVE  KernelTypeOK'
<1>1. call' \in Call
  BY ControlTypes, ZenonT(30) DEF StartLoop, Call, Location
<1> QED BY <1>1, FaultType, OnlyControlType DEF StartLoop

LEMMA RejectType ==
  ASSUME KernelTypeOK, NEW op \in Operation,
         call' = [Calls(op) EXCEPT !.at = "error"], NoFault, OnlyControl
  PROVE  KernelTypeOK'
BY ControlTypes, MoveType, FaultType, OnlyControlType DEF Location

LEMMA StartRollbackType ==
  ASSUME TypeOK, NEW again \in BOOLEAN, StartRollback(again)
  PROVE  TypeOK'
<1>1. Known \in SUBSET Change
  BY DEF Known
<1>2. "rollback_all" \in Operation
  BY DEF Operation
<1>3. KernelTypeOK'
  BY <1>1, <1>2, StartLoopType, RejectType DEF TypeOK, StartRollback, RollbackAll
<1> QED BY <1>3 DEF TypeOK, StartRollback, EpisodePhase

LEMMA MutateType ==
  ASSUME TypeOK, Mutate
  PROVE  TypeOK'
<1> USE DEF TypeOK
<1>0. Calls("experiment") \in Call
  BY ControlTypes DEF Operation
<1>1. CASE ExperimentRejected
  BY <1>1, RejectType DEF Mutate, ExperimentRejected, Operation
<1>2. CASE \E r \in Resource, d \in Value : PrepareRejected(r, d)
  <2>1. call' \in Call
    BY <1>0, <1>2, MoveType DEF PrepareRejected, Location
  <2>2. faults' \in Nat
    BY <1>2, FaultType DEF PrepareRejected
  <2> QED BY <1>2, <2>1, <2>2, OnlyOperationIdType DEF Mutate, PrepareRejected
<1>3. CASE \E r \in Resource, d \in Value, c \in Change : Prepare(r, d, c)
  <2>1. PICK r \in Resource, d \in Value, c \in Change : Prepare(r, d, c)
    BY <1>3
  <2>2. prepared' \in [Change -> PreparedMutation]
    BY <2>1 DEF Prepare, KernelTypeOK, PreparedMutation
  <2>3. call' \in Call
    <3>1. CASE FirstRecord(Calls("experiment"), c, NextOperationId("experiment"), {})
      <4>1. [Calls("experiment") EXCEPT !.change = c] \in Call
        BY <1>0 DEF Call
      <4>2. NextOperationId("experiment") \in OperationId
        BY NextOperationIdType DEF Label
      <4>3. ChangeUpsert(c, "IntentDurable", FALSE,
                         NextOperationId("experiment"), {}) \in WalEvent
        BY <4>2, EventTypes DEF ChangeState
      <4> QED BY <3>1, <4>1, <4>2, <4>3, AppendType DEF FirstRecord, Location
    <3>2. CASE \E h \in Head(r) :
                 call' = [Calls("experiment") EXCEPT
                            !.at = "reviseCheck", !.change = h, !.revision = c]
      <4>1. Head(r) \subseteq Change
        BY DEF Head, ResourceHead, Known
      <4> QED BY <1>0, <3>2, <4>1, ZenonT(30) DEF Call, Location
    <3> QED BY <2>1, <3>1, <3>2 DEF Prepare
  <2>4. /\ UNCHANGED <<world, origin, drifted, normalised, log, changes, verified, nextSequence,
                       activeCandidate, candidate, issued, walFailed, faults>>
        /\ operationCounter' = operationCounter + 1
    BY <2>1 DEF Prepare, environment, NoFault
  <2>5. KernelTypeOK'
    BY <2>2, <2>3, <2>4, SMT DEF KernelTypeOK
  <2> QED BY <2>5 DEF Mutate
<1> QED BY <1>1, <1>2, <1>3 DEF Mutate

LEMMA EpisodeStepType ==
  ASSUME TypeOK, EpisodeStep
  PROVE  TypeOK'
<1> USE DEF TypeOK
<1>0. Known \in SUBSET Change /\ Heads \in SUBSET Change
  BY DEF Known, Heads
<1>1. ASSUME NEW s \in SUBSET Change, RequestCommit(s) PROVE TypeOK'
  <2>0. Calls("restore_baseline") \in Call
    BY ControlTypes DEF Operation
  <2>1. call' \in Call
    BY <1>0, <1>1, <2>0 DEF RequestCommit, Call, Location
  <2> QED BY <1>1, <2>1
          DEF RequestCommit, KernelTypeOK, environment, memory, EpisodePhase
<1>2. CASE EvaluateCandidate
  BY <1>0, <1>2, StartLoopType, RejectType
     DEF EvaluateCandidate, ReplayCandidate, Operation
<1>3. CASE FinalizeImproved
  BY <1>0, <1>3, StartLoopType, RejectType
     DEF FinalizeImproved, FinalizeCandidate, Operation
<1>4. CASE EvaluationRejects \/ Abort \/ FinishSession \/ OperationFailed \/ RollbackRetried
  BY <1>4, StartRollbackType
     DEF EvaluationRejects, Abort, FinishSession, OperationFailed, RollbackRetried
<1>5. CASE \/ BeginFailed \/ CommitOutcomeUnknown \/ CommitCompleted
           \/ RollbackCompleted \/ RollbackFailed
  <2>1. UNCHANGED <<kernelVars, retry>> /\ phase' \in EpisodePhase
    BY <1>5 DEF BeginFailed, CommitOutcomeUnknown, CommitCompleted,
                RollbackCompleted, RollbackFailed, EpisodePhase
  <2> QED BY <2>1 DEF kernelVars, environment, memory, KernelTypeOK
<1> QED BY <1>1, <1>2, <1>3, <1>4, <1>5, MutateType DEF EpisodeStep

\* Losing the memory, and rebuilding it from the log, keep the types.
LEMMA LoseMemoryType ==
  ASSUME TypeOK, LoseMemory, UNCHANGED <<environment, prepared, issued>>,
         log' \in Log, walFailed' \in BOOLEAN, faults' \in Nat
  PROVE  KernelTypeOK'
BY ControlTypes DEF TypeOK, KernelTypeOK, LoseMemory, environment

LEMMA RecoverType ==
  ASSUME TypeOK, RecoverAndRollback
  PROVE  KernelTypeOK'
<1>1. changes' \in [Change -> ChangeState \cup {Absent}]
  BY DEF RecoverAndRollback, Rebuild, RecoveredState, TypeOK, KernelTypeOK, Log, ChangeState
<1>2. /\ verified' \in SUBSET Change
      /\ nextSequence' \in Nat
      /\ operationCounter' \in Nat
      /\ activeCandidate' \in SUBSET Change
  BY DEF RecoverAndRollback, Rebuild, TypeOK, KernelTypeOK, Log
<1>3. call' \in Call
  <2>1. Calls("rollback_all") \in Call
    BY ControlTypes DEF Operation
  <2>2. LogChanges(log) \in SUBSET Change
    BY DEF LogChanges
  <2> QED BY <2>1, <2>2 DEF RecoverAndRollback, Rebuild, Call, Location
<1> QED BY <1>1, <1>2, <1>3
        DEF RecoverAndRollback, Rebuild, TypeOK, KernelTypeOK, environment, NoFault

LEMMA ProcessStepType ==
  ASSUME TypeOK, ProcessStep
  PROVE  TypeOK'
<1>1. CASE Crash \/ Shutdown
  <2>1. faults' \in Nat
    BY <1>1, FaultType DEF Crash, Shutdown, NoFault, TypeOK
  <2>2. log' \in Log /\ walFailed' \in BOOLEAN
    BY <1>1, CutShortType DEF Crash, Shutdown, TypeOK, KernelTypeOK
  <2>3. KernelTypeOK'
    BY <1>1, <2>1, <2>2, LoseMemoryType DEF Crash, Shutdown
  <2> QED BY <1>1, <2>3 DEF Crash, Shutdown, TypeOK, StartupStage
<1>2. CASE Restart
  BY <1>2 DEF Restart, TypeOK, KernelTypeOK, kernelVars, environment, memory, StartupStage
<1>3. CASE RecoverPending
  BY <1>3, RecoverType DEF RecoverPending, TypeOK
<1>4. CASE EarlyPassDone \/ GateOpens \/ GateBlocks
  <2>1. faults' \in Nat
    BY <1>4, FaultType DEF EarlyPassDone, GateOpens, GateBlocks, TypeOK
  <2>2. \E next \in StartupStage : StagePassed(next)
    BY <1>4 DEF EarlyPassDone, GateOpens, GateBlocks, StartupStage
  <2>3. KernelTypeOK'
    BY <2>1, <2>2, LoseMemoryType DEF StagePassed, TypeOK, KernelTypeOK
  <2> QED BY <2>2, <2>3 DEF StagePassed, TypeOK
<1> QED BY <1>1, <1>2, <1>3, <1>4 DEF ProcessStep, StartupStep

LEMMA DriftType ==
  ASSUME TypeOK, Drift
  PROVE  TypeOK'
<1>1. PICK r \in Resource, v \in Value : ExternalWrite(r, v)
  BY DEF Drift
<1>2. world' \in [Resource -> Value] /\ drifted' \in SUBSET Resource /\ faults' \in Nat
  BY <1>1, FaultType DEF ExternalWrite, TypeOK, KernelTypeOK
<1> QED BY <1>1, <1>2 DEF ExternalWrite, Drift, TypeOK, KernelTypeOK, memory

LEMMA InitType ==
  Init => TypeOK
<1> SUFFICES ASSUME Init PROVE TypeOK
  OBVIOUS
<1>1. EmptyLog \in Log
  BY DEF EmptyLog, Log
<1>2. PreparedMutation # {}
  <2>1. PICK r \in Resource, v \in Value : TRUE
    BY DomainAssumption
  <2>2. [resource |-> r, baseline |-> v, desired |-> v] \in PreparedMutation
    BY DEF PreparedMutation
  <2> QED BY <2>2
<1>3. Unprepared \in PreparedMutation
  BY <1>2 DEF Unprepared
<1>4. call \in Call
  BY ControlTypes, MoveType DEF Init, BeginKernel, Location
<1> QED BY <1>1, <1>3, <1>4 DEF Init, BeginKernel, TypeOK, KernelTypeOK, EpisodePhase
==============================================================================
