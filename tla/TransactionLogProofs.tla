------------------------ MODULE TransactionLogProofs ------------------------
(***************************************************************************)
(* Operation ids and the log.  NumberInv is inductive: the counter behind the *)
(* operation ids never runs ahead of a log that a restart would count from, *)
(* so an id is never used again.  LogInv is inductive: as long as no append *)
(* has failed or was cut short, every entry that the kernel writes, in any *)
(* process, is one that inspect_log and recover accept.                    *)
(***************************************************************************)
EXTENDS TransactionStepProofs

\* The provers: a leaf that cites none is left to Zenon.
USE Zenon


Issuing == {"apply", "restore", "finalize"}

\* The reserve is a small integer, and none is needed of a driver's caller.
LEMMA ReserveType ==
  ASSUME NEW k, NEW a
  PROVE  /\ Reserve(k, a) \in Int
         /\ k.at \notin Unrecorded => Reserve(k, a) >= 0
BY SMT DEF Reserve

\* A step within an operation that appends or goes on.
LEMMA ReserveMoves ==
  ASSUME NEW k, NEW m, NEW a, m.op = k.op, k.at \notin Unrecorded,
         m.at = "ok" => k.op # "experiment"
  PROVE  Reserve(m, a) <= Reserve(k, a)
BY SMT DEF Reserve, Unrecorded

\* A step that allocates an operation id.
LEMMA ReserveSpends ==
  ASSUME NEW k, NEW m, NEW a, m.op = k.op, k.at \notin Unrecorded, m.at \in Unrecorded,
         m.at = "append" /\ m.then = "ok" => k.op # "experiment",
         k.at = "ok" => k.op # "experiment"
  PROVE  Reserve(m, a) + 1 <= Reserve(k, a)
BY SMT DEF Reserve, Unrecorded

\* An append that succeeds, and one that fails.
LEMMA ReserveAppends ==
  ASSUME NEW k, NEW m, NEW a, m.op = k.op, k.at = "append", m.then = "ok"
  PROVE  /\ m.at = k.then => Reserve(m, a) <= Reserve(k, a) + 1
         /\ m.at \in {"error", "outcomeUnknown"} => Reserve(m, a) <= Reserve(k, a)
BY SMT DEF Reserve, Unrecorded

\* A step inside an operation belongs to a kernel that runs, and is not about
\* the first record unless it appends that.
LEMMA StepRuns ==
  ASSUME TypeOK, ControlInv, call.at \notin {"ok", "error", "outcomeUnknown"}
  PROVE  Active /\ (call.at # "append" => call.op # "begin")
<1>1. Active
  <2>1. call # IdleCall
    BY SMT DEF IdleCall
  <2>2. phase \in EpisodePhase \cup StartupStage
    BY DEF TypeOK
  <2> QED BY <2>1, <2>2 DEF ControlInv, Active, InEpisode, EpisodePhase, StartupStage
<1>2. ASSUME call.at # "append", call.op = "begin" PROVE FALSE
  <2>1. Visits(call.op) = {"ok", "error"}
    BY <1>2 DEF Visits
  <2> QED BY <1>2, <2>1 DEF ControlInv, Ahead
<1> QED BY <1>1, <1>2

\* What all steps of a running kernel have in common: the numbers of the kernel
\* and the log stay in order when the reserve covers the ids they allocate.
LEMMA NumbersKept ==
  ASSUME TypeOK, TypeOK', NumberInv, Active, Active', retry' => InEpisode',
         log' = log, call'.op # "begin",
         NEW n \in {0, 1}, operationCounter' = operationCounter + n,
         Reserve(call', retry') + n <= Reserve(call, retry),
         \/ issued' = issued
         \/ issued' = call.opid.number /\ call.at \in Issuing,
         Ahead' \in Issuing => n = 1 /\ call'.opid.number = operationCounter'
  PROVE  NumberInv' /\ issued' >= issued
<1>1. /\ issued \in Nat /\ operationCounter \in Nat /\ log.count \in Nat
      /\ issued' \in Nat /\ operationCounter' \in Nat
  BY DEF TypeOK, KernelTypeOK, Log
<1>3. /\ log.intact => issued <= log.count
      /\ issued <= operationCounter
      /\ Ahead \in Issuing => call.opid.number = operationCounter
      /\ log.intact => operationCounter + Reserve(call, retry) <= log.count
  BY DEF NumberInv, Issuing
<1>4. Reserve(call, retry) \in Int /\ Reserve(call', retry') \in Int
  BY ReserveType
<1>5. ASSUME log.intact PROVE operationCounter' + Reserve(call', retry') <= log.count
  BY <1>1, <1>3, <1>4, <1>5, SMT
<1>6. CASE issued' = issued
  <2>1. /\ issued' <= operationCounter' /\ issued' >= issued
        /\ n = 1 => issued' < operationCounter'
    BY <1>1, <1>3, <1>6, SMT
  <2> QED BY <1>3, <1>5, <1>6, <2>1 DEF NumberInv, Issuing
<1>7. CASE issued' = call.opid.number /\ call.at \in Issuing
  <2>1. issued' = operationCounter
    BY <1>3, <1>7 DEF Ahead, Issuing
  <2>2. log.intact => issued' <= log.count
    <3>1. Reserve(call, retry) >= 0
      BY <1>7, ReserveType DEF Issuing, Unrecorded
    <3> QED BY <1>1, <1>3, <1>4, <2>1, <3>1, SMT
  <2>3. /\ issued' <= operationCounter' /\ issued' >= issued
        /\ n = 1 => issued' < operationCounter'
    BY <1>1, <1>3, <2>1, SMT
  <2> QED BY <1>5, <2>2, <2>3 DEF NumberInv, Issuing
<1> QED BY <1>6, <1>7

\* A step that allocates nothing.
LEMMA NumbersMove ==
  ASSUME TypeOK, TypeOK', ControlInv, NumberInv, UNCHANGED <<phase, retry, log, operationCounter>>,
         call.at \notin {"ok", "error", "outcomeUnknown", "append"},
         \/ issued' = issued
         \/ issued' = call.opid.number /\ call.at \in Issuing,
         call'.op = call.op, call'.at # "ok" \/ call.op # "experiment", Ahead' \notin Issuing
  PROVE  NumberInv' /\ issued' >= issued
<1>1. Active /\ Active' /\ call.op # "begin" /\ (retry' => InEpisode')
  BY StepRuns DEF Active, InEpisode, NumberInv
<1>2. Reserve(call', retry') <= Reserve(call, retry)
  BY ReserveMoves DEF Unrecorded
<1>3. /\ operationCounter' = operationCounter + 0
      /\ Reserve(call', retry') + 0 <= Reserve(call, retry)
  BY <1>2, ReserveType, SMT DEF TypeOK, KernelTypeOK
<1> QED BY <1>1, <1>3, NumbersKept

\* A step that allocates an operation id.
LEMMA NumbersSpend ==
  ASSUME TypeOK, TypeOK', ControlInv, NumberInv, UNCHANGED <<phase, retry, log, issued>>,
         call.at \notin {"ok", "error", "outcomeUnknown", "append"},
         operationCounter' = operationCounter + 1,
         call'.op = call.op, call'.at \in {"append", "error"},
         call'.at = "append" => call'.then # "ok",
         Ahead' \in Issuing => call'.opid.number = operationCounter'
  PROVE  NumberInv' /\ issued' >= issued
<1>1. Active /\ Active' /\ call.op # "begin" /\ (retry' => InEpisode')
  BY StepRuns DEF Active, InEpisode, NumberInv
<1>2. Reserve(call', retry') + 1 <= Reserve(call, retry)
  BY ReserveSpends DEF Unrecorded
<1> QED BY <1>1, <1>2, NumbersKept

---------------------------------------------------------------------------
(* One lemma for each way the steps of the kernel are put together. *)

\* A step inside an operation that does not complete an append.
Working ==
  /\ TypeOK /\ TypeOK' /\ ControlInv /\ NumberInv /\ UNCHANGED <<phase, retry>>
  /\ call.at \notin {"ok", "error", "outcomeUnknown", "append"}

LEMMA GotoNumbers ==
  ASSUME Working, NEW l, l \notin Issuing \cup {"append"}, l = "ok" => call.op # "experiment",
         NEW k \in Call, k.op = call.op, OnlyControl, call' = [k EXCEPT !.at = l]
  PROVE  NumberInv' /\ issued' >= issued
<1>1. call'.at = l /\ call'.op = call.op /\ Ahead' = l
  BY MoveShape DEF Ahead
<1>2. UNCHANGED <<log, operationCounter, issued>>
  BY DEF OnlyControl, memory
<1> QED BY <1>1, <1>2, NumbersMove DEF Working

LEMMA RecordNumbers ==
  ASSUME Working, NEW l, l \notin Issuing, NEW st, NEW eff,
         UNCHANGED <<log, operationCounter>>,
         \/ issued' = issued
         \/ issued' = call.opid.number /\ call.at \in Issuing,
         Persist(call, st, call.opid, l, eff)
  PROVE  NumberInv' /\ issued' >= issued
<1>0. call \in Call
  BY DEF Working, TypeOK, KernelTypeOK
<1>1. call'.at = "append" /\ call'.op = call.op /\ Ahead' = l
  BY <1>0, PersistShape, SMT DEF Ahead
<1> QED BY <1>1, NumbersMove DEF Working

LEMMA OutcomeNumbers ==
  ASSUME Working, NEW l, l \notin Issuing, NEW st, NEW eff, RecordOutcome(st, l, eff)
  PROVE  NumberInv' /\ issued' >= issued
<1>1. UNCHANGED <<log, operationCounter, issued>> /\ Persist(call, st, call.opid, l, eff)
  BY DEF RecordOutcome, OnlyControl, memory
<1> QED BY <1>1, RecordNumbers

LEMMA UpdateNumbers ==
  ASSUME Working, NEW l, l \notin Issuing \cup {"ok"}, NEW k \in Call, k.op = call.op,
         NEW label, NEW st, UpdateChange(k, label, st, l)
  PROVE  NumberInv' /\ issued' >= issued
<1>1. call'.at = "append" /\ call'.op = call.op /\ call'.then = l /\ Ahead' = l
  <2>1. PICK op, eff : Persist(k, st, op, l, eff)
    BY DEF UpdateChange
  <2> QED BY <2>1, PersistShape, SMT DEF Ahead
<1>2. UNCHANGED <<log, issued>> /\ operationCounter' = operationCounter + 1
  BY DEF UpdateChange, OnlyOperationId
<1> QED BY <1>1, <1>2, NumbersSpend DEF Working

LEMMA AnnounceNumbers ==
  ASSUME Working, NEW l, l # "ok", NEW k \in Call, k.op = call.op,
         NEW label, NEW kind, AnnounceThen(k, label, kind, l)
  PROVE  NumberInv' /\ issued' >= issued
<1>1. /\ call'.at = "append" /\ call'.op = call.op /\ call'.then = l
      /\ call'.opid = NextOperationId(label)
  <2>1. PICK ev, op, eff : op = NextOperationId(label) /\ AppendThen(k, ev, op, l, eff)
    BY DEF AnnounceThen
  <2> QED BY <2>1, AppendShape, SMT
<1>2. UNCHANGED <<log, issued>> /\ operationCounter' = operationCounter + 1
  BY DEF AnnounceThen, OnlyOperationId
<1>3. call'.opid.number = operationCounter'
  BY <1>1, <1>2, SMT DEF NextOperationId
<1> QED BY <1>1, <1>2, <1>3, NumbersSpend DEF Working

LEMMA EnsureNumbers ==
  ASSUME Working, NEW l, l \notin Issuing \cup {"append", "ok"}, NEW k \in Call,
         k.op = call.op, NEW matched, EnsureExpected(k, matched, l)
  PROVE  NumberInv' /\ issued' >= issued
<1>1. CASE OnlyControl /\ call' = [k EXCEPT !.at = l]
  BY <1>1, GotoNumbers
<1>2. CASE MarkDrift(k)
  BY <1>2, UpdateNumbers DEF MarkDrift, Issuing
<1>3. CASE ReadbackFails
  <2>1. call \in Call
    BY DEF Working, TypeOK, KernelTypeOK
  <2> QED BY <1>3, <2>1, GotoNumbers DEF ReadbackFails, Goto, Issuing
<1> QED BY <1>1, <1>2, <1>3 DEF EnsureExpected

---------------------------------------------------------------------------
(* The steps of the kernel. *)

\* Where the kernel goes on from a driver.
DriverNext ==
  {"applyWrite", "applyVerify", "applyStatus", "restoreWrite", "restoreVerify", "restoreStatus"}

LEMMA DriverNumbers ==
  ASSUME Working, Apply \/ Restore \/ Finalize
  PROVE  NumberInv' /\ issued' >= issued
<1>0. call.at \in Issuing /\ call \in Call
  BY DEF Apply, Restore, Finalize, Issuing, Working, TypeOK, KernelTypeOK
<1>1. UNCHANGED <<log, operationCounter>> /\ issued' = call.opid.number
  BY DEF Apply, Restore, Finalize, DriverFrame, memory
<1>2. \/ \E l \in DriverNext : At(l)
      \/ \E st, l : l \notin Issuing /\ Persist(call, st, call.opid, l, FALSE)
  BY DEF Apply, Restore, Finalize, Inconclusive, Issuing, DriverNext
<1>3. ASSUME NEW l \in DriverNext, At(l)
      PROVE  NumberInv' /\ issued' >= issued
  <2>1. call'.at = l /\ call'.op = call.op /\ Ahead' = l
    BY <1>0, <1>3, MoveShape DEF At, Ahead, DriverNext
  <2> QED BY <1>0, <1>1, <2>1, NumbersMove DEF Working, Issuing, DriverNext
<1> QED BY <1>0, <1>1, <1>2, <1>3, RecordNumbers

LEMMA WriteNumbers ==
  ASSUME Working, ApplyWrite \/ RestoreWrite
  PROVE  NumberInv' /\ issued' >= issued
<1>0. call \in Call
  BY DEF Working, TypeOK, KernelTypeOK
<1>1. UNCHANGED <<log, operationCounter, issued>>
  BY DEF ApplyWrite, RestoreWrite, WriteFrame, memory
<1>2. \/ \E l \in DriverNext : At(l)
      \/ \E st, l : l \notin Issuing /\ Persist(call, st, call.opid, l, FALSE)
  BY DEF ApplyWrite, RestoreWrite, Inconclusive, Issuing, DriverNext
<1>3. ASSUME NEW l \in DriverNext, At(l)
      PROVE  NumberInv' /\ issued' >= issued
  <2>1. call'.at = l /\ call'.op = call.op /\ Ahead' = l
    BY <1>0, <1>3, MoveShape DEF At, Ahead, DriverNext
  <2> QED BY <1>1, <2>1, NumbersMove DEF Working, Issuing, DriverNext
<1> QED BY <1>1, <1>2, <1>3, RecordNumbers

LEMMA ApplyNumbers ==
  ASSUME Working, ApplyStatus \/ ApplyVerify
  PROVE  NumberInv' /\ issued' >= issued
<1>0. call \in Call /\ AfterApply \notin Issuing
  BY DEF Working, TypeOK, KernelTypeOK, AfterApply, Issuing
<1>1. CASE OnlyControl /\ call' = [call EXCEPT !.at = "applyVerify"]
  BY <1>0, <1>1, GotoNumbers DEF Issuing
<1>2. CASE \E st : RecordOutcome(st, "error", FALSE)
  BY <1>2, OutcomeNumbers DEF Issuing
<1>3. CASE RecordOutcome(SuccessState, AfterApply, TRUE)
  BY <1>0, <1>3, OutcomeNumbers
<1> QED BY <1>1, <1>2, <1>3 DEF ApplyStatus, ApplyVerify, Goto

LEMMA RestoreNumbers ==
  ASSUME Working, RestoreOne \/ MatchDesired \/ RestoreStatus \/ RestoreVerify
  PROVE  NumberInv' /\ issued' >= issued
<1>0. call \in Call /\ AfterRestore \notin Issuing \cup {"ok", "append"}
  BY DEF Working, TypeOK, KernelTypeOK, AfterRestore, Issuing
<1>1. ASSUME NEW l \in {"matchDesired", "restoreVerify", "error", AfterRestore}, Goto(l)
      PROVE  NumberInv' /\ issued' >= issued
  BY <1>0, <1>1, GotoNumbers DEF Issuing, Goto
<1>2. CASE \E st : RecordOutcome(st, "error", FALSE)
  BY <1>2, OutcomeNumbers DEF Issuing
<1>3. CASE RecordOutcome(RestoredState, AfterRestore, TRUE)
  BY <1>0, <1>3, OutcomeNumbers
<1>4. CASE UpdateChange(call, "baseline-observed", RestoredState, AfterRestore)
  BY <1>0, <1>4, UpdateNumbers
<1>5. CASE MarkDrift(call)
  BY <1>0, <1>5, UpdateNumbers DEF MarkDrift, Issuing
<1>6. CASE AnnounceThen(call, "restore", "Restore", "restore")
  BY <1>0, <1>6, AnnounceNumbers
<1>7. CASE RestoreOne
  BY <1>1, <1>4, <1>5, <1>7 DEF RestoreOne, ReadbackFails
<1>8. CASE MatchDesired
  BY <1>1, <1>5, <1>6, <1>8 DEF MatchDesired, ReadbackFails
<1>9. CASE RestoreStatus \/ RestoreVerify
  BY <1>1, <1>2, <1>3, <1>9 DEF RestoreStatus, RestoreVerify, ReadbackFails
<1> QED BY <1>7, <1>8, <1>9

LEMMA ReviseNumbers ==
  ASSUME Working, ReviseCheck \/ RevisePrepare \/ AckVerify
  PROVE  NumberInv' /\ issued' >= issued
<1>0. call \in Call /\ call.revision \in Change
  BY DEF Working, TypeOK, KernelTypeOK, Call
<1>1. CASE ReviseCheck
  <2>1. PICK l \in {"restoreOne", "error"} : EnsureExpected(call, AtDesired(call.change), l)
    BY <1>1 DEF ReviseCheck
  <2> QED BY <1>0, <2>1, EnsureNumbers DEF Issuing
<1>2. CASE AckVerify
  BY <1>0, <1>2, EnsureNumbers DEF AckVerify, Issuing
<1>3. CASE RevisePrepare
  <2>1. UNCHANGED <<log, issued>> /\ operationCounter' = operationCounter + 1
    BY <1>3 DEF RevisePrepare
  <2>2. CASE At("error")
    <3>1. call'.at = "error" /\ call'.op = call.op /\ Ahead' = "error"
      BY <1>0, <2>2, MoveShape DEF At, Ahead
    <3> QED BY <2>1, <3>1, NumbersSpend DEF Working, Issuing
  <2>3. CASE FirstRecord(call, call.revision, NextOperationId("revision"), {call.change})
    <3>1. [call EXCEPT !.change = call.revision] \in Call
          /\ [call EXCEPT !.change = call.revision].op = call.op
      BY <1>0 DEF Call
    <3>2. /\ call'.at = "append" /\ call'.op = call.op /\ call'.then = "apply"
          /\ call'.opid = NextOperationId("revision")
      <4>1. PICK k, ev, op, eff : /\ k \in Call /\ k.op = call.op /\ op = NextOperationId("revision")
                                      /\ AppendThen(k, ev, op, "apply", eff)
        BY <2>3, <3>1 DEF FirstRecord
      <4> QED BY <4>1, AppendShape, SMT
    <3>3. call'.opid.number = operationCounter'
      BY <2>1, <3>2, SMT DEF NextOperationId
    <3> QED BY <2>1, <3>2, <3>3, NumbersSpend DEF Working
  <2> QED BY <1>3, <2>2, <2>3 DEF RevisePrepare
<1> QED BY <1>1, <1>2, <1>3

LEMMA LoopNumbers ==
  ASSUME Working,
         \/ RestoreNext \/ ReplayCheckNext \/ ReplayNext \/ Replayed
         \/ CommitCheckNext \/ FinalizeNext
  PROVE  NumberInv' /\ issued' >= issued
<1>0. call \in Call /\ \A c \in Change : Visit(c) \in Call /\ Visit(c).op = call.op
  BY VisitType, VisitShape DEF Working, TypeOK, KernelTypeOK
<1>1. CASE RestoreNext
  BY <1>0, <1>1, GotoNumbers DEF RestoreNext, Issuing
<1>2. CASE ReplayCheckNext
  BY <1>0, <1>2, EnsureNumbers DEF ReplayCheckNext, Issuing
<1>3. CASE CommitCheckNext
  BY <1>0, <1>3, EnsureNumbers DEF CommitCheckNext, Issuing
<1>4. CASE ReplayNext
  BY <1>0, <1>4, AnnounceNumbers DEF ReplayNext
<1>5. CASE FinalizeNext
  BY <1>0, <1>5, AnnounceNumbers DEF FinalizeNext
<1>6. CASE Replayed
  BY <1>0, <1>6, GotoNumbers DEF Replayed, Goto, InLoop, Issuing
<1> QED BY <1>1, <1>2, <1>3, <1>4, <1>5, <1>6

LEMMA LoopEndNumbers ==
  ASSUME Working, Restored \/ ReplayChecked \/ CommitChecked \/ Acknowledged \/ CommitSeal
  PROVE  NumberInv' /\ issued' >= issued
<1>0. call \in Call /\ call.at = "loop"
  BY DEF Working, TypeOK, KernelTypeOK, Restored, ReplayChecked, CommitChecked, Acknowledged,
         CommitSeal, InLoop
<1>1. UNCHANGED <<log, operationCounter, issued>>
  BY DEF Restored, ReplayChecked, CommitChecked, Acknowledged, CommitSeal, OnlyControl, memory
<1>2. CASE Restored
  <2>1. \/ call'.at = "ok" /\ call.op # "experiment" /\ call'.op = call.op /\ Ahead' = "ok"
        \/ call'.at = "append" /\ call'.op = call.op /\ Ahead' = "ok"
    <3>1. CASE InLoop("restore_baseline") /\ At("ok")
      BY <1>0, <3>1, MoveShape DEF At, Ahead, InLoop
    <3>2. CASE \E ev, eff : AppendThen(call, ev, call.opid, "ok", eff)
      BY <1>0, <3>2, AppendShape, SMT DEF Ahead
    <3> QED BY <1>2, <3>1, <3>2 DEF Restored
  <2> QED BY <1>1, <2>1, NumbersMove DEF Working, Issuing
<1>3. CASE CommitSeal
  <2>1. call'.at = "append" /\ call'.op = call.op /\ Ahead' = "ok"
    <3>1. PICK ev, eff : AppendThen(call, ev, call.opid, "ok", eff)
      BY <1>3 DEF CommitSeal
    <3> QED BY <1>0, <3>1, AppendShape, SMT DEF Ahead
  <2> QED BY <1>1, <2>1, NumbersMove DEF Working, Issuing
<1>4. CASE ReplayChecked \/ CommitChecked \/ Acknowledged
  <2>1. /\ call.op \in {"replay_check", "finalize_check", "finalize"}
        /\ call'.op \in {"replay", "finalize", "finalize_recheck"} /\ call'.at = "loop"
        /\ Ahead' = "loop"
    <3>1. \/ call' = [call EXCEPT !.op = "replay", !.todo = candidate]
          \/ call' = [call EXCEPT !.op = "finalize", !.todo = candidate]
          \/ call' = [call EXCEPT !.op = "finalize_recheck", !.todo = Heads]
      BY <1>4 DEF ReplayChecked, CommitChecked, Acknowledged
    <3>2. call.op \in {"replay_check", "finalize_check", "finalize"}
      BY <1>4 DEF ReplayChecked, CommitChecked, Acknowledged, InLoop
    <3> QED BY <1>0, <3>1, <3>2 DEF Ahead, Call
  <2>2. Reserve(call', retry') + 0 <= Reserve(call, retry)
    BY <1>0, <2>1, SMT DEF Reserve, Unrecorded
  <2>3. operationCounter' = operationCounter + 0
    BY <1>1, SMT DEF Working, TypeOK, KernelTypeOK
  <2>4. Active /\ Active' /\ (retry' => InEpisode')
    BY <1>0, <2>1, StepRuns DEF Working, Active, InEpisode, NumberInv
  <2> QED BY <1>1, <2>1, <2>2, <2>3, <2>4, NumbersKept DEF Working, Issuing
<1> QED BY <1>2, <1>3, <1>4

\* The log never counts fewer entries, and what is damaged stays so.
LEMMA StoppedNumbers ==
  ASSUME TypeOK, LogStops
  PROVE  (log'.intact => log.intact) /\ log'.count >= log.count
<1>1. log \in Log /\ log.count \in Nat
  BY DEF TypeOK, KernelTypeOK, Log
<1>2. CASE log' \in {log, [log EXCEPT !.intact = FALSE]}
  <2>1. (log'.intact => log.intact) /\ log'.count = log.count
    BY <1>1, <1>2 DEF Log
  <2> QED BY <1>1, <2>1, SMT
<1>3. CASE log' \in {Written, [Written EXCEPT !.terminated = FALSE]}
  <2>1. Written.count = log.count + 1 /\ (Written.intact => log.intact)
    BY DEF Written, Replay
  <2>2. log'.count = Written.count /\ log'.intact = Written.intact
    BY <1>3 DEF Written, Replay
  <2> QED BY <1>1, <2>1, <2>2, SMT
<1> QED BY <1>2, <1>3 DEF LogStops, CutShort

\* An entry that reaches the log restores what its operation id cost.
LEMMA AppendNumbers ==
  ASSUME TypeOK, TypeOK', ControlInv, NumberInv, UNCHANGED <<phase, retry>>,
         AppendDurable \/ AppendFails
  PROVE  NumberInv' /\ issued' >= issued
<1>0. /\ call.at = "append" /\ Active /\ call \in Call
      /\ UNCHANGED <<operationCounter, issued>>
  BY StepRuns DEF AppendDurable, AppendFails, TypeOK, KernelTypeOK
<1>1. /\ issued \in Nat /\ operationCounter \in Nat /\ log.count \in Nat /\ log'.count \in Nat
  BY DEF TypeOK, KernelTypeOK, Log
<1>2. /\ call'.op = call.op /\ call'.event = Started /\ call'.then = "ok"
      /\ ~call'.afterEffect /\ call'.opid = call.opid
      /\ \/ AppendDurable /\ call'.at = call.then
         \/ AppendFails /\ call'.at \in {"error", "outcomeUnknown"}
  <2>1. CASE AppendDurable
    BY <1>0, <2>1 DEF AppendDurable, Call
  <2>2. CASE AppendFails
    BY <1>0, <2>2 DEF AppendFails, Call
  <2> QED BY <2>1, <2>2
<1>3. /\ log'.intact => log.intact
      /\ AppendDurable => log'.count = log.count + 1
      /\ log'.count >= log.count
  <2>1. Written.count = log.count + 1 /\ (Written.intact => log.intact)
    BY DEF Written, Replay
  <2>2. CASE AppendDurable
    <3>1. log' = Written
      BY <2>2 DEF AppendDurable
    <3> QED BY <1>1, <2>1, <3>1, SMT
  <2>3. CASE AppendFails /\ ~AppendDurable
    <3>1. LogStops
      BY <1>0, <2>3 DEF AppendFails, LogStops
    <3> QED BY <2>3, <3>1, StoppedNumbers
  <2> QED BY <2>2, <2>3
<1>4. Active' /\ (retry' => InEpisode')
  BY <1>0, <1>2 DEF Active, InEpisode, NumberInv
<1>5. call'.op = "begin" => Known' = {}
  <2> SUFFICES ASSUME call'.op = "begin" PROVE Known' = {}
    OBVIOUS
  <2>1. Known = {} /\ call.event = Started /\ ~call.afterEffect
    BY <1>2 DEF NumberInv
  <2>2. changes' = changes
    BY <2>1, SMT DEF AppendDurable, AppendFails, Memorise, Upserts, Started, TypeOK, KernelTypeOK
  <2> QED BY <2>1, <2>2 DEF Known
<1>6. log'.intact => issued' <= log'.count
  BY <1>0, <1>1, <1>3, SMT DEF NumberInv
<1>7. issued' <= operationCounter' /\ issued' >= issued
  BY <1>0, <1>1, SMT DEF NumberInv
<1>8. Ahead' \in Issuing => call'.opid.number = operationCounter' /\ issued' < operationCounter'
  <2> SUFFICES ASSUME Ahead' \in Issuing
               PROVE  call'.opid.number = operationCounter' /\ issued' < operationCounter'
    OBVIOUS
  <2>1. call'.at # "append"
    BY <1>2 DEF Ahead, Issuing
  <2>2. Ahead = Ahead'
    BY <1>0, <1>2, <2>1 DEF Ahead, Issuing
  <2> QED BY <1>0, <1>2, <2>2 DEF NumberInv, Issuing
<1>9. log'.intact => operationCounter' + Reserve(call', retry) <= log'.count
  <2> SUFFICES ASSUME log'.intact PROVE operationCounter + Reserve(call', retry) <= log'.count
    BY <1>0
  <2>1. operationCounter + Reserve(call, retry) <= log.count
    BY <1>0, <1>3 DEF NumberInv
  <2>2. Reserve(call, retry) \in Int /\ Reserve(call', retry) \in Int
    BY ReserveType
  <2>3. CASE AppendDurable
    <3>1. call'.at = call.then
      BY <1>0, <2>3 DEF AppendDurable, Call
    <3>2. Reserve(call', retry) <= Reserve(call, retry) + 1
      BY <1>0, <1>2, <3>1, ReserveAppends
    <3> QED BY <1>1, <1>3, <2>1, <2>2, <2>3, <3>2, SMT
  <2>4. CASE call'.at \in {"error", "outcomeUnknown"}
    <3>1. Reserve(call', retry) <= Reserve(call, retry)
      BY <1>0, <1>2, <2>4, ReserveAppends
    <3> QED BY <1>1, <1>3, <2>1, <2>2, <3>1, SMT
  <2> QED BY <1>2, <2>3, <2>4
<1> QED BY <1>2, <1>4, <1>5, <1>6, <1>7, <1>8, <1>9 DEF NumberInv, Issuing

LEMMA KernelStepNumbers ==
  ASSUME TypeOK, TypeOK', ControlInv, NumberInv, Step
  PROVE  NumberInv' /\ issued' >= issued
<1>0. KernelStep /\ UNCHANGED <<phase, retry>>
  BY DEF Step
<1>1. CASE AppendDurable \/ AppendFails
  BY <1>0, <1>1, AppendNumbers
<1>2. CASE ~AppendDurable /\ ~AppendFails
  <2>1. call.at \notin {"ok", "error", "outcomeUnknown", "append"}
    BY <1>0, <1>2 DEF KernelStep, Apply, ApplyWrite, ApplyStatus, ApplyVerify, RestoreOne,
       MatchDesired, Restore, RestoreWrite, RestoreStatus, RestoreVerify, ReviseCheck, RevisePrepare, RestoreNext, Restored,
       ReplayCheckNext, ReplayChecked, ReplayNext, Replayed, CommitCheckNext, CommitChecked,
       FinalizeNext, Finalize, AckVerify, Acknowledged, CommitSeal, InLoop
  <2>2. Working
    BY <1>0, <2>1 DEF Working
  <2> QED BY <1>0, <1>2, <2>2, DriverNumbers, WriteNumbers, ApplyNumbers, RestoreNumbers, ReviseNumbers,
             LoopNumbers, LoopEndNumbers DEF KernelStep
<1> QED BY <1>1, <1>2

---------------------------------------------------------------------------
(* The coordinator and the restarts. *)

\* The call that an operation starts with.
LEMMA StartShape ==
  ASSUME NEW o \in Operation, NEW s,
         \/ call' = [Calls(o) EXCEPT !.at = "error"]
         \/ call' = [Calls(o) EXCEPT !.at = "loop", !.todo = s]
  PROVE  call'.op = o /\ call'.at \in {"loop", "error"} /\ Ahead' \in {"loop", "error"}
<1>1. Calls(o) \in Call /\ Calls(o).op = o
  BY ControlTypes DEF Calls, IdleCall
<1> QED BY <1>1 DEF Call, Ahead

LEMMA MutateNumbers ==
  ASSUME TypeOK, TypeOK', ControlInv, NumberInv, Mutate
  PROVE  NumberInv' /\ issued' >= issued
<1>0. /\ phase = "Experimenting" /\ call.at = "ok" /\ call.op \in {"begin", "experiment"}
      /\ UNCHANGED <<phase, retry, log, issued>>
  BY DEF Mutate, Idle, ControlInv, ExperimentRejected, PrepareRejected, Prepare, OnlyControl,
               OnlyOperationId
<1>1. Active /\ Active' /\ (retry' => InEpisode')
  BY <1>0 DEF Active, InEpisode, EpisodePhase
<1>2. Reserve(call, retry) = IF call.op = "begin" THEN 1 ELSE 2
  BY <1>0, SMT DEF Reserve, Unrecorded
<1>3. Calls("experiment") \in Call /\ Calls("experiment").op = "experiment"
  BY ControlTypes DEF Operation, Calls, IdleCall
<1>4. CASE call'.at = "error" /\ call'.op = "experiment"
  <2>1. Reserve(call', retry') = 0 /\ Ahead' = "error"
    BY <1>4, SMT DEF Reserve, Unrecorded, Ahead
  <2>2. PICK n \in {0, 1} : operationCounter' = operationCounter + n
    <3>1. operationCounter' = operationCounter \/ operationCounter' = operationCounter + 1
      BY DEF Mutate, ExperimentRejected, PrepareRejected, Prepare, OnlyControl,
                   OnlyOperationId, memory
    <3> QED BY <3>1, SMT DEF TypeOK, KernelTypeOK
  <2>3. Reserve(call', retry') + n <= Reserve(call, retry)
    BY <1>2, <2>1, SMT
  <2> QED BY <1>0, <1>1, <1>4, <2>1, <2>2, <2>3, NumbersKept DEF Issuing
<1>5. CASE ExperimentRejected \/ \E r \in Resource, d \in Value : PrepareRejected(r, d)
  <2>1. call' = [Calls("experiment") EXCEPT !.at = "error"]
    BY <1>5 DEF ExperimentRejected, PrepareRejected
  <2> QED BY <1>3, <1>4, <2>1, MoveShape
<1>6. ASSUME NEW r \in Resource, NEW d \in Value, NEW c \in Change, Prepare(r, d, c)
      PROVE  NumberInv' /\ issued' >= issued
  <2>0. operationCounter' = operationCounter + 1
    BY <1>6 DEF Prepare
  <2>1. CASE FirstRecord(Calls("experiment"), c, NextOperationId("experiment"), {})
    <3>1. /\ [Calls("experiment") EXCEPT !.change = c] \in Call
          /\ [Calls("experiment") EXCEPT !.change = c].op = "experiment"
      BY <1>3 DEF Call
    <3>2. /\ call'.at = "append" /\ call'.op = "experiment" /\ call'.then = "apply"
          /\ call'.opid = NextOperationId("experiment")
      <4>1. PICK k, ev, op, eff : /\ k \in Call /\ k.op = "experiment" /\ op = NextOperationId("experiment")
                                      /\ AppendThen(k, ev, op, "apply", eff)
        BY <2>1, <3>1 DEF FirstRecord
      <4> QED BY <4>1, AppendShape, SMT
    <3>3. call'.opid.number = operationCounter'
      BY <2>0, <3>2, SMT DEF NextOperationId
    <3>4. Reserve(call', retry') + 1 <= Reserve(call, retry)
      BY <1>2, <3>2, SMT DEF Reserve, Unrecorded
    <3> QED BY <1>0, <1>1, <2>0, <3>2, <3>3, <3>4, NumbersKept
  <2>2. ASSUME NEW h \in Head(r),
               call' = [Calls("experiment") EXCEPT
                          !.at = "reviseCheck", !.change = h, !.revision = c]
        PROVE  NumberInv' /\ issued' >= issued
    <3>1. call'.at = "reviseCheck" /\ call'.op = "experiment" /\ Ahead' = "reviseCheck"
      BY <1>3, <2>2 DEF Call, Ahead
    <3>2. call.op = "experiment"
      BY <1>0, <2>2 DEF NumberInv, Head, ResourceHead
    <3>3. Reserve(call', retry') + 1 <= Reserve(call, retry)
      BY <1>2, <3>1, <3>2, SMT DEF Reserve, Unrecorded
    <3> QED BY <1>0, <1>1, <2>0, <3>1, <3>3, NumbersKept DEF Issuing
  <2> QED BY <1>6, <2>1, <2>2 DEF Prepare
<1> QED BY <1>5, <1>6 DEF Mutate

\* A rollback may use what the operation that failed has left.
LEMMA RollbackNumbers ==
  ASSUME TypeOK, TypeOK', ControlInv, NumberInv, NEW again \in BOOLEAN, StartRollback(again),
         phase \in {"Experimenting", "CommitPending"} \/ (phase = "RollingBack" /\ retry),
         call.at \in {"ok", "error"}, call.op = "begin" => call.at = "ok",
         again => call.at = "ok" /\ phase = "Experimenting"
  PROVE  NumberInv' /\ issued' >= issued
<1>1. Active /\ Active' /\ InEpisode' /\ retry' = again
  BY DEF Active, InEpisode, EpisodePhase, StartRollback
<1>2. call'.op = "rollback_all" /\ call'.at \in {"loop", "error"}
  <2>1. \/ call' = [Calls("rollback_all") EXCEPT !.at = "error"]
        \/ call' = [Calls("rollback_all") EXCEPT !.at = "loop", !.todo = Known]
    BY DEF StartRollback, RollbackAll, StartLoop
  <2> QED BY <2>1, StartShape DEF Operation
<1>3. UNCHANGED <<log, issued, operationCounter>>
  BY DEF StartRollback, RollbackAll, StartLoop, OnlyControl, memory
<1>4. Reserve(call', retry') <= IF again THEN 1 ELSE 0
  BY <1>1, <1>2, SMT DEF Reserve, Unrecorded
<1>5. Reserve(call, retry) >= IF again THEN 1 ELSE 0
  <2>1. CASE phase = "Experimenting"
    <3>1. call.op \in {"begin", "experiment"}
      BY <2>1 DEF ControlInv
    <3> QED BY <3>1, SMT DEF Reserve, Unrecorded
  <2>2. CASE phase = "CommitPending"
    <3>1. call.op \notin {"begin", "experiment", "rollback_all"} /\ ~again
      BY <2>2 DEF ControlInv
    <3> QED BY <3>1, SMT DEF Reserve, Unrecorded
  <2>3. CASE phase = "RollingBack" /\ retry
    <3>1. call.op = "rollback_all" /\ ~again
      BY <2>3 DEF ControlInv
    <3> QED BY <2>3, <3>1, SMT DEF Reserve, Unrecorded
  <2> QED BY <2>1, <2>2, <2>3
<1>6. Reserve(call', retry') + 0 <= Reserve(call, retry)
  BY <1>4, <1>5, ReserveType, SMT
<1>7. operationCounter' = operationCounter + 0 /\ Ahead' \notin Issuing
  BY <1>2, <1>3, SMT DEF TypeOK, KernelTypeOK, Ahead, Issuing
<1> QED BY <1>1, <1>2, <1>3, <1>6, <1>7, NumbersKept

LEMMA EpisodeNumbers ==
  ASSUME TypeOK, TypeOK', ControlInv, NumberInv, EpisodeStep
  PROVE  NumberInv' /\ issued' >= issued
<1>1. CASE Mutate
  BY <1>1, MutateNumbers
<1>2. ASSUME NEW s \in SUBSET Change, RequestCommit(s) PROVE NumberInv' /\ issued' >= issued
  <2>1. /\ phase = "Experimenting" /\ call.at = "ok" /\ phase' = "CommitPending"
        /\ UNCHANGED <<log, issued, operationCounter, retry>> /\ s # {} /\ s \subseteq Known
    BY <1>2 DEF RequestCommit, Idle, memory, Heads
  <2>2. call'.op = "restore_baseline" /\ call'.at = "loop" /\ Ahead' = "loop"
    <3>1. Calls("restore_baseline") \in Call /\ Calls("restore_baseline").op = "restore_baseline"
      BY ControlTypes DEF Operation, Calls, IdleCall
    <3> QED BY <1>2, <3>1 DEF RequestCommit, Call, Ahead
  <2>3. call.op = "experiment"
    BY <2>1 DEF ControlInv, NumberInv
  <2>4. Reserve(call', retry') + 0 <= Reserve(call, retry)
    BY <2>1, <2>2, <2>3, SMT DEF Reserve, Unrecorded
  <2>5. Active /\ Active' /\ InEpisode' /\ operationCounter' = operationCounter + 0
    BY <2>1, SMT DEF Active, InEpisode, EpisodePhase, TypeOK, KernelTypeOK
  <2> QED BY <2>1, <2>2, <2>4, <2>5, NumbersKept DEF Issuing
<1>3. CASE EvaluateCandidate \/ FinalizeImproved
  <2>1. /\ phase = "CommitPending" /\ call.at = "ok" /\ call.op \in {"restore_baseline", "replay"}
        /\ UNCHANGED <<log, issued, operationCounter, retry, phase>>
    BY <1>3 DEF EvaluateCandidate, FinalizeImproved, ReplayCandidate, FinalizeCandidate, StartLoop,
                OnlyControl, memory, Idle
  <2>2. /\ call'.op \in {"replay_check", "replay", "finalize_check", "finalize"}
        /\ call'.at \in {"loop", "error"} /\ Ahead' \in {"loop", "error"}
    <3>1. \/ call' = [Calls("replay") EXCEPT !.at = "error"]
          \/ call' = [Calls("replay_check") EXCEPT !.at = "loop", !.todo = Known]
          \/ call' = [Calls("finalize") EXCEPT !.at = "error"]
          \/ call' = [Calls("finalize_check") EXCEPT !.at = "loop", !.todo = Heads]
      BY <1>3 DEF EvaluateCandidate, FinalizeImproved, ReplayCandidate,
                         FinalizeCandidate, StartLoop
    <3> QED BY <3>1, StartShape DEF Operation
  <2>3. Reserve(call', retry') + 0 <= Reserve(call, retry)
    BY <2>1, <2>2, SMT DEF Reserve, Unrecorded
  <2>4. Active /\ Active' /\ InEpisode' /\ operationCounter' = operationCounter + 0
    BY <2>1, SMT DEF Active, InEpisode, EpisodePhase, TypeOK, KernelTypeOK
  <2> QED BY <2>1, <2>2, <2>3, <2>4, NumbersKept DEF Issuing
<1>4. CASE EvaluationRejects \/ Abort \/ FinishSession \/ OperationFailed \/ RollbackRetried
  <2>1. PICK again \in BOOLEAN :
          /\ StartRollback(again)
          /\ phase \in {"Experimenting", "CommitPending"} \/ (phase = "RollingBack" /\ retry)
          /\ call.at \in {"ok", "error"}
          /\ again => call.at = "ok" /\ phase = "Experimenting"
          /\ call.op = "begin" /\ phase # "RollingBack" => call.at = "ok"
    BY <1>4 DEF EvaluationRejects, Abort, FinishSession, OperationFailed, RollbackRetried, Idle
  <2>2. call.op = "begin" => call.at = "ok"
    BY <2>1 DEF ControlInv
  <2> QED BY <2>1, <2>2, RollbackNumbers
<1>5. CASE \/ BeginFailed \/ CommitOutcomeUnknown \/ CommitCompleted
           \/ RollbackCompleted \/ RollbackFailed
  <2>1. UNCHANGED <<kernelVars, retry>> /\ InEpisode /\ InEpisode'
    BY <1>5 DEF BeginFailed, CommitOutcomeUnknown, CommitCompleted, RollbackCompleted,
                RollbackFailed, InEpisode, EpisodePhase
  <2>2. UNCHANGED <<log, changes, call, operationCounter, issued, retry>>
    BY <2>1 DEF kernelVars, memory
  <2>3. issued' >= issued
    BY <2>2, SMT DEF TypeOK, KernelTypeOK
  <2> QED BY <2>1, <2>2, <2>3 DEF NumberInv, Known, Active, Ahead
<1> QED BY <1>1, <1>2, <1>3, <1>4, <1>5 DEF EpisodeStep

LEMMA OtherNumbers ==
  ASSUME TypeOK, TypeOK', ControlInv, NumberInv, ProcessStep \/ Drift \/ UNCHANGED vars
  PROVE  NumberInv' /\ issued' >= issued
<1>0. /\ issued \in Nat /\ log.count \in Nat
      /\ log.intact => issued <= log.count
      /\ retry => InEpisode
  BY DEF TypeOK, KernelTypeOK, Log, NumberInv
<1>1. CASE Drift \/ UNCHANGED vars
  <2>1. UNCHANGED <<log, changes, call, operationCounter, issued, retry, phase>>
    BY <1>1 DEF Drift, ExternalWrite, vars, kernelVars, memory
  <2>2. issued' >= issued
    BY <1>0, <2>1, SMT
  <2> QED BY <2>1, <2>2 DEF NumberInv, Known, Active, InEpisode, Ahead
<1>2. CASE Crash \/ Shutdown \/ EarlyPassDone \/ GateOpens \/ GateBlocks
  <2>0. LogStops
    BY <1>2 DEF Crash, Shutdown, EarlyPassDone, GateOpens, GateBlocks, StagePassed, LogStops
  <2>1. LoseMemory /\ UNCHANGED issued /\ ~InEpisode' /\ ~retry'
    BY <1>0, <1>2, SMT DEF Crash, Shutdown, EarlyPassDone, GateOpens, GateBlocks, StagePassed, InEpisode,
                      EpisodePhase
  <2>2. call' = IdleCall /\ Known' = {}
    BY <2>1 DEF LoseMemory, Known
  <2>3. call'.op = "begin" /\ call'.event = Started /\ ~call'.afterEffect
    BY <2>2 DEF IdleCall
  <2>4. ~Active'
    BY <2>1, <2>3 DEF Active
  <2>5. issued' >= issued /\ (log'.intact => issued' <= log'.count)
    <3>1. log'.count \in Nat
      BY DEF TypeOK, KernelTypeOK, Log
    <3> QED BY <1>0, <2>0, <2>1, <3>1, StoppedNumbers, SMT
  <2> QED BY <1>0, <2>1, <2>2, <2>3, <2>4, <2>5 DEF NumberInv
<1>3. CASE Restart
  <2>1. /\ UNCHANGED <<log, changes, call, operationCounter, issued, retry>>
        /\ phase = "Down" /\ phase' = "EarlyPass"
    BY <1>3 DEF Restart, kernelVars, memory
  <2>2. call.op = "begin" /\ ~InEpisode /\ ~InEpisode'
    BY <2>1, SMT DEF ControlInv, IdleCall, InEpisode, EpisodePhase
  <2>3. ~Active' /\ issued' >= issued
    BY <1>0, <2>1, <2>2, SMT DEF Active
  <2> QED BY <1>0, <2>1, <2>2, <2>3 DEF NumberInv, Known
<1>4. CASE RecoverPending
  <2>1. /\ UNCHANGED <<log, issued, retry, phase>> /\ ~InEpisode
        /\ operationCounter' = log.count /\ InspectLog(log) = "Pending"
    BY <1>4 DEF RecoverPending, RecoverAndRollback, Rebuild, InEpisode, EpisodePhase
  <2>2. call'.op = "rollback_all" /\ call'.at = "loop" /\ Ahead' = "loop"
    <3>1. Calls("rollback_all") \in Call /\ Calls("rollback_all").op = "rollback_all"
      BY ControlTypes DEF Operation, Calls, IdleCall
    <3> QED BY <1>4, <3>1 DEF RecoverPending, RecoverAndRollback, Rebuild, Call, Ahead
  <2>3. log.intact
    BY <2>1 DEF InspectLog, TypeOK, KernelTypeOK, Log
  <2>4. ~retry /\ ~retry' /\ Reserve(call', retry') = 0
    BY <1>0, <2>1, <2>2, SMT DEF Reserve, Unrecorded
  <2>5. operationCounter' + Reserve(call', retry') <= log'.count /\ issued' >= issued
    BY <1>0, <2>1, <2>4, SMT
  <2> QED BY <1>0, <2>1, <2>2, <2>3, <2>4, <2>5 DEF NumberInv
<1> QED BY <1>1, <1>2, <1>3, <1>4 DEF ProcessStep, StartupStep

\* Every step keeps the numbering, and the ids that reach a driver increase.
LEMMA NextNumbers ==
  ASSUME TypeOK, TypeOK', ControlInv, NumberInv, [Next]_vars
  PROVE  NumberInv' /\ issued' >= issued
BY KernelStepNumbers, EpisodeNumbers, OtherNumbers DEF Next

---------------------------------------------------------------------------
(* The log that the kernel writes is one that its readers accept: how each *)
(* part of Legible survives a step that appends nothing.                   *)

LEMMA MirrorKept ==
  ASSUME MirrorInv, Active, InEpisode' => InEpisode, call.at # "append", log.seal = Open,
         UNCHANGED <<log, nextSequence, verified, changes>>, ~Appending("Started")',
         \A c \in LogChanges(log) : prepared'[c] = prepared[c]
  PROVE  MirrorInv'
<1>1. Known' = Known /\ LogChanges(log') = LogChanges(log)
  BY DEF Known
<1>2. ~Appending("Started")
  BY DEF Appending
<1> QED BY <1>1, <1>2 DEF MirrorInv

LEMMA IntentKept ==
  ASSUME IntentInv, log' = log, Deciding' => Deciding,
         Deciding' /\ Unsettled =>
           Unsettled' /\ call'.change = call.change /\ call'.opid = call.opid
  PROVE  IntentInv'
BY DEF IntentInv

LEMMA CandidateKept ==
  ASSUME CandidateInv, UNCHANGED <<log, phase, verified, candidate, changes>>,
         Deciding' => Deciding, call'.op = call.op, call'.todo \subseteq call.todo,
         phase = "CommitPending" /\ Deciding' /\ call.op # "restore_baseline" =>
           /\ Ahead' \in ChangeLocation \/ Appending("ChangeUpsert")' =>
                call'.change \in candidate
           /\ Appending("ChangeUpsert")' => call'.event.state = "CandidateApplied"
  PROVE  CandidateInv'
<1>1. Known' = Known
  BY DEF Known
<1>2. CASE ~(phase = "CommitPending" /\ Deciding' /\ call.op # "restore_baseline")
  BY <1>2 DEF CandidateInv
<1>3. CASE phase = "CommitPending" /\ Deciding' /\ call.op # "restore_baseline"
  BY <1>1, <1>3 DEF CandidateInv
<1> QED BY <1>2, <1>3

LEMMA RevisionKept ==
  ASSUME RevisionInv, UNCHANGED <<verified, changes, prepared>>,
         Revising' =>
           /\ Revising /\ call'.change = call.change
           /\ call'.at = "revisePrepare" => changes[call.change] = "BaselineRestored"
           /\ call'.at = "append" /\ call'.then = "revisePrepare" =>
                call'.event.type = "ChangeUpsert" /\ call'.event.state = "BaselineRestored"
  PROVE  RevisionInv'
<1>1. IsHead(call.change)' <=> IsHead(call'.change)
  BY DEF IsHead, Head, Known
<1> QED BY DEF RevisionInv, IsHead, Head, Known

---------------------------------------------------------------------------
(* The entries that the readers accept. *)

LEMMA UpsertAccepted ==
  ASSUME TypeOK, MirrorInv, Active, call.at # "append", log.seal = Open,
         NEW c \in Known, NEW st, NEW op, NEW v \in BOOLEAN,
         v <=> c \in verified \/ st = "AppliedVerified",
         st \in VerifiedState => st = "AppliedVerified" \/ c \in verified
  PROVE  AcceptsEntry(log, prepared, log.count, ChangeUpsert(c, st, v, op, {}))
<1> DEFINE ev == ChangeUpsert(c, st, v, op, {})
<1>1. ev.type = "ChangeUpsert" /\ ev.change = c /\ ev.state = st /\ ev.verified = v
  BY DEF ChangeUpsert
<1>2. /\ log.count # 0 /\ verified = log.verified /\ log.state[c] # Absent
      /\ prepared[c].baseline # prepared[c].desired
  BY DEF MirrorInv, LogChanges, Appending
<1>3. AcceptsUpsert(log, prepared, ev)
  BY <1>1, <1>2 DEF AcceptsUpsert, AcceptsTransition
<1> HIDE DEF ev
<1>4. AcceptsEntry(log, prepared, log.count, ev)
  BY <1>1, <1>2, <1>3 DEF AcceptsEntry
<1> QED BY <1>4 DEF ev

LEMMA IntentAccepted ==
  ASSUME MirrorInv, Active, call.at # "append", log.seal = Open,
         NEW c \in Known, NEW op, NEW kind,
         kind = "Finalize" => log.state[c] = "CandidateApplied" /\ c \in log.verified
  PROVE  AcceptsEntry(log, prepared, log.count, OperationIntent(c, op, kind))
<1> DEFINE ev == OperationIntent(c, op, kind)
<1>1. ev.type = "OperationIntent" /\ ev.change = c /\ ev.kind = kind
  BY DEF OperationIntent
<1>2. log.count # 0 /\ log.state[c] # Absent
  BY DEF MirrorInv, LogChanges, Appending
<1>3. AcceptsIntent(log, ev)
  BY <1>1, <1>2 DEF AcceptsIntent
<1> HIDE DEF ev
<1>4. AcceptsEntry(log, prepared, log.count, ev)
  BY <1>1, <1>2, <1>3 DEF AcceptsEntry
<1> QED BY <1>4 DEF ev

\* The first record of a change continues the chain of its resource.
LEMMA FirstAccepted ==
  ASSUME TypeOK, MirrorInv, Active, call.at # "append", log.seal = Open,
         NEW p, NEW c \in Change \ Known, NEW op, NEW h,
         p[c].baseline # p[c].desired,
         h = ResourceHead(p, Known, p[c].resource),
         \A d \in h : /\ log.state[d] = "BaselineRestored" /\ d \in verified
                      /\ p[d].baseline = p[c].baseline
  PROVE  AcceptsEntry(log, p, log.count, ChangeUpsert(c, "IntentDurable", FALSE, op, h))
<1> DEFINE ev == ChangeUpsert(c, "IntentDurable", FALSE, op, h)
<1>1. /\ ev.type = "ChangeUpsert" /\ ev.change = c /\ ev.state = "IntentDurable"
      /\ ~ev.verified /\ ev.supersedes = h
  BY DEF ChangeUpsert
<1>2. log.count # 0 /\ log.state[c] = Absent /\ LogChanges(log) = Known /\ verified = log.verified
  BY DEF MirrorInv, LogChanges, Appending
<1> HIDE DEF ev
<1>3. AcceptsFirstRecord(log, p, ev)
  BY <1>1, <1>2 DEF AcceptsFirstRecord
<1>4. AcceptsUpsert(log, p, ev)
  BY <1>1, <1>2, <1>3 DEF AcceptsUpsert, VerifiedState
<1>5. AcceptsEntry(log, p, log.count, ev)
  BY <1>1, <1>2, <1>4 DEF AcceptsEntry
<1> QED BY <1>5 DEF ev

LEMMA CommitAccepted ==
  ASSUME Legible, InEpisode, CommitInv, phase = "CommitPending",
         call.op = "finalize_recheck", call.at = "loop", log.seal = Open
  PROVE  AcceptsEntry(log, prepared, log.count, CommitSealed(candidate))
<1> DEFINE ev == CommitSealed(candidate)
<1>1. ev.type = "CommitSealed" /\ ev.candidate = candidate
  BY DEF CommitSealed
<1>2. Active /\ Deciding /\ ~Unsettled
  BY DEF Active, Deciding, Ahead, Unsettled, ApplyLocation, Appending
<1>3. /\ log.count # 0 /\ LogChanges(log) = Known /\ verified = log.verified
      /\ changes = log.state
  BY <1>2 DEF Legible, MirrorInv, Appending
<1>4. PendingOperations(log) = {}
  BY <1>2 DEF Legible, IntentInv
<1>5. /\ candidate # {} /\ candidate \subseteq verified
      /\ \A c \in Known \ candidate : changes[c] = "BaselineRestored"
      /\ \A c \in candidate : changes[c] = "CandidateApplied"
  BY <1>2 DEF Legible, CandidateInv
<1>6. candidate \subseteq Known /\ \A c \in candidate : IsHead(c)
  BY DEF CommitInv, Heads
<1> HIDE DEF ev
<1>7. AcceptsCommitSeal(log, prepared, ev)
  BY <1>1, <1>3, <1>4, <1>5, <1>6 DEF AcceptsCommitSeal, IsHead, Head
<1>8. AcceptsEntry(log, prepared, log.count, ev)
  BY <1>1, <1>3, <1>7 DEF AcceptsEntry
<1> QED BY <1>8 DEF ev

LEMMA SealAccepted ==
  ASSUME MirrorInv, Active, call.at # "append", log.seal = Open, NEW o
  PROVE  AcceptsEntry(log, prepared, log.count, Sealed(o))
<1> DEFINE ev == Sealed(o)
<1>1. ev.type = "Sealed"
  BY DEF Sealed
<1>2. log.count # 0
  BY DEF MirrorInv, Appending
<1> HIDE DEF ev
<1>3. AcceptsEntry(log, prepared, log.count, ev)
  BY <1>1, <1>2 DEF AcceptsEntry
<1> QED BY <1>3 DEF ev

---------------------------------------------------------------------------
(* One lemma for each way the steps of the kernel are put together. *)

\* A step inside an operation that leaves the log and the memory alone.
Reading ==
  /\ TypeOK /\ TypeOK' /\ Structure /\ Legible
  /\ UNCHANGED <<log, nextSequence, verified, changes, candidate, phase, retry>>
  /\ call.at \notin {"ok", "error", "outcomeUnknown", "append"}

\* Locations at which an operation awaits its result.
Awaiting ==
  ApplyLocation \cup {"restore", "restoreWrite", "restoreStatus", "restoreVerify", "finalize"}

LEMMA ReadingFacts ==
  ASSUME Reading
  PROVE  /\ Active /\ InEpisode' = InEpisode /\ log.seal = Open /\ call \in Call
         /\ Known = LogChanges(log) /\ verified = log.verified /\ Ahead = call.at
         /\ Deciding <=> phase \in {"Experimenting", "CommitPending"}
         /\ Unsettled <=>
              call.at \in Awaiting
<1>1. Active
  BY StepRuns DEF Reading, Structure
<1>2. InEpisode' = InEpisode /\ call \in Call
  BY DEF Reading, InEpisode, TypeOK, KernelTypeOK
<1>3. log.seal = Open /\ Known = LogChanges(log) /\ verified = log.verified
  BY <1>1 DEF Reading, Legible, MirrorInv
<1>4. Ahead = call.at /\ ~Appending("ChangeUpsert")
  BY DEF Reading, Ahead, Appending
<1>5. Deciding <=> phase \in {"Experimenting", "CommitPending"}
  BY <1>4 DEF Deciding, Reading
<1> QED BY <1>1, <1>2, <1>3, <1>4, <1>5 DEF Unsettled, Awaiting

\* A step that only goes on.
LEMMA MoveLegible ==
  ASSUME Reading, prepared' = prepared, call'.at # "append", call'.op = call.op,
         call'.todo \subseteq call.todo,
         call'.at # "error" =>
           /\ call.at \in Awaiting =>
                call'.at \in Awaiting /\ call'.change = call.change /\ call'.opid = call.opid
           /\ call.op = "experiment" /\ call'.at \in ReviseLocation =>
                /\ call.at \in ReviseLocation /\ call'.change = call.change
                /\ call'.at = "revisePrepare" => changes[call.change] = "BaselineRestored"
           /\ call'.at \in ChangeLocation =>
                \/ call.op \in {"experiment", "restore_baseline", "rollback_all"}
                \/ call.at \in ChangeLocation /\ call'.change = call.change
  PROVE  Legible'
<1>1. /\ Active /\ InEpisode' = InEpisode /\ log.seal = Open /\ Ahead = call.at
      /\ Deciding <=> phase \in {"Experimenting", "CommitPending"}
      /\ Unsettled <=> call.at \in Awaiting
  BY ReadingFacts DEF Awaiting
<1>2. Ahead' = call'.at /\ ~Appending("Started")' /\ ~Appending("ChangeUpsert")'
  BY DEF Ahead, Appending
<1>3. /\ Deciding' => Deciding /\ call'.at # "error"
      /\ call'.at \in Awaiting => Unsettled'
  BY <1>1, <1>2 DEF Reading, Deciding, Unsettled, Awaiting
<1>4. MirrorInv'
  BY <1>1, <1>2, MirrorKept DEF Reading, Legible
<1>5. EventInv'
  BY DEF EventInv
<1>6. IntentInv'
  BY <1>1, <1>3, IntentKept DEF Reading, Legible
<1>7. RevisionInv'
  <2>1. Revising' => call.op = "experiment" /\ call'.at \in ReviseLocation /\ call'.at # "error"
    BY <1>2 DEF Revising, ReviseLocation, RestoreLocation
  <2>2. call.op = "experiment" /\ call.at \in ReviseLocation => Revising
    BY <1>1 DEF Revising
  <2> QED BY <2>1, <2>2, RevisionKept DEF Reading, Legible
<1>8. CandidateInv'
  <2>1. phase = "CommitPending" => call.op \notin {"experiment", "rollback_all"}
    BY DEF Reading, Structure, ControlInv
  <2>2. phase = "CommitPending" /\ Deciding' /\ call.op # "restore_baseline" =>
          (call'.at \in ChangeLocation => call'.change \in candidate)
    BY <1>1, <1>3, <2>1 DEF Reading, Legible, CandidateInv
  <2> QED BY <1>2, <1>3, <2>2, CandidateKept DEF Reading, Legible
<1> QED BY <1>4, <1>5, <1>6, <1>7, <1>8 DEF Legible

\* A step that has the outcome for a change recorded.
LEMMA PersistLegible ==
  ASSUME Reading, prepared' = prepared, NEW k \in Call, k.op = call.op, k.change \in Known,
         k.todo \subseteq call.todo, NEW st, NEW op, NEW l, NEW eff, Persist(k, st, op, l, eff),
         l \in Visits(call.op),
         st \in VerifiedState => st = "AppliedVerified" \/ k.change \in verified,
         l # "error" =>
           /\ k.change = call.change
           /\ call.at \in Awaiting => op = call.opid
           /\ call.op = "experiment" /\ l \in ReviseLocation =>
                call.at \in ReviseLocation /\ st = "BaselineRestored"
           /\ \/ call.op \in {"experiment", "restore_baseline", "rollback_all"}
              \/ call.at \in ChangeLocation /\ st = "CandidateApplied"
  PROVE  Legible'
<1>1. /\ Active /\ InEpisode' = InEpisode /\ log.seal = Open /\ Ahead = call.at
      /\ Deciding <=> phase \in {"Experimenting", "CommitPending"}
      /\ Unsettled <=> call.at \in Awaiting
  BY ReadingFacts DEF Awaiting
<1>2. /\ call'.at = "append" /\ call'.then = l /\ call'.op = call.op
      /\ call'.event.type = "ChangeUpsert" /\ call'.event.state = st /\ call'.opid = op
      /\ call'.event.op = op /\ call'.change = k.change /\ call'.todo \subseteq call.todo
  BY PersistShape, SMT
<1>3. Ahead' = l /\ ~Appending("Started")' /\ Appending("ChangeUpsert")' /\ Unsettled'
  BY <1>2 DEF Ahead, Appending, Unsettled
<1>4. Deciding' => Deciding /\ l # "error"
  BY <1>1, <1>3 DEF Reading, Deciding
<1>5. MirrorInv'
  BY <1>1, <1>3, MirrorKept DEF Reading, Legible
<1>6. EventInv'
  <2>1. PICK v \in BOOLEAN : v <=> k.change \in verified \/ st = "AppliedVerified"
    OBVIOUS
  <2>2. call'.event = ChangeUpsert(k.change, st, v, op, {})
    <3>1. v = (k.change \in verified \/ st = "AppliedVerified")
      BY <2>1
    <3>2. \E e : e = ChangeUpsert(k.change, st, v, op, {}) /\ AppendThen(k, e, op, l, eff)
      BY <3>1 DEF Persist
    <3> QED BY <3>2, AppendShape
  <2>3. TypeOK /\ MirrorInv /\ call.at # "append"
    BY DEF Reading, Legible
  <2>4. AcceptsEntry(log, prepared, log.count, ChangeUpsert(k.change, st, v, op, {}))
    BY <1>1, <2>1, <2>3, UpsertAccepted
  <2> QED BY <1>2, <2>2, <2>4 DEF EventInv, Reading
<1>7. IntentInv'
  BY <1>1, <1>2, <1>3, <1>4, IntentKept DEF Reading, Legible
<1>8. RevisionInv'
  <2>1. Revising' => call.op = "experiment" /\ l \in ReviseLocation /\ l # "error"
    BY <1>2, <1>3 DEF Revising, ReviseLocation, RestoreLocation
  <2>2. call.op = "experiment" /\ call.at \in ReviseLocation => Revising
    BY <1>1 DEF Revising
  <2> QED BY <1>2, <2>1, <2>2, RevisionKept DEF Reading, Legible
<1>9. CandidateInv'
  <2>1. phase = "CommitPending" => call.op \notin {"experiment", "rollback_all"}
    BY DEF Reading, Structure, ControlInv
  <2>2. phase = "CommitPending" /\ Deciding' /\ call.op # "restore_baseline" =>
          k.change \in candidate /\ st = "CandidateApplied"
    BY <1>1, <1>4, <2>1 DEF Reading, Legible, CandidateInv
  <2> QED BY <1>2, <1>4, <2>2, CandidateKept DEF Reading, Legible
<1> QED BY <1>5, <1>6, <1>7, <1>8, <1>9 DEF Legible

\* A step that announces an operation.
LEMMA AnnounceLegible ==
  ASSUME Reading, prepared' = prepared, NEW k \in Call, k.op = call.op, k.change \in Known,
         k.todo \subseteq call.todo, NEW label, NEW kind, NEW l \in Issuing,
         AnnounceThen(k, label, kind, l), call.at \notin Awaiting,
         kind = "Finalize" => log.state[k.change] = "CandidateApplied" /\ k.change \in log.verified,
         call.op = "experiment" /\ l \in ReviseLocation =>
           call.at \in ReviseLocation /\ k.change = call.change,
         phase = "CommitPending" /\ call.op # "restore_baseline" => k.change \in candidate
  PROVE  Legible'
<1>1. /\ Active /\ InEpisode' = InEpisode /\ log.seal = Open /\ Ahead = call.at
      /\ Deciding <=> phase \in {"Experimenting", "CommitPending"}
      /\ Unsettled <=> call.at \in Awaiting
  BY ReadingFacts DEF Awaiting
<1>2. PICK ev, op, eff : /\ ev = OperationIntent(k.change, op, kind)
                         /\ AppendThen(k, ev, op, l, eff)
  BY DEF AnnounceThen
<1>3. /\ call'.at = "append" /\ call'.then = l /\ call'.op = call.op /\ call'.event = ev
      /\ call'.opid = op /\ call'.change = k.change /\ call'.todo \subseteq call.todo
  BY <1>2, AppendShape, SMT
<1>4. ev.type = "OperationIntent" /\ ev.op = op
  BY <1>2 DEF OperationIntent
<1>5. Ahead' = l /\ ~Appending("Started")' /\ ~Appending("ChangeUpsert")'
  BY <1>3, <1>4 DEF Ahead, Appending
<1>6. Deciding' => Deciding
  BY <1>1 DEF Reading, Deciding
<1>7. MirrorInv'
  BY <1>1, <1>5, MirrorKept DEF Reading, Legible
<1>8. EventInv'
  <2>1. AcceptsEntry(log, prepared, log.count, ev)
    BY <1>1, <1>2, IntentAccepted DEF Reading, Legible
  <2> QED BY <1>3, <1>4, <2>1 DEF EventInv, Reading, Issuing
<1>9. IntentInv'
  BY <1>1, <1>6, IntentKept DEF Reading, Legible
<1>10. RevisionInv'
  <2>1. Revising' => call.op = "experiment" /\ l \in ReviseLocation
    BY <1>3, <1>5 DEF Revising
  <2>2. call.op = "experiment" /\ call.at \in ReviseLocation => Revising
    BY <1>1 DEF Revising
  <2>3. l # "revisePrepare" /\ call'.at # "revisePrepare"
    BY <1>3 DEF Issuing
  <2> QED BY <1>3, <2>1, <2>2, <2>3, RevisionKept DEF Reading, Legible
<1>11. CandidateInv'
  BY <1>3, <1>5, <1>6, CandidateKept DEF Reading, Legible
<1> QED BY <1>7, <1>8, <1>9, <1>10, <1>11 DEF Legible

\* The two frames of the steps that only read.
LEMMA ReadingFrame ==
  ASSUME OnlyControl \/ OnlyOperationId
  PROVE  UNCHANGED <<log, nextSequence, verified, changes, candidate, prepared>>
BY DEF OnlyControl, OnlyOperationId, memory

\* A step inside an operation, whatever it does.
Inside ==
  /\ TypeOK /\ TypeOK' /\ Structure /\ Legible /\ UNCHANGED <<phase, retry>>
  /\ call.at \notin {"ok", "error", "outcomeUnknown", "append"}

LEMMA InsideReads ==
  ASSUME Inside, OnlyControl \/ OnlyOperationId
  PROVE  Reading /\ prepared' = prepared
BY ReadingFrame DEF Inside, Reading

LEMMA ErrorLegible ==
  ASSUME Inside, Goto("error")
  PROVE  Legible'
<1>1. Reading /\ prepared' = prepared /\ call \in Call /\ call' = [call EXCEPT !.at = "error"]
  BY InsideReads DEF Goto, Inside, TypeOK, KernelTypeOK
<1>2. call'.at = "error" /\ call'.op = call.op /\ call'.todo = call.todo
  BY <1>1, MoveShape
<1> QED BY <1>1, <1>2, MoveLegible

\* mark_drift
LEMMA DriftLegible ==
  ASSUME Inside, NEW k \in Call, k.op = call.op, k.change \in Known,
         k.todo \subseteq call.todo, MarkDrift(k)
  PROVE  Legible'
<1>1. PICK op, eff : OnlyOperationId /\ Persist(k, "DriftDetected", op, "error", eff)
  BY DEF MarkDrift, UpdateChange
<1>2. Reading /\ prepared' = prepared
  BY <1>1, InsideReads
<1>3. "error" \in Visits(call.op)
  BY ErrorVisited DEF Inside, TypeOK, KernelTypeOK, Call
<1> QED BY <1>1, <1>2, <1>3, PersistLegible DEF VerifiedState

\* ensure_expected where no operation awaits its result.
LEMMA EnsureLegible ==
  ASSUME Inside, NEW k \in Call, k.op = call.op, k.change \in Known,
         k.todo \subseteq call.todo, NEW matched, NEW l, EnsureExpected(k, matched, l),
         call.at \notin Awaiting, l \in {"loop", "error", "restoreOne"},
         l = "restoreOne" => call.op = "experiment" /\ call.at \in ReviseLocation /\ k = call
  PROVE  Legible'
<1>1. CASE OnlyControl /\ call' = [k EXCEPT !.at = l]
  <2>1. call'.at = l /\ call'.op = call.op /\ call'.todo \subseteq call.todo /\ call'.change = k.change
    BY <1>1, MoveShape
  <2>2. Reading /\ prepared' = prepared
    BY <1>1, InsideReads
  <2>3. l # "append" /\ l # "revisePrepare"
        /\ (l # "restoreOne" => l \notin ChangeLocation \cup ReviseLocation)
    BY DEF ChangeLocation, ReviseLocation, RestoreLocation, ApplyLocation
  <2> QED BY <2>1, <2>2, <2>3, MoveLegible
<1>2. CASE MarkDrift(k)
  BY <1>2, DriftLegible
<1>3. CASE ReadbackFails
  BY <1>3, ErrorLegible DEF ReadbackFails
<1> QED BY <1>1, <1>2, <1>3 DEF EnsureExpected

---------------------------------------------------------------------------
(* The steps of the kernel. *)

LEMMA AwaitingFacts ==
  ASSUME Reading, call.at \in Awaiting
  PROVE  /\ call.at \in ChangeLocation /\ call.change \in Known /\ call \in Call
         /\ {"error"} \subseteq Visits(call.op)
         /\ call.at \in ApplyLocation \cup {"finalize"} /\ call.op # "experiment" =>
              phase = "CommitPending" /\ call.change \in candidate /\ call.change \in verified
<1>1. call.at \in ChangeLocation
  BY DEF Awaiting, ChangeLocation, ReviseLocation, RestoreLocation
<1>2. /\ Ahead = call.at /\ ~Creating /\ call \in Call /\ call.op \in Operation
      /\ log.seal = Open /\ (Deciding <=> phase \in {"Experimenting", "CommitPending"})
  BY ReadingFacts DEF Reading, Creating, Appending, Call
<1>3. call.change \in Known
  BY <1>1, <1>2 DEF Reading, Structure, ChangeInv
<1>4. {"error"} \subseteq Visits(call.op)
  BY <1>2, ErrorVisited
<1>5. ASSUME call.at \in ApplyLocation \cup {"finalize"}, call.op # "experiment"
      PROVE  phase = "CommitPending" /\ call.change \in candidate /\ call.change \in verified
  <2>1. call.op \in {"replay", "finalize"}
    <3>1. call.at \in Visits(call.op)
      BY <1>2 DEF Reading, Structure, ControlInv
    <3> QED BY <1>2, <1>5, <3>1 DEF Visits, ApplyLocation, ReviseLocation, RestoreLocation, Operation
  <2>2. phase = "CommitPending"
    BY <2>1, PendingPhase DEF Reading, Structure
  <2>3. call.change \in candidate /\ candidate \subseteq verified
    BY <1>1, <1>2, <2>1, <2>2 DEF Reading, Legible, CandidateInv
  <2> QED BY <2>2, <2>3
<1> QED BY <1>1, <1>2, <1>3, <1>4, <1>5

LEMMA AwaitLegible ==
  ASSUME Reading, prepared' = prepared, call.at \in Awaiting, NEW l \in Awaiting,
         l \in RestoreLocation => call.at \in RestoreLocation, call' = [call EXCEPT !.at = l]
  PROVE  Legible'
<1>1. call.at \in ChangeLocation /\ call \in Call
  BY AwaitingFacts
<1>2. /\ call'.at = l /\ call'.op = call.op /\ call'.todo = call.todo
      /\ call'.change = call.change /\ call'.opid = call.opid
  BY <1>1, MoveShape
<1>3. /\ l # "append" /\ l # "revisePrepare"
      /\ l \in ReviseLocation => l \in RestoreLocation
      /\ call.at \in RestoreLocation => call.at \in ReviseLocation
  BY DEF Awaiting, ApplyLocation, ReviseLocation
<1> QED BY <1>1, <1>2, <1>3, MoveLegible

\* An operation that fails, or whose outcome is not known.
LEMMA InconclusiveLegible ==
  ASSUME Reading, prepared' = prepared, call.at \in Awaiting, NEW st, NEW eff,
         Persist(call, st, call.opid, "error", eff),
         st \in VerifiedState => call.change \in verified
  PROVE  Legible'
<1>1. call.change \in Known /\ call \in Call /\ "error" \in Visits(call.op)
  BY AwaitingFacts
<1> QED BY <1>1, PersistLegible

LEMMA DriverLegible ==
  ASSUME Inside, Apply \/ Restore \/ Finalize
  PROVE  Legible'
<1>1. Reading /\ prepared' = prepared
  BY DEF Inside, Reading, Apply, Restore, Finalize, DriverFrame, memory
<1>2. call.at \in Awaiting
  BY DEF Apply, Restore, Finalize, Awaiting, ApplyLocation
<1>3. CASE Apply
  <2>1. CASE \E l \in {"applyWrite", "applyVerify", "applyStatus"} : call' = [call EXCEPT !.at = l]
    BY <1>1, <1>2, <2>1, AwaitLegible DEF Awaiting, ApplyLocation, RestoreLocation
  <2>2. CASE \/ \E eff : Persist(call, "FailedNotApplied", call.opid, "error", eff)
            \/ \E eff : Persist(call, "AppliedUnknown", call.opid, "error", eff)
    BY <1>1, <1>2, <2>2, InconclusiveLegible DEF VerifiedState
  <2> QED BY <1>3, <2>1, <2>2 DEF Apply, At, Inconclusive
<1>4. CASE Restore
  <2>1. call.at \in RestoreLocation
    BY <1>4 DEF Restore, RestoreLocation
  <2>2. CASE \E l \in {"restoreWrite", "restoreVerify", "restoreStatus"} :
               call' = [call EXCEPT !.at = l]
    BY <1>1, <1>2, <2>1, <2>2, AwaitLegible DEF Awaiting
  <2>3. CASE \E eff : Persist(call, "AppliedUnknown", call.opid, "error", eff)
    BY <1>1, <1>2, <2>3, InconclusiveLegible DEF VerifiedState
  <2> QED BY <1>4, <2>2, <2>3 DEF Restore, At, Inconclusive
<1>5. CASE Finalize
  <2>1. call.at = "finalize" /\ call.op = "finalize"
    <3>1. call.at = "finalize" /\ call.op \in Operation /\ call.at \in Visits(call.op)
      BY <1>1, <1>5, ReadingFacts DEF Finalize, Reading, Structure, ControlInv, Call
    <3> QED BY <3>1 DEF Visits, Operation, ReviseLocation, RestoreLocation, ApplyLocation
  <2>2. call.change \in verified /\ call.change \in Known /\ call \in Call
        /\ call.at \in ChangeLocation
    BY <1>1, <1>2, <2>1, AwaitingFacts
  <2>3. CASE \E eff : Persist(call, "CandidateApplied", call.opid, "error", eff)
    BY <1>1, <1>2, <2>2, <2>3, InconclusiveLegible
  <2>4. CASE \E eff : Persist(call, "CandidateApplied", call.opid, "ackVerify", eff)
    <3>1. "ackVerify" \in Visits(call.op)
      BY <2>1 DEF Visits
    <3> QED BY <1>1, <2>1, <2>2, <2>4, <3>1, PersistLegible
  <2> QED BY <1>5, <2>3, <2>4 DEF Finalize, Inconclusive
<1> QED BY <1>3, <1>4, <1>5

LEMMA WriteLegible ==
  ASSUME Inside, ApplyWrite \/ RestoreWrite
  PROVE  Legible'
<1>1. Reading /\ prepared' = prepared
  BY DEF Inside, Reading, ApplyWrite, RestoreWrite, WriteFrame, memory
<1>2. call.at \in Awaiting
  BY DEF ApplyWrite, RestoreWrite, Awaiting, ApplyLocation
<1>3. CASE ApplyWrite
  <2>1. CASE \E l \in {"applyVerify", "applyStatus"} : call' = [call EXCEPT !.at = l]
    BY <1>1, <1>2, <2>1, AwaitLegible DEF Awaiting, ApplyLocation, RestoreLocation
  <2>2. CASE \E eff : Persist(call, "AppliedUnknown", call.opid, "error", eff)
    BY <1>1, <1>2, <2>2, InconclusiveLegible DEF VerifiedState
  <2> QED BY <1>3, <2>1, <2>2 DEF ApplyWrite, At, Inconclusive
<1>4. CASE RestoreWrite
  <2>1. call.at \in RestoreLocation
    BY <1>4 DEF RestoreWrite, RestoreLocation
  <2>2. CASE \E l \in {"restoreVerify", "restoreStatus"} : call' = [call EXCEPT !.at = l]
    BY <1>1, <1>2, <2>1, <2>2, AwaitLegible DEF Awaiting
  <2>3. CASE \E eff : Persist(call, "AppliedUnknown", call.opid, "error", eff)
    BY <1>1, <1>2, <2>3, InconclusiveLegible DEF VerifiedState
  <2> QED BY <1>4, <2>2, <2>3 DEF RestoreWrite, At, Inconclusive
<1> QED BY <1>3, <1>4

LEMMA ApplyLegible ==
  ASSUME Inside, ApplyStatus \/ ApplyVerify
  PROVE  Legible'
<1>1. call.at \in ApplyLocation /\ call.at \in Awaiting
  BY DEF ApplyStatus, ApplyVerify, Awaiting, ApplyLocation
<1>2. OnlyControl
  BY DEF ApplyStatus, ApplyVerify, Goto, RecordOutcome
<1>3. Reading /\ prepared' = prepared
  BY <1>2, InsideReads
<1>4. CASE call' = [call EXCEPT !.at = "applyVerify"]
  BY <1>1, <1>3, <1>4, AwaitLegible DEF Awaiting, ApplyLocation, RestoreLocation
<1>5. CASE \/ \E eff : Persist(call, "FailedNotApplied", call.opid, "error", eff)
          \/ \E eff : Persist(call, "AppliedUnknown", call.opid, "error", eff)
  BY <1>1, <1>3, <1>5, InconclusiveLegible DEF VerifiedState
<1>6. CASE \E eff : Persist(call, SuccessState, call.opid, AfterApply, eff)
  <2>1. /\ call.change \in Known /\ call \in Call /\ call.at \in ChangeLocation
        /\ call.op # "experiment" => call.change \in verified
    BY <1>1, <1>3, AwaitingFacts
  <2>2. AfterApply \in Visits(call.op) /\ AfterApply \notin ReviseLocation
    BY <1>1, <1>3, AtApply DEF Reading
  <2>3. IF call.op = "experiment" THEN SuccessState = "AppliedVerified"
                                  ELSE SuccessState = "CandidateApplied"
    BY DEF SuccessState
  <2> QED BY <1>3, <1>6, <2>1, <2>2, <2>3, PersistLegible
<1> QED BY <1>4, <1>5, <1>6 DEF ApplyStatus, ApplyVerify, Goto, RecordOutcome

LEMMA RestoreLegible ==
  ASSUME Inside, RestoreOne \/ MatchDesired \/ RestoreStatus \/ RestoreVerify
  PROVE  Legible'
<1>1. call.at \in RestoreLocation
  BY DEF RestoreOne, MatchDesired, RestoreStatus, RestoreVerify, RestoreLocation
<1>2. /\ call.op \in {"experiment", "restore_baseline", "rollback_all"}
      /\ AfterRestore \in Visits(call.op) /\ call \in Call
  BY <1>1, AtRestore DEF Inside
<1>3. call.change \in Known /\ call.at \in ReviseLocation /\ call.at \in ChangeLocation
  <2>1. call.at \in ReviseLocation /\ call.at \in ChangeLocation /\ Ahead = call.at /\ ~Creating
    BY <1>1 DEF ReviseLocation, ChangeLocation, Ahead, Creating, Appending, Inside
  <2> QED BY <2>1 DEF Inside, Structure, ChangeInv
<1>4. phase = "CommitPending" => call.op = "restore_baseline"
  BY <1>2 DEF Inside, Structure, ControlInv
<1>5. RestoredState \notin VerifiedState /\ (call.op = "experiment" => RestoredState = "BaselineRestored")
  BY DEF RestoredState, VerifiedState
<1>6. ASSUME Reading, prepared' = prepared, NEW op, NEW eff,
             Persist(call, RestoredState, op, AfterRestore, eff),
             call.at \in Awaiting => op = call.opid
      PROVE  Legible'
  BY <1>2, <1>3, <1>5, <1>6, PersistLegible
<1>7. CASE RestoreOne
  <2>0. call.at = "restoreOne" /\ call.at \notin Awaiting
    BY <1>7 DEF RestoreOne, Awaiting, ApplyLocation
  <2>1. CASE Goto(AfterRestore) /\ changes[call.change] = RestoredState
    <3>1. Reading /\ prepared' = prepared /\ call' = [call EXCEPT !.at = AfterRestore]
      BY <2>1, InsideReads DEF Goto
    <3>2. /\ call'.at = AfterRestore /\ call'.op = call.op /\ call'.todo = call.todo
          /\ call'.change = call.change
      BY <1>2, <3>1, MoveShape
    <3>3. AfterRestore # "append"
      BY DEF AfterRestore
    <3> QED BY <1>2, <1>3, <1>5, <2>0, <2>1, <3>1, <3>2, <3>3, MoveLegible
  <2>2. CASE Goto("matchDesired")
    <3>1. Reading /\ prepared' = prepared /\ call' = [call EXCEPT !.at = "matchDesired"]
      BY <2>2, InsideReads DEF Goto
    <3>2. /\ call'.at = "matchDesired" /\ call'.op = call.op /\ call'.todo = call.todo
          /\ call'.change = call.change
      BY <1>2, <3>1, MoveShape
    <3> QED BY <1>2, <1>3, <2>0, <3>1, <3>2, MoveLegible
  <2>3. CASE UpdateChange(call, "baseline-observed", RestoredState, AfterRestore)
    <3>1. Reading /\ prepared' = prepared
          /\ \E op, eff : Persist(call, RestoredState, op, AfterRestore, eff)
      BY <2>3, InsideReads DEF UpdateChange
    <3> QED BY <1>6, <2>0, <3>1
  <2>4. CASE MarkDrift(call)
    BY <1>2, <1>3, <2>4, DriftLegible
  <2> QED BY <1>7, <2>1, <2>2, <2>3, <2>4, ErrorLegible DEF RestoreOne, ReadbackFails
<1>8. CASE MatchDesired
  <2>0. call.at = "matchDesired" /\ call.at \notin Awaiting
    BY <1>8 DEF MatchDesired, Awaiting, ApplyLocation
  <2>1. CASE AnnounceThen(call, "restore", "Restore", "restore")
    <3>1. Reading /\ prepared' = prepared
      BY <2>1, InsideReads DEF AnnounceThen
    <3> QED BY <1>2, <1>3, <1>4, <2>0, <2>1, <3>1, AnnounceLegible DEF Issuing
  <2>2. CASE MarkDrift(call)
    BY <1>2, <1>3, <2>2, DriftLegible
  <2> QED BY <1>8, <2>1, <2>2, ErrorLegible DEF MatchDesired, ReadbackFails
<1>9. CASE RestoreStatus \/ RestoreVerify
  <2>0. call.at \in Awaiting
    BY <1>9 DEF RestoreStatus, RestoreVerify, Awaiting
  <2>1. CASE Goto("restoreVerify")
    <3>1. Reading /\ prepared' = prepared /\ call' = [call EXCEPT !.at = "restoreVerify"]
      BY <2>1, InsideReads DEF Goto
    <3> QED BY <1>1, <2>0, <3>1, AwaitLegible DEF Awaiting
  <2>2. CASE RecordOutcome("AppliedUnknown", "error", FALSE)
    <3>1. Reading /\ prepared' = prepared
          /\ \E eff : Persist(call, "AppliedUnknown", call.opid, "error", eff)
      BY <2>2, InsideReads DEF RecordOutcome
    <3> QED BY <2>0, <3>1, InconclusiveLegible DEF VerifiedState
  <2>3. CASE RecordOutcome(RestoredState, AfterRestore, TRUE)
    <3>1. Reading /\ prepared' = prepared
          /\ \E eff : Persist(call, RestoredState, call.opid, AfterRestore, eff)
      BY <2>3, InsideReads DEF RecordOutcome
    <3> QED BY <1>6, <3>1
  <2> QED BY <1>9, <2>1, <2>2, <2>3, ErrorLegible DEF RestoreStatus, RestoreVerify, ReadbackFails
<1> QED BY <1>7, <1>8, <1>9

\* The write-ahead record of a new change.
LEMMA FirstShape ==
  ASSUME NEW k \in Call, NEW c \in Change, NEW op, NEW h, FirstRecord(k, c, op, h)
  PROVE  /\ call'.at = "append" /\ call'.then = "apply" /\ call'.opid = op
         /\ call'.event = ChangeUpsert(c, "IntentDurable", FALSE, op, h)
         /\ call'.event.type = "ChangeUpsert" /\ call'.event.op = op
<1>1. [k EXCEPT !.change = c] \in Call
  BY DEF Call
<1>2. PICK m, ev, eff : /\ ev = ChangeUpsert(c, "IntentDurable", FALSE, op, h)
                        /\ m \in Call /\ AppendThen(m, ev, op, "apply", eff)
  BY <1>1 DEF FirstRecord
<1>3. m \in Call /\ AppendThen(m, ev, op, "apply", eff)
  BY <1>2
<1>4. call'.at = "append" /\ call'.then = "apply" /\ call'.opid = op /\ call'.event = ev
  BY <1>3, AppendShape, SMT
<1>5. ev.type = "ChangeUpsert" /\ ev.op = op
  BY <1>2 DEF ChangeUpsert
<1> QED BY <1>2, <1>4, <1>5

LEMMA FirstLegible ==
  ASSUME Legible, Active, log.seal = Open, phase = "Experimenting", Deciding,
         ~Unsettled, call.at # "append",
         UNCHANGED <<log, nextSequence, verified, changes, phase>>,
         \A d \in Known : prepared'[d] = prepared[d],
         call'.at = "append", call'.then = "apply",
         call'.event.type = "ChangeUpsert", call'.event.op = call'.opid,
         AcceptsEntry(log, prepared', log.count, call'.event)
  PROVE  Legible'
<1>1. Ahead' = "apply" /\ ~Appending("Started")' /\ InEpisode /\ InEpisode' /\ phase' # "CommitPending"
  BY DEF Ahead, Appending, InEpisode, EpisodePhase
<1>2. MirrorInv /\ LogChanges(log) = Known
  BY DEF Legible, MirrorInv
<1>3. MirrorInv'
  BY <1>1, <1>2, MirrorKept
<1>4. EventInv'
  BY DEF EventInv
<1>5. IntentInv'
  BY IntentKept DEF Legible
<1>6. RevisionInv'
  BY <1>1 DEF RevisionInv, Revising, ReviseLocation, RestoreLocation
<1>7. CandidateInv'
  BY <1>1 DEF CandidateInv
<1> QED BY <1>3, <1>4, <1>5, <1>6, <1>7 DEF Legible

LEMMA ReviseLegible ==
  ASSUME Inside, ReviseCheck \/ RevisePrepare \/ AckVerify
  PROVE  Legible'
<1>1. call.at \in {"reviseCheck", "revisePrepare", "ackVerify"}
  BY DEF ReviseCheck, RevisePrepare, AckVerify
<1>2. /\ call.at \in ChangeLocation /\ call.at \notin Awaiting /\ Ahead = call.at /\ ~Creating
      /\ call.at # "ackVerify" => call.at \in ReviseLocation
      /\ call \in Call
  BY <1>1 DEF ChangeLocation, ReviseLocation, Awaiting, ApplyLocation, Ahead, Creating,
                     Appending, Inside, TypeOK, KernelTypeOK
<1>3. call.change \in Known
  BY <1>2 DEF Inside, Structure, ChangeInv
<1>4. call.at # "ackVerify" => call.op = "experiment"
  <2>1. call.at \in Visits(call.op) /\ call.op \in Operation
    BY <1>2 DEF Inside, Structure, ControlInv, Call
  <2> QED BY <1>1, <2>1 DEF Visits, Operation, RestoreLocation, ApplyLocation
<1>5. CASE ReviseCheck
  <2>1. PICK l \in {"restoreOne", "error"} : EnsureExpected(call, AtDesired(call.change), l)
    BY <1>5 DEF ReviseCheck
  <2>2. call.at # "ackVerify"
    BY <1>5 DEF ReviseCheck
  <2> QED BY <1>2, <1>3, <1>4, <2>1, <2>2, EnsureLegible
<1>6. CASE AckVerify
  BY <1>2, <1>3, <1>6, EnsureLegible DEF AckVerify
<1>7. CASE RevisePrepare
  <2>0. /\ call.at = "revisePrepare" /\ call.op = "experiment" /\ Revising
        /\ UNCHANGED <<log, nextSequence, verified, changes, candidate, phase, retry>>
    BY <1>2, <1>4, <1>7 DEF RevisePrepare, Inside, Revising
  <2>1. CASE At("error") /\ prepared' = prepared
    <3>1. call'.at = "error" /\ call'.op = call.op /\ call'.todo = call.todo
      BY <1>2, <2>1, MoveShape DEF At
    <3>2. Reading
      BY <2>0 DEF Reading, Inside
    <3> QED BY <2>1, <3>1, <3>2, MoveLegible
  <2>2. CASE /\ Holds(call.change) = Baseline
             /\ prepared' = [prepared EXCEPT ![call.revision].baseline = Holds(call.change)]
             /\ Holds(call.change) # prepared[call.revision].desired
             /\ FirstRecord(call, call.revision, NextOperationId("revision"), {call.change})
    <3> DEFINE c == call.revision
               b == Baseline
    <3>1. c \in Change /\ c \notin Known /\ prepared[c].resource = prepared[call.change].resource
      BY <1>2, <2>0 DEF Inside, Structure, ChangeInv, IsNextChange, Call
    <3>2. prepared \in [Change -> PreparedMutation]
      BY DEF Inside, TypeOK, KernelTypeOK
    <3>3. /\ \A d \in Known : prepared'[d] = prepared[d]
          /\ prepared'[c].baseline = b /\ b # prepared'[c].desired
          /\ prepared'[c].resource = prepared[call.change].resource
          /\ prepared'[call.change].baseline = b
      BY <1>3, <2>2, <3>1, <3>2 DEF PreparedMutation, Known, Baseline
    <3> HIDE DEF c, b
    <3>4. PICK op : FirstRecord(call, c, op, {call.change})
      BY <2>2 DEF c
    <3>5. /\ call'.at = "append" /\ call'.then = "apply" /\ call'.opid = op
          /\ call'.event = ChangeUpsert(c, "IntentDurable", FALSE, op, {call.change})
          /\ call'.event.type = "ChangeUpsert" /\ call'.event.op = op
      BY <1>2, <3>1, <3>4, FirstShape
    <3>6. /\ call.change \in verified /\ IsHead(call.change)
          /\ changes[call.change] = "BaselineRestored"
      BY <2>0 DEF Inside, Legible, RevisionInv
    <3>7. {call.change} = ResourceHead(prepared', Known, prepared'[c].resource)
      <4>1. ResourceHead(prepared', Known, prepared'[c].resource)
              = ResourceHead(prepared, Known, prepared[call.change].resource)
        BY <3>3 DEF ResourceHead
      <4>2. \A d \in Known : d \in Int
        BY SMT DEF Known, Change
      <4>3. /\ call.change \in ResourceHead(prepared, Known, prepared[call.change].resource)
            /\ \A d, e \in Known : d <= e /\ e <= d => d = e
        BY <3>6, <4>2, SMT DEF IsHead, Head
      <4> QED BY <4>1, <4>3 DEF ResourceHead
    <3>8. Active /\ log.seal = Open /\ phase = "Experimenting" /\ Deciding /\ ~Unsettled
      <4>1. Active /\ phase = "Experimenting"
        <5>1. Active /\ phase \notin {"RecoveryRequired", "Committed", "Clean", "Down", "Ready", "Blocked"}
              /\ (phase \in {"EarlyPass", "Gate"} => call.op = "rollback_all")
          BY StepRuns, Running DEF Inside, Structure
        <5>2. phase \notin {"CommitPending", "RollingBack"} /\ phase \in EpisodePhase \cup StartupStage
          BY <2>0 DEF Inside, Structure, ControlInv, TypeOK
        <5> QED BY <2>0, <5>1, <5>2 DEF EpisodePhase, StartupStage
      <4>2. log.seal = Open
        BY <2>0, <4>1 DEF Inside, Legible, MirrorInv
      <4> QED BY <1>2, <2>0, <4>1, <4>2 DEF Deciding, Unsettled, Appending, Awaiting
    <3>9. AcceptsEntry(log, prepared', log.count,
                       ChangeUpsert(c, "IntentDurable", FALSE, op, {call.change}))
      <4>1. /\ TypeOK /\ MirrorInv /\ call.at # "append"
            /\ log.state[call.change] = "BaselineRestored"
        BY <3>6, <3>8 DEF Inside, Legible, MirrorInv, InEpisode, EpisodePhase
      <4> QED BY <3>1, <3>3, <3>6, <3>7, <3>8, <4>1, FirstAccepted
    <3> QED BY <2>0, <3>3, <3>5, <3>8, <3>9, FirstLegible DEF Inside
  <2> QED BY <1>7, <2>1, <2>2 DEF RevisePrepare
<1> QED BY <1>5, <1>6, <1>7

LEMMA LoopLegible ==
  ASSUME Inside,
         \/ RestoreNext \/ ReplayCheckNext \/ ReplayNext \/ Replayed
         \/ CommitCheckNext \/ FinalizeNext
  PROVE  Legible'
<1>1. call.at = "loop" /\ call.at \notin Awaiting /\ Ahead = "loop" /\ call \in Call
  BY DEF RestoreNext, ReplayCheckNext, ReplayNext, Replayed, CommitCheckNext, FinalizeNext,
               InLoop, Awaiting, ApplyLocation, Ahead, Inside, TypeOK, KernelTypeOK
<1>2. ASSUME NEW c \in Change, First(c) \/ Last(c)
      PROVE  /\ Visit(c) \in Call /\ Visit(c).op = call.op /\ Visit(c).change = c /\ c \in Known
             /\ Visit(c).todo \subseteq call.todo /\ c \in call.todo
  <2>1. Visit(c) \in Call /\ Visit(c).op = call.op /\ Visit(c).change = c
        /\ Visit(c).todo = call.todo \ {c}
    BY <1>1, VisitType, VisitShape DEF Inside, TypeOK
  <2>2. c \in call.todo /\ call.todo \subseteq Known
    BY <1>2 DEF First, Last, Inside, Structure, ChangeInv
  <2> QED BY <2>1, <2>2
<1>3. CASE RestoreNext
  <2>1. PICK c \in Change : Last(c) /\ call' = [Visit(c) EXCEPT !.at = "restoreOne"]
    BY <1>3 DEF RestoreNext
  <2>2. /\ call'.at = "restoreOne" /\ call'.op = call.op /\ call'.todo \subseteq call.todo
    BY <1>2, <2>1, MoveShape, SMT
  <2>3. call.op \in {"restore_baseline", "rollback_all"} /\ Reading /\ prepared' = prepared
    BY <1>3, InsideReads DEF RestoreNext, InLoop
  <2> QED BY <1>1, <2>2, <2>3, MoveLegible
<1>4. CASE Replayed
  <2>1. Reading /\ prepared' = prepared /\ call' = [call EXCEPT !.at = "ok"]
    BY <1>4, InsideReads DEF Replayed, Goto
  <2>2. call'.at = "ok" /\ call'.op = call.op /\ call'.todo = call.todo
    BY <1>1, <2>1, MoveShape
  <2>3. "ok" \notin ReviseLocation \cup ChangeLocation
    BY DEF ChangeLocation, ReviseLocation, RestoreLocation, ApplyLocation
  <2> QED BY <1>1, <2>1, <2>2, <2>3, MoveLegible
<1>5. CASE ReplayCheckNext \/ CommitCheckNext
  <2>1. PICK c \in Change : First(c) /\ \E matched : EnsureExpected(Visit(c), matched, "loop")
    BY <1>5 DEF ReplayCheckNext, CommitCheckNext
  <2> QED BY <1>1, <1>2, <2>1, EnsureLegible
<1>6. ASSUME NEW c \in Change, First(c), call.op \in {"replay", "finalize"}
      PROVE  /\ c \in candidate /\ InEpisode
             /\ call.op = "finalize" => log.state[c] = "CandidateApplied" /\ c \in log.verified
  <2>1. c \in call.todo
    BY <1>6, <1>2
  <2>2. phase = "CommitPending" /\ Active /\ InEpisode
    <3>1. phase = "CommitPending"
      BY <1>1, <1>6, PendingPhase DEF Inside, Structure
    <3> QED BY <3>1 DEF InEpisode, Active, EpisodePhase
  <2>3. /\ Deciding /\ log.seal = Open /\ changes = log.state /\ verified = log.verified
    BY <1>1, <2>2 DEF Inside, Legible, MirrorInv, Deciding
  <2>4. /\ candidate \subseteq verified /\ call.todo \subseteq candidate
        /\ call.op = "finalize" => \A d \in candidate : changes[d] = "CandidateApplied"
    BY <1>6, <2>2, <2>3 DEF Inside, Legible, CandidateInv
  <2> QED BY <2>1, <2>2, <2>3, <2>4
<1>7. CASE ReplayNext
  <2>1. PICK c \in Change : First(c) /\ AnnounceThen(Visit(c), "replay", "Apply", "apply")
    BY <1>7 DEF ReplayNext
  <2>2. call.op = "replay" /\ Reading /\ prepared' = prepared
    BY <1>7, <2>1, InsideReads DEF ReplayNext, InLoop, AnnounceThen
  <2> QED BY <1>1, <1>2, <1>6, <2>1, <2>2, AnnounceLegible DEF Issuing
<1>8. CASE FinalizeNext
  <2>1. PICK c \in Change : First(c) /\ AnnounceThen(Visit(c), "finalize", "Finalize", "finalize")
    BY <1>8 DEF FinalizeNext
  <2>2. call.op = "finalize" /\ Reading /\ prepared' = prepared
    BY <1>8, <2>1, InsideReads DEF FinalizeNext, InLoop, AnnounceThen
  <2> QED BY <1>1, <1>2, <1>6, <2>1, <2>2, AnnounceLegible DEF Issuing
<1> QED BY <1>3, <1>4, <1>5, <1>7, <1>8

\* The seals, and the step from one loop of an operation to the next.
LEMMA SealLegible ==
  ASSUME Reading, prepared' = prepared, call.at = "loop", NEW ev, NEW eff,
         AppendThen(call, ev, call.opid, "ok", eff), ev.type \in {"Sealed", "CommitSealed"},
         AcceptsEntry(log, prepared, log.count, ev)
  PROVE  Legible'
<1>1. /\ Active /\ InEpisode' = InEpisode /\ log.seal = Open /\ Ahead = call.at /\ call \in Call
      /\ Deciding <=> phase \in {"Experimenting", "CommitPending"}
      /\ ~Unsettled
  BY ReadingFacts DEF Awaiting, ApplyLocation
<1>2. /\ call'.at = "append" /\ call'.then = "ok" /\ call'.event = ev
      /\ call'.op = call.op /\ call'.todo = call.todo
  BY <1>1, AppendShape, SMT
<1>3. /\ Ahead' = "ok" /\ ~Appending("Started")' /\ ~Appending("ChangeUpsert")'
      /\ ~Revising' /\ Ahead' \notin ChangeLocation
  BY <1>2 DEF Ahead, Appending, Revising, ChangeLocation, ReviseLocation, RestoreLocation,
                     ApplyLocation
<1>4. Deciding' => Deciding
  BY <1>1 DEF Reading, Deciding
<1>5. MirrorInv'
  BY <1>1, <1>3, MirrorKept DEF Reading, Legible
<1>6. EventInv'
  BY <1>2 DEF EventInv, Reading
<1>7. IntentInv'
  BY <1>1, <1>4, IntentKept DEF Reading, Legible
<1>8. RevisionInv'
  BY <1>3 DEF RevisionInv
<1>9. CandidateInv'
  BY <1>2, <1>3, <1>4, CandidateKept DEF Reading, Legible
<1> QED BY <1>5, <1>6, <1>7, <1>8, <1>9 DEF Legible

LEMMA LoopEndLegible ==
  ASSUME Inside, CommitInv,
         Restored \/ ReplayChecked \/ CommitChecked \/ Acknowledged \/ CommitSeal
  PROVE  Legible'
<1>1. /\ call.at = "loop" /\ call.at \notin Awaiting /\ Reading /\ prepared' = prepared
  BY DEF Restored, ReplayChecked, CommitChecked, Acknowledged, CommitSeal, InLoop, Awaiting,
               ApplyLocation, Inside, Reading, OnlyControl, memory
<1>2. /\ Active /\ InEpisode' = InEpisode /\ log.seal = Open /\ Ahead = "loop" /\ call \in Call
      /\ Deciding <=> phase \in {"Experimenting", "CommitPending"}
      /\ ~Unsettled
  BY <1>1, ReadingFacts DEF Awaiting
<1>3. call.op \notin {"begin", "experiment", "rollback_all"} => phase = "CommitPending" /\ InEpisode
  BY <1>1, PendingPhase DEF Inside, Structure, InEpisode, EpisodePhase
<1>4. CASE Restored
  <2>1. CASE At("ok")
    <3>1. call'.at = "ok" /\ call'.op = call.op /\ call'.todo = call.todo
      BY <1>2, <2>1, MoveShape DEF At
    <3>2. "ok" \notin ReviseLocation \cup ChangeLocation
      BY DEF ChangeLocation, ReviseLocation, RestoreLocation, ApplyLocation
    <3> QED BY <1>1, <3>1, <3>2, MoveLegible
  <2>2. CASE \E ev, eff : ev = Sealed("RolledBack") /\ AppendThen(call, ev, call.opid, "ok", eff)
    <3>1. PICK ev, eff : ev = Sealed("RolledBack") /\ AppendThen(call, ev, call.opid, "ok", eff)
      BY <2>2
    <3>2. ev.type = "Sealed"
      BY <3>1 DEF Sealed
    <3>3. AcceptsEntry(log, prepared, log.count, ev)
      BY <1>1, <1>2, <3>1, SealAccepted DEF Reading, Legible
    <3> QED BY <1>1, <3>1, <3>2, <3>3, SealLegible
  <2> QED BY <1>4, <2>1, <2>2 DEF Restored
<1>5. CASE CommitSeal
  <2>1. PICK ev, eff : ev = CommitSealed(candidate) /\ AppendThen(call, ev, call.opid, "ok", eff)
    BY <1>5 DEF CommitSeal
  <2>2. ev.type = "CommitSealed"
    BY <2>1 DEF CommitSealed
  <2>3. call.op = "finalize_recheck"
    BY <1>5 DEF CommitSeal, InLoop
  <2>4. AcceptsEntry(log, prepared, log.count, ev)
    BY <1>1, <1>2, <1>3, <2>1, <2>3, CommitAccepted DEF Reading
  <2> QED BY <1>1, <2>1, <2>2, <2>4, SealLegible
<1>6. CASE ReplayChecked \/ CommitChecked \/ Acknowledged
  <2>1. \/ call.op = "replay_check" /\ call' = [call EXCEPT !.op = "replay", !.todo = candidate]
        \/ call.op = "finalize_check" /\ call' = [call EXCEPT !.op = "finalize", !.todo = candidate]
        \/ call.op = "finalize" /\ call' = [call EXCEPT !.op = "finalize_recheck", !.todo = Heads]
    BY <1>6 DEF ReplayChecked, CommitChecked, Acknowledged, InLoop
  <2>2. /\ call'.at = "loop"
        /\ \/ call.op = "replay_check" /\ call'.op = "replay" /\ call'.todo = candidate
           \/ call.op = "finalize_check" /\ call'.op = "finalize" /\ call'.todo = candidate
           \/ call.op = "finalize" /\ call'.op = "finalize_recheck"
    BY <1>1, <1>2, <2>1 DEF Call
  <2>3. phase = "CommitPending" /\ Deciding
    BY <1>2, <1>3, <2>2
  <2>4. /\ Ahead' = "loop" /\ ~Appending("Started")' /\ ~Appending("ChangeUpsert")'
        /\ ~Revising' /\ Ahead' \notin ChangeLocation
    BY <2>2 DEF Ahead, Appending, Revising, ChangeLocation, ReviseLocation, RestoreLocation,
                       ApplyLocation
  <2>5. MirrorInv'
    BY <1>1, <1>2, <2>4, MirrorKept DEF Reading, Legible
  <2>6. EventInv'
    BY <2>2 DEF EventInv
  <2>7. IntentInv'
    BY <1>1, <1>2, <2>3, IntentKept DEF Legible, Reading
  <2>8. RevisionInv'
    BY <2>4 DEF RevisionInv
  <2>9. CandidateInv'
    <3>1. /\ candidate # {} /\ candidate \subseteq verified
          /\ \A c \in Known \ candidate : changes[c] = "BaselineRestored"
          /\ call.op \in {"finalize_check", "finalize"} =>
               \A c \in candidate : changes[c] = "CandidateApplied"
      BY <1>2, <2>2, <2>3 DEF Inside, Legible, CandidateInv
    <3>2. Known' = Known /\ UNCHANGED <<candidate, verified, changes, phase>>
      BY <1>1 DEF Reading, Known
    <3> QED BY <2>2, <2>4, <3>1, <3>2 DEF CandidateInv
  <2> QED BY <2>5, <2>6, <2>7, <2>8, <2>9 DEF Legible
<1> QED BY <1>4, <1>5, <1>6

---------------------------------------------------------------------------
(* An entry that reaches the log. *)

\* What the entry makes of the memory, where the memory mirrors the log.
LEMMA AppendedFacts ==
  ASSUME TypeOK, TypeOK', Structure, Legible, AppendDurable, UNCHANGED <<phase, retry>>
  PROVE  /\ Active /\ Active' /\ InEpisode' = InEpisode /\ call \in Call /\ call.event \in WalEvent
         /\ call.at = "append" /\ call'.at = call.then /\ call.then # "append"
         /\ call'.op = call.op /\ call'.change = call.change /\ call'.todo = call.todo
         /\ call'.opid = call.opid /\ Ahead = call.then /\ Ahead' = call.then
         /\ log' = Replay(log, prepared, log.count, call.event)
         /\ AcceptsEntry(log, prepared, log.count, call.event) /\ Memorise(call.event)
         /\ UNCHANGED <<prepared, candidate, walFailed>> /\ nextSequence' = log.count + 1
<1>1. /\ call.at = "append" /\ call \in Call /\ log' = Written /\ Memorise(call.event)
      /\ UNCHANGED <<prepared, candidate, walFailed>> /\ nextSequence' = nextSequence + 1
  BY DEF AppendDurable, TypeOK, KernelTypeOK
<1>2. call.event \in WalEvent /\ call.op \in Operation
  BY <1>1 DEF Call
<1>3. /\ call'.at = call.then /\ call'.op = call.op /\ call'.change = call.change
      /\ call'.todo = call.todo /\ call'.opid = call.opid
  BY <1>1 DEF AppendDurable, Call
<1>4. Active
  BY <1>1, StepRuns DEF Structure
<1>5. call.then # "append"
  BY <1>1, <1>2, AppendVisits DEF Structure, ControlInv, Ahead
<1>6. Active' /\ InEpisode' = InEpisode /\ Ahead = call.then /\ Ahead' = call.then
  BY <1>1, <1>3, <1>4, <1>5 DEF Active, InEpisode, Ahead
<1>7. nextSequence = log.count /\ AcceptsEntry(log, prepared, log.count, call.event)
  BY <1>1, <1>4 DEF Legible, MirrorInv, EventInv
<1> QED BY <1>1, <1>2, <1>3, <1>4, <1>5, <1>6, <1>7 DEF Written

\* The kinds of entry, apart from the seals.
LEMMA AppendedKinds ==
  ASSUME TypeOK, Structure, Legible, call.at = "append"
  PROVE  /\ call.event.type = "ChangeUpsert" =>
              call.event.change = call.change /\ call.event.op = call.opid
         /\ call.event.type = "OperationIntent" =>
              /\ call.event.change = call.change /\ call.event.op = call.opid
              /\ call.then \in Issuing
         /\ call.event.type \notin {"ChangeUpsert", "OperationIntent"} => call.then = "ok"
         /\ Creating => call.then = "apply" /\ call.op = "experiment"
<1> DEFINE ev == call.event
<1>0. AppendInv
  BY DEF Structure
<1>1. \/ ev.type = "Started" /\ call.then = "ok"
      \/ ev.type \in {"ChangeUpsert", "OperationIntent"} /\ ev.change = call.change
      \/ ev.type \in {"Sealed", "CommitSealed"} /\ call.then = "ok"
  BY <1>0, SMT DEF AppendInv, Started, Sealed, CommitSealed
<1>2. /\ ev.type \in {"ChangeUpsert", "OperationIntent"} => ev.op = call.opid
      /\ ev.type = "OperationIntent" => call.then \in Issuing
  BY DEF Legible, EventInv, Issuing
<1>3. Creating => call.then = "apply" /\ call.op = "experiment"
  BY <1>0, SMT DEF AppendInv, Creating, Appending, Started, Sealed, CommitSealed, OperationIntent
<1> HIDE DEF ev
<1>4. /\ ev.type = "ChangeUpsert" => ev.change = call.change /\ ev.op = call.opid
      /\ ev.type = "OperationIntent" =>
           ev.change = call.change /\ ev.op = call.opid /\ call.then \in Issuing
      /\ ev.type \notin {"ChangeUpsert", "OperationIntent"} => call.then = "ok"
  BY <1>1, <1>2
<1> QED BY <1>3, <1>4 DEF ev

LEMMA AppendedMirror ==
  ASSUME TypeOK, TypeOK', Structure, Legible, AppendDurable, UNCHANGED <<phase, retry>>
  PROVE  MirrorInv'
<1> DEFINE ev == call.event
<1>1. /\ Active /\ InEpisode' = InEpisode /\ ev \in WalEvent
      /\ call.at = "append" /\ call'.at = call.then /\ call.then # "append"
      /\ log' = Replay(log, prepared, log.count, ev)
      /\ AcceptsEntry(log, prepared, log.count, ev) /\ Memorise(ev)
      /\ prepared' = prepared /\ nextSequence' = log.count + 1
  BY AppendedFacts
<1>2. /\ log.intact /\ log.terminated /\ verified = log.verified /\ Known = LogChanges(log)
      /\ InEpisode => changes = log.state
      /\ log.seal = Open
      /\ \A c \in LogChanges(log) : prepared[c].baseline # prepared[c].desired
  BY <1>1 DEF Legible, MirrorInv
<1>3. /\ log'.count = log.count + 1 /\ log'.state = FoldState(log, ev)
      /\ log'.verified = FoldVerified(log, ev) /\ log'.seal = FoldSeal(log, ev)
      /\ log'.intact = (log.intact /\ log.terminated /\ AcceptsEntry(log, prepared, log.count, ev))
      /\ log'.terminated
  BY <1>1 DEF Replay
<1> HIDE DEF ev
<1>4. verified' = log'.verified /\ (InEpisode => changes' = log'.state)
  <2>1. verified' = log'.verified
    BY <1>1, <1>2, <1>3 DEF Memorise, FoldVerified
  <2>2. ASSUME changes = log.state PROVE changes' = log'.state
    BY <1>1, <1>3, <2>2 DEF Memorise, FoldState
  <2> QED BY <1>2, <2>1, <2>2
<1>5. Known' = LogChanges(log') /\ LogChanges(log') = LogChanges(log) \cup NewChange
  <2>1. /\ LogChanges(Written) = LogChanges(log) \cup NewChange
        /\ Memorise(call.event) => Known' = Known \cup NewChange
    BY <1>1, WrittenChanges
  <2>2. log' = Written
    BY DEF AppendDurable
  <2> QED BY <1>1, <1>2, <2>1, <2>2 DEF ev
<1>6. nextSequence' = log'.count /\ log'.count # 0
  <2>1. log.count \in Nat
    BY DEF TypeOK, KernelTypeOK, Log
  <2> QED BY <1>1, <1>3, <2>1, SMT
<1>7. call'.at # "ok" => log'.seal = Open
  <2> SUFFICES ASSUME call.then # "ok" PROVE log'.seal = Open
    BY <1>1
  <2>1. ev.type # "Sealed" /\ ev.type # "CommitSealed"
    BY <1>1, AppendedKinds DEF ev
  <2> QED BY <1>2, <1>3, <2>1 DEF FoldSeal
<1>8. \A c \in LogChanges(log') : prepared'[c].baseline # prepared'[c].desired
  <2>1. ASSUME Creating PROVE prepared[call.change].baseline # prepared[call.change].desired
    <3>1. ev.type = "ChangeUpsert" /\ ev.change = call.change
      BY <1>1, <2>1, AppendedKinds DEF Creating, Appending, ev
    <3>2. AcceptsUpsert(log, prepared, ev)
      BY <1>1, <3>1 DEF AcceptsEntry
    <3> QED BY <3>1, <3>2 DEF AcceptsUpsert
  <2> QED BY <1>1, <1>2, <1>5, <2>1 DEF NewChange
<1>9. ~Appending("Started")' /\ log'.intact /\ log'.terminated
  BY <1>1, <1>2, <1>3 DEF Appending
<1> QED BY <1>1, <1>4, <1>5, <1>6, <1>7, <1>8, <1>9 DEF MirrorInv

\* A result settles its operation; an announced operation is in progress.
LEMMA AppendedIntent ==
  ASSUME TypeOK, TypeOK', Structure, Legible, AppendDurable, UNCHANGED <<phase, retry>>
  PROVE  IntentInv'
<1> DEFINE ev == call.event
<1>1. /\ call.at = "append" /\ call'.at = call.then /\ call.then # "append"
      /\ call'.change = call.change /\ call'.opid = call.opid
      /\ Ahead = call.then /\ Ahead' = call.then
      /\ log' = Replay(log, prepared, log.count, ev)
  BY AppendedFacts
<1>2. /\ ev.type = "ChangeUpsert" => ev.change = call.change /\ ev.op = call.opid
      /\ ev.type = "OperationIntent" =>
           ev.change = call.change /\ ev.op = call.opid /\ call.then \in Issuing
  BY <1>1, AppendedKinds
<1>3. log'.intent = FoldIntent(log, ev)
  BY <1>1 DEF Replay
<1>4. Unsettled => ev.type = "ChangeUpsert"
  BY <1>1 DEF Unsettled, Appending, ApplyLocation
<1>5. ev.type = "OperationIntent" => Unsettled'
  BY <1>1, <1>2 DEF Unsettled, Issuing, ApplyLocation
<1> HIDE DEF ev
<1> SUFFICES ASSUME Deciding', NEW c \in PendingOperations(log')
             PROVE  c = call'.change /\ Unsettled' /\ \A i \in log'.intent[c] : i.op = call'.opid
  BY DEF IntentInv
<1>6. Deciding
  BY <1>1 DEF Deciding
<1>7. \A d \in PendingOperations(log) :
        d = call.change /\ Unsettled /\ \A i \in log.intent[d] : i.op = call.opid
  BY <1>6 DEF Legible, IntentInv
<1>8. c \in Change /\ FoldIntent(log, ev)[c] # {}
  BY <1>3 DEF PendingOperations
<1>9. FoldIntent(log, ev)[c] = IF Upserts(ev, c) THEN Unresolved(log.intent[c], ev)
                               ELSE IF Announces(ev, c) THEN {[op |-> ev.op, kind |-> ev.kind]}
                               ELSE log.intent[c]
  BY <1>8 DEF FoldIntent
<1>10. ~Upserts(ev, c)
  <2> SUFFICES ASSUME Upserts(ev, c) PROVE FALSE
    OBVIOUS
  <2>1. \A i \in log.intent[c] : i.op = call.opid
    BY <1>7, <1>8 DEF PendingOperations
  <2>2. ev.op = call.opid
    BY <1>2 DEF Upserts
  <2> QED BY <1>8, <1>9, <2>1, <2>2 DEF Unresolved
<1>11. CASE Announces(ev, c)
  <2>1. ev.type = "OperationIntent" /\ c = call.change /\ ev.op = call.opid
    BY <1>2, <1>11 DEF Announces
  <2>2. \A i \in {[op |-> ev.op, kind |-> ev.kind]} : i.op = ev.op
    BY SMT
  <2>3. FoldIntent(log, ev)[c] = {[op |-> ev.op, kind |-> ev.kind]}
    BY <1>9, <1>10, <1>11
  <2> QED BY <1>1, <1>3, <1>5, <2>1, <2>2, <2>3
<1>12. CASE ~Announces(ev, c)
  <2>1. c \in PendingOperations(log)
    BY <1>8, <1>9, <1>10, <1>12 DEF PendingOperations
  <2>2. Upserts(ev, c)
    BY <1>2, <1>4, <1>7, <2>1 DEF Upserts
  <2> QED BY <1>10, <2>2
<1> QED BY <1>11, <1>12

\* Evidence stays, and nothing but the change of the record is touched.
LEMMA AppendedMemory ==
  ASSUME TypeOK, TypeOK', Structure, Legible, AppendDurable, UNCHANGED <<phase, retry>>, ~Creating,
         call.event.type # "CommitSealed"
  PROVE  /\ verified \subseteq verified' /\ Known' = Known
         /\ \A c \in Known : changes'[c] = IF Upserts(call.event, c) THEN call.event.state
                                                                     ELSE changes[c]
<1> DEFINE ev == call.event
<1>1. /\ Active /\ call.at = "append" /\ Memorise(ev)
      /\ AcceptsEntry(log, prepared, log.count, ev)
  BY AppendedFacts
<1>2. Known' = Known
  BY <1>1, WrittenChanges DEF NewChange
<1>3. Known = LogChanges(log) /\ verified = log.verified /\ verified \subseteq Change
  BY <1>1 DEF Legible, MirrorInv, TypeOK, KernelTypeOK
<1>4. ev.type = "ChangeUpsert" => ev.change = call.change
  BY <1>1, AppendedKinds
<1>5. ASSUME ev.type = "ChangeUpsert", call.change \in verified PROVE ev.verified
  <2>1. ev.change \in Known
    BY <1>1, <1>5 DEF Creating, Appending
  <2>2. AcceptsUpsert(log, prepared, ev)
    BY <1>1, <1>5 DEF AcceptsEntry
  <2>3. log.state[ev.change] # Absent
    BY <1>3, <2>1 DEF LogChanges
  <2> QED BY <1>3, <1>4, <1>5, <2>2, <2>3 DEF AcceptsUpsert, AcceptsTransition
<1>6. verified \subseteq verified'
  BY <1>1, <1>3, <1>4, <1>5 DEF Memorise, Upserts
<1>7. \A c \in Known : changes'[c] = IF Upserts(ev, c) THEN ev.state ELSE changes[c]
  BY <1>1 DEF Memorise, Known
<1> QED BY <1>2, <1>6, <1>7

LEMMA AppendedRevision ==
  ASSUME TypeOK, TypeOK', Structure, Legible, AppendDurable, UNCHANGED <<phase, retry>>
  PROVE  RevisionInv'
<1>1. /\ call.at = "append" /\ call'.at = call.then /\ call.then # "append"
      /\ call'.op = call.op /\ call'.change = call.change
      /\ Ahead = call.then /\ Ahead' = call.then /\ prepared' = prepared
  BY AppendedFacts
<1> SUFFICES ASSUME Revising'
             PROVE  /\ call'.change \in verified' /\ IsHead(call.change)'
                    /\ call'.at = "revisePrepare" => changes'[call'.change] = "BaselineRestored"
  BY <1>1 DEF RevisionInv
<1>2. Revising /\ call.then \in ReviseLocation
  BY <1>1 DEF Revising
<1>3. call.then # "apply" /\ call.then # "ok"
  BY <1>2 DEF ReviseLocation, RestoreLocation
<1>4. /\ ~Creating /\ call.event.type # "CommitSealed"
      /\ call.event.type = "ChangeUpsert" => call.event.change = call.change
  BY <1>1, <1>3, AppendedKinds
<1>5. /\ verified \subseteq verified' /\ Known' = Known
      /\ \A c \in Known : changes'[c] = IF Upserts(call.event, c) THEN call.event.state
                                                                  ELSE changes[c]
  BY <1>4, AppendedMemory
<1>6. /\ call.change \in verified /\ IsHead(call.change)
      /\ call.then = "revisePrepare" =>
           call.event.type = "ChangeUpsert" /\ call.event.state = "BaselineRestored"
  BY <1>1, <1>2 DEF Legible, RevisionInv
<1>7. call.change \in Known
  BY <1>6 DEF IsHead, Head, ResourceHead
<1>8. IsHead(call.change)'
  BY <1>1, <1>5, <1>6 DEF IsHead, Head
<1>9. call.then = "revisePrepare" => changes'[call'.change] = "BaselineRestored"
  BY <1>1, <1>4, <1>5, <1>6, <1>7 DEF Upserts
<1> QED BY <1>1, <1>5, <1>6, <1>8, <1>9

LEMMA AppendedCandidate ==
  ASSUME TypeOK, TypeOK', Structure, CommitInv, Legible, AppendDurable, UNCHANGED <<phase, retry>>
  PROVE  CandidateInv'
<1> DEFINE ev == call.event
<1>1. /\ Active /\ call.at = "append" /\ call'.at = call.then /\ call.then # "append"
      /\ call'.op = call.op /\ call'.change = call.change /\ call'.todo = call.todo
      /\ Ahead = call.then /\ Ahead' = call.then /\ candidate' = candidate
      /\ log' = Replay(log, prepared, log.count, ev)
  BY AppendedFacts
<1>2. phase = "CommitPending" => candidate # {}
  BY DEF Legible, CandidateInv
<1>3. ~Appending("ChangeUpsert")'
  BY <1>1 DEF Appending
<1>4. ASSUME phase = "CommitPending", Deciding', log'.seal = Open, call.op # "restore_baseline"
      PROVE  /\ candidate \subseteq verified'
             /\ \A c \in Known' \ candidate : changes'[c] = "BaselineRestored"
             /\ call.op \in {"finalize_check", "finalize", "finalize_recheck"} =>
                  \A c \in candidate : changes'[c] = "CandidateApplied"
             /\ call.op \in {"replay", "finalize"} => call.todo \subseteq candidate
             /\ Ahead' \in ChangeLocation => call.change \in candidate
  <2>1. Deciding /\ log.seal = Open
    BY <1>1, <1>4 DEF Deciding, Legible, MirrorInv
  <2>2. /\ candidate \subseteq verified
        /\ \A c \in Known \ candidate : changes[c] = "BaselineRestored"
        /\ call.op \in {"finalize_check", "finalize", "finalize_recheck"} =>
             \A c \in candidate : changes[c] = "CandidateApplied"
        /\ call.op \in {"replay", "finalize"} => call.todo \subseteq candidate
        /\ Ahead \in ChangeLocation => call.change \in candidate
        /\ ev.type = "ChangeUpsert" => call.change \in candidate /\ ev.state = "CandidateApplied"
    BY <1>1, <1>4, <2>1 DEF Legible, CandidateInv, Appending
  <2>3. ~Creating /\ (ev.type = "ChangeUpsert" => ev.change = call.change)
    <3>1. call.op # "experiment"
      BY <1>4 DEF Structure, ControlInv
    <3> QED BY <1>1, <3>1, AppendedKinds
  <2>4. ev.type # "CommitSealed"
    <3>1. log'.seal = FoldSeal(log, ev)
      BY <1>1 DEF Replay
    <3> QED BY <1>4, <3>1 DEF FoldSeal, Open
  <2>5. /\ verified \subseteq verified' /\ Known' = Known
        /\ \A c \in Known : changes'[c] = IF Upserts(ev, c) THEN ev.state ELSE changes[c]
    BY <2>3, <2>4, AppendedMemory
  <2>6. candidate \subseteq Known
    BY <1>4 DEF CommitInv, Heads
  <2> HIDE DEF ev
  <2>7. \A c \in Known \ candidate : changes'[c] = "BaselineRestored"
    BY <2>2, <2>3, <2>5 DEF Upserts
  <2>8. call.op \in {"finalize_check", "finalize", "finalize_recheck"} =>
          \A c \in candidate : changes'[c] = "CandidateApplied"
    BY <2>2, <2>3, <2>5, <2>6 DEF Upserts
  <2> QED BY <1>1, <2>2, <2>5, <2>7, <2>8
<1> QED BY <1>1, <1>2, <1>3, <1>4 DEF CandidateInv

LEMMA AppendLegible ==
  ASSUME TypeOK, TypeOK', Structure, CommitInv, Legible, AppendDurable, UNCHANGED <<phase, retry>>
  PROVE  Legible'
<1>1. call'.at # "append"
  BY AppendedFacts
<1>2. EventInv'
  BY <1>1 DEF EventInv
<1> QED BY <1>2, AppendedMirror, AppendedIntent, AppendedRevision, AppendedCandidate DEF Legible

LEMMA KernelStepLegible ==
  ASSUME TypeOK, TypeOK', Structure, CommitInv, LogInv, Step
  PROVE  LogInv'
<1>0. KernelStep /\ UNCHANGED <<phase, retry>>
  BY DEF Step
<1>1. CASE AppendFails
  BY <1>1 DEF AppendFails, LogInv
<1>2. CASE AppendDurable
  <2>1. walFailed' = walFailed
    BY <1>2 DEF AppendDurable
  <2> QED BY <1>0, <1>2, <2>1, AppendLegible DEF LogInv
<1>3. CASE ~AppendDurable /\ ~AppendFails
  <2>1. call.at \notin {"ok", "error", "outcomeUnknown", "append"}
    BY <1>0, <1>3 DEF KernelStep, Apply, ApplyWrite, ApplyStatus, ApplyVerify, RestoreOne,
       MatchDesired, Restore, RestoreWrite, RestoreStatus, RestoreVerify, ReviseCheck, RevisePrepare, RestoreNext, Restored,
       ReplayCheckNext, ReplayChecked, ReplayNext, Replayed, CommitCheckNext, CommitChecked,
       FinalizeNext, Finalize, AckVerify, Acknowledged, CommitSeal, InLoop
  <2>2. walFailed' = walFailed
    BY <1>0, <1>3 DEF KernelStep, Apply, ApplyWrite, ApplyStatus, ApplyVerify, RestoreOne,
       MatchDesired, Restore, RestoreWrite, RestoreStatus, RestoreVerify, ReviseCheck, RevisePrepare, RestoreNext, Restored,
       ReplayCheckNext, ReplayChecked, ReplayNext, Replayed, CommitCheckNext, CommitChecked,
       FinalizeNext, Finalize, AckVerify, Acknowledged, CommitSeal, DriverFrame, WriteFrame, EnsureExpected,
       ReadbackFails, Goto, RecordOutcome, UpdateChange, MarkDrift, AnnounceThen, OnlyControl,
       OnlyOperationId
  <2>3. ASSUME ~walFailed PROVE Legible'
    <3>1. Inside
      BY <1>0, <2>1, <2>3 DEF Inside, LogInv
    <3> QED BY <1>0, <1>3, <3>1, DriverLegible, WriteLegible, ApplyLegible, RestoreLegible, ReviseLegible,
               LoopLegible, LoopEndLegible DEF KernelStep
  <2> QED BY <2>2, <2>3 DEF LogInv
<1> QED BY <1>1, <1>2, <1>3

---------------------------------------------------------------------------
(* The coordinator and the restarts. *)

\* An operation starts, or is refused.
LEMMA StartLegible ==
  ASSUME Legible, Active, InEpisode' => InEpisode, log.seal = Open,
         UNCHANGED <<log, nextSequence, verified, changes, prepared>>,
         call.at \in {"ok", "error"}, call'.at \in {"loop", "error"},
         Deciding' => Deciding, CandidateInv'
  PROVE  Legible'
<1>1. call.at # "append" /\ ~Unsettled /\ Ahead' = call'.at /\ ~Appending("Started")'
  BY DEF Unsettled, ApplyLocation, Appending, Ahead
<1>2. MirrorInv'
  BY <1>1, MirrorKept DEF Legible
<1>3. EventInv'
  BY DEF EventInv
<1>4. RevisionInv'
  BY <1>1 DEF RevisionInv, Revising, ReviseLocation, RestoreLocation
<1>5. IntentInv'
  BY <1>1, IntentKept DEF Legible
<1> QED BY <1>2, <1>3, <1>4, <1>5 DEF Legible

\* No operation other than the seals themselves returns from a sealed log.
LEMMA OpenBetween ==
  ASSUME TypeOK, ControlInv, SealInv, Active, Legible,
         \/ call.at = "ok" /\ call.op \notin {"finalize_recheck", "rollback_all"}
         \/ call.at = "error"
  PROVE  log.seal = Open
<1>1. log.seal \in TransactionSeal \cup {Open}
  BY DEF TypeOK, KernelTypeOK, Log
<1>2. CASE call.at = "error"
  BY <1>2 DEF Legible, MirrorInv
<1>3. CASE call.at = "ok" /\ call.op \notin {"finalize_recheck", "rollback_all"}
  BY <1>1, <1>3 DEF SealInv, TransactionSeal
<1> QED BY <1>2, <1>3

LEMMA MutateLegible ==
  ASSUME TypeOK, TypeOK', Structure, SealInv, Legible, Mutate
  PROVE  Legible'
<1>0. /\ phase = "Experimenting" /\ call.at = "ok" /\ call.op \in {"begin", "experiment"}
      /\ UNCHANGED <<phase, log, nextSequence, verified, changes>>
  BY DEF Mutate, Idle, Structure, ControlInv, ExperimentRejected, PrepareRejected, Prepare,
               OnlyControl, OnlyOperationId, memory
<1>1. /\ Active /\ InEpisode /\ Deciding /\ ~Unsettled /\ phase # "CommitPending"
      /\ phase' # "CommitPending"
  BY <1>0 DEF Active, InEpisode, EpisodePhase, Deciding, Ahead, Unsettled, ApplyLocation,
                     Appending
<1>2. log.seal = Open
  BY <1>0, <1>1, OpenBetween DEF Structure
<1>3. Calls("experiment") \in Call /\ Calls("experiment").op = "experiment"
  BY ControlTypes DEF Operation, Calls, IdleCall
<1>4. CandidateInv'
  BY <1>1 DEF CandidateInv
<1>5. CASE ExperimentRejected \/ \E r \in Resource, d \in Value : PrepareRejected(r, d)
  <2>1. call' = [Calls("experiment") EXCEPT !.at = "error"] /\ prepared' = prepared
    BY <1>5 DEF ExperimentRejected, PrepareRejected, OnlyControl, OnlyOperationId
  <2>2. call'.at = "error"
    BY <1>3, <2>1, MoveShape
  <2> QED BY <1>0, <1>1, <1>2, <1>4, <2>1, <2>2, StartLegible
<1>6. ASSUME NEW r \in Resource, NEW d \in Value, NEW c \in Change, Prepare(r, d, c)
      PROVE  Legible'
  <2>1. /\ c \in Change \ Known /\ world[r] # d
        /\ \A h \in Head(r) : h \in verified
        /\ prepared' = [prepared EXCEPT ![c] = [resource |-> r, baseline |-> world[r], desired |-> d]]
    BY <1>6 DEF Prepare, IsNextChange
  <2>2. /\ prepared \in [Change -> PreparedMutation] /\ Known \subseteq Change
        /\ MirrorInv /\ LogChanges(log) = Known
    BY <1>1 DEF TypeOK, KernelTypeOK, Known, Legible, MirrorInv
  <2>3. \A e \in Known : prepared'[e] = prepared[e]
    BY <2>1, <2>2
  <2>4. /\ prepared'[c].baseline # prepared'[c].desired /\ prepared'[c].resource = r
    BY <2>1, <2>2
  <2>5. Head(r) = ResourceHead(prepared', Known, r)
    BY <2>3 DEF Head, ResourceHead
  <2>6. CASE Head(r) = {} /\ FirstRecord(Calls("experiment"), c, NextOperationId("experiment"), {})
    <3>1. PICK op, h : h = {} /\ FirstRecord(Calls("experiment"), c, op, h)
      BY <2>6
    <3>2. /\ call'.at = "append" /\ call'.then = "apply" /\ call'.opid = op
          /\ call'.event = ChangeUpsert(c, "IntentDurable", FALSE, op, h)
          /\ call'.event.type = "ChangeUpsert" /\ call'.event.op = op
      BY <1>3, <3>1, FirstShape
    <3>3. h = ResourceHead(prepared', Known, prepared'[c].resource) /\ h = {}
      BY <2>4, <2>5, <2>6, <3>1
    <3>4. AcceptsEntry(log, prepared', log.count, ChangeUpsert(c, "IntentDurable", FALSE, op, h))
      BY <1>0, <1>1, <1>2, <2>1, <2>2, <2>4, <3>3, FirstAccepted
    <3> QED BY <1>0, <1>1, <1>2, <2>3, <3>2, <3>4, FirstLegible
  <2>7. ASSUME NEW h \in Head(r),
               call' = [Calls("experiment") EXCEPT
                          !.at = "reviseCheck", !.change = h, !.revision = c]
        PROVE  Legible'
    <3>1. call'.at = "reviseCheck" /\ call'.change = h /\ Ahead' = "reviseCheck"
      BY <1>3, <2>7 DEF Call, Ahead
    <3>2. ~Appending("Started")' /\ InEpisode' /\ Known' = Known /\ Deciding
      BY <1>0, <1>1, <3>1 DEF Appending, InEpisode, Known
    <3>3. MirrorInv'
      BY <1>0, <1>1, <1>2, <2>2, <2>3, <3>2, MirrorKept
    <3>4. h \in Known /\ prepared[h].resource = r
      BY <2>7 DEF Head, ResourceHead
    <3>5. IsHead(call.change)'
      BY <2>3, <2>5, <2>7, <3>1, <3>2, <3>4 DEF IsHead, Head
    <3>6. RevisionInv'
      BY <1>0, <2>1, <2>7, <3>1, <3>5 DEF RevisionInv
    <3>7. IntentInv'
      BY <1>0, <1>1, IntentKept DEF Legible
    <3>8. EventInv'
      BY <3>1 DEF EventInv
    <3> QED BY <1>4, <3>3, <3>6, <3>7, <3>8 DEF Legible
  <2> QED BY <1>6, <2>6, <2>7 DEF Prepare
<1> QED BY <1>5, <1>6 DEF Mutate

LEMMA EpisodeLegible ==
  ASSUME TypeOK, TypeOK', Structure, SealInv, Legible, EpisodeStep
  PROVE  Legible'
<1>1. CASE Mutate
  BY <1>1, MutateLegible
<1>2. ASSUME NEW s \in SUBSET Change, RequestCommit(s) PROVE Legible'
  <2>1. /\ phase = "Experimenting" /\ call.at = "ok" /\ phase' = "CommitPending" /\ s # {}
        /\ candidate' = s /\ UNCHANGED <<log, nextSequence, verified, changes, prepared>>
        /\ call' = [Calls("restore_baseline") EXCEPT !.at = "loop", !.todo = Known]
    BY <1>2 DEF RequestCommit, Idle, memory
  <2>2. call'.op = "restore_baseline" /\ call'.at = "loop" /\ Ahead' = "loop"
    <3>1. Calls("restore_baseline") \in Call /\ Calls("restore_baseline").op = "restore_baseline"
      BY ControlTypes DEF Operation, Calls, IdleCall
    <3> QED BY <2>1, <3>1 DEF Call, Ahead
  <2>3. Active /\ InEpisode /\ Deciding /\ call.op \in {"begin", "experiment"}
    BY <2>1 DEF Active, InEpisode, EpisodePhase, Deciding, Ahead, Structure, ControlInv
  <2>4. log.seal = Open
    BY <2>1, <2>3, OpenBetween DEF Structure
  <2>5. CandidateInv'
    BY <2>1, <2>2 DEF CandidateInv
  <2> QED BY <2>1, <2>2, <2>3, <2>4, <2>5, StartLegible
<1>3. CASE EvaluateCandidate \/ FinalizeImproved
  <2>1. /\ phase = "CommitPending" /\ call.at = "ok" /\ call.op \in {"restore_baseline", "replay"}
        /\ UNCHANGED <<log, nextSequence, verified, changes, prepared, candidate, phase>>
    BY <1>3 DEF EvaluateCandidate, FinalizeImproved, ReplayCandidate, FinalizeCandidate,
                       StartLoop, OnlyControl, memory, Idle
  <2>2. Active /\ InEpisode /\ Deciding /\ Known' = Known /\ candidate # {}
    BY <2>1 DEF Active, InEpisode, EpisodePhase, Deciding, Ahead, Known, Legible, CandidateInv
  <2>3. log.seal = Open
    BY <2>1, <2>2, OpenBetween DEF Structure
  <2>4. CASE \/ call' = [Calls("replay") EXCEPT !.at = "error"]
             \/ call' = [Calls("finalize") EXCEPT !.at = "error"]
    <3>1. Calls("replay") \in Call /\ Calls("finalize") \in Call
      BY ControlTypes DEF Operation, Calls, IdleCall
    <3>2. call'.at = "error" /\ Ahead' = "error"
      BY <2>4, <3>1 DEF Call, Ahead
    <3>3. CandidateInv'
      BY <2>1, <2>2, <3>2 DEF CandidateInv, Deciding
    <3> QED BY <2>1, <2>2, <2>3, <3>2, <3>3, StartLegible
  <2>5. CASE /\ ValidCandidate /\ \A c \in Known : changes[c] = "BaselineRestored"
             /\ call' = [Calls("replay_check") EXCEPT !.at = "loop", !.todo = Known]
    <3>1. Calls("replay_check") \in Call /\ Calls("replay_check").op = "replay_check"
      BY ControlTypes DEF Operation, Calls, IdleCall
    <3>2. call'.at = "loop" /\ Ahead' = "loop" /\ call'.op = "replay_check"
      BY <2>5, <3>1 DEF Call, Ahead
    <3>3. candidate \subseteq verified /\ ~Appending("ChangeUpsert")' /\ Ahead' \notin ChangeLocation
      BY <2>5, <3>2 DEF ValidCandidate, Appending, ChangeLocation, ReviseLocation,
                               RestoreLocation, ApplyLocation
    <3>4. CandidateInv'
      BY <2>1, <2>2, <2>5, <3>2, <3>3 DEF CandidateInv
    <3> QED BY <2>1, <2>2, <2>3, <3>2, <3>4, StartLegible
  <2>6. CASE /\ ValidCandidate /\ \A c \in candidate : changes[c] = "CandidateApplied"
             /\ call.op = "replay"
             /\ call' = [Calls("finalize_check") EXCEPT !.at = "loop", !.todo = Heads]
    <3>1. Calls("finalize_check") \in Call /\ Calls("finalize_check").op = "finalize_check"
      BY ControlTypes DEF Operation, Calls, IdleCall
    <3>2. call'.at = "loop" /\ Ahead' = "loop" /\ call'.op = "finalize_check"
      BY <2>6, <3>1 DEF Call, Ahead
    <3>3. candidate \subseteq verified /\ ~Appending("ChangeUpsert")' /\ Ahead' \notin ChangeLocation
      BY <2>6, <3>2 DEF ValidCandidate, Appending, ChangeLocation, ReviseLocation,
                               RestoreLocation, ApplyLocation
    <3>4. \A c \in Known \ candidate : changes[c] = "BaselineRestored"
      BY <2>1, <2>2, <2>3, <2>6 DEF Legible, CandidateInv
    <3>5. CandidateInv'
      BY <2>1, <2>2, <2>6, <3>2, <3>3, <3>4 DEF CandidateInv
    <3> QED BY <2>1, <2>2, <2>3, <3>2, <3>5, StartLegible
  <2> QED BY <1>3, <2>4, <2>5, <2>6 DEF EvaluateCandidate, FinalizeImproved, ReplayCandidate,
                                               FinalizeCandidate, StartLoop
<1>4. CASE EvaluationRejects \/ Abort \/ FinishSession \/ OperationFailed \/ RollbackRetried
  <2>1. /\ phase \in {"Experimenting", "CommitPending", "RollingBack"}
        /\ \/ call.at = "ok" /\ call.op \notin {"finalize_recheck", "rollback_all"}
           \/ call.at = "error"
        /\ phase' = "RollingBack" /\ RollbackAll
    BY <1>4 DEF EvaluationRejects, Abort, FinishSession, OperationFailed, RollbackRetried, Idle,
                       StartRollback, Structure, ControlInv
  <2>2. /\ UNCHANGED <<log, nextSequence, verified, changes, prepared>>
        /\ \/ call' = [Calls("rollback_all") EXCEPT !.at = "error"]
           \/ call' = [Calls("rollback_all") EXCEPT !.at = "loop", !.todo = Known]
    BY <2>1 DEF RollbackAll, StartLoop, OnlyControl, memory
  <2>3. call'.at \in {"loop", "error"}
    BY <2>2, StartShape DEF Operation
  <2>4. Active /\ InEpisode /\ ~Deciding'
    BY <2>1 DEF Active, InEpisode, EpisodePhase, Deciding
  <2>5. log.seal = Open
    BY <2>1, <2>4, OpenBetween DEF Structure
  <2>6. CandidateInv'
    BY <2>1 DEF CandidateInv
  <2> QED BY <2>1, <2>2, <2>3, <2>4, <2>5, <2>6, StartLegible
<1>5. CASE \/ BeginFailed \/ CommitOutcomeUnknown \/ CommitCompleted
           \/ RollbackCompleted \/ RollbackFailed
  <2>1. /\ UNCHANGED kernelVars /\ InEpisode /\ InEpisode'
        /\ phase' \in {"RecoveryRequired", "Committed", "Clean"}
    BY <1>5 DEF BeginFailed, CommitOutcomeUnknown, CommitCompleted, RollbackCompleted,
                       RollbackFailed, InEpisode, EpisodePhase
  <2>2. UNCHANGED <<log, nextSequence, verified, changes, prepared, call>>
    BY <2>1 DEF kernelVars, memory
  <2>3. MirrorInv' /\ EventInv' /\ RevisionInv'
    BY <2>1, <2>2 DEF Legible, MirrorInv, EventInv, RevisionInv, Active, Known, Appending,
                             Revising, Ahead, IsHead, Head
  <2>4. IntentInv' /\ CandidateInv'
    BY <2>1 DEF IntentInv, CandidateInv, Deciding
  <2> QED BY <2>3, <2>4 DEF Legible
<1> QED BY <1>1, <1>2, <1>3, <1>4, <1>5 DEF EpisodeStep

\* A process that is not running has nothing to mirror.
LEMMA IdleLegible ==
  ASSUME MirrorInv, UNCHANGED <<log, prepared>>, call' = IdleCall, phase' \in StartupStage
  PROVE  Legible'
<1>1. call'.at = "ok" /\ call'.op = "begin" /\ Ahead' = "ok"
  BY DEF IdleCall, Ahead
<1>2. ~InEpisode' /\ ~Active' /\ ~Deciding' /\ phase' # "CommitPending"
  BY <1>1 DEF InEpisode, EpisodePhase, StartupStage, Active, Deciding
<1>3. MirrorInv'
  BY <1>2 DEF MirrorInv
<1>4. EventInv' /\ IntentInv' /\ CandidateInv'
  BY <1>1, <1>2 DEF EventInv, IntentInv, CandidateInv
<1>5. RevisionInv'
  BY <1>1 DEF RevisionInv, Revising
<1> QED BY <1>3, <1>4, <1>5 DEF Legible

\* recover rebuilds a change for every record, and for nothing else.
LEMMA RecoveredKnown ==
  ASSUME TypeOK, PendingOperations(log) \subseteq LogChanges(log),
         changes' = [c \in Change |-> RecoveredState(log, c)]
  PROVE  Known' = LogChanges(log)
<1>1. \A c \in Change : (RecoveredState(log, c) # Absent) <=> (log.state[c] # Absent)
  <2>1. TAKE c \in Change
  <2>2. CASE \E i \in log.intent[c] : i.kind # "Finalize"
    <3>1. c \in LogChanges(log)
      BY <2>2 DEF PendingOperations
    <3> QED BY <2>2, <3>1 DEF RecoveredState, LogChanges, Absent
  <2>3. CASE ~\E i \in log.intent[c] : i.kind # "Finalize"
    BY <2>3 DEF RecoveredState, Absent
  <2> QED BY <2>2, <2>3
<1> QED BY <1>1 DEF Known, LogChanges

LEMMA RecoverLegible ==
  ASSUME TypeOK, Structure, Legible, RecoverPending
  PROVE  Legible'
<1>1. /\ UNCHANGED <<log, prepared, phase>> /\ phase \in {"EarlyPass", "Gate"}
      /\ InspectLog(log) = "Pending" /\ verified' = log.verified /\ nextSequence' = log.count
      /\ changes' = [c \in Change |-> RecoveredState(log, c)]
      /\ call' = [Calls("rollback_all") EXCEPT !.at = "loop", !.todo = LogChanges(log)]
  BY DEF RecoverPending, RecoverAndRollback, Rebuild
<1>2. call'.op = "rollback_all" /\ call'.at = "loop" /\ Ahead' = "loop"
  <2>1. Calls("rollback_all") \in Call /\ Calls("rollback_all").op = "rollback_all"
    BY ControlTypes DEF Operation, Calls, IdleCall
  <2> QED BY <1>1, <2>1 DEF Call, Ahead
<1>3. log.seal = Open /\ log.count # 0
  BY <1>1 DEF InspectLog, TypeOK, KernelTypeOK, Log
<1>4. Known' = LogChanges(log)
  BY <1>1, RecoveredKnown DEF Structure, MemoryInv
<1>5. ~InEpisode' /\ ~Deciding' /\ phase' # "CommitPending" /\ ~Appending("Started")'
  BY <1>1, <1>2 DEF InEpisode, EpisodePhase, Deciding, Appending
<1>6. MirrorInv'
  BY <1>1, <1>3, <1>4, <1>5 DEF Legible, MirrorInv
<1>7. EventInv' /\ IntentInv' /\ CandidateInv'
  BY <1>2, <1>5 DEF EventInv, IntentInv, CandidateInv
<1>8. RevisionInv'
  BY <1>2 DEF RevisionInv, Revising
<1> QED BY <1>6, <1>7, <1>8 DEF Legible

LEMMA OtherLegible ==
  ASSUME TypeOK, Structure, Legible, ~walFailed', ProcessStep \/ Drift \/ UNCHANGED vars
  PROVE  Legible'
<1>1. CASE Drift \/ UNCHANGED vars
  <2>1. UNCHANGED <<log, prepared, changes, verified, nextSequence, candidate, call, phase>>
    BY <1>1 DEF Drift, ExternalWrite, vars, kernelVars, memory
  <2>2. MirrorInv' /\ EventInv' /\ RevisionInv'
    BY <2>1 DEF Legible, MirrorInv, EventInv, RevisionInv, Active, InEpisode, Known, Appending,
                       Revising, Ahead, IsHead, Head
  <2>3. IntentInv' /\ CandidateInv'
    BY <2>1 DEF Legible, IntentInv, CandidateInv, Deciding, Unsettled, Appending, Ahead, Known
  <2> QED BY <2>2, <2>3 DEF Legible
<1>2. CASE Crash \/ Shutdown \/ EarlyPassDone \/ GateOpens \/ GateBlocks
  <2>1. UNCHANGED <<log, prepared>> /\ call' = IdleCall /\ phase' \in StartupStage
    BY <1>2 DEF Crash, Shutdown, EarlyPassDone, GateOpens, GateBlocks, StagePassed, LoseMemory,
                       StartupStage
  <2> QED BY <2>1, IdleLegible DEF Legible
<1>3. CASE Restart
  <2>1. UNCHANGED kernelVars /\ phase = "Down" /\ phase' = "EarlyPass"
    BY <1>3 DEF Restart
  <2>2. UNCHANGED <<log, prepared>> /\ call' = IdleCall /\ phase' \in StartupStage
    BY <2>1 DEF kernelVars, StartupStage, Structure, ControlInv
  <2> QED BY <2>2, IdleLegible DEF Legible
<1>4. CASE RecoverPending
  BY <1>4, RecoverLegible
<1> QED BY <1>1, <1>2, <1>3, <1>4 DEF ProcessStep, StartupStep

\* Every step keeps the log readable.
LEMMA NextLegible ==
  ASSUME TypeOK, TypeOK', Structure, SealInv, CommitInv, LogInv, [Next]_vars
  PROVE  LogInv'
<1>1. CASE Step
  BY <1>1, KernelStepLegible
<1>2. CASE EpisodeStep \/ ProcessStep \/ Drift \/ UNCHANGED vars
  <2>1. CASE EpisodeStep
    <3>1. walFailed' = walFailed
      BY <2>1 DEF EpisodeStep, BeginFailed, Mutate, RequestCommit, EvaluateCandidate,
         FinalizeImproved, EvaluationRejects, Abort, FinishSession, OperationFailed,
         CommitOutcomeUnknown, CommitCompleted, RollbackCompleted, RollbackRetried, RollbackFailed,
         StartRollback, RollbackAll, StartLoop, ReplayCandidate, FinalizeCandidate, ExperimentRejected,
         PrepareRejected, Prepare, OnlyControl, OnlyOperationId, kernelVars
    <3> QED BY <2>1, <3>1, EpisodeLegible DEF LogInv
  <2>2. CASE ProcessStep \/ Drift \/ UNCHANGED vars
    <3>1. walFailed => walFailed'
      BY <2>2 DEF ProcessStep, StartupStep, Crash, Shutdown, Restart, RecoverPending,
         RecoverAndRollback, Rebuild, EarlyPassDone, GateOpens, GateBlocks, StagePassed, Drift,
         ExternalWrite, vars, kernelVars
    <3> QED BY <2>2, <3>1, OtherLegible DEF LogInv
  <2> QED BY <1>2, <2>1, <2>2
<1> QED BY <1>1, <1>2 DEF Next

\* A new log is empty, and its first entry is Started.
LEMMA InitLegible ==
  ASSUME Init
  PROVE  NumberInv /\ LogInv
<1>1. /\ log = EmptyLog /\ changes = [c \in Change |-> Absent] /\ verified = {}
      /\ nextSequence = 0 /\ operationCounter = 0 /\ issued = 0
      /\ phase = "Experimenting" /\ retry = FALSE /\ call = [IdleCall EXCEPT !.at = "append"]
  BY DEF Init, BeginKernel
<1>2. /\ log.count = 0 /\ log.intact /\ log.terminated /\ log.seal = Open /\ log.verified = {}
      /\ log.state = [c \in Change |-> Absent] /\ log.intent = [c \in Change |-> {}]
  BY <1>1 DEF EmptyLog
<1>3. /\ call.at = "append" /\ call.op = "begin" /\ call.event = Started /\ call.then = "ok"
      /\ ~call.afterEffect /\ call.event.type = "Started" /\ Ahead = "ok"
  BY <1>1 DEF IdleCall, Started, Ahead
<1>4. Known = {} /\ LogChanges(log) = {} /\ PendingOperations(log) = {} /\ InEpisode
  BY <1>1, <1>2 DEF Known, LogChanges, PendingOperations, InEpisode, EpisodePhase
<1>5. Reserve(call, retry) = 0
  BY <1>1, <1>3, SMT DEF Reserve, Unrecorded
<1>6. NumberInv
  BY <1>1, <1>2, <1>3, <1>4, <1>5, SMT DEF NumberInv
<1>7. MirrorInv
  BY <1>1, <1>2, <1>3, <1>4 DEF MirrorInv, Appending
<1>8. EventInv
  BY <1>2, <1>3 DEF EventInv, AcceptsEntry
<1>9. RevisionInv
  BY <1>3 DEF RevisionInv, Revising
<1>10. IntentInv /\ CandidateInv
  BY <1>1, <1>4 DEF IntentInv, CandidateInv
<1> QED BY <1>6, <1>7, <1>8, <1>9, <1>10 DEF LogInv, Legible

=============================================================================
