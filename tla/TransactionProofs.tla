------------------------- MODULE TransactionProofs --------------------------
(***************************************************************************)
(* The theorems about the transaction kernel with its log, its coordinator, *)
(* its recovery and its environment, for every set of resources and values, *)
(* every number of changes and every bound on faults.                      *)
(***************************************************************************)
EXTENDS TransactionSafetyProofs, TransactionLogProofs,
        TransactionDriftProofs

\* The provers: a leaf that cites none is left to Zenon.
USE Zenon

\* Type correctness: every variable keeps its type in every behaviour of the
\* kernel, its coordinator, its restarts and its environment.
THEOREM TypeCorrect == Spec => []TypeOK
<1>1. TypeOK /\ [Next]_vars => TypeOK'
  <2> SUFFICES ASSUME TypeOK, [Next]_vars PROVE TypeOK'
    OBVIOUS
  <2>1. CASE Step
    BY <2>1, KernelStepType DEF Step, TypeOK
  <2>2. CASE UNCHANGED vars
    BY <2>2, SMT DEF vars, kernelVars, environment, memory, TypeOK, KernelTypeOK
  <2> QED BY <2>1, <2>2, EpisodeStepType, ProcessStepType, DriftType DEF Next
<1> QED BY <1>1, InitType, PTL DEF Spec

---------------------------------------------------------------------------
(* The theorems. *)

LEMMA InitSafety ==
  Init => SafetyInv
<1> SUFFICES ASSUME Init PROVE SafetyInv
  OBVIOUS
<1>1. TypeOK /\ Structure
  BY InitType, InitStructure
<1>2. call.op = "begin" /\ phase = "Experimenting" /\ log.seal = Open
  BY DEF Init, BeginKernel, IdleCall, EmptyLog
<1>3. RollbackInv /\ SealInv /\ CommitInv
  BY <1>2, SMT DEF RollbackInv, SealInv, CommitInv, Open
<1>4. CommitInstallsCandidate /\ RollbackRestoresOrigin
  BY <1>2 DEF CommitInstallsCandidate, RollbackRestoresOrigin, Open
<1> QED BY <1>1, <1>3, <1>4 DEF SafetyInv, Structure

LEMMA SafetyKept ==
  ASSUME SafetyInv, Next
  PROVE  SafetyInv'
<1>0. TypeOK /\ Structure /\ RollbackInv /\ SealInv /\ CommitInv
  BY DEF SafetyInv, Structure
<1>1. TypeOK'
  <2>1. CASE Step
    BY <1>0, <2>1, KernelStepType, SMT DEF Step, TypeOK
  <2> QED BY <1>0, <2>1, EpisodeStepType, ProcessStepType, DriftType DEF Next
<1>2. Structure'
  BY <1>0, KernelStepStructure, EpisodeStepStructure, ProcessStepStructure, DriftStructure
     DEF Next
<1>3. RollbackInv'
  BY <1>0, <1>2, KernelStepRollback, OtherStepRollback DEF Next
<1>4. SealInv'
  BY <1>0, KernelStepSealInv, OtherStepSealInv DEF Next
<1>5. CommitInv'
  BY <1>0, KernelStepCommitInv, OtherStepCommitInv DEF Next
<1> QED BY <1>1, <1>2, <1>3, <1>4, <1>5, CommitSealKept, RollbackSealKept, SMT DEF SafetyInv, Structure

\* A step that changes nothing keeps it.
LEMMA SafetyStutters ==
  ASSUME SafetyInv, UNCHANGED vars
  PROVE  SafetyInv'
<1>1. /\ world' = world /\ origin' = origin /\ drifted' = drifted /\ log' = log
      /\ normalised' = normalised
      /\ prepared' = prepared /\ changes' = changes /\ verified' = verified
      /\ nextSequence' = nextSequence /\ operationCounter' = operationCounter
      /\ activeCandidate' = activeCandidate /\ candidate' = candidate /\ call' = call
      /\ issued' = issued /\ walFailed' = walFailed /\ faults' = faults
      /\ phase' = phase /\ retry' = retry
  BY DEF vars, kernelVars, environment, memory
<1>2. TypeOK'
  BY <1>1 DEF SafetyInv, TypeOK, KernelTypeOK
<1>3. /\ Known' = Known /\ Ahead' = Ahead /\ Creating' = Creating
      /\ Revising' = Revising /\ Active' = Active /\ InHand' = InHand
      /\ \A c \in Change : IsNextChange(c)' = IsNextChange(c)
  BY <1>1 DEF Known, Ahead, Creating, Appending, Revising, Active, InEpisode, InHand,
              IsNextChange
<1>4. call.change \in Change /\ call.revision \in Change
  BY DEF SafetyInv, TypeOK, KernelTypeOK, Call
<1>5. ControlInv' /\ AppendInv' /\ ChangeInv' /\ MemoryInv'
  BY <1>1, <1>3, <1>4, ZenonT(30) DEF SafetyInv, ControlInv, AppendInv, ChangeInv, MemoryInv
<1>6. OrderInv' /\ BaselineInv' /\ WorldInv'
  BY <1>1, <1>3 DEF SafetyInv, OrderInv, BaselineInv, WorldInv, Head, Undrifted, Explains
<1>7. RollbackInv' /\ SealInv'
  <2>1. RollbackInv'
    BY <1>1, <1>3 DEF SafetyInv, RollbackInv, Home, Shared, Undrifted, Appending
  <2>2. SealInv'
    BY <1>1, <1>3 DEF SafetyInv, SealInv, Appending, AllRolledBack
  <2> QED BY <2>1, <2>2
<1>8. CommitInv'
  BY <1>1, <1>3 DEF SafetyInv, CommitInv, Heads, IsHead, Head, Undrifted, AtCommitValue,
                    AtDesired, AtBaseline, Holds
<1>9. CommitInstallsCandidate' /\ RollbackRestoresOrigin'
  BY <1>1, ZenonT(30) DEF SafetyInv, CommitInstallsCandidate, RollbackRestoresOrigin
<1> QED BY <1>2, <1>5, <1>6, <1>7, <1>8, <1>9 DEF SafetyInv

\* The invariant holds in every behaviour: its control, log, memory, world,
\* rollback, seal, commit, operation id, log and drift parts support each other.
THEOREM Invariant == Spec => []IInv
<1>1. Init => IInv
  BY InitSafety, InitLegible, InitDrift DEF IInv
<1>2. IInv /\ [Next]_vars => IInv'
  <2> SUFFICES ASSUME IInv, [Next]_vars PROVE IInv'
    OBVIOUS
  <2>1. SafetyInv'
    BY SafetyKept, SafetyStutters DEF IInv
  <2>2. /\ TypeOK /\ TypeOK' /\ Structure /\ ControlInv /\ RollbackInv /\ SealInv /\ CommitInv
        /\ NumberInv /\ LogInv /\ DriftInv
    BY <2>1 DEF IInv, SafetyInv, Structure
  <2>3. NumberInv'
    BY <2>2, NextNumbers
  <2>4. LogInv'
    BY <2>2, NextLegible
  <2>5. DriftInv'
    BY <2>2, NextDrift
  <2> QED BY <2>1, <2>3, <2>4, <2>5 DEF IInv
<1> QED BY <1>1, <1>2, PTL DEF Spec

\* rollback_all and the recovery that repeats it seal a transaction as
\* RolledBack only over the original system.
THEOREM RollbackCorrect == Spec => []RollbackRestoresOrigin
<1>1. IInv => RollbackRestoresOrigin
  BY DEF IInv, SafetyInv
<1> QED BY <1>1, Invariant, PTL

\* finalize_candidate and commit_seal install the candidate as a whole and
\* nothing else.
THEOREM CommitCorrect == Spec => []CommitInstallsCandidate
<1>1. IInv => CommitInstallsCandidate
  BY DEF IInv, SafetyInv
<1> QED BY <1>1, Invariant, PTL

\* Whatever the transaction has left in the system, its log can undo.
THEOREM LogCovers == Spec => []LogCoversWorld
<1>1. IInv => LogCoversWorld
  BY DEF IInv, SafetyInv, WorldInv, MemoryInv, Explains, LogCoversWorld
<1> QED BY <1>1, Invariant, PTL

\* No driver is asked for anything once a seal is in the file.
THEOREM SealEndsEffects == Spec => NoEffectAfterSeal
<1>1. IInv /\ [Next]_vars => [log.seal # Open => issued' = issued]_vars
  <2> SUFFICES ASSUME IInv, Next, log.seal # Open PROVE issued' = issued
    BY DEF vars, kernelVars
  <2>1. TypeOK /\ Structure /\ SealInv
    BY DEF IInv, SafetyInv, Structure
  <2>2. CASE Drift
    BY <2>2 DEF Drift, ExternalWrite
  <2> QED BY <2>1, <2>2, SealedFrame DEF Next
<1> QED BY <1>1, Invariant, PTL DEF Spec, NoEffectAfterSeal

\* Every request to a driver carries an operation id above those of all the
\* requests before it, whatever process has made them (next_operation_id, recover).
THEOREM IdsIncrease == Spec => OperationIdsIncrease
<1>1. IInv /\ [Next]_vars => [Apply \/ Restore \/ Finalize => issued' > issued]_vars
  <2> SUFFICES ASSUME IInv, Apply \/ Restore \/ Finalize PROVE issued' > issued
    OBVIOUS
  <2>1. TypeOK /\ ControlInv /\ NumberInv
    BY DEF IInv, SafetyInv
  <2>2. Ahead = call.at /\ Ahead \in {"apply", "restore", "finalize"}
    BY DEF Apply, Restore, Finalize, Ahead
  <2>3. Active
    <3>1. call.at \notin {"ok", "error", "outcomeUnknown"}
      BY <2>2
    <3> QED BY <2>1, <3>1, Running DEF Active, InEpisode, TypeOK, EpisodePhase, StartupStage
  <2>4. call.opid.number = operationCounter /\ issued < operationCounter
    BY <2>1, <2>2, <2>3 DEF NumberInv
  <2>5. issued' = call.opid.number
    BY DEF Apply, Restore, Finalize, DriverFrame
  <2>6. issued \in Nat /\ operationCounter \in Nat
    BY <2>1, SMT DEF TypeOK, KernelTypeOK
  <2> QED BY <2>4, <2>5, <2>6, SMT
<1> QED BY <1>1, Invariant, PTL DEF Spec, OperationIdsIncrease

\* inspect_log and recover accept every log that the kernel has written, over any
\* number of processes, as long as no append has returned an error or was cut
\* short by the death of its process.
THEOREM LogIsReadable == Spec => []KernelLogReadable
<1>1. IInv => KernelLogReadable
  BY SMT DEF IInv, LogInv, Legible, MirrorInv, KernelLogReadable
<1> QED BY <1>1, Invariant, PTL

\* mark_drift is not set off by what the kernel does itself: where every write
\* stores what was written and nobody else writes, no revision, replay, retry or
\* recovery of a transaction looks like drift to it.
THEOREM DriftIsReal == Spec => []DriftHasCause
<1>1. IInv => DriftHasCause
  BY DEF IInv, DriftInv, FlagInv, Clear, Touched, DriftHasCause
<1> QED BY <1>1, Invariant, PTL

\* A step of the kernel's operations in an open log moves the system, decides,
\* or changes nothing that the abstract transaction shows.
LEMMA OpenStep ==
  ASSUME IInv, Step, log.seal = Open
  PROVE  /\ UNCHANGED <<origin, drifted>>
         /\ world' # world => log' = log
         /\ log'.seal = "RolledBack" => \A r \in Resource \ drifted : world[r] = origin[r]
<1>0. TypeOK /\ Structure /\ RollbackInv /\ UNCHANGED <<phase, retry>>
  BY DEF IInv, SafetyInv, Structure, Step
<1>1. UNCHANGED <<origin, drifted>>
  <2>0. KernelStep
    BY DEF Step
  <2>1. CASE AppendDurable \/ AppendFails \/ Apply \/ Restore \/ Finalize
    BY <2>1 DEF AppendDurable, AppendFails, Apply, Restore, Finalize, DriverFrame, environment
  <2>6. CASE ApplyWrite \/ RestoreWrite
    BY <2>6 DEF ApplyWrite, RestoreWrite, WriteFrame
  <2>2. CASE ApplyStatus \/ ApplyVerify \/ RestoreStatus \/ RestoreVerify
    BY <2>2 DEF ApplyStatus, ApplyVerify, RestoreStatus, RestoreVerify, RecordOutcome, Goto,
                ReadbackFails, OnlyControl, environment
  <2>3. CASE RestoreOne \/ MatchDesired \/ ReviseCheck \/ AckVerify
    BY <2>3 DEF RestoreOne, MatchDesired, ReviseCheck, AckVerify, EnsureExpected, MarkDrift,
                UpdateChange, AnnounceThen, Goto, ReadbackFails, OnlyControl,
                OnlyOperationId, environment
  <2>4. CASE ReplayCheckNext \/ CommitCheckNext \/ RestoreNext \/ ReplayNext \/ FinalizeNext
             \/ Replayed
    BY <2>4 DEF ReplayCheckNext, CommitCheckNext, RestoreNext, ReplayNext, FinalizeNext,
                Replayed, EnsureExpected, MarkDrift, UpdateChange, AnnounceThen, Goto,
                ReadbackFails, OnlyControl, OnlyOperationId, environment
  <2>5. CASE Restored \/ ReplayChecked \/ CommitChecked \/ Acknowledged \/ CommitSeal
             \/ RevisePrepare
    BY <2>5 DEF Restored, ReplayChecked, CommitChecked, Acknowledged, CommitSeal,
                RevisePrepare, OnlyControl, environment
  <2> QED BY <2>0, <2>1, <2>2, <2>3, <2>4, <2>5, <2>6 DEF KernelStep
<1>2. world' # world => log' = log
  <2>1. CASE AppendDurable \/ AppendFails
    BY <2>1 DEF AppendDurable, AppendFails, environment
  <2> QED BY <2>1, LogKept DEF Step
<1>3. ASSUME log'.seal = "RolledBack"
      PROVE  \A r \in Resource \ drifted : world[r] = origin[r]
  <2>1. (AppendDurable \/ AppendFails) /\ log'.seal # Open
    BY <1>3, LogKept DEF Step, Open
  <2>2. /\ call.event = Sealed("RolledBack") /\ call.op = "rollback_all"
        /\ call.at = "append" /\ call.todo = {} /\ call.then = "ok"
    BY <1>0, <1>3, <2>1, SealingAppend, SMT
  <2> QED BY <1>0, <2>2, RollbackSeals, SMT
<1> QED BY <1>1, <1>2, <1>3, SMT

\* So does the death of a process inside an append.
LEMMA OpenLoss ==
  ASSUME IInv, ProcessStep, log.seal = Open
  PROVE  /\ UNCHANGED <<world, origin, drifted>>
         /\ log'.seal = "RolledBack" => \A r \in Resource \ drifted : world[r] = origin[r]
<1>0. TypeOK /\ Structure /\ RollbackInv
  BY DEF IInv, SafetyInv, Structure
<1>1. UNCHANGED <<world, origin, drifted>> /\ LogStops
  BY <1>0, ProcessStepFrame
<1>2. ASSUME log'.seal = "RolledBack"
      PROVE  \A r \in Resource \ drifted : world[r] = origin[r]
  <2>1. log'.seal # Open
    BY <1>2 DEF Open
  <2>2. /\ call.event = Sealed("RolledBack") /\ call.op = "rollback_all"
        /\ call.at = "append" /\ call.todo = {} /\ call.then = "ok"
    BY <1>0, <1>1, <1>2, <2>1, SealingLog
  <2> QED BY <1>0, <2>2, RollbackSeals
<1> QED BY <1>1, <1>2

\* The kernel, its log, its coordinator and its recovery are an atomic
\* transaction: Spec refines AtomicTransaction.
THEOREM Refinement == Spec => ImplementsAtomicTransaction
<1>1. Init => Promise!Init
  BY SMT DEF Init, BeginKernel, EmptyLog, Promise!Init
<1>2. IInv /\ IInv' /\ [Next]_vars => [Promise!Next]_(Promise!vars)
  <2> SUFFICES ASSUME IInv, IInv', [Next]_vars
               PROVE  Promise!Next \/ UNCHANGED Promise!vars
    OBVIOUS
  <2>0. /\ TypeOK /\ Structure /\ SealInv
        /\ world' \in [Resource -> Value]
        /\ log.seal \in {Open, "Committed", "RolledBack"}
        /\ log'.seal \in {Open, "Committed", "RolledBack"}
    BY DEF IInv, SafetyInv, Structure, TypeOK, KernelTypeOK, Log, TransactionSeal
  <2>1. CASE UNCHANGED <<world, origin, drifted>> /\ log'.seal = log.seal
    BY <2>1 DEF Promise!vars
  <2>2. CASE UNCHANGED vars
    BY <2>1, <2>2 DEF vars, kernelVars, environment
  <2>3. CASE EpisodeStep
    BY <2>0, <2>1, <2>3, EpisodeStepFrame
  <2>4. CASE Drift
    <3>1. PICK r \in Resource, v \in Value : ExternalWrite(r, v)
      BY <2>4 DEF Drift
    <3>2. Promise!OutsiderWrites(r, v)
      BY <3>1 DEF ExternalWrite, Promise!OutsiderWrites
    <3> QED BY <3>2 DEF Promise!Next
  <2>5. CASE (Step \/ ProcessStep) /\ log.seal # Open
    BY <2>0, <2>1, <2>5, SealedFrame
  <2>6. CASE (Step \/ ProcessStep) /\ log.seal = Open
    <3>1. /\ UNCHANGED <<origin, drifted>> /\ (world' # world => log' = log)
          /\ log'.seal = "RolledBack" => \A r \in Resource \ drifted : world[r] = origin[r]
      BY <2>6, OpenStep, OpenLoss
    <3>2. CASE world' # world
      <4>1. Promise!Tune
        BY <2>0, <2>6, <3>1, <3>2 DEF Promise!Tune
      <4> QED BY <4>1 DEF Promise!Next
    <3>3. CASE world' = world /\ log'.seal = Open
      BY <2>1, <2>6, <3>1, <3>3
    <3>4. CASE world' = world /\ log'.seal = "Committed"
      <4>1. Promise!Commit
        BY <2>6, <3>1, <3>4 DEF Promise!Commit, Open
      <4> QED BY <4>1 DEF Promise!Next
    <3>5. CASE world' = world /\ log'.seal = "RolledBack"
      <4>1. Promise!Rollback
        BY <2>6, <3>1, <3>5 DEF Promise!Rollback, Open
      <4> QED BY <4>1 DEF Promise!Next
    <3> QED BY <2>0, <3>2, <3>3, <3>4, <3>5
  <2> QED BY <2>2, <2>3, <2>4, <2>5, <2>6 DEF Next
<1> QED BY <1>1, <1>2, Invariant, PTL DEF Spec, ImplementsAtomicTransaction, Promise!Spec

=============================================================================
