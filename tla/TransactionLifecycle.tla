------------------------ MODULE TransactionLifecycle ------------------------
(***************************************************************************)
(* One transaction from its creation to the startup that accounts for it:  *)
(* the calls the episode coordinator makes on the kernel                   *)
(* (runtime/episode/coordinator.rs), crashes, and the two recovery passes  *)
(* of a restarted daemon (runtime/recovery.rs).                            *)
(***************************************************************************)
EXTENDS TransactionKernel

VARIABLES
  phase,   \* EpisodePhase while an episode runs, or the stage of a startup
  retry    \* finish_session has still to repeat the rollback of an abort

vars == <<kernelVars, phase, retry>>

EpisodePhase ==
  {"Experimenting", "CommitPending", "RollingBack", "RecoveryRequired",
   "Committed", "Clean"}

StartupStage == {"Down", "EarlyPass", "Gate", "Ready", "Blocked"}

Finished == {"RecoveryRequired", "Committed", "Clean", "Ready", "Blocked"}

Idle == call.at = "ok"

---------------------------------------------------------------------------
(* The episode *)

\* ensure_transaction: the transaction is open once Started is durable.
Init ==
  /\ BeginKernel
  /\ phase = "Experimenting"
  /\ retry = FALSE

BeginFailed ==
  /\ phase = "Experimenting" /\ call.at = "error" /\ call.op = "begin"
  /\ phase' = "RecoveryRequired"
  /\ UNCHANGED <<kernelVars, retry>>

Mutate ==
  /\ phase = "Experimenting" /\ Idle
  /\ \/ ExperimentRejected
     \/ \E r \in Resource, d \in Value :
          PrepareRejected(r, d) \/ \E c \in Change : Prepare(r, d, c)
  /\ UNCHANGED <<phase, retry>>

\* canonical_candidate: verified heads only; then the evaluation starts by
\* restoring the baseline.
RequestCommit(requested) ==
  /\ phase = "Experimenting" /\ Idle
  /\ requested # {}
  /\ requested \subseteq Heads
  /\ \A c \in requested : changes[c] = "AppliedVerified"
  /\ phase' = "CommitPending"
  /\ candidate' = requested
  /\ call' = [Calls("restore_baseline") EXCEPT !.at = "loop", !.todo = Known]
  /\ UNCHANGED <<environment, log, prepared, memory, issued, walFailed, faults,
                 retry>>

\* The baseline is measured: replay the candidate.
EvaluateCandidate ==
  /\ phase = "CommitPending" /\ Idle /\ call.op = "restore_baseline"
  /\ ReplayCandidate
  /\ UNCHANGED <<phase, retry>>

\* The verdict is Improved.
FinalizeImproved ==
  /\ phase = "CommitPending" /\ Idle /\ call.op = "replay"
  /\ FinalizeCandidate
  /\ UNCHANGED <<phase, retry>>

\* rollback_open_transaction
StartRollback(again) ==
  /\ phase' = "RollingBack"
  /\ retry' = again
  /\ RollbackAll

\* The evaluation fails between two calls of the kernel, or its verdict is
\* not Improved.
EvaluationRejects ==
  /\ phase = "CommitPending" /\ Idle /\ call.op \in {"restore_baseline", "replay"}
  /\ StartRollback(FALSE)

\* abort leaves a failed rollback to finish_session, which tries once more.
Abort == phase = "Experimenting" /\ Idle /\ StartRollback(TRUE)

\* finish_session with the transaction still open.
FinishSession == phase = "Experimenting" /\ Idle /\ StartRollback(FALSE)

\* An operation of the kernel returned an error other than an unknown commit
\* outcome.
OperationFailed ==
  /\ phase \in {"Experimenting", "CommitPending"}
  /\ call.at = "error" /\ call.op # "begin"
  /\ StartRollback(FALSE)

\* Variant: an unknown commit outcome is treated like any other failure.
CommitOutcomeRolledBack ==
  /\ phase = "CommitPending" /\ call.at = "outcomeUnknown"
  /\ StartRollback(FALSE)

CommitOutcomeUnknown ==
  /\ phase = "CommitPending" /\ call.at = "outcomeUnknown"
  /\ phase' = "RecoveryRequired"
  /\ UNCHANGED <<kernelVars, retry>>

CommitCompleted ==
  /\ phase = "CommitPending" /\ Idle /\ call.op = "finalize_recheck"
  /\ phase' = "Committed"
  /\ UNCHANGED <<kernelVars, retry>>

RollbackCompleted ==
  /\ phase = "RollingBack" /\ Idle
  /\ phase' = "Clean"
  /\ UNCHANGED <<kernelVars, retry>>

RollbackRetried ==
  /\ phase = "RollingBack" /\ call.at = "error" /\ retry
  /\ StartRollback(FALSE)

\* Variant: the episode ends as if the rollback had been done.
RollbackFailedUnnoticed ==
  /\ phase = "RollingBack" /\ call.at = "error" /\ ~retry
  /\ phase' = "Clean"
  /\ UNCHANGED <<kernelVars, retry>>

RollbackFailed ==
  /\ phase = "RollingBack" /\ call.at = "error" /\ ~retry
  /\ phase' = "RecoveryRequired"
  /\ UNCHANGED <<kernelVars, retry>>

---------------------------------------------------------------------------
(* The process *)

\* The process dies, at any point of an episode or of a startup: between two
\* steps, or in the middle of an append.
Crash ==
  /\ phase \notin {"Down"} \cup Finished
  /\ Fault
  /\ LoseMemory
  /\ phase' = "Down" /\ retry' = FALSE
  /\ \/ UNCHANGED <<log, walFailed>>
     \/ call.at = "append" /\ log' \in CutShort /\ walFailed' = TRUE
  /\ UNCHANGED <<environment, prepared, issued>>

\* The daemon is stopped after the episode or the startup is over.
Shutdown ==
  /\ phase \in Finished
  /\ LoseMemory
  /\ phase' = "Down" /\ retry' = FALSE
  /\ UNCHANGED <<environment, log, prepared, issued, walFailed, faults>>

Restart ==
  /\ phase = "Down"
  /\ phase' = "EarlyPass"
  /\ UNCHANGED <<kernelVars, retry>>

\* recover_pending, in either pass.
RecoverPending ==
  /\ phase \in {"EarlyPass", "Gate"} /\ Idle /\ call.op = "begin"
  /\ InspectLog(log) = "Pending" /\ log.count < MaxEntries
  /\ RecoverAndRollback
  /\ UNCHANGED <<phase, retry>>

StagePassed(next) ==
  /\ phase' = next
  /\ LoseMemory
  /\ UNCHANGED <<environment, log, prepared, issued, walFailed, retry>>

\* The early pass ignores every failure, and skips a transaction whose drivers
\* come from a plugin that is not loaded yet.
EarlyPassDone ==
  /\ phase = "EarlyPass"
  /\ Idle \/ call.at = "error"
  /\ NoFault
  /\ StagePassed("Gate")

\* Variant: the gate lets a pending log pass as well.
GateSkipsPending ==
  /\ phase = "Gate" /\ Idle /\ NoFault
  /\ \/ call.op = "begin" /\ InspectLog(log) \in {"Unstarted", "Sealed", "Pending"}
     \/ call.op = "rollback_all"
  /\ StagePassed("Ready")

\* Unstarted logs are discarded, seals reconciled, pending logs rolled back.
GateOpens ==
  /\ phase = "Gate" /\ Idle /\ NoFault
  /\ \/ call.op = "begin" /\ InspectLog(log) \in {"Unstarted", "Sealed"}
     \/ call.op = "rollback_all"
  /\ StagePassed("Ready")

\* A corrupt log, a failed recovery, a missing driver or a failed audit record.
\* (Every failed recovery may lengthen the log: MaxEntries ends the repetition.)
GateBlocks ==
  /\ phase = "Gate"
  /\ \/ Idle /\ call.op = "begin" /\ InspectLog(log) = "Corrupt" /\ NoFault
     \/ call.at = "error" /\ NoFault
     \/ Idle /\ Fault
     \/ Idle /\ call.op = "begin" /\ log.count >= MaxEntries /\ NoFault
  /\ StagePassed("Blocked")

---------------------------------------------------------------------------

Step == KernelStep /\ UNCHANGED <<phase, retry>>

EpisodeStep ==
  \/ BeginFailed \/ Mutate \/ (\E s \in SUBSET Change : RequestCommit(s))
  \/ EvaluateCandidate \/ FinalizeImproved \/ EvaluationRejects
  \/ Abort \/ FinishSession \/ OperationFailed
  \/ CommitOutcomeUnknown \/ CommitCompleted
  \/ RollbackCompleted \/ RollbackRetried \/ RollbackFailed

StartupStep == RecoverPending \/ EarlyPassDone \/ GateOpens \/ GateBlocks

ProcessStep == Crash \/ Shutdown \/ Restart \/ StartupStep

Drift == (\E r \in Resource, v \in Value : ExternalWrite(r, v)) /\ UNCHANGED <<phase, retry>>

Next == Step \/ EpisodeStep \/ ProcessStep \/ Drift

Spec == Init /\ [][Next]_vars

\* A process that runs goes on: the coordinator runs the kernel's operations
\* and its session to their end, and a startup its passes.  Nothing stops a
\* daemon or starts one again, and nothing is assumed of drivers, crashes or
\* outsiders beyond the bound on faults.
Fairness ==
  /\ WF_vars(Step)
  /\ WF_vars(EpisodeStep)
  /\ WF_vars(StartupStep)

FairSpec == Spec /\ Fairness

---------------------------------------------------------------------------
(* Properties *)

\* Every variable has its type.
TypeOK ==
  /\ KernelTypeOK
  /\ phase \in EpisodePhase \cup StartupStage
  /\ retry \in BOOLEAN

\* A RolledBack seal is written only over the original system: every resource
\* that nobody else wrote holds the value it had before the transaction
\* (rollback_all, whichever process runs it and wherever the last one died).
RollbackRestoresOrigin ==
  log.seal = "RolledBack" =>
    \A r \in Resource \ drifted : world[r] = origin[r]

\* A Committed seal is all or nothing: the resources of the finalized changes
\* hold their desired values and every other resource its original one
\* (finalize_candidate and commit_seal).
CommitInstallsCandidate ==
  log.seal = "Committed" =>
    \A r \in Resource \ drifted :
      LET finalized == {c \in Change : /\ log.state[c] = "Finalized"
                                       /\ prepared[c].resource = r}
      IN IF finalized = {}
           THEN world[r] = origin[r]
           ELSE \A c \in finalized : world[r] = prepared[c].desired

\* Whatever value the transaction has left in a resource, the log names the
\* change that put it there and the original value to go back to
\* (experiment appends its ChangeUpsert before the first apply).  Only the value
\* of a resource that stored something else than was written is in no log.
LogCoversWorld ==
  \A r \in Resource \ drifted :
    world[r] # origin[r] =>
      \E c \in LogChanges(log) :
        /\ prepared[c].resource = r
        /\ prepared[c].baseline = origin[r]
        /\ prepared[c].desired = world[r] \/ r \in normalised

\* Drift has a cause: the kernel reports it only of a resource that somebody else
\* has written, or that stored something else than its driver wrote (which a
\* rollback cannot tell from an outsider's write).  Revisions, retries and
\* recoveries alone never look like drift (mark_drift in restore_one and
\* ensure_expected).
DriftHasCause ==
  \A c \in Change :
    "DriftDetected" \in {changes[c], log.state[c]} =>
      prepared[c].resource \in drifted \cup normalised

\* Every log the kernel writes, over any number of restarts, is one that
\* discovery and recovery can read, as long as no append has returned an error
\* and no process has died inside one.  (After either, the line may have no
\* end, and recovery appends to it: write_synced.)
KernelLogReadable == ~walFailed => log.intact

\* No driver is asked to change anything once a seal is in the file, even when
\* writing the seal returned an error (commit_seal, rollback retry).
NoEffectAfterSeal == [][log.seal # Open => issued' = issued]_vars

\* Every request to a driver carries an operation id above those of all the
\* requests before it, over restarts too: none reaches a driver twice
\* (next_operation_id, and operation_counter := expected_sequence in recover).
OperationIdsIncrease == [][Apply \/ Restore \/ Finalize => issued' > issued]_vars

\* Discovery lists every log that the kernel has sealed as sealed.
SealedLogReconciles ==
  log.seal # Open /\ ~walFailed => InspectLog(log) = "Sealed"

Decided == log.seal # Open \/ ~log.intact

\* A transaction that has started does not stay open unnoticed: it is sealed, its
\* log is unreadable, or its daemon is down, frozen or refused to start.
EpisodeDecides ==
  InspectLog(log) = "Pending"
    ~> (Decided \/ phase \in {"Down", "RecoveryRequired", "Blocked"})

\* A startup that meets no further fault decides the transaction it finds.
StartupDecides ==
  \A n \in 0 .. MaxFaults :
    (phase = "EarlyPass" /\ InspectLog(log) = "Pending" /\ faults = n)
      ~> (Decided \/ drifted \cup normalised # {} \/ faults > n)

\* A transaction that has started is sealed by the process that runs it, or that
\* process ends, freezes or blocks; and the first startup that meets no fault
\* seals it, whatever crashes and lost replies there were before, unless the log
\* is unreadable or a foreign value is in the way (rollback_all and the recovery
\* gate).
PendingIsDecided == EpisodeDecides /\ StartupDecides

\* The promise of AtomicTransaction, with the seal in the log as the decision.
Promise == INSTANCE AtomicTransaction
             WITH outcome <- IF log.seal = Open THEN "Undecided" ELSE log.seal

\* The kernel, its log and its recovery together are an atomic transaction.
ImplementsAtomicTransaction == Promise!Spec

=============================================================================
