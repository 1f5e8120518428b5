----------------------------- MODULE BenchTrial -----------------------------
(***************************************************************************)
(* One run of a benchmark. The host (bench/core/runner.py) starts a        *)
(* virtual machine, runs the guest executor in it over SSH, copies the     *)
(* output back and reports a status. The guest (core/guest_executor.py)    *)
(* starts the scheduler under test and takes the run through its phases;   *)
(* the scheduler may exit at any moment. The connection may be lost while  *)
(* the guest goes on, and every command of the host may fail.              *)
(***************************************************************************)
EXTENDS Naturals

VARIABLES
  trial,       \* the plan: which parts it has, and whether the domain is destroyed
  gstep,       \* the next step of the guest executor
  sched,       \* the scheduler process: none, up, exited by itself, stopped
  phases,      \* the results of treatment, warmup and measurement
  gstatus,     \* the executor's status
  gready,      \* the output directory was prepared
  gfile,       \* the status in guest_result.json, "none" without the file
  hstep,       \* the next step of the host
  hstatus,     \* its status so far, "none" as long as nothing failed
  hrc,         \* the exit of the guest command
  hirq,        \* unmovable interrupts reached a pinned CPU during the run
  hcopy,       \* the status in the copied guest_result.json
  hdir,        \* the runtime directory exists
  verdict      \* the status in result.json, "none" before it is written

trialVars ==
  <<trial, gstep, sched, phases, gstatus, gready, gfile, hstep, hstatus, hrc, hirq, hcopy,
    hdir, verdict>>
guestVars == <<gstep, sched, phases, gstatus, gready, gfile>>
hostVars == <<hstep, hstatus, hrc, hirq, hcopy, hdir, verdict>>

TrialInit ==
  /\ trial \in [scheduler : BOOLEAN, treatment : BOOLEAN, warmup : BOOLEAN, destroy : BOOLEAN]
  /\ gstep = "off" /\ sched = "none" /\ gstatus = "INTERNAL_ERROR" /\ gready = FALSE
  /\ phases = [treatment |-> "SKIPPED", warmup |-> "SKIPPED", measurement |-> "SKIPPED"]
  /\ gfile = "none" /\ hstep = "preflight" /\ hstatus = "none" /\ hrc = "none"
  /\ hirq = FALSE /\ hcopy = "none" /\ hdir = FALSE /\ verdict = "none"

----------------------------------------------------------------------------
(* The guest executor.                                                     *)

GoOn(step) == gstep' = step /\ UNCHANGED gstatus
GiveUp(status) == gstep' = "stop" /\ gstatus' = status

\* _check_scheduler: the process that is no longer there fails the run.
Alive == trial.scheduler => sched = "up"

\* _prepare_output and the metadata, whose exceptions are internal errors.
PrepareOutput ==
  /\ gstep = "prepare"
  /\ \/ gready' = TRUE /\ GoOn("start")
     \/ gready' \in BOOLEAN /\ GiveUp("INTERNAL_ERROR")
  /\ UNCHANGED <<sched, phases, gfile>>

\* _start_scheduler up to its first check.
StartScheduler ==
  /\ gstep = "start"
  /\ \/ ~trial.scheduler /\ GoOn("treatment") /\ UNCHANGED sched
     \/ trial.scheduler /\ GoOn("startup") /\ sched' = "up"
     \/ trial.scheduler /\ GiveUp("SCHEDULER_FAILED") /\ UNCHANGED sched
  /\ UNCHANGED <<phases, gready, gfile>>

\* The checks between two waits: where each leads.
Checks ==
  [startup |-> "settle", settle |-> "treatment", post_treatment |-> "warmup",
   pre_measurement |-> "post_warmup", post_warmup |-> "measurement"]

CheckScheduler ==
  /\ gstep \in DOMAIN Checks
  /\ IF Alive THEN GoOn(Checks[gstep]) ELSE GiveUp("SCHEDULER_FAILED")
  /\ UNCHANGED <<sched, phases, gready, gfile>>

HasPhase(name) == IF name = "measurement" THEN TRUE ELSE trial[name]

\* _run_command of a phase: the command cannot start or fails, leaves processes behind
\* (FAILED), runs out of time or passes; a phase the plan does not have is passed over.
\* A snapshot around the measurement may raise.
RunPhase(name, after, without) ==
  /\ gstep = name
  /\ \/ /\ HasPhase(name)
        /\ \E r \in {"PASS", "FAILED", "TIMEOUT"} : phases' = [phases EXCEPT ![name] = r]
        /\ GoOn(after)
     \/ ~HasPhase(name) /\ GoOn(without) /\ UNCHANGED phases
     \/ name = "measurement" /\ GiveUp("INTERNAL_ERROR") /\ UNCHANGED phases
  /\ UNCHANGED <<sched, gready, gfile>>

\* _require_phase
PhaseStatus(name) ==
  [treatment |-> [FAILED |-> "TREATMENT_FAILED", TIMEOUT |-> "TREATMENT_TIMEOUT"],
   warmup |-> [FAILED |-> "WARMUP_FAILED", TIMEOUT |-> "WARMUP_TIMEOUT"],
   measurement |-> [FAILED |-> "BENCH_FAILED", TIMEOUT |-> "BENCH_TIMEOUT"]][name][phases[name]]

\* The end of _run_treatment: the scheduler, the phase, then the outcome it wrote. The
\* wrong form goes on after an outcome that says stop.
AfterTreatmentGoesOn ==
  /\ gstep = "treated"
  /\ IF ~Alive THEN GiveUp("SCHEDULER_FAILED") /\ UNCHANGED phases
     ELSE IF phases.treatment # "PASS"
       THEN GiveUp(PhaseStatus("treatment")) /\ UNCHANGED phases
     ELSE \/ phases' = [phases EXCEPT !.treatment = "FAILED"] /\ GiveUp("TREATMENT_FAILED")
          \/ phases' = [phases EXCEPT !.treatment = "UNSAFE"] /\ GiveUp("TREATMENT_UNSAFE_STATE")
          \/ phases' = [phases EXCEPT !.treatment = "STOPPED"] /\ GoOn("post_treatment")
          \/ phases' = [phases EXCEPT !.treatment = "PROCEEDED"] /\ GoOn("post_treatment")
  /\ UNCHANGED <<sched, gready, gfile>>

AfterTreatment ==
  /\ gstep = "treated"
  /\ IF ~Alive THEN GiveUp("SCHEDULER_FAILED") /\ UNCHANGED phases
     ELSE IF phases.treatment # "PASS"
       THEN GiveUp(PhaseStatus("treatment")) /\ UNCHANGED phases
     ELSE \/ phases' = [phases EXCEPT !.treatment = "FAILED"] /\ GiveUp("TREATMENT_FAILED")
          \/ phases' = [phases EXCEPT !.treatment = "UNSAFE"] /\ GiveUp("TREATMENT_UNSAFE_STATE")
          \/ phases' = [phases EXCEPT !.treatment = "STOPPED"] /\ GiveUp("TREATMENT_STOPPED")
          \/ phases' = [phases EXCEPT !.treatment = "PROCEEDED"] /\ GoOn("post_treatment")
  /\ UNCHANGED <<sched, gready, gfile>>

\* After the warmup and the measurement: the scheduler first, then the phase.
AfterPhase(name, at, next) ==
  /\ gstep = at
  /\ IF ~Alive THEN GiveUp("SCHEDULER_FAILED")
     ELSE IF phases[name] # "PASS" THEN GiveUp(PhaseStatus(name))
     ELSE GoOn(next)
  /\ UNCHANGED <<sched, phases, gready, gfile>>

\* The cooldown, after which the run has passed.
Cooldown ==
  /\ gstep = "cooldown" /\ gstep' = "stop" /\ gstatus' = "PASS"
  /\ UNCHANGED <<sched, phases, gready, gfile>>

\* _stop_scheduler and its use in _finalize: a scheduler that has exited, or whose
\* group cannot be cleaned, spoils a run that had passed. The wrong form takes any
\* scheduler that is gone for a stopped one.
StopSchedulerUnchecked ==
  /\ gstep = "stop" /\ gstep' = "write"
  /\ sched' = IF sched = "up" THEN "stopped" ELSE sched
  /\ UNCHANGED <<phases, gstatus, gready, gfile>>

StopScheduler ==
  /\ gstep = "stop" /\ gstep' = "write"
  /\ \E clean \in BOOLEAN :
       gstatus' = IF gstatus = "PASS" /\ sched # "none" /\ (sched = "exited" \/ ~clean)
                  THEN "SCHEDULER_FAILED" ELSE gstatus
  /\ sched' = IF sched = "up" THEN "stopped" ELSE sched
  /\ UNCHANGED <<phases, gready, gfile>>

\* _write_result, by a temporary file and os.replace; then the executor exits.
WriteResult ==
  /\ gstep = "write" /\ gstep' = "exited"
  /\ \/ gready /\ gfile' = gstatus /\ UNCHANGED gstatus
     \/ gstatus' = "INTERNAL_ERROR" /\ UNCHANGED gfile
  /\ UNCHANGED <<sched, phases, gready>>

\* The scheduler under test exits by itself.
SchedulerExits ==
  /\ gstep # "off" /\ sched = "up" /\ sched' = "exited"
  /\ UNCHANGED <<gstep, phases, gstatus, gready, gfile>>

GuestNext ==
  /\ \/ PrepareOutput \/ StartScheduler \/ CheckScheduler
     \/ RunPhase("treatment", "treated", "warmup") \/ AfterTreatment
     \/ RunPhase("warmup", "warmed", "pre_measurement")
     \/ AfterPhase("warmup", "warmed", "post_warmup")
     \/ RunPhase("measurement", "measured", "measured")
     \/ AfterPhase("measurement", "measured", "cooldown")
     \/ Cooldown \/ StopScheduler \/ WriteResult \/ SchedulerExits
  /\ UNCHANGED hostVars

----------------------------------------------------------------------------
(* The host.                                                               *)

HostGoto(step) == hstep' = step /\ UNCHANGED hstatus
HostFail(status) == hstep' = "cleanup" /\ hstatus' = status

\* The exceptions of _run_libvirt, and one that no handler takes: it leaves the run
\* without a result.
HostFailures == {"LIBVIRT_TOOL_NOT_FOUND", "LIBVIRT_FAILED", "unhandled"}

\* _preflight_machine; a run it refuses is reported without a machine.
Preflight ==
  /\ hstep = "preflight"
  /\ \/ HostGoto("directory") /\ UNCHANGED verdict
     \/ hstep' = "reported" /\ verdict' = "PREFLIGHT_FAILED" /\ UNCHANGED hstatus
  /\ UNCHANGED <<guestVars, hrc, hirq, hcopy, hdir>>

\* The start of _run_libvirt: the runtime directory, then the overlay, the domain, SSH
\* and the staged files, where any command may fail.
SetUp ==
  /\ \/ /\ hstep = "directory"
        /\ \/ hdir' = TRUE /\ HostGoto("boot")
           \/ hdir' \in BOOLEAN /\ \E s \in HostFailures : HostFail(s)
        /\ UNCHANGED gstep
     \/ /\ hstep = "boot" /\ HostGoto("running") /\ gstep' = "prepare"
        /\ UNCHANGED hdir
     \/ /\ hstep = "boot"
        /\ \E s \in HostFailures \union {"BOOT_TIMEOUT"} : HostFail(s)
        /\ UNCHANGED <<gstep, hdir>>
  /\ UNCHANGED <<sched, phases, gstatus, gready, gfile, hrc, hirq, hcopy, verdict>>

\* _run_guest_command returns the executor's exit, or 255 when the connection is lost,
\* or runs out of time; the interrupts are counted after it returns.
GuestCommand ==
  /\ hstep = "running"
  /\ \/ /\ \/ gstep = "exited" /\ hrc' = IF gstatus = "PASS" THEN "zero" ELSE "nonzero"
           \/ hrc' = "nonzero"
        /\ hirq' \in BOOLEAN /\ HostGoto("copy")
     \/ (\E s \in HostFailures \union {"TIMEOUT"} : HostFail(s)) /\ UNCHANGED <<hrc, hirq>>
  /\ UNCHANGED <<guestVars, hcopy, hdir, verdict>>

\* _copy_guest_output
CopyOutput ==
  /\ hstep = "copy"
  /\ \/ hcopy' = gfile /\ HostGoto("cleanup")
     \/ hcopy' \in {"none", gfile} /\ \E s \in HostFailures : HostFail(s)
  /\ UNCHANGED <<guestVars, hrc, hirq, hdir, verdict>>

\* The finally of _run_libvirt. The domain is destroyed, which ends the guest, or the
\* failure of virsh is ignored; a directory that cannot be removed fails a run that
\* had not failed.
CleanUp ==
  /\ hstep = "cleanup" /\ hstep' = "report"
  /\ \/ ~trial.destroy /\ UNCHANGED <<gstep, hdir, hstatus>>
     \/ /\ trial.destroy /\ gstep' \in {"off", gstep}
        /\ \/ hdir' = FALSE /\ UNCHANGED hstatus
           \/ /\ hdir /\ UNCHANGED hdir
              /\ hstatus' = IF hstatus = "none" THEN "LIBVIRT_FAILED" ELSE hstatus
  /\ UNCHANGED <<sched, phases, gstatus, gready, gfile, hrc, hirq, hcopy, verdict>>

\* _guest_run_status: the guest's status, unless its command did not exit with 0 or
\* interrupts reached the pinned CPUs.
GuestRunStatus ==
  IF hcopy = "none" \/ (hcopy = "PASS" /\ hrc # "zero") THEN "FAILED"
  ELSE IF hcopy = "PASS" /\ hirq THEN "INTERRUPT_CONTAMINATED"
  ELSE hcopy

Report ==
  /\ hstep = "report"
  /\ IF hstatus = "unhandled" THEN hstep' = "raised" /\ UNCHANGED verdict
     ELSE /\ hstep' = "reported"
          /\ verdict' = IF hstatus # "none" THEN hstatus ELSE GuestRunStatus
  /\ UNCHANGED <<guestVars, hstatus, hrc, hirq, hcopy, hdir>>

TrialNext ==
  /\ UNCHANGED trial
  /\ \/ GuestNext
     \/ Preflight \/ SetUp \/ GuestCommand \/ CopyOutput \/ CleanUp \/ Report

----------------------------------------------------------------------------
\* A run is reported as passed only if all of it went well: the scheduler under test
\* was up from its start until the executor stopped it, also between the last check and
\* the stop, every phase of the plan passed and the treatment said to proceed, no
\* interrupt spoiled the measurement and, where the domain is to be destroyed, nothing
\* of its directory is left (_stop_scheduler, _guest_run_status, _run_libvirt).
PassIsEarned ==
  verdict = "PASS" =>
    /\ sched = IF trial.scheduler THEN "stopped" ELSE "none"
    /\ phases = [treatment |-> IF trial.treatment THEN "PROCEEDED" ELSE "SKIPPED",
                 warmup |-> IF trial.warmup THEN "PASS" ELSE "SKIPPED",
                 measurement |-> "PASS"]
    /\ ~hirq /\ (trial.destroy => ~hdir)
=============================================================================
