----------------------------- MODULE StealClaim -----------------------------
(***************************************************************************)
(* The dispatch path of the scheduler's BPF program (bpf/main.bpf.c): a    *)
(* CPU takes a task of its own queue or, if it has none, steals one from   *)
(* another CPU, in both cases under a claim on the source that is one word *)
(* changed by compare-and-swap. Nobody waits for a claim: a CPU that finds *)
(* its own queue claimed gives up and kicks itself.                        *)
(*                                                                         *)
(* One class of tasks; a queue is its length; the task that ran last has   *)
(* left (try_keep_running is not modelled). The load comparison of         *)
(* gated_steal is left to chance, its checks of queues and runnable tasks  *)
(* are kept.                                                               *)
(***************************************************************************)
EXTENDS Naturals, FiniteSets

CONSTANTS
  CPUs,
  None,
  MaxQueue    \* bound of the model: tasks queued on a CPU

ASSUME ClaimAssumption == None \notin CPUs \X {"local", "steal"} /\ MaxQueue \in Nat

VARIABLES
  queue, running,   \* per CPU: tasks queued; whether a task runs
  claim,            \* per CPU: steal_claim
  frame,            \* per CPU: the locals of agent_classed_dispatch
  kicked,           \* per CPU: dispatch will be called
  errors            \* nr_task_state_errors

stealVars == <<queue, running, claim, frame, kicked, errors>>

----------------------------------------------------------------------------
(* A frame: where the CPU is, the source it claims, local_claim_busy and   *)
(* how often it tried its own queue. Outside dispatch it is Away.          *)

Away(cpu) == [pc |-> "away", source |-> cpu, busy |-> FALSE, tries |-> 0]

At(cpu, label) == frame[cpu].pc = label
Source(cpu) == frame[cpu].source
Goto(cpu, label) == frame' = [frame EXCEPT ![cpu].pc = label]
LeaveDispatch(cpu) == frame' = [frame EXCEPT ![cpu] = Away(cpu)]

Acquire(cpu, src, purpose) ==
  claim[src] = None /\ claim' = [claim EXCEPT ![src] = <<cpu, purpose>>]

Release(cpu, src, purpose) ==
  IF claim[src] = <<cpu, purpose>>
    THEN claim' = [claim EXCEPT ![src] = None] /\ errors' = errors
    ELSE claim' = claim /\ errors' = TRUE

----------------------------------------------------------------------------
(* The world: a task is queued, which kicks the CPU; a queued one goes to  *)
(* sleep or changes its CPUs; a running one stops.                         *)

Enqueue(cpu) ==
  /\ queue[cpu] < MaxQueue
  /\ queue' = [queue EXCEPT ![cpu] = @ + 1]
  /\ kicked' = [kicked EXCEPT ![cpu] = TRUE]
  /\ UNCHANGED <<running, claim, frame, errors>>

Dequeue(cpu) ==
  /\ queue[cpu] > 0
  /\ queue' = [queue EXCEPT ![cpu] = @ - 1]
  /\ UNCHANGED <<running, claim, frame, kicked, errors>>

Stop(cpu) ==
  /\ running[cpu] /\ At(cpu, "away")
  /\ running' = [running EXCEPT ![cpu] = FALSE]
  /\ kicked' = [kicked EXCEPT ![cpu] = TRUE]
  /\ UNCHANGED <<queue, claim, frame, errors>>

----------------------------------------------------------------------------
(* agent_classed_dispatch, dispatch_local_claimed.                         *)

Dispatch(cpu) ==
  /\ At(cpu, "away") /\ kicked[cpu] /\ ~running[cpu]
  /\ kicked' = [kicked EXCEPT ![cpu] = FALSE]
  /\ Goto(cpu, IF queue[cpu] > 0 THEN "local" ELSE "check")
  /\ UNCHANGED <<queue, running, claim, errors>>

\* Variant: the claim is not looked at.
LocalClaimBlind(cpu) ==
  /\ At(cpu, "local")
  /\ claim' = [claim EXCEPT ![cpu] = <<cpu, "local">>]
  /\ frame' = [frame EXCEPT ![cpu].tries = @ + 1, ![cpu].pc = "move"]
  /\ UNCHANGED <<queue, running, kicked, errors>>

LocalClaim(cpu) ==
  /\ At(cpu, "local")
  /\ \/ /\ Acquire(cpu, cpu, "local")
        /\ frame' = [frame EXCEPT ![cpu].tries = @ + 1, ![cpu].pc = "move"]
     \/ /\ claim[cpu] # None /\ UNCHANGED claim
        /\ frame' = [frame EXCEPT ![cpu].tries = @ + 1, ![cpu].pc = "retry", ![cpu].busy = TRUE]
  /\ UNCHANGED <<queue, running, kicked, errors>>

\* dispatch_from_cpu, for both callers: a task that is present is moved, except that
\* a remote one may be too recently migrated or not allowed on this CPU.
Move(cpu) ==
  /\ At(cpu, "move") \/ At(cpu, "take")
  /\ \/ /\ queue[Source(cpu)] > 0
        /\ queue' = [queue EXCEPT ![Source(cpu)] = @ - 1]
        /\ running' = [running EXCEPT ![cpu] = TRUE]
     \/ /\ At(cpu, "take") \/ queue[Source(cpu)] = 0
        /\ UNCHANGED <<queue, running>>
  /\ Goto(cpu, IF At(cpu, "move") THEN "moved" ELSE "taken")
  /\ UNCHANGED <<claim, kicked, errors>>

LocalRelease(cpu) ==
  /\ At(cpu, "moved")
  /\ Release(cpu, cpu, "local")
  /\ IF running[cpu] THEN LeaveDispatch(cpu) ELSE Goto(cpu, "retry")
  /\ UNCHANGED <<queue, running, kicked>>

\* The queue may have changed since: one more attempt if a task is present.
Retry(cpu) ==
  /\ At(cpu, "retry")
  /\ Goto(cpu, IF frame[cpu].tries < 2 /\ queue[cpu] > 0 THEN "local" ELSE "check")
  /\ UNCHANGED <<queue, running, claim, kicked, errors>>


\* A CPU with work of its own does not steal; one that could not get at its work
\* because of a claim kicks itself.
Check(cpu) ==
  /\ At(cpu, "check")
  /\ IF queue[cpu] > 0
       THEN kicked' = [kicked EXCEPT ![cpu] = @ \/ frame[cpu].busy] /\ LeaveDispatch(cpu)
       ELSE UNCHANGED kicked /\ Goto(cpu, "scan")
  /\ UNCHANGED <<queue, running, claim, errors>>

----------------------------------------------------------------------------
(* gated_steal                                                             *)

HasLocalWork(cpu) == queue[cpu] > 0 \/ running[cpu]

\* A queued task, and two runnable ones.
Worth(src) == queue[src] > 0 /\ (running[src] \/ queue[src] >= 2)

Scan(cpu) ==
  /\ At(cpu, "scan")
  /\ \/ LeaveDispatch(cpu)
     \/ \E src \in CPUs \ {cpu} :
          /\ ~HasLocalWork(cpu) /\ Worth(src)
          /\ frame' = [frame EXCEPT ![cpu].pc = "claim", ![cpu].source = src]
  /\ UNCHANGED <<queue, running, claim, kicked, errors>>

StealSource(cpu) ==
  /\ At(cpu, "claim")
  /\ \/ Acquire(cpu, Source(cpu), "steal") /\ Goto(cpu, "revalidate")
     \/ claim[Source(cpu)] # None /\ UNCHANGED claim /\ LeaveDispatch(cpu)
  /\ UNCHANGED <<queue, running, kicked, errors>>

\* What was sampled without the claim is checked again under it. A source that is
\* no longer worth it, or not loaded enough, is released.
Revalidate(cpu) ==
  /\ At(cpu, "revalidate")
  /\ \/ /\ ~HasLocalWork(cpu) /\ Worth(Source(cpu))
        /\ Goto(cpu, "take") /\ UNCHANGED <<claim, errors>>
     \/ Release(cpu, Source(cpu), "steal") /\ LeaveDispatch(cpu)
  /\ UNCHANGED <<queue, running, kicked>>

StealRelease(cpu) ==
  /\ At(cpu, "taken")
  /\ Release(cpu, Source(cpu), "steal")
  /\ LeaveDispatch(cpu)
  /\ UNCHANGED <<queue, running, kicked>>

----------------------------------------------------------------------------
StealInit ==
  /\ queue \in [CPUs -> 0 .. MaxQueue]
  /\ running = [c \in CPUs |-> FALSE]
  /\ claim = [c \in CPUs |-> None]
  /\ frame = [c \in CPUs |-> Away(c)]
  /\ kicked = [c \in CPUs |-> TRUE]
  /\ errors = FALSE

Cpu(c) ==
  \/ Dispatch(c) \/ LocalClaim(c) \/ Move(c) \/ LocalRelease(c) \/ Retry(c) \/ Check(c)
  \/ Scan(c) \/ StealSource(c) \/ Revalidate(c) \/ StealRelease(c)

StealNext == \E c \in CPUs : Cpu(c) \/ Enqueue(c) \/ Dequeue(c) \/ Stop(c)

StealSpec == StealInit /\ [][StealNext]_stealVars

----------------------------------------------------------------------------
\* The CPUs between acquire and release for a source.
Inside(src) ==
  {c \in CPUs : /\ Source(c) = src
                /\ frame[c].pc \in {"move", "moved", "revalidate", "take", "taken"}}

\* A source is claimed exactly while one CPU is between its acquire and its release:
\* two never move tasks from the same source at a time, no path leaves a claim
\* behind, and no release finds another's claim, which would be counted in
\* nr_task_state_errors.
ClaimIsHeldByOne ==
  /\ ~errors
  /\ \A src \in CPUs :
       \/ claim[src] = None /\ Inside(src) = {}
       \/ \E c \in CPUs : claim[src] \in {<<c, "local">>, <<c, "steal">>} /\ Inside(src) = {c}

NoArrival == ~ \E c \in CPUs : Enqueue(c)

\* When no more tasks arrive, a CPU with queued tasks gets to run one, also when its
\* queue was claimed by a thief at each moment it looked. (While tasks keep arriving
\* a thief may be ahead of every look; nothing in the code excludes it.)
QueuedTaskRuns ==
  <>[][NoArrival]_stealVars => \A c \in CPUs : queue[c] > 0 ~> (running[c] \/ queue[c] = 0)
=============================================================================
