------------------------------- MODULE Daemon -------------------------------
(***************************************************************************)
(* The runtime process: Runtime::new and run_daemon (runtime/daemon.rs),   *)
(* the activation kernel (activation/kernel.rs) and its two sources        *)
(* (activation/source/unix.rs, timer.rs), around the episodes of module    *)
(* Episode.  Time is a monotonic clock that advances at any moment.        *)
(***************************************************************************)
EXTENDS Episode

CONSTANTS
  EventType,      \* event types of the clients
  Cooldown,       \* safety.cooldown_ms
  DedupeWindow,   \* dedupe_window
  TimerInterval,  \* activation.timer_interval_ms; 0 is no timer
  MaxTime,        \* bound on the clock
  MaxConnections  \* MAX_CONNECTIONS_PER_POLL

ASSUME TimeAssumption ==
  /\ Cooldown \in Nat /\ DedupeWindow \in Nat /\ TimerInterval \in Nat
  /\ MaxTime \in Nat /\ MaxConnections \in Nat
  /\ "none" \notin EventType

VARIABLES
  clock,
  kernel,     \* ActivationKernel; an Option is a set of at most one element
  loop,       \* where run_daemon is
  queue,      \* requests of this poll that are still to be processed
  nextTick,   \* TimerSource
  unproven,   \* some transaction's log is neither committed nor rolled back
  cooled,     \* history: when this process last ended an episode with an outcome
  cause       \* why the process is down, "none" while it runs

daemonVars == <<episodeVars, clock, kernel, loop, queue, nextTick, unproven, cooled, cause>>

Event == [type : EventType \cup {"timer"}, severity : {"Info", "Critical"}]
Request == [source : {"unix", "timer"}, event : Event, wait : BOOLEAN]

ActivationState == {"Sleeping", "Active", "Cooldown", "Frozen"}

---------------------------------------------------------------------------
(* ActivationKernel *)

NewKernel == [state |-> "Sleeping", until |-> {}, lastType |-> "none", lastWake |-> {}]

\* A cooldown without a deadline never elapses.
Elapsed(k) ==
  IF k.state = "Cooldown" /\ \E u \in k.until : clock >= u
    THEN [k EXCEPT !.state = "Sleeping", !.until = {}] ELSE k

Duplicate(k, event) ==
  k.lastType = event.type /\ \E w \in k.lastWake : clock - w < DedupeWindow

\* Variant: a critical event does not wait for the cooldown.
AcceptsCriticalAlways(k, event) ==
  /\ Elapsed(k).state # "Frozen"
  /\ event.severity = "Critical" \/ (Elapsed(k).state # "Cooldown" /\ ~Duplicate(k, event))

\* accept_at: its answer, and the kernel after it.
Accepts(k, event) ==
  /\ Elapsed(k).state \notin {"Frozen", "Cooldown"}
  /\ Duplicate(k, event) => event.severity = "Critical"

Accepted(event) == [state |-> "Active", until |-> {}, lastType |-> event.type,
                    lastWake |-> {clock}]

\* The configuration limits cooldown_ms to a day: clock + Cooldown is an Instant.
CooledDown(k) == [k EXCEPT !.state = "Cooldown", !.until = {clock + Cooldown}]

Freeze(k) == [k EXCEPT !.state = "Frozen", !.until = {}]

\* Variant: only the deadline is cleared.
StaysAwake(k) == [k EXCEPT !.until = {}]

Sleep(k) == [k EXCEPT !.state = "Sleeping", !.until = {}]

---------------------------------------------------------------------------
(* run_daemon *)

\* The values of a new EpisodeSession; auditFailed is of the process.
FreshEpisode ==
  /\ Becomes(State(NewMachine, FALSE, "None", "None", 0, 0))
  /\ at' = "start" /\ outcome' = "None"
  /\ calls' = <<>> /\ round' = "action" /\ actionRounds' = 0 /\ skillRounds' = 0

\* Leaving run_daemon with an error ends the process.
Exit(why) == loop' = "down" /\ cause' = why /\ queue' = <<>> /\ kernel' = NewKernel

Tick ==
  /\ clock < MaxTime
  /\ clock' = clock + 1
  /\ UNCHANGED <<episodeVars, kernel, loop, queue, nextTick, unproven, cooled, cause>>

ClientRequest ==
  {r \in Request : r.source = "unix" /\ r.event.type \in EventType}

\* UnixIpcSource::poll: bad clients are skipped; a listener error propagates.
PollUnix ==
  /\ loop = "unix" /\ queue = <<>>
  /\ \/ /\ \E n \in 0 .. MaxConnections : queue' \in [1 .. n -> ClientRequest]
        /\ loop' = "unix requests"
        /\ UNCHANGED <<kernel, cause>>
     \/ Exit("listener")
  /\ UNCHANGED <<episodeVars, clock, nextTick, unproven, cooled>>

TimerRequest ==
  [source |-> "timer", event |-> [type |-> "timer", severity |-> "Info"], wait |-> FALSE]

\* TimerSource::poll
PollTimer ==
  /\ loop = "unix requests" /\ queue = <<>>
  /\ IF TimerInterval > 0 /\ clock >= nextTick
       THEN nextTick' = clock + TimerInterval /\ queue' = <<TimerRequest>>
       ELSE UNCHANGED <<nextTick, queue>>
  /\ loop' = "timer requests"
  /\ UNCHANGED <<episodeVars, clock, kernel, unproven, cooled, cause>>

\* The sleep at the end of the loop's body.
NextIteration ==
  /\ loop = "timer requests" /\ queue = <<>>
  /\ loop' = "unix"
  /\ UNCHANGED <<episodeVars, clock, kernel, queue, nextTick, unproven, cooled, cause>>

\* The end of process_unix_activation: a client that waits is answered; one
\* that hung up makes the write, and with it run_daemon, fail.
Respond(k) ==
  \/ /\ queue' = Tail(queue) /\ kernel' = k /\ UNCHANGED cause
     /\ loop' = IF Head(queue).source = "timer" THEN "timer requests" ELSE "unix requests"
  \/ Head(queue).wait /\ Exit("client")

\* An audit record of the daemon, and the answer to the request.
RecordAndRespond(k) ==
  \/ Recorded /\ Respond(k)
  \/ NotRecorded /\ Exit("audit")

Processing == loop \in {"unix requests", "timer requests"} /\ queue # <<>>

\* process_activation_request: rejected.
Reject ==
  /\ Processing
  /\ ~Accepts(kernel, Head(queue).event)
  /\ RecordAndRespond(Elapsed(kernel))
  /\ UNCHANGED <<session, rounds, at, outcome, clock, nextTick, unproven, cooled>>

\* Accepted, but the reasoner or the coordinator cannot be constructed.
NoReasoner ==
  /\ Processing
  /\ Accepts(kernel, Head(queue).event)
  /\ RecordAndRespond(Sleep(Accepted(Head(queue).event)))
  /\ UNCHANGED <<session, rounds, at, outcome, clock, nextTick, unproven, cooled>>

StartEpisode ==
  /\ Processing
  /\ Accepts(kernel, Head(queue).event)
  /\ kernel' = Accepted(Head(queue).event)
  /\ loop' = "episode"
  /\ UNCHANGED <<episodeVars, clock, queue, nextTick, unproven, cooled, cause>>

EpisodeStep ==
  /\ loop = "episode"
  /\ EpisodeNext
  /\ UNCHANGED <<clock, kernel, loop, queue, nextTick, unproven, cooled, cause>>

\* The log is left without a proof of either outcome.
Unproven == durable \in {"Open", "Unknown"}

\* Variant: only a log whose outcome is unknown is a reason to freeze.
SettledUnlessUnknown(k) ==
  IF outcome = "RecoveryRequired" /\ durable = "Unknown" THEN Freeze(k) ELSE CooledDown(k)

\* The kernel after an episode that returned an outcome.
SettledKernel(k) == IF outcome = "RecoveryRequired" THEN Freeze(k) ELSE CooledDown(k)

\* The rest of process_activation_request; the session is dropped.
EpisodeDone ==
  /\ loop = "episode" /\ at = "done"
  /\ \/ outcome = "Error" /\ RecordAndRespond(Sleep(kernel)) /\ UNCHANGED cooled
     \/ outcome # "Error" /\ Recorded /\ Respond(SettledKernel(kernel)) /\ cooled' = {clock}
  /\ unproven' = (unproven \/ Unproven)
  /\ FreshEpisode
  /\ UNCHANGED <<clock, nextTick>>

\* The process is killed at any moment.
Kill ==
  /\ loop # "down"
  /\ Exit("killed")
  /\ unproven' = (unproven \/ (loop = "episode" /\ Unproven))
  /\ FreshEpisode
  /\ UNCHANGED <<auditFailed, clock, nextTick, cooled>>

\* Runtime::new recovers every pending transaction and then opens the sources.
\* What follows the recovery may still fail; a startup whose recovery is
\* blocked changes nothing.
Restart ==
  /\ loop = "down"
  /\ unproven' = FALSE
  /\ \/ /\ loop' = "unix" /\ nextTick' = clock
        /\ cooled' = {} /\ auditFailed' = FALSE /\ cause' = "none"
     \/ /\ unproven
        /\ UNCHANGED <<loop, nextTick, cooled, auditFailed, cause>>
  /\ UNCHANGED <<session, rounds, at, outcome, clock, kernel, queue>>

DaemonInit ==
  /\ EpisodeInit
  /\ clock = 0
  /\ kernel = NewKernel
  /\ loop = "unix"
  /\ queue = <<>>
  /\ nextTick = 0
  /\ unproven = FALSE
  /\ cooled = {}
  /\ cause = "none"

LoopStep ==
  \/ PollUnix \/ PollTimer \/ NextIteration
  \/ Reject \/ NoReasoner \/ StartEpisode \/ EpisodeStep \/ EpisodeDone

DaemonNext == Tick \/ LoopStep \/ Kill \/ Restart

DaemonSpec == DaemonInit /\ [][DaemonNext]_daemonVars

\* The loop of a running process goes on.
FairDaemonSpec == DaemonSpec /\ WF_daemonVars(LoopStep)

---------------------------------------------------------------------------
(* Properties *)

\* Every variable of the daemon has its type; both round counters of the
\* coordinator stay within their limits over any number of episodes.
DaemonTypeOK ==
  /\ EpisodeTypeOK
  /\ clock \in 0 .. MaxTime
  /\ kernel \in [state : ActivationState, until : SUBSET Nat,
                 lastType : EventType \cup {"timer", "none"}, lastWake : SUBSET Nat]
  /\ loop \in {"unix", "unix requests", "timer requests", "episode", "down"}
  /\ queue \in Seq(Request)
  /\ nextTick \in Nat
  /\ unproven \in BOOLEAN
  /\ cooled \in SUBSET Nat
  /\ cause \in {"none", "listener", "audit", "client", "killed"}

\* The kernel is Active exactly while an episode runs: every way out of an
\* accepted request puts it to sleep, cools it down or freezes it
\* (process_activation_request).
ActiveInEpisodeOnly == (kernel.state = "Active") <=> (loop = "episode")

\* While a transaction is left unproven the running kernel is frozen, unless
\* an audit record was lost (process_activation_request after finish_session).
FrozenUnlessAuditLost ==
  unproven /\ loop # "down" /\ ~auditFailed => kernel.state = "Frozen"

\* The same without the exception: "RecoveryRequired: Runtime cannot prove
\* baseline or committed state; activation freezes" (ARCHITECTURE.md).
FrozenWhileUnproven == unproven /\ loop # "down" => kernel.state = "Frozen"

\* No event, whatever its severity or source, starts an episode before the
\* cooldown after the last episode that returned an outcome is over (accept_at,
\* cooldown_at): a cooldown never ends early.  An episode that returned an error,
\* for one because its last audit record was lost, is followed by none.
CooldownHonoured ==
  loop = "episode" => \A t \in cooled : clock >= t + Cooldown

\* The activation kernel is what the loop and the past episodes make of it, in any
\* interleaving of client events, timer ticks, failed audit records, clients that
\* hang up, kills and restarts: Active in an episode only, frozen over an unproven
\* transaction unless an audit record was lost, and not awake before the cooldown
\* is over.
KernelIsSettled ==
  DaemonTypeOK /\ ActiveInEpisodeOnly /\ FrozenUnlessAuditLost /\ CooldownHonoured

\* "A bad client is isolated to this connection" (unix.rs): no client brings
\* the daemon down.
ClientIsolated == cause # "client"

\* The daemon always comes back to its socket, or is down: no episode and no
\* batch of requests holds the loop for ever (run_daemon).
KeepsPolling == []<>(loop \in {"unix", "down"})

=============================================================================
