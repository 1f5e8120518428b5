------------------------------ MODULE RuleMiss ------------------------------
(***************************************************************************)
(* How the scheduler scx_agent_classed tells the tuning agent of comms     *)
(* that no rule matches. BPF programs note a miss in a map and, the first  *)
(* time, in a ring buffer; the main loop of the scheduler collects the     *)
(* misses in an ActivationBatcher, one activation at a time; a worker      *)
(* thread, the ActivationNotifier, sends it and brings back the outcome    *)
(* (activation.rs, scheduler.rs, policy.rs, bpf/main.bpf.c).               *)
(***************************************************************************)
EXTENDS Naturals, FiniteSets, Sequences

CONSTANTS
  MissComms,
  Allowed,      \* --activation-comm
  MaxBatch,     \* MAX_ACTIVATION_COMMS
  RingSize,     \* events the ring buffer holds
  MissEntries   \* keys the miss map holds before it evicts one

ASSUME MissAssumption == Allowed \subseteq MissComms /\ MaxBatch \in Nat \ {0}

VARIABLES
  rules,        \* comms with an effective rule
  looking,      \* CPUs that found no rule for a comm and have yet to note it
  missMap,      \* rule_miss_comms
  ring,         \* rule_miss_events
  missing, timed, inFlight,   \* the batcher's pending, in_flight; timed: pending_since is set
  loop,         \* where the main loop is: control, completion, collect, ended
  commands, completions,      \* the channels of the notifier, each for one item
  stop,         \* the stop channel holds its token
  worker,       \* wait, send, deliver, ended
  failed        \* the main loop ended with an error

missVars == <<rules, looking, missMap, ring, missing, timed, inFlight, loop,
          commands, completions, stop, worker, failed>>

notifier == <<commands, completions, stop, worker>>
batcher == <<missing, timed, inFlight>>
bpf == <<looking, missMap, ring>>

----------------------------------------------------------------------------
(* BPF programs: classify_key and record_rule_miss.                        *)

Lookup(c) ==
  /\ loop # "ended" /\ c \notin rules /\ looking' = looking \union {c}
  /\ UNCHANGED <<rules, missMap, ring, batcher, loop, notifier, failed>>

\* Only a key that is not yet in the map is announced; a full ring drops the
\* event, and a full map evicts the key that was used least recently.
RecordMiss(c) ==
  /\ c \in looking /\ looking' = looking \ {c}
  /\ IF c \in missMap THEN UNCHANGED <<missMap, ring>>
     ELSE /\ IF Cardinality(missMap) < MissEntries THEN missMap' = missMap \union {c}
             ELSE \E old \in missMap : missMap' = (missMap \ {old}) \union {c}
          /\ ring' = IF Cardinality(ring) < RingSize THEN ring \union {c} ELSE ring
  /\ UNCHANGED <<rules, batcher, loop, notifier, failed>>

----------------------------------------------------------------------------
(* The main loop. Batcher operations work on [missing, timed, inFlight].   *)

Batcher == [missing |-> missing, timed |-> timed, inFlight |-> inFlight]

Becomes(b) == missing' = b.missing /\ timed' = b.timed /\ inFlight' = b.inFlight

\* ActivationBatcher::observe, for a set of comms.
ObserveAll(b, C) ==
  LET new == C \ b.inFlight IN
  [b EXCEPT !.missing = @ \union new, !.timed = @ \/ new \ b.missing # {}]

RemoveMissing(b, C) ==
  LET rest == b.missing \ C IN [b EXCEPT !.missing = rest, !.timed = @ /\ rest # {}]

Before(c, C) == {d \in C : d < c}

\* take_ready takes a prefix of the sorted set.
Batch(b) == {c \in b.missing : Cardinality(Before(c, b.missing)) < MaxBatch}

\* Variant: a batch may be taken while another is in flight.
ReadyWhileInFlight(b, elapsed) ==
  b.missing # {} /\ (Cardinality(b.missing) >= MaxBatch \/ (b.timed /\ elapsed))

Ready(b, elapsed) ==
  /\ b.inFlight = {} /\ b.missing # {}
  /\ Cardinality(b.missing) >= MaxBatch \/ (b.timed /\ elapsed)

Taken(b) ==
  LET rest == b.missing \ Batch(b) IN
  [missing |-> rest, timed |-> b.timed /\ rest # {}, inFlight |-> Batch(b)]

\* poll_control: a rule is set, which clears the comm's miss, or removed, or
\* nothing is asked.
PollControl ==
  /\ loop = "control" /\ loop' = "completion"
  /\ \/ \E c \in MissComms : /\ rules' = rules \union {c}
                         /\ missMap' = missMap \ {c}
                         /\ Becomes(RemoveMissing(Batcher, {c}))
     \/ \E c \in rules : rules' = rules \ {c} /\ UNCHANGED <<missMap, batcher>>
     \/ UNCHANGED <<rules, missMap, batcher>>
  /\ UNCHANGED <<looking, ring, notifier, failed>>

\* poll_activation_completion: the batch is finished whatever its outcome; comms
\* that have got a rule are cleared.
PollCompletion ==
  /\ loop = "completion" /\ loop' = "collect"
  /\ IF completions = {} THEN UNCHANGED <<missMap, batcher, completions>>
     ELSE /\ completions' = {}
          /\ missMap' = missMap \ (inFlight \intersect rules)
          /\ Becomes(RemoveMissing([Batcher EXCEPT !.inFlight = {}], inFlight \intersect rules))
  /\ UNCHANGED <<rules, looking, ring, commands, stop, worker, failed>>

\* record_rule_miss: comms outside the allow list are ignored, comms with a rule
\* are cleared, the others observed.
Recorded(C) == ObserveAll(RemoveMissing(Batcher, C \intersect Allowed \intersect rules),
                          (C \intersect Allowed) \ rules)

\* Variant: the miss map is never scanned.
CollectRing(rescan, elapsed) ==
  /\ loop = "collect" /\ loop' = "control"
  /\ LET b == RemoveMissing(Recorded(ring), missing \intersect rules)
     IN IF Ready(b, elapsed)
          THEN Becomes(Taken(b)) /\ commands' = Batch(b)
          ELSE Becomes(b) /\ UNCHANGED commands
  /\ ring' = {}
  /\ UNCHANGED <<rules, looking, missMap, completions, stop, worker, failed>>

\* collect_rule_misses: the ring is drained, the map is scanned when the interval
\* has passed, resolved misses are discarded, and a batch that is ready starts.
Collect(rescan, elapsed) ==
  /\ loop = "collect"
  /\ LET keys == ring \union (IF rescan THEN missMap ELSE {})
         seen == Recorded(keys)
         resolved == (seen.missing \union (keys \intersect Allowed)) \intersect rules
         b == RemoveMissing(seen, resolved)
     IN /\ ring' = {}
        /\ missMap' = missMap \ resolved
        /\ \/ ~Ready(b, elapsed) /\ Becomes(b) /\ loop' = "control" /\ UNCHANGED <<commands, failed>>
           \/ /\ Ready(b, elapsed) /\ Becomes(Taken(b))
              /\ IF commands = {} THEN commands' = Batch(b) /\ loop' = "control" /\ UNCHANGED failed
                 ELSE failed' = TRUE /\ loop' = "ended" /\ UNCHANGED commands   \* Busy
  /\ UNCHANGED <<rules, looking, completions, stop, worker>>

\* Shutdown or an error elsewhere: the notifier is dropped, which closes the
\* command channel, sends the stop token and joins the worker.
Shutdown ==
  /\ loop = "control" /\ loop' = "ended" /\ stop' = TRUE
  /\ UNCHANGED <<rules, bpf, batcher, commands, completions, worker, failed>>

----------------------------------------------------------------------------
(* The worker of the notifier.                                             *)

\* Variant: the closed command channel is not noticed.
WorkerWaitsOpen ==
  /\ worker = "wait"
  /\ \/ stop /\ stop' = FALSE /\ worker' = "ended" /\ UNCHANGED commands
     \/ commands # {} /\ commands' = {} /\ worker' = "send" /\ UNCHANGED stop
  /\ UNCHANGED <<rules, bpf, batcher, loop, completions, failed>>

\* select! over the stop channel and the commands; a closed and empty command
\* channel ends the thread.
WorkerWaits ==
  /\ worker = "wait"
  /\ \/ stop /\ stop' = FALSE /\ worker' = "ended" /\ UNCHANGED commands
     \/ commands # {} /\ commands' = {} /\ worker' = "send" /\ UNCHANGED stop
     \/ commands = {} /\ loop = "ended" /\ worker' = "ended" /\ UNCHANGED <<commands, stop>>
  /\ UNCHANGED <<rules, bpf, batcher, loop, completions, failed>>

\* send_activation ends with an answer, an error or its deadline, or because it
\* takes the stop token.
WorkerSends ==
  /\ worker = "send" /\ worker' = "deliver"
  /\ stop' \in {stop, FALSE}
  /\ UNCHANGED <<rules, bpf, batcher, loop, commands, completions, failed>>

WorkerDelivers ==
  /\ worker = "deliver"
  /\ \/ stop /\ stop' = FALSE /\ worker' = "ended" /\ UNCHANGED completions
     \/ completions = {} /\ completions' = {"done"} /\ worker' = "wait" /\ UNCHANGED stop
  /\ UNCHANGED <<rules, bpf, batcher, loop, commands, failed>>

Worker == WorkerWaits \/ WorkerSends \/ WorkerDelivers

----------------------------------------------------------------------------
MissInit ==
  /\ rules = {} /\ looking = {} /\ missMap = {} /\ ring = {}
  /\ missing = {} /\ timed = FALSE /\ inFlight = {}
  /\ loop = "control"
  /\ commands = {} /\ completions = {} /\ stop = FALSE /\ worker = "wait"
  /\ failed = FALSE

Loop == PollControl \/ PollCompletion \/ \E rescan, elapsed \in BOOLEAN : Collect(rescan, elapsed)

MissNext ==
  \/ \E c \in MissComms : Lookup(c) \/ RecordMiss(c)
  \/ Loop \/ Shutdown \/ Worker

MissSpec == MissInit /\ [][MissNext]_missVars

----------------------------------------------------------------------------
\* Where the notifier has an activation.
UnderWay ==
  {place \in {"queued", "worker", "done"} :
     \/ place = "queued" /\ commands # {}
     \/ place = "worker" /\ worker \in {"send", "deliver"}
     \/ place = "done" /\ completions # {}}

\* The batcher and the notifier agree on whether an activation is under way, and
\* only one is: the loop never finds the command channel full, which would stop
\* the scheduler (start_activation, Busy).
OneActivation ==
  /\ ~failed
  /\ loop # "ended" =>
       IF inFlight = {} THEN UnderWay = {} ELSE \E place \in UnderWay : UnderWay = {place}

\* A miss does not stay in the map unnoticed: it is sent, also when its event was
\* dropped or an earlier activation failed, or it is cleared, also when a CPU that
\* had looked the comm up before its rule was published notes the miss afterwards.
\* This is so for the comms that fit into a batch with all that precede them in the
\* order; a later one may be left out while earlier ones miss again and again.
MissIsSettled ==
  \A c \in {x \in Allowed : Cardinality(Before(x, Allowed)) < MaxBatch} :
    c \in missMap ~> (c \in inFlight \/ c \notin missMap \/ loop = "ended")

\* The worker ends after a shutdown, so that the drop of the notifier returns, even
\* when the stop token was taken in the middle of an activation.
WorkerEnds == loop = "ended" ~> worker = "ended"
=============================================================================
