------------------------------ MODULE PairPool ------------------------------
(***************************************************************************)
(* The pairs of an experiment on the isolated CPUs of one host             *)
(* (bench/scripts/run.py: _HostResourcePool, _run_pairs and                *)
(* _run_pairs_parallel). A pair runs its baseline and its candidate one    *)
(* after the other on whole cores that are its own. The main thread        *)
(* launches the pairs that fit, waits for one that ends, and returns its   *)
(* cores and memory to the pool.                                           *)
(***************************************************************************)
EXTENDS Naturals, Sequences, SequencesExt, FiniteSetsExt

CONSTANT
  Experiments   \* [demands, cores, memory, parallel]: the vcpus and memory of the pairs
                \* in order, the CPUs of the core groups in sort order, the memory of
                \* the host less the guard, and how many pairs may run at a time

VARIABLES
  experiment,
  pairQueue,    \* the pairs not launched, in order
  freeCores,    \* _free_cores, kept in sort order
  memoryFree,
  reserved,     \* the cores of a pair's allocation
  futures,      \* the futures not collected
  pairThread,   \* what the thread of a pair does
  woken,        \* the futures the last wait returned and the loop has not collected
  poolMain      \* what the main thread does

Demands == experiment.demands
MaxParallel == experiment.parallel
Pairs == DOMAIN experiment.demands
HostCores == DOMAIN experiment.cores

poolVars ==
  <<experiment, pairQueue, freeCores, memoryFree, reserved, futures, pairThread, woken, poolMain>>

PoolInit ==
  /\ experiment \in Experiments
  /\ pairQueue = [i \in Pairs |-> i] /\ freeCores = HostCores
  /\ memoryFree = experiment.memory
  /\ reserved = [p \in Pairs |-> {}] /\ pairThread = [p \in Pairs |-> "idle"]
  /\ futures = {} /\ woken = {} /\ poolMain = "launch"

----------------------------------------------------------------------------
(* _HostResourcePool                                                       *)

Size(cores) == MapThenSumSet(LAMBDA c : experiment.cores[c], cores)

\* allocate: the cores from the front of the free list until they have the CPUs.
FirstCores(free, vcpus) ==
  {c \in free : Size({e \in free : e < c}) < vcpus}

\* What allocate does: no allocation, a ConfigError or an allocation.
Allocate(free, memory, p) ==
  LET size == Size(FirstCores(free, Demands[p].vcpus)) IN
  IF Demands[p].memory > memory \/ size < Demands[p].vcpus THEN "none"
  ELSE IF size # Demands[p].vcpus THEN "error"
  ELSE "fits"

\* allocate, its effect on the pool; the wrong form leaves the last core free.
TakeLeavingOne(p) ==
  LET taken == FirstCores(freeCores, Demands[p].vcpus) IN
  /\ reserved' = [reserved EXCEPT ![p] = taken]
  /\ freeCores' = freeCores \ (taken \ {Max(taken)})
  /\ memoryFree' = memoryFree - Demands[p].memory

TakeCores(p) ==
  LET taken == FirstCores(freeCores, Demands[p].vcpus) IN
  /\ reserved' = [reserved EXCEPT ![p] = taken]
  /\ freeCores' = freeCores \ taken
  /\ memoryFree' = memoryFree - Demands[p].memory

\* release; the wrong form forgets the memory.
ReleaseCoresOnly(p) ==
  /\ freeCores' = freeCores \union reserved[p]
  /\ reserved' = [reserved EXCEPT ![p] = {}]
  /\ UNCHANGED memoryFree

ReleaseCores(p) ==
  /\ freeCores' = freeCores \union reserved[p]
  /\ reserved' = [reserved EXCEPT ![p] = {}]
  /\ memoryFree' = memoryFree + Demands[p].memory

----------------------------------------------------------------------------
(* The main thread.                                                        *)

\* _pop_allocatable_pair: the first pending pair that has an allocation or an error;
\* the sequential loop asks for the first pair only.
AnswerFor(i) == Allocate(freeCores, memoryFree, pairQueue[i])

Candidates ==
  {i \in DOMAIN pairQueue : AnswerFor(i) # "none" /\ (MaxParallel = 1 => i = 1)}

HasRoom == pairQueue # <<>> /\ Cardinality(futures) < MaxParallel

\* A pair is popped, allocated and submitted, or its ConfigError ends the loop.
LaunchPair ==
  /\ poolMain = "launch" /\ HasRoom /\ Candidates # {}
  /\ LET i == Min(Candidates)
         p == pairQueue[i]
     IN  \/ /\ AnswerFor(i) = "fits" /\ TakeCores(p)
            /\ pairQueue' = RemoveAt(pairQueue, i) /\ futures' = futures \union {p}
            /\ pairThread' = [pairThread EXCEPT ![p] = "first"]
            /\ UNCHANGED poolMain
         \/ /\ AnswerFor(i) = "error" /\ poolMain' = "config_error"
            /\ UNCHANGED <<pairQueue, freeCores, memoryFree, reserved, futures, pairThread>>
  /\ UNCHANGED woken

\* Nothing more can be launched: wait for a future, or, with none, the first pair is
\* blocked for ever; without pairs the experiment is complete.
\* The wrong form takes a blocked experiment for a complete one.
StopLaunchingEarly ==
  /\ poolMain = "launch" /\ ~(HasRoom /\ Candidates # {})
  /\ poolMain' = IF futures # {} THEN "wait" ELSE "complete"
  /\ UNCHANGED <<pairQueue, freeCores, memoryFree, reserved, futures, pairThread, woken>>

StopLaunching ==
  /\ poolMain = "launch" /\ ~(HasRoom /\ Candidates # {})
  /\ poolMain' = IF futures # {} THEN "wait"
                 ELSE IF pairQueue # <<>> THEN "blocked" ELSE "complete"
  /\ UNCHANGED <<pairQueue, freeCores, memoryFree, reserved, futures, pairThread, woken>>

\* wait(futures, FIRST_COMPLETED)
WakeLoop ==
  /\ poolMain = "wait" /\ \E p \in futures : pairThread[p] \in {"done", "raised"}
  /\ woken' = {p \in futures : pairThread[p] \in {"done", "raised"}} /\ poolMain' = "collect"
  /\ UNCHANGED <<pairQueue, freeCores, memoryFree, reserved, futures, pairThread>>

\* A future of the set is popped and its allocation released, also when its result
\* raises, which leaves the loop.
CollectPair ==
  /\ poolMain = "collect"
  /\ \E p \in woken :
       /\ ReleaseCores(p) /\ futures' = futures \ {p} /\ woken' = woken \ {p}
       /\ poolMain' = IF pairThread[p] = "raised" THEN "failed"
                      ELSE IF woken = {p} THEN "launch" ELSE "collect"
  /\ UNCHANGED <<pairQueue, pairThread>>

----------------------------------------------------------------------------
\* _run_pair in its thread: the two variants in turn, either may raise. The executor
\* waits for its threads, also when the loop was left by an error.
RunVariant(p) ==
  /\ pairThread[p] \in {"first", "second"}
  /\ \E next \in {IF pairThread[p] = "first" THEN "second" ELSE "done", "raised"} :
       pairThread' = [pairThread EXCEPT ![p] = next]
  /\ UNCHANGED <<pairQueue, freeCores, memoryFree, reserved, futures, woken, poolMain>>

PoolNext ==
  /\ UNCHANGED experiment
  /\ \/ LaunchPair \/ StopLaunching \/ WakeLoop \/ CollectPair
     \/ \E p \in Pairs : RunVariant(p)

----------------------------------------------------------------------------
RunningPairs == {p \in Pairs : pairThread[p] \in {"first", "second"}}

\* Pairs that run at the same time have no core in common, each has exactly the CPUs
\* it asks for, and together they stay within the memory of the host (_run_pair's
\* pin_cpus come from the allocation, which release returns only afterwards).
PairsAreApart ==
  /\ \A p \in RunningPairs : Size(reserved[p]) = Demands[p].vcpus
  /\ \A p, q \in RunningPairs : p # q => reserved[p] \cap reserved[q] = {}
  /\ MapThenSumSet(LAMBDA p : Demands[p].memory, RunningPairs) <= experiment.memory

\* An experiment comes to an end. One that is complete has run both variants of every
\* pair, also of a pair that had to wait for smaller ones. One that is stopped for want
\* of resources has no pair the loop may choose that would fit the idle host: nothing
\* that earlier pairs took was kept (_run_pairs, _run_pairs_parallel).
ExperimentEnds ==
  /\ <>(poolMain \in {"complete", "blocked", "config_error", "failed"})
  /\ [](poolMain = "complete" => \A p \in Pairs : pairThread[p] = "done")
  /\ [](poolMain = "blocked" =>
          \A i \in DOMAIN pairQueue :
            (MaxParallel = 1 => i = 1) =>
              Allocate(HostCores, experiment.memory, pairQueue[i]) = "none")
=============================================================================
