---------------------------- MODULE MCScheduler ----------------------------
(***************************************************************************)
(* The three places where the scheduler's CPUs, its main loop and its      *)
(* notifier thread meet. They share no state, so that a behaviour is one   *)
(* of a single component, the subject; the others keep an initial state.   *)
(* The states explored are those of the components side by side.           *)
(***************************************************************************)
EXTENDS RuleMiss, RuleSeqlock, StealClaim

CONSTANTS t1, c, d, Latency, Bulk, c1, c2

VARIABLE subject

mcVars == <<subject, missVars, seqlockVars, stealVars>>

MCInit ==
  /\ subject \in {"misses", "seqlock", "claims"}
  /\ IF subject = "seqlock" THEN TRUE
       ELSE /\ table = [x \in RuleComms |-> Absent]
            /\ comm = [t \in Tasks |-> c]
  /\ IF subject = "claims" THEN TRUE ELSE queue = [x \in CPUs |-> 0]
  /\ MissInit /\ SeqlockInit /\ StealInit

\* The scheduler may be shut down, and nothing needs to happen then. That the worker
\* is not left behind is WorkerEnds.
MissesStopped == loop = "ended" /\ UNCHANGED missVars

MCNext ==
  /\ UNCHANGED subject
  /\ \/ subject = "misses" /\ (MissNext \/ MissesStopped) /\ UNCHANGED <<seqlockVars, stealVars>>
     \/ subject = "seqlock" /\ SeqlockNext /\ UNCHANGED <<missVars, stealVars>>
     \/ subject = "claims" /\ StealNext /\ UNCHANGED <<missVars, seqlockVars>>

MCSpec == MCInit /\ [][MCNext]_mcVars

\* Misses: the loop and the worker go on, since every wait of theirs has a timeout;
\* the rescan interval and the coalescing window pass again and again.
MissFairness ==
  /\ WF_missVars(subject = "misses" /\ Loop)
  /\ WF_missVars(subject = "misses" /\ Worker)
  /\ SF_missVars(subject = "misses" /\ Collect(TRUE, TRUE))

\* Rules: publish_rule does not wait; a task that runs stops at the end of its slice,
\* since a stale continuation is denied, and is enqueued again and again.
SeqlockFairness ==
  /\ WF_seqlockVars(subject = "seqlock" /\ (PublishUpdate \/ PublishEnd))
  /\ \A t \in Tasks : /\ WF_seqlockVars(subject = "seqlock" /\ onCpu[t] /\ Switch(t))
                      /\ SF_seqlockVars(subject = "seqlock" /\ Refresh(t))

\* Claims: a CPU goes on with its program, and a task stops at the end of its slice.
StealFairness ==
  \A x \in CPUs : /\ WF_stealVars(subject = "claims" /\ Cpu(x))
                  /\ WF_stealVars(subject = "claims" /\ Stop(x))

MCFairSpec == MCSpec /\ MissFairness /\ SeqlockFairness /\ StealFairness

\* A task gets the class of the current rules in the end, when the rules stop changing
\* (refresh_task_class; TaskCatchesUp, in the behaviours that are about the sequence).
TasksCatchUp == subject = "seqlock" => TaskCatchesUp

=============================================================================
