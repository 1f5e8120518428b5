---------------------------- MODULE RuleSeqlock ----------------------------
(***************************************************************************)
(* How CPUs take over a rule while user space changes it: publish_rule of  *)
(* scheduler.rs writes the BPF map between two changes of rules_seq, and   *)
(* refresh_task_class of bpf/main.bpf.c looks a task's comm up between two *)
(* reads of it. The sequence is a u64; the model leaves out its overflow.  *)
(***************************************************************************)
EXTENDS Naturals

CONSTANTS
  Tasks, RuleComms, Classes,
  Absent,     \* no rule for a comm
  Default,    \* the class of a task without a rule
  MaxSeq      \* bound of the model: publications stop at this sequence

ASSUME SeqlockAssumption ==
  /\ Default \in Classes /\ Absent \notin Classes /\ MaxSeq \in Nat

VARIABLES
  seq, table,              \* rules_seq and rules_map
  writer,                  \* publish_rule: where it is, and what it writes
  comm, onCpu,           \* the task's name; whether it is on a CPU
  class, classified, seen, \* task_ctx: class_id, classified_comm, seen_rules_seq
  refresher                \* refresh_task_class: where it is, and its locals

seqlockVars == <<seq, table, writer, comm, onCpu, class, classified, seen, refresher>>

Even(n) == n % 2 = 0

ClassOf(c) == IF table[c] = Absent THEN Default ELSE table[c]

Resting == [pc |-> "idle"]

----------------------------------------------------------------------------
(* User space.                                                             *)

PublishBegin(c, state) ==
  /\ writer.pc = "idle" /\ seq < MaxSeq
  /\ seq' = (seq - (seq % 2)) + 1
  /\ writer' = [pc |-> "update", comm |-> c, state |-> state]
  /\ UNCHANGED <<table, comm, onCpu, class, classified, seen, refresher>>

\* The update of the map, which may fail; the sequence is completed all the same.
PublishUpdate ==
  /\ writer.pc = "update"
  /\ \/ table' = [table EXCEPT ![writer.comm] = writer.state]
     \/ UNCHANGED table
  /\ writer' = [writer EXCEPT !.pc = "end"]
  /\ UNCHANGED <<seq, comm, onCpu, class, classified, seen, refresher>>

\* Variant: the sequence is not completed.
PublishEndEarly ==
  /\ writer.pc = "end"
  /\ writer' = Resting
  /\ UNCHANGED <<seq, table, comm, onCpu, class, classified, seen, refresher>>

PublishEnd ==
  /\ writer.pc = "end"
  /\ seq' = seq + 1
  /\ writer' = Resting
  /\ UNCHANGED <<table, comm, onCpu, class, classified, seen, refresher>>

----------------------------------------------------------------------------
(* A task: it changes its name, runs and stops.                            *)

Rename(t, c) ==
  /\ comm[t] # c
  /\ comm' = [comm EXCEPT ![t] = c]
  /\ UNCHANGED <<seq, table, writer, onCpu, class, classified, seen, refresher>>

\* running and stopping, which exclude a refresh of the same task.
Switch(t) ==
  /\ refresher[t].pc = "idle"
  /\ onCpu' = [onCpu EXCEPT ![t] = ~@]
  /\ UNCHANGED <<seq, table, writer, comm, class, classified, seen, refresher>>

\* The first read of rules_seq. enqueue compares the sequence only, the other
\* sites the name too; an odd sequence or a running task defers the refresh.
RefreshBegin(t, checkComm) ==
  /\ refresher[t].pc = "idle"
  /\ seen[t] # seq \/ (checkComm /\ comm[t] # classified[t])
  /\ Even(seq) /\ ~onCpu[t]
  /\ refresher' = [refresher EXCEPT ![t] = [pc |-> "lookup", seq |-> seq, comm |-> comm[t], class |-> Default]]
  /\ UNCHANGED <<seq, table, writer, comm, onCpu, class, classified, seen>>

RefreshLookup(t) ==
  /\ refresher[t].pc = "lookup"
  /\ refresher' = [refresher EXCEPT ![t].pc = "confirm", ![t].class = ClassOf(refresher[t].comm)]
  /\ UNCHANGED <<seq, table, writer, comm, onCpu, class, classified, seen>>

\* Variant: the sequence is not read a second time.
RefreshConfirmBlind(t) ==
  /\ refresher[t].pc = "confirm"
  /\ refresher' = [refresher EXCEPT ![t].pc = "write", ![t].seq = seq]
  /\ UNCHANGED <<seq, table, writer, comm, onCpu, class, classified, seen>>

\* The second read: a sequence that changed defers the refresh.
RefreshConfirm(t) ==
  /\ refresher[t].pc = "confirm"
  /\ refresher' = [refresher EXCEPT ![t] = IF refresher[t].seq = seq THEN [@ EXCEPT !.pc = "write"] ELSE Resting]
  /\ UNCHANGED <<seq, table, writer, comm, onCpu, class, classified, seen>>

\* transition_task_class
RefreshWrite(t) ==
  /\ refresher[t].pc = "write"
  /\ class' = [class EXCEPT ![t] = refresher[t].class]
  /\ classified' = [classified EXCEPT ![t] = refresher[t].comm]
  /\ seen' = [seen EXCEPT ![t] = refresher[t].seq]
  /\ refresher' = [refresher EXCEPT ![t] = Resting]
  /\ UNCHANGED <<seq, table, writer, comm, onCpu>>

----------------------------------------------------------------------------
SeqlockInit ==
  /\ seq = 2
  /\ table \in [RuleComms -> Classes \union {Absent}]
  /\ writer = Resting
  /\ comm \in [Tasks -> RuleComms]
  /\ onCpu = [t \in Tasks |-> FALSE]
  /\ class = [t \in Tasks |-> Default]
  /\ classified = comm
  /\ seen = [t \in Tasks |-> 0]
  /\ refresher = [t \in Tasks |-> Resting]

Publish ==
  \/ \E c \in RuleComms, state \in Classes \union {Absent} : PublishBegin(c, state)
  \/ PublishUpdate \/ PublishEnd

Refresh(t) ==
  \/ \E checkComm \in BOOLEAN : RefreshBegin(t, checkComm)
  \/ RefreshLookup(t) \/ RefreshConfirm(t) \/ RefreshWrite(t)

TaskStep(t) == Refresh(t) \/ Switch(t) \/ \E c \in RuleComms : Rename(t, c)

SeqlockNext == Publish \/ \E t \in Tasks : TaskStep(t)

SeqlockSpec == SeqlockInit /\ [][SeqlockNext]_seqlockVars

----------------------------------------------------------------------------
\* A task that has seen the current sequence has the class the map has now for the
\* name it was classified by: no CPU keeps a class that it read while the map was
\* changing, or before, under the new sequence (publish_rule, refresh_task_class).
SeenIsCurrent ==
  \A t \in Tasks : seen[t] = seq => class[t] = ClassOf(classified[t])

\* When no rule is published any more, every task comes to the current sequence.
TaskCatchesUp == \A t \in Tasks : <>[](seen[t] = seq)
=============================================================================
