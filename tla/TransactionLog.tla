--------------------------- MODULE TransactionLog ---------------------------
(***************************************************************************)
(* The write-ahead log of one transaction (kernel/transaction/wal.rs,      *)
(* types.rs) and its readers: TransactionStore::inspect_log (store.rs) and *)
(* the entry loop of TransactionKernel::recover (kernel.rs).               *)
(*                                                                         *)
(* Both readers are left folds over the entries of the file, so the file   *)
(* is represented by the value of that fold: what every change was last    *)
(* recorded as, which operation intents have no result, the seal, the      *)
(* number of entries, and whether the readers accept the file so far.      *)
(* Appending an entry is one step of the fold (Replay).                    *)
(***************************************************************************)
EXTENDS Integers, FiniteSets

CONSTANTS
  Resource,                     \* canonical resource keys
  Value,                        \* the values a tuned resource may hold
  MAX_CHANGES_PER_TRANSACTION   \* 64 in the code

ASSUME DomainAssumption == Resource # {} /\ Value # {}

ASSUME MaxChangesAssumption == MAX_CHANGES_PER_TRANSACTION \in Nat \ {0}

\* Change ids are allocated in order, so change_order is the order of Nat.
Change == 1 .. MAX_CHANGES_PER_TRANSACTION

ChangeState ==
  {"IntentDurable", "AppliedUnknown", "AppliedVerified", "BaselineRestored",
   "CandidateApplied", "Finalized", "RolledBack", "FailedNotApplied",
   "DriftDetected"}

OperationIntentKind == {"Apply", "Restore", "Finalize"}

TransactionSeal == {"Committed", "RolledBack"}

PreparedMutation == [resource : Resource, baseline : Value, desired : Value]

Label ==
  {"experiment", "revision", "baseline-observed", "restore", "replay",
   "finalize", "drift"}

\* "{transaction}/{label}/{counter}": two ids are equal when both parts are.
OperationId == [label : Label, number : Nat]

Absent == "Absent"     \* the log has no record of the change
Open == "Open"         \* the log has no seal

Intent == [op : OperationId, kind : OperationIntentKind]

Started == [type |-> "Started"]

\* ChangeUpsert carries the whole record; its immutable part (resource,
\* baseline, desired) is prepared[change] of the module that appends it.
ChangeUpsert(c, state, verified, op, supersedes) ==
  [type |-> "ChangeUpsert", change |-> c, state |-> state,
   verified |-> verified, op |-> op, supersedes |-> supersedes]

OperationIntent(c, op, kind) ==
  [type |-> "OperationIntent", change |-> c, op |-> op, kind |-> kind]

Sealed(outcome) == [type |-> "Sealed", outcome |-> outcome]

\* The terminal records: Finalized for the candidate, RolledBack for the rest.
CommitSealed(candidate) == [type |-> "CommitSealed", candidate |-> candidate]

WalEvent ==
  [type : {"Started"}]
  \cup [type : {"Sealed"}, outcome : {"RolledBack"}]
  \cup [type : {"CommitSealed"}, candidate : SUBSET Change]
  \cup [type : {"ChangeUpsert"}, change : Change, state : ChangeState,
        verified : BOOLEAN, op : OperationId, supersedes : SUBSET Change]
  \cup [type : {"OperationIntent"}, change : Change, op : OperationId,
        kind : OperationIntentKind]

Log ==
  [count : Nat,                              \* entries in the file
   state : [Change -> ChangeState \cup {Absent}],
   verified : SUBSET Change,                 \* experiment_verified
   intent : [Change -> SUBSET Intent],       \* at most one awaits its result
   seal : TransactionSeal \cup {Open},
   intact : BOOLEAN,                         \* no reader rejects it
   terminated : BOOLEAN]                     \* its last line has a newline

EmptyLog ==
  [count |-> 0,
   state |-> [c \in Change |-> Absent],
   verified |-> {},
   intent |-> [c \in Change |-> {}],
   seal |-> Open,
   intact |-> TRUE,
   terminated |-> TRUE]

LogChanges(log) == {c \in Change : log.state[c] # Absent}

\* resource_heads: the latest change of its resource among `known`, as a set
\* of at most one change.
ResourceHead(prepared, known, r) ==
  {c \in known : /\ prepared[c].resource = r
                 /\ \A d \in known : prepared[d].resource = r => d <= c}

PendingOperations(log) == {c \in Change : log.intent[c] # {}}

VerifiedState == {"AppliedVerified", "CandidateApplied", "Finalized"}

\* A first record is an unverified apply intent that continues the revision
\* chain of its resource: no predecessor, or the restored and verified head.
AcceptsFirstRecord(log, prepared, ev) ==
  LET head == ResourceHead(prepared, LogChanges(log), prepared[ev.change].resource)
  IN /\ ~ev.verified
     /\ ev.state = "IntentDurable"
     /\ ev.supersedes = head
     /\ \A h \in head : /\ log.state[h] = "BaselineRestored"
                        /\ h \in log.verified
                        /\ prepared[h].baseline = prepared[ev.change].baseline

\* A later record may not clear the experiment evidence and may gain it only
\* as AppliedVerified.
AcceptsTransition(log, ev) ==
  /\ ev.change \in log.verified => ev.verified
  /\ ev.change \notin log.verified /\ ev.verified
       => ev.state = "AppliedVerified"

AcceptsUpsert(log, prepared, ev) ==
  /\ prepared[ev.change].baseline # prepared[ev.change].desired
  /\ ev.state \in VerifiedState => ev.verified
  /\ IF log.state[ev.change] = Absent
       THEN AcceptsFirstRecord(log, prepared, ev)
       ELSE AcceptsTransition(log, ev)

AcceptsIntent(log, ev) ==
  /\ log.state[ev.change] # Absent
  /\ ev.kind = "Finalize" => /\ log.state[ev.change] = "CandidateApplied"
                             /\ ev.change \in log.verified

AcceptsCommitSeal(log, prepared, ev) ==
  /\ PendingOperations(log) = {}
  /\ ev.candidate # {}
  /\ ev.candidate \subseteq LogChanges(log) \cap log.verified
  /\ \A c \in LogChanges(log) :
       IF c \in ev.candidate
         THEN /\ log.state[c] = "CandidateApplied"
              /\ c \in ResourceHead(prepared, LogChanges(log), prepared[c].resource)
         ELSE log.state[c] = "BaselineRestored"

\* What inspect_log and recover require of the next entry of the file.
AcceptsEntry(log, prepared, sequence, ev) ==
  /\ sequence = log.count
  /\ log.seal = Open
  /\ (ev.type = "Started") <=> (log.count = 0)
  /\ CASE ev.type = "ChangeUpsert" -> AcceptsUpsert(log, prepared, ev)
       [] ev.type = "OperationIntent" -> AcceptsIntent(log, ev)
       [] ev.type = "CommitSealed" -> AcceptsCommitSeal(log, prepared, ev)
       [] OTHER -> TRUE

\* An upsert resolves the pending intent of its change only when it carries
\* the operation id of that intent.
Unresolved(pending, ev) == {i \in pending : i.op # ev.op}

\* The fold over one entry, one component of the log at a time.
Upserts(ev, c) == ev.type = "ChangeUpsert" /\ ev.change = c
Announces(ev, c) == ev.type = "OperationIntent" /\ ev.change = c

\* Variant: a commit seal marks every change as Finalized.
FoldStateAllFinalized(log, ev) ==
  [c \in Change |->
     IF Upserts(ev, c) THEN ev.state
     ELSE IF ev.type = "CommitSealed" /\ log.state[c] # Absent THEN "Finalized"
     ELSE log.state[c]]

FoldState(log, ev) ==
  [c \in Change |->
     IF Upserts(ev, c) THEN ev.state
     ELSE IF ev.type = "CommitSealed" /\ log.state[c] # Absent
       THEN IF c \in ev.candidate THEN "Finalized" ELSE "RolledBack"
     ELSE log.state[c]]

FoldVerified(log, ev) ==
  {c \in Change : IF Upserts(ev, c) THEN ev.verified ELSE c \in log.verified}

FoldIntent(log, ev) ==
  [c \in Change |->
     IF Upserts(ev, c) THEN Unresolved(log.intent[c], ev)
     ELSE IF Announces(ev, c) THEN {[op |-> ev.op, kind |-> ev.kind]}
     ELSE log.intent[c]]

FoldSeal(log, ev) ==
  IF ev.type = "Sealed" THEN ev.outcome
  ELSE IF ev.type = "CommitSealed" THEN "Committed"
  ELSE log.seal

\* The file with one more entry.  Once an entry is rejected, so is the file; an
\* entry that continues the line of the one before it is not JSON.
Replay(log, prepared, sequence, ev) ==
  [count |-> log.count + 1,
   state |-> FoldState(log, ev),
   verified |-> FoldVerified(log, ev),
   intent |-> FoldIntent(log, ev),
   seal |-> FoldSeal(log, ev),
   intact |-> /\ log.intact /\ log.terminated
              /\ AcceptsEntry(log, prepared, sequence, ev),
   terminated |-> TRUE]

\* The end of inspect_log: a sealed log is complete.
IsComplete(log) ==
  /\ PendingOperations(log) = {}
  /\ \A c \in LogChanges(log) :
       log.state[c] \in IF log.seal = "Committed" THEN {"Finalized", "RolledBack"}
                                                  ELSE {"RolledBack"}

\* TransactionStore::discover and inspect_log: what startup takes the file for.
InspectLog(log) ==
  CASE ~log.intact -> "Corrupt"
    [] log.intact /\ log.count = 0 -> "Unstarted"
    [] log.intact /\ log.count # 0 /\ log.seal = Open -> "Pending"
    [] log.intact /\ log.count # 0 /\ log.seal # Open ->
         IF IsComplete(log) THEN "Sealed" ELSE "Corrupt"

\* TransactionKernel::recover: the state every change is rebuilt in.
RecoveredState(log, c) ==
  IF \/ log.state[c] = "IntentDurable"
     \/ \E i \in log.intent[c] : i.kind # "Finalize"
    THEN "AppliedUnknown"
    ELSE log.state[c]

=============================================================================
