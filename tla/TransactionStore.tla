-------------------------- MODULE TransactionStore --------------------------
(***************************************************************************)
(* The directory of transaction logs (kernel/transaction/store.rs) shared  *)
(* by runtimes that are started, crash and are started again: the lock of  *)
(* the directory, the creation of a log before its transaction may change  *)
(* anything, and the pass at startup that removes empty logs and reopens   *)
(* pending ones (runtime/recovery.rs). What a log says is the subject of   *)
(* TransactionLog; here a log is empty, started or sealed.                 *)
(*                                                                         *)
(* An append is synced. Names are durable only after a sync of the         *)
(* directory: after a loss of power each unsynced name is as before or as  *)
(* it was changed.                                                         *)
(***************************************************************************)
EXTENDS Naturals, FiniteSets

CONSTANTS
  Runtimes, TxIds, Nobody,
  MaxFiles    \* bound of the model: files ever created

Files == 1 .. MaxFiles

LogKinds == {"empty", "started", "sealed"}

ASSUME StoreAssumption ==
  /\ MaxFiles \in Nat
  /\ Nobody \notin Runtimes /\ Nobody \notin Files /\ Nobody \notin LogKinds
  /\ Nobody \notin [id : TxIds, file : Files]

VARIABLES
  lock,            \* holder of the flock, or Nobody
  dir, durable,    \* id -> file or Nobody: as seen, and after a loss of power
  content,         \* file -> what it has, or Nobody
  step,            \* per runtime: where it is
  todo,            \* per runtime: what is left of its RecoveryInventory
  log,             \* per runtime: the id and file it works on, or Nobody
  recoveryFailed   \* per runtime: an item of the recovery has failed

storeVars == <<lock, dir, durable, content, step, todo, log, recoveryFailed>>
own == <<todo, log, recoveryFailed>>

StoreGoto(r, s) == step' = [step EXCEPT ![r] = s]

\* The process ends: the kernel drops its lock with its descriptors.
Ended(r) ==
  /\ step' = [step EXCEPT ![r] = "down"]
  /\ lock' = IF lock = r THEN Nobody ELSE lock
  /\ todo' = [todo EXCEPT ![r] = {}]
  /\ log' = [log EXCEPT ![r] = Nobody]
  /\ recoveryFailed' = [recoveryFailed EXCEPT ![r] = FALSE]

----------------------------------------------------------------------------
(* TransactionStore::new and discover                                      *)

\* Variant: the directory is shared.
AcquireShared(r) ==
  /\ step[r] = "down"
  /\ lock' = r
  /\ StoreGoto(r, "discover")
  /\ UNCHANGED <<dir, durable, content, own>>

\* LOCK_NB: a runtime that does not get the lock does not start.
AcquireLock(r) ==
  /\ step[r] = "down" /\ lock = Nobody
  /\ lock' = r
  /\ StoreGoto(r, "discover")
  /\ UNCHANGED <<dir, durable, content, own>>

Named(id) == [id |-> id, file |-> dir[id], kind |-> content[dir[id]]]

Discover(r) ==
  /\ step[r] = "discover"
  /\ todo' = [todo EXCEPT ![r] = {Named(id) : id \in {i \in TxIds : dir[i] # Nobody}}]
  /\ StoreGoto(r, "recover")
  /\ UNCHANGED <<lock, dir, durable, content, log, recoveryFailed>>

----------------------------------------------------------------------------
(* recover_before_activation: empty logs are discarded, pending ones       *)
(* opened; an item that fails, or whose audit record does, fails the       *)
(* startup after the others. The earlier pass over the pending logs is     *)
(* part of TransactionLifecycle.                                           *)

TakeItem(r, item) == todo' = [todo EXCEPT ![r] = @ \ {item}]
IsEmpty(item) == item.kind = "empty"
IsPending(item) == item.kind = "started"

\* discard_unstarted: the file is still the one discovered, and still empty.
DiscardCheck(r, item) ==
  /\ step[r] = "recover" /\ item \in todo[r] /\ IsEmpty(item)
  /\ TakeItem(r, item)
  /\ IF dir[item.id] = item.file /\ content[item.file] = "empty"
       THEN /\ log' = [log EXCEPT ![r] = [id |-> item.id, file |-> item.file]]
            /\ StoreGoto(r, "remove") /\ UNCHANGED recoveryFailed
       ELSE recoveryFailed' = [recoveryFailed EXCEPT ![r] = TRUE] /\ UNCHANGED <<step, log>>
  /\ UNCHANGED <<lock, dir, durable, content>>

RemoveLog(r) ==
  /\ step[r] = "remove"
  /\ dir' = [dir EXCEPT ![log[r].id] = Nobody]
  /\ log' = [log EXCEPT ![r] = Nobody]
  /\ StoreGoto(r, "removed")
  /\ UNCHANGED <<lock, durable, content, todo, recoveryFailed>>

RemoveSync(r) ==
  /\ step[r] = "removed"
  /\ \E synced, audited \in BOOLEAN :
       /\ durable' = IF synced THEN dir ELSE durable
       /\ recoveryFailed' = [recoveryFailed EXCEPT ![r] = @ \/ ~synced \/ ~audited]
  /\ StoreGoto(r, "recover")
  /\ UNCHANGED <<lock, dir, content, todo, log>>

\* open_existing, after the empty ones. The recovery seals the log or leaves it.
OpenExisting(r, item) ==
  /\ step[r] = "recover" /\ item \in todo[r] /\ IsPending(item)
  /\ \A other \in todo[r] : ~IsEmpty(other)
  /\ TakeItem(r, item)
  /\ IF dir[item.id] = item.file
       THEN /\ log' = [log EXCEPT ![r] = [id |-> item.id, file |-> item.file]]
            /\ StoreGoto(r, "recovering") /\ UNCHANGED recoveryFailed
       ELSE recoveryFailed' = [recoveryFailed EXCEPT ![r] = TRUE] /\ UNCHANGED <<step, log>>
  /\ UNCHANGED <<lock, dir, durable, content>>

Recovered(r) ==
  /\ step[r] = "recovering"
  /\ \E sealed, audited \in BOOLEAN :
       /\ content' = IF sealed THEN [content EXCEPT ![log[r].file] = "sealed"] ELSE content
       /\ recoveryFailed' = [recoveryFailed EXCEPT ![r] = @ \/ ~sealed \/ ~audited]
  /\ log' = [log EXCEPT ![r] = Nobody]
  /\ StoreGoto(r, "recover")
  /\ UNCHANGED <<lock, dir, durable, todo>>

RecoveryDone(r) ==
  /\ step[r] = "recover" /\ \A item \in todo[r] : ~IsEmpty(item) /\ ~IsPending(item)
  /\ IF recoveryFailed[r]
       THEN Ended(r)
       ELSE StoreGoto(r, "up") /\ todo' = [todo EXCEPT ![r] = {}] /\ UNCHANGED <<lock, log, recoveryFailed>>
  /\ UNCHANGED <<dir, durable, content>>

----------------------------------------------------------------------------
(* create and the transaction that writes the log. An error gives the log  *)
(* up where it is; the runtime goes on.                                    *)

Fresh == CHOOSE f \in Files : content[f] = Nobody

\* create_new refuses a name that exists. A file that cannot be secured is removed,
\* and the directory synced if possible.
CreateFile(r, id) ==
  /\ step[r] = "up" /\ dir[id] = Nobody /\ \E f \in Files : content[f] = Nobody
  /\ \/ /\ dir' = [dir EXCEPT ![id] = Fresh]
        /\ content' = [content EXCEPT ![Fresh] = "empty"]
        /\ log' = [log EXCEPT ![r] = [id |-> id, file |-> Fresh]]
        /\ StoreGoto(r, "created")
        /\ UNCHANGED durable
     \/ UNCHANGED <<dir, content, log, step>> /\ durable' = dir
  /\ UNCHANGED <<lock, todo, recoveryFailed>>

\* Variant: only the file is synced.
CreateSyncFile(r) ==
  /\ step[r] = "created"
  /\ StoreGoto(r, "open")
  /\ UNCHANGED <<lock, dir, durable, content, own>>

CreateSync(r) ==
  /\ step[r] = "created"
  /\ \/ durable' = dir /\ StoreGoto(r, "open") /\ UNCHANGED log
     \/ UNCHANGED durable /\ StoreGoto(r, "up") /\ log' = [log EXCEPT ![r] = Nobody]
  /\ UNCHANGED <<lock, dir, content, todo, recoveryFailed>>

WriteLog(r) ==
  /\ step[r] = "open"
  /\ \/ /\ content[log[r].file] = "empty"
        /\ content' = [content EXCEPT ![log[r].file] = "started"]
        /\ UNCHANGED <<step, log>>
     \/ /\ content[log[r].file] = "started"
        /\ content' = [content EXCEPT ![log[r].file] = "sealed"]
        /\ StoreGoto(r, "up") /\ log' = [log EXCEPT ![r] = Nobody]
     \/ /\ content[log[r].file] = "empty"
        /\ UNCHANGED content
        /\ StoreGoto(r, "up") /\ log' = [log EXCEPT ![r] = Nobody]
  /\ UNCHANGED <<lock, dir, durable, todo, recoveryFailed>>

----------------------------------------------------------------------------
Crash(r) ==
  /\ step[r] # "down"
  /\ Ended(r)
  /\ UNCHANGED <<dir, durable, content>>

PowerLoss ==
  /\ \E r \in Runtimes : step[r] # "down"
  /\ \E kept \in SUBSET TxIds :
       dir' = [id \in TxIds |-> IF id \in kept THEN dir[id] ELSE durable[id]]
  /\ durable' = dir'
  /\ lock' = Nobody
  /\ step' = [r \in Runtimes |-> "down"]
  /\ todo' = [r \in Runtimes |-> {}]
  /\ log' = [r \in Runtimes |-> Nobody]
  /\ recoveryFailed' = [r \in Runtimes |-> FALSE]
  /\ UNCHANGED content

StoreInit ==
  /\ lock = Nobody
  /\ dir = [id \in TxIds |-> Nobody] /\ durable = dir
  /\ content = [f \in Files |-> Nobody]
  /\ step = [r \in Runtimes |-> "down"]
  /\ todo = [r \in Runtimes |-> {}]
  /\ log = [r \in Runtimes |-> Nobody]
  /\ recoveryFailed = [r \in Runtimes |-> FALSE]

Runtime(r) ==
  \/ AcquireLock(r) \/ Discover(r)
  \/ \E item \in todo[r] : DiscardCheck(r, item) \/ OpenExisting(r, item)
  \/ RemoveLog(r) \/ RemoveSync(r) \/ Recovered(r) \/ RecoveryDone(r)
  \/ \E id \in TxIds : CreateFile(r, id)
  \/ CreateSync(r) \/ WriteLog(r) \/ Crash(r)

StoreNext == (\E r \in Runtimes : Runtime(r)) \/ PowerLoss

StoreSpec == StoreInit /\ [][StoreNext]_storeVars

----------------------------------------------------------------------------
\* A log that has its Started record, which is when its transaction may begin to
\* change resources, is in the directory and stays there through crashes of
\* runtimes and losses of power: recovery always finds it.
StartedIsListed ==
  \A f \in Files : content[f] \in {"started", "sealed"} =>
    \E id \in TxIds : dir[id] = f /\ durable[id] = f

\* The log a runtime writes to, or is about to remove, is the one its name stands
\* for, and no other runtime works on it: a runtime that starts up does not take
\* the log a living one has just created for one that a crash left behind.
LogIsOwn ==
  \A r \in Runtimes : log[r] # Nobody =>
    /\ dir[log[r].id] = log[r].file
    /\ \A s \in Runtimes \ {r} : log[s] # log[r]
=============================================================================
