---------------------------- MODULE RuleControl ----------------------------
(***************************************************************************)
(* The dynamic rules of the scheduler scx_agent_classed: the learned rules *)
(* on disk and in memory (rules/store.rs, rules/mod.rs), the rules of the  *)
(* BPF map, and the control socket on which one thread serves get_rule,    *)
(* snapshot and compare_and_set_rule (scheduler.rs, control.rs).           *)
(*                                                                         *)
(* A compare-and-set is not one step: the file is replaced, the map is     *)
(* updated, and a failed update is undone in both. The process may die     *)
(* between any two of these, and a client may give up while its request    *)
(* waits in the backlog, where it stays and is served later.               *)
(***************************************************************************)
EXTENDS Naturals, Sequences, FiniteSets

CONSTANTS
  Comms, Classes,
  Absent,        \* the state of a rule that is not present
  Base,          \* the read-only rules: [Comms -> Classes \union {Absent}]
  MaxRules,      \* entries of the BPF map
  MaxRevision,   \* the largest revision (u64::MAX)
  Conns,         \* connections that may be open at the same time
  Gone,          \* the connection of a client that gave up
  None,
  MaxBacklog,    \* requests waiting on the socket, a bound of the model
  MapDrift       \* whether something else writes the BPF map

States == Classes \union {Absent}

ASSUME RuleAssumption ==
  /\ Absent \notin Classes /\ Gone \notin Conns
  /\ Base \in [Comms -> States]

Tables == [Comms -> States]

VARIABLES
  up,        \* the scheduler runs
  doc,       \* the learned-rules file: [rules, revision]
  synced,    \* what of it is on stable storage
  store,     \* RuleStore in memory: [rules, revision]
  active,    \* the rules of the BPF map
  job,       \* the request being served and how far it is
  backlog,   \* requests on the socket, in order of arrival
  answers,   \* conn -> the answer that lies on it, or None
  promised,  \* history: what was answered Applied and not changed since
  drifted    \* history: the BPF map was changed from outside in this run

ruleVars == <<up, doc, synced, store, active, job, backlog, answers, promised, drifted>>

----------------------------------------------------------------------------
Idle == [stage |-> "idle", request |-> None]

\* Base rules take precedence over learned ones.
Effective(rules) == [c \in Comms |-> IF Base[c] # Absent THEN Base[c] ELSE rules[c]]

\* RuleSnapshot::new: the table must fit into the map.
Fits(rules) == Cardinality({c \in Comms : Effective(rules)[c] # Absent}) <= MaxRules

Changed(rules, comm, state) == [rules EXCEPT ![comm] = state]

\* rule_observation: persisted is read from the file each time.
Observation(c) ==
  [active |-> active[c], persisted |-> doc.rules[c],
   base |-> Base[c] # Absent,
   consistent |-> active[c] = Effective(store.rules)[c] /\ doc = store]

Answer(status, current, comms) ==
  [status |-> status, current |-> current, rules |-> [c \in comms |-> Observation(c)]]

Error == [status |-> "Error"]

\* The response goes to the connection, if its client is still there.
Deliver(conn, answer) ==
  answers' = IF conn = Gone THEN answers ELSE [answers EXCEPT ![conn] = answer]

----------------------------------------------------------------------------
(* Clients.                                                                *)

Waiting(conn) ==
  \/ \E i \in DOMAIN backlog : backlog[i].conn = conn
  \/ job.stage # "idle" /\ job.request.conn = conn

\* connect_timeout and the write of the request.
Send(request) ==
  /\ up /\ Len(backlog) < MaxBacklog
  /\ ~Waiting(request.conn) /\ answers[request.conn] = None
  /\ backlog' = Append(backlog, request)
  /\ UNCHANGED <<up, doc, synced, store, active, job, answers, promised, drifted>>

Receive(conn) ==
  /\ answers[conn] # None
  /\ answers' = [answers EXCEPT ![conn] = None]
  /\ UNCHANGED <<up, doc, synced, store, active, job, backlog, promised, drifted>>

Forget(request, conn) == IF request.conn = conn THEN [request EXCEPT !.conn = Gone] ELSE request

\* The read timeout of the client: the request is not taken back.
GiveUp(conn) ==
  /\ Waiting(conn)
  /\ backlog' = [i \in DOMAIN backlog |-> Forget(backlog[i], conn)]
  /\ job' = IF job.stage = "idle" THEN job ELSE [job EXCEPT !.request = Forget(@, conn)]
  /\ UNCHANGED <<up, doc, synced, store, active, answers, promised, drifted>>

----------------------------------------------------------------------------
(* The scheduler.                                                          *)

\* poll_control ends with an error: the process exits, its map goes with it.
\* Requests it had not accepted are lost, and their clients see the socket close.
Exit ==
  /\ up' = FALSE /\ job' = Idle /\ backlog' = <<>>

Closed(answered) ==
  [conn \in Conns |->
     IF \E i \in DOMAIN backlog : backlog[i].conn = conn /\ answered # conn
       THEN [status |-> "Closed"] ELSE answers[conn]]

\* A fatal error is answered first, then the process ends.
Die(conn) ==
  /\ answers' = [c \in Conns |-> IF c = conn THEN Error ELSE Closed(conn)[c]]
  /\ Exit

Finish == job' = Idle /\ backlog' = Tail(backlog)

\* A connection whose request is not read in time is dropped without an answer.
DropConnection ==
  /\ up /\ job = Idle /\ backlog # <<>>
  /\ backlog' = Tail(backlog)
  /\ Deliver(Head(backlog).conn, [status |-> "Closed"])
  /\ UNCHANGED <<up, doc, synced, store, active, job, promised, drifted>>

\* Variant: the request that came last is served first.
ServeReadFirst ==
  /\ up /\ job = Idle /\ backlog # <<>>
  /\ LET r == backlog[Len(backlog)] IN
     r.op = "get" /\ Deliver(r.conn, Answer("Ok", store.rules[r.comm], {r.comm}))
  /\ backlog' = SubSeq(backlog, 1, Len(backlog) - 1)
  /\ UNCHANGED <<up, doc, synced, store, active, job, promised, drifted>>

\* GetRule and Snapshot; reading the file or the map may fail. A request that
\* is not valid is answered with its error.
ServeRead ==
  /\ up /\ job = Idle /\ backlog # <<>>
  /\ LET r == Head(backlog) IN
     /\ r.op \in {"get", "snapshot", "invalid"}
     /\ \/ Deliver(r.conn, Error)
        \/ r.op = "get" /\ Deliver(r.conn, Answer("Ok", store.rules[r.comm], {r.comm}))
        \/ r.op = "snapshot" /\ Deliver(r.conn, Answer("Ok", None, Comms))
  /\ Finish
  /\ UNCHANGED <<up, doc, synced, store, active, promised, drifted>>

\* The part of CompareAndSetRule that refuses or finds a conflict.
RefuseSet ==
  /\ up /\ job = Idle /\ backlog # <<>>
  /\ LET r == Head(backlog) IN
     /\ r.op = "cas"
     /\ \/ /\ \/ Base[r.comm] # Absent
              \/ /\ store.rules[r.comm] = r.expected /\ r.expected # r.desired
                 /\ \/ store.revision = MaxRevision
                    \/ ~Fits(Changed(store.rules, r.comm, r.desired))
           /\ Deliver(r.conn, Error)
        \/ /\ Base[r.comm] = Absent /\ store.rules[r.comm] # r.expected
           /\ \/ Deliver(r.conn, Answer("Conflict", store.rules[r.comm], {r.comm}))
              \/ Deliver(r.conn, Error)
  /\ Finish
  /\ UNCHANGED <<up, doc, synced, store, active, promised, drifted>>

\* Variant: a rule that is as desired in the store is not looked up in the map.
ServeNoopUnread ==
  /\ up /\ job = Idle /\ backlog # <<>>
  /\ LET r == Head(backlog) IN
     /\ r.op = "cas" /\ Base[r.comm] = Absent
     /\ store.rules[r.comm] = r.expected /\ r.expected = r.desired
     /\ Deliver(r.conn, Answer("Noop", r.desired, {r.comm}))
  /\ Finish
  /\ UNCHANGED <<up, doc, synced, store, active, promised, drifted>>

\* The rule is already as desired: the map is reconciled where it differs.
ServeNoop ==
  /\ up /\ job = Idle /\ backlog # <<>>
  /\ LET r == Head(backlog) IN
     /\ r.op = "cas" /\ Base[r.comm] = Absent
     /\ store.rules[r.comm] = r.expected /\ r.expected = r.desired
     /\ \/ /\ active[r.comm] # r.desired
           /\ \/ job' = [stage |-> "reconcile", request |-> r] /\ UNCHANGED answers
              \/ job' = Idle /\ Deliver(r.conn, Error)
        \/ /\ active[r.comm] = r.desired
           /\ job' = Idle
           /\ \/ Deliver(r.conn, Answer("Noop", r.desired, {r.comm}))
              \/ Deliver(r.conn, Error)
  /\ backlog' = Tail(backlog)
  /\ UNCHANGED <<up, doc, synced, store, active, promised, drifted>>

NextDocument(comm, state) ==
  [rules |-> Changed(store.rules, comm, state), revision |-> store.revision + 1]

\* Variant: the directory is not synced after the rename.
ReplaceUnsynced(comm, state, outcome) ==
  /\ store.revision < MaxRevision
  /\ doc' = NextDocument(comm, state)
  /\ outcome \in {"durable", "unsynced"}
  /\ store' = doc' /\ synced' = synced

\* RuleStore::compare_and_set after its checks, with atomic_replace: the document
\* is durable, or renamed but not synced.
Replace(comm, state, outcome) ==
  /\ store.revision < MaxRevision
  /\ doc' = NextDocument(comm, state)
  /\ synced' = IF outcome = "durable" THEN doc' ELSE synced
  /\ outcome \in {"durable", "unsynced"}
  /\ store' = doc'

Withdraw(comm) == promised' = [promised EXCEPT ![comm] = None]

\* The document is replaced; an error before the rename leaves everything alone,
\* one after it is fatal.
ServeSet ==
  /\ up /\ job = Idle /\ backlog # <<>>
  /\ LET r == Head(backlog) IN
     /\ r.op = "cas" /\ Base[r.comm] = Absent
     /\ store.rules[r.comm] = r.expected /\ r.expected # r.desired
     /\ store.revision < MaxRevision /\ Fits(Changed(store.rules, r.comm, r.desired))
     /\ \/ Deliver(r.conn, Error) /\ Finish /\ UNCHANGED <<up, doc, synced, store, promised>>
        \/ /\ Replace(r.comm, r.desired, "durable")
           /\ job' = [stage |-> "publish", request |-> r]
           /\ backlog' = Tail(backlog)
           /\ Withdraw(r.comm)
           /\ UNCHANGED <<up, answers>>
        \/ /\ Replace(r.comm, r.desired, "unsynced")
           /\ Withdraw(r.comm)
           /\ Die(r.conn)
  /\ UNCHANGED <<active, drifted>>

\* publish_rule after the document: a failure is undone, a success answered. The
\* observation that goes into the answer may fail too.
Publish ==
  /\ up /\ job.stage = "publish"
  /\ LET r == job.request IN
     \/ job' = [job EXCEPT !.stage = "undo"] /\ UNCHANGED <<active, answers, promised>>
     \/ /\ active' = [active EXCEPT ![r.comm] = r.desired]
        /\ \/ /\ Deliver(r.conn, [status |-> "Applied", current |-> r.desired,
                                  rules |-> [c \in {r.comm} |->
                                    [active |-> r.desired, persisted |-> doc.rules[c],
                                     base |-> FALSE, consistent |-> doc = store]]])
              /\ promised' = [promised EXCEPT ![r.comm] = r.desired]
           \/ Deliver(r.conn, Error) /\ UNCHANGED promised
        /\ job' = Idle
  /\ UNCHANGED <<up, doc, synced, store, backlog, drifted>>

\* Variant: the recovery of a failed publication does not restore the document.
UndoNothing ==
  /\ up /\ job.stage = "undo"
  /\ job' = [job EXCEPT !.stage = "republish"]
  /\ UNCHANGED <<up, doc, synced, store, active, backlog, answers, promised, drifted>>

\* The recovery of a failed publication, first half: the document is set back
\* with a new revision. Any failure of the recovery is fatal.
Undo ==
  /\ up /\ job.stage = "undo"
  /\ LET r == job.request IN
     \/ Die(r.conn) /\ UNCHANGED <<doc, synced, store>>
     \/ Replace(r.comm, r.expected, "unsynced") /\ Die(r.conn)
     \/ /\ Replace(r.comm, r.expected, "durable")
        /\ job' = [job EXCEPT !.stage = "republish"]
        /\ UNCHANGED <<up, answers, backlog>>
  /\ UNCHANGED <<active, promised, drifted>>

\* Second half: the map is set back, and the request is answered with its error.
Republish ==
  /\ up /\ job.stage = "republish"
  /\ LET r == job.request IN
     \/ Die(r.conn) /\ UNCHANGED active
     \/ /\ active' = [active EXCEPT ![r.comm] = r.expected]
        /\ Deliver(r.conn, Error)
        /\ job' = Idle
        /\ UNCHANGED <<up, backlog>>
  /\ UNCHANGED <<doc, synced, store, promised, drifted>>

Reconcile ==
  /\ up /\ job.stage = "reconcile"
  /\ LET r == job.request IN
     \/ Die(r.conn) /\ UNCHANGED active
     \/ /\ active' = [active EXCEPT ![r.comm] = r.desired]
        /\ \/ Deliver(r.conn, Error)
           \/ Deliver(r.conn, Answer("Noop", r.desired, {r.comm}))
        /\ job' = Idle
        /\ UNCHANGED <<up, backlog>>
  /\ UNCHANGED <<doc, synced, store, promised, drifted>>

----------------------------------------------------------------------------
(* Faults and restarts.                                                    *)

\* The process dies; what it had written stays.
Crash ==
  /\ up
  /\ answers' = [conn \in Conns |-> IF Waiting(conn) THEN [status |-> "Closed"] ELSE answers[conn]]
  /\ Exit
  /\ UNCHANGED <<doc, synced, store, active, promised, drifted>>

\* The machine loses power: only what was synced is certain to be there.
PowerLoss ==
  /\ answers' = [conn \in Conns |-> IF Waiting(conn) THEN [status |-> "Closed"] ELSE answers[conn]]
  /\ Exit
  /\ doc' \in {doc, synced}
  /\ synced' = doc'
  /\ UNCHANGED <<store, active, promised, drifted>>

\* Something other than the scheduler writes the BPF map.
DriftMap ==
  /\ MapDrift /\ up /\ job = Idle
  /\ \E c \in Comms, state \in States : active' = [active EXCEPT ![c] = state]
  /\ drifted' = TRUE
  /\ UNCHANGED <<up, doc, synced, store, job, backlog, answers, promised>>

\* Scheduler::init: the file is read and the map is filled from it.
Start ==
  /\ ~up
  /\ up' = TRUE
  /\ store' = doc
  /\ active' = Effective(doc.rules)
  /\ drifted' = FALSE
  /\ UNCHANGED <<doc, synced, job, backlog, answers, promised>>

----------------------------------------------------------------------------
RuleInit ==
  /\ up = TRUE
  /\ doc = [rules |-> [c \in Comms |-> Absent], revision |-> 0]
  /\ synced = doc /\ store = doc
  /\ active = Effective(doc.rules)
  /\ job = Idle /\ backlog = <<>>
  /\ answers = [conn \in Conns |-> None]
  /\ promised = [c \in Comms |-> None]
  /\ drifted = FALSE

Scheduler ==
  \/ DropConnection \/ ServeRead \/ RefuseSet \/ ServeNoop \/ ServeSet
  \/ Publish \/ Undo \/ Republish \/ Reconcile

Request(conn, op, comm, expected, desired) ==
  [conn |-> conn, op |-> op, comm |-> comm, expected |-> expected, desired |-> desired]

Requests(conn) ==
  {Request(conn, op, None, None, None) : op \in {"snapshot", "invalid"}}
    \union {Request(conn, "get", c, None, None) : c \in Comms}
    \union {Request(conn, "cas", c, a, b) : c \in Comms, a \in States, b \in States}

Clients(conns) == \E conn \in conns :
  \/ Receive(conn)
  \/ GiveUp(conn)
  \/ \E request \in Requests(conn) : Send(request)

RuleNext(conns) == Scheduler \/ Clients(conns) \/ Crash \/ PowerLoss \/ Start \/ DriftMap

RuleSpec == RuleInit /\ [][RuleNext(Conns)]_ruleVars

----------------------------------------------------------------------------
\* Between two requests the file, the memory and the BPF map agree, whatever part
\* of the earlier ones failed: a publication that failed was undone in all three,
\* or the process ended (handle_control_inner, persistence_uncertain).
IdleMeansAgreed ==
  up /\ job = Idle => doc = store /\ (~drifted => active = Effective(store.rules))

\* A rule that was answered Applied is on stable storage, so that neither a crash
\* nor a loss of power takes it back, until another request changes it.
AppliedIsDurable ==
  \A c \in Comms : promised[c] # None => synced.rules[c] = promised[c]

\* Applied and Noop are answered only when the rule is in the map and in the file,
\* also when something else had changed the map.
AcknowledgedIsActive ==
  [][\A conn \in Conns :
       answers'[conn] # answers[conn] /\ answers'[conn] # None
         /\ answers'[conn].status \in {"Applied", "Noop"}
       => \A c \in DOMAIN answers'[conn].rules :
            active'[c] = answers'[conn].current /\ doc'.rules[c] = answers'[conn].current]_ruleVars

\* An acknowledged rule is in force and stays: it is in the map and the file when it is
\* acknowledged, and on stable storage afterwards (compare_and_set_rule).
AcknowledgedHolds == []AppliedIsDurable /\ AcknowledgedIsActive
=============================================================================
