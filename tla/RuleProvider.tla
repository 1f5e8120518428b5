---------------------------- MODULE RuleProvider ----------------------------
(***************************************************************************)
(* The MCP server scx_agent_classed_mcp, which offers the rules of the     *)
(* scheduler to the tuning agent as a mutation (provider.rs), keeps a      *)
(* journal of operations in a file (journal.rs) and talks to the control   *)
(* socket with a timeout for each exchange (control.rs). RuleControl is    *)
(* the other end of that socket.                                           *)
(*                                                                         *)
(* One change of one comm, with an operation for each of apply, restore    *)
(* and finalize. The agent may call them in any order and as often as it   *)
(* likes, lose an answer, or die and start a new server process; another   *)
(* client of the socket changes the same rule.                             *)
(***************************************************************************)
EXTENDS RuleControl

CONSTANTS
  Comm,
  Procs,     \* server processes, each a connection of the socket
  External,  \* the connection of another client
  Orphans    \* whether a server survives an agent that is killed

ASSUME ProviderAssumption ==
  /\ Comm \in Comms /\ Procs \subseteq Conns /\ External \in Conns \ Procs

VARIABLES
  journal,   \* operation -> its record, or None
  calls,     \* server process -> the call it works on
  server,    \* the process the agent talks to
  prepared,  \* what the agent holds from prepare, or None
  reply,     \* the answer to the agent's last call, or None
  seen       \* history: states the rule had, in all three places, during a call

providerVars == <<journal, calls, server, prepared, reply, seen>>
allVars == <<ruleVars, providerVars>>

Operations == {"apply", "restore", "finalize"}

CompletedState == [apply |-> "applied", restore |-> "restored", finalize |-> "finalized"]

Quiet == [stage |-> "idle", kind |-> None, purpose |-> None, input |-> None, result |-> None]

Record(kind, input) == [kind |-> kind, input |-> input, phase |-> "started", result |-> None]

From(call) == IF call.kind = "restore" THEN call.input.desired ELSE call.input.baseline
To(call) == IF call.kind = "restore" THEN call.input.baseline ELSE call.input.desired

\* ObservedRule::integrity_matches
IntegrityMatches(answer, state) ==
  LET rule == answer.rules[Comm] IN
  rule.consistent /\ rule.active = state /\ rule.persisted = state

Holds(answer, state) == answer.current = state /\ IntegrityMatches(answer, state)

\* OperationRecord::infer_state
InferState(record, answer) ==
  LET baseline == Holds(answer, record.input.baseline)
      desired  == Holds(answer, record.input.desired)
  IN IF record.kind = "apply" /\ desired THEN "applied"
     ELSE IF record.kind = "apply" /\ baseline THEN "not_applied"
     ELSE IF record.kind = "restore" /\ baseline THEN "restored"
     ELSE IF record.kind = "restore" /\ desired THEN "applied"
     ELSE IF record.kind = "finalize" /\ desired THEN "finalized" ELSE "unknown"

----------------------------------------------------------------------------
(* The end of a call: the answer reaches the agent unless it is gone.      *)

Return(p, state) ==
  /\ calls' = [calls EXCEPT ![p] = Quiet]
  /\ reply' = IF p = server THEN [kind |-> calls[p].kind, state |-> state, input |-> calls[p].input]
              ELSE reply

Go(p, stage) == calls' = [calls EXCEPT ![p].stage = stage] /\ reply' = reply

Finished(p, result) ==
  calls' = [calls EXCEPT ![p].stage = "complete", ![p].result = result] /\ reply' = reply

----------------------------------------------------------------------------
(* Calls of the agent.                                                     *)

\* prepare of one class; apply, restore, finalize and verify of what was prepared;
\* status of an operation.
Call(kind, purpose, input) ==
  /\ calls[server].stage = "idle" /\ answers[server] = None
  /\ calls' = [calls EXCEPT ![server] =
                 [stage |-> IF kind \in Operations /\ purpose # "status" THEN "begin"
                            ELSE IF purpose = "status" THEN "lookup" ELSE "ask",
                  kind |-> kind, purpose |-> purpose, input |-> input, result |-> None]]
  /\ reply' = None
  /\ UNCHANGED <<ruleVars, journal, server, prepared>>

AgentCalls ==
  \/ \E class \in Classes :
       prepared = None /\ Call("prepare", "prepare", [baseline |-> None, desired |-> class])
  \/ \E kind \in Operations : Call(kind, "status", None)
  \/ prepared # None /\ \E kind \in Operations : Call(kind, "preflight", prepared)
  \/ prepared # None /\ Call("verify", "verify", prepared)

\* The agent keeps what prepare returned; later it prepares another change.
AgentPrepares ==
  /\ calls[server].stage = "idle"
  /\ \/ /\ reply # None /\ reply.kind = "prepare" /\ reply.state = "prepared"
        /\ prepared' = reply.input /\ reply' = None
     \/ /\ prepared # None /\ prepared' = None /\ UNCHANGED reply
  /\ UNCHANGED <<ruleVars, journal, calls, server>>

\* The agent is killed and started again with a new server process. The old one
\* reads the end of its input when it has finished its call.
AgentRestarts ==
  \E p \in Procs \ {server} :
    /\ calls[p].stage = "idle" /\ answers[p] = None /\ ~Waiting(p)
    /\ server' = p /\ reply' = None
    /\ IF Orphans THEN UNCHANGED <<calls, ruleVars>>
       ELSE /\ calls' = [calls EXCEPT ![server] = Quiet]
            /\ \/ Waiting(server) /\ GiveUp(server)
               \/ answers[server] # None /\ Receive(server)
               \/ ~Waiting(server) /\ answers[server] = None /\ UNCHANGED ruleVars
    /\ UNCHANGED <<journal, prepared>>

----------------------------------------------------------------------------
(* The journal.                                                            *)

\* save may fail before the file is replaced, or after it.
Save(op, record) ==
  \/ journal' = [journal EXCEPT ![op] = record]
  \/ UNCHANGED journal

\* Journal::begin: the record of an operation is found again with the same input
\* only, and a completed one turns the call into a replay.
Begin(p) ==
  /\ calls[p].stage = "begin"
  /\ LET call == calls[p]
         record == journal[call.kind]
     IN \/ /\ record # None /\ record.input # call.input
           /\ Return(p, "error") /\ UNCHANGED journal
        \/ /\ record # None /\ record.input = call.input
           /\ calls' = [calls EXCEPT ![p].stage = "ask",
                          ![p].purpose = IF record.phase = "completed" THEN "replay" ELSE "preflight"]
           /\ UNCHANGED <<journal, reply>>
        \/ /\ record = None
           /\ Save(call.kind, Record(call.kind, call.input)) /\ Return(p, "error")
        \/ /\ record = None
           /\ journal' = [journal EXCEPT ![call.kind] = Record(call.kind, call.input)]
           /\ Go(p, "ask")
  /\ UNCHANGED <<ruleVars, server, prepared>>

\* mutation_status begins with Journal::get.
Lookup(p) ==
  /\ calls[p].stage = "lookup"
  /\ IF journal[calls[p].kind] = None THEN Return(p, "unknown") ELSE Go(p, "ask")
  /\ UNCHANGED <<ruleVars, journal, server, prepared>>

\* Journal::complete.
Complete(p) ==
  /\ calls[p].stage = "complete"
  /\ LET call == calls[p]
         record == journal[call.kind]
         done == [record EXCEPT !.phase = "completed", !.result = call.result]
     IN \/ record = None /\ Return(p, "error") /\ UNCHANGED journal
        \/ /\ record # None /\ record.phase = "completed"
           /\ Return(p, IF record.result = call.result THEN call.result ELSE "error")
           /\ UNCHANGED journal
        \/ /\ record # None /\ record.phase = "started"
           /\ \/ Save(call.kind, done) /\ Return(p, "error")
              \/ journal' = [journal EXCEPT ![call.kind] = done] /\ Return(p, call.result)
  /\ UNCHANGED <<ruleVars, server, prepared>>

----------------------------------------------------------------------------
(* Exchanges with the scheduler.                                           *)

\* read_rule, and the compare-and-set of mutate.
Ask(p) ==
  /\ calls[p].stage \in {"ask", "set"}
  /\ \/ /\ Send(IF calls[p].stage = "ask" THEN Request(p, "get", Comm, None, None)
                ELSE Request(p, "cas", Comm, From(calls[p]), To(calls[p])))
        /\ Go(p, IF calls[p].stage = "ask" THEN "reading" ELSE "setting")
     \/ UNCHANGED ruleVars /\ Return(p, "error")   \* connect fails or times out
  /\ UNCHANGED <<journal, server, prepared>>

\* Variant: an exchange has no timeout.
WaitForever(p) == FALSE /\ GiveUp(p) /\ Return(p, "error") /\ UNCHANGED <<journal, server, prepared>>

\* The answer does not come in time.
TimeOut(p) ==
  /\ calls[p].stage \in {"reading", "setting"}
  /\ GiveUp(p)
  /\ Return(p, "error")
  /\ UNCHANGED <<journal, server, prepared>>

Answered(p) == Receive(p) /\ UNCHANGED <<journal, server, prepared>>

Failed(answer) == answer.status \in {"Error", "Closed"}

\* exchange fails: the call fails.
HearFailure(p) ==
  /\ calls[p].stage \in {"reading", "setting"} /\ answers[p] # None /\ Failed(answers[p])
  /\ Return(p, "error")
  /\ Answered(p)

\* The compare-and-set is answered; the rule is read back.
HearSet(p) ==
  /\ calls[p].stage = "setting" /\ answers[p] # None /\ ~Failed(answers[p])
  /\ IF answers[p].status \in {"Applied", "Noop"}
       THEN calls' = [calls EXCEPT ![p].stage = "ask", ![p].purpose = "readback"] /\ reply' = reply
       ELSE Return(p, "error")
  /\ Answered(p)

\* The rule is read: for prepare and verify, ...
HearPlain(p) ==
  /\ calls[p].stage = "reading" /\ answers[p] # None /\ ~Failed(answers[p])
  /\ LET call == calls[p]
         a == answers[p]
     IN \/ /\ call.purpose = "prepare"
           /\ IF a.rules[Comm].base \/ a.current = call.input.desired THEN Return(p, "error")
              ELSE /\ calls' = [calls EXCEPT ![p] = Quiet]
                   /\ reply' = IF p # server THEN reply
                               ELSE [kind |-> "prepare", state |-> "prepared",
                                     input |-> [call.input EXCEPT !.baseline = a.current]]
        \/ /\ call.purpose = "verify"
           /\ \E expected \in {call.input.baseline, call.input.desired} :
                Return(p, IF Holds(a, expected) THEN "matched" ELSE "differs")
  /\ Answered(p)

\* ... for status, ...
HearStatus(p) ==
  /\ calls[p].stage = "reading" /\ answers[p] # None /\ ~Failed(answers[p])
  /\ calls[p].purpose = "status"
  /\ LET record == journal[calls[p].kind]
         state == InferState(record, answers[p])
     IN IF state = CompletedState[record.kind]
          THEN calls' = [calls EXCEPT ![p].stage = "complete", ![p].result = state,
                                      ![p].input = record.input] /\ reply' = reply
          ELSE calls' = [calls EXCEPT ![p] = Quiet]
               /\ reply' = IF p # server THEN reply
                           ELSE [kind |-> record.kind, state |-> state, input |-> record.input]
  /\ Answered(p)

\* Variant: a replay reports what the journal says.
HearOperationReplayed(p) ==
  /\ calls[p].stage = "reading" /\ answers[p] # None /\ ~Failed(answers[p])
  /\ LET call == calls[p]
         held == Holds(answers[p], To(call))
     IN \/ call.purpose = "replay" /\ Return(p, CompletedState[call.kind])
        \/ /\ call.purpose \in {"preflight", "readback"} /\ held
           /\ Finished(p, CompletedState[call.kind])
        \/ /\ call.purpose \in {"preflight", "readback"} /\ ~held
           /\ IF call.purpose = "preflight" THEN Go(p, "set") ELSE Return(p, "error")
  /\ Answered(p)

\* ... and for apply, restore and finalize: a replay only reports; a rule that is
\* as wanted completes the operation; one that is neither fails it.
HearOperation(p) ==
  /\ calls[p].stage = "reading" /\ answers[p] # None /\ ~Failed(answers[p])
  /\ LET call == calls[p]
         held == Holds(answers[p], To(call))
     IN \/ /\ call.purpose = "replay"
           /\ Return(p, IF held THEN CompletedState[call.kind] ELSE "unknown")
        \/ /\ call.purpose \in {"preflight", "readback"} /\ held
           /\ Finished(p, CompletedState[call.kind])
        \/ /\ call.purpose \in {"preflight", "readback"} /\ ~held
           /\ IF /\ call.purpose = "preflight" /\ call.kind # "finalize"
                 /\ answers[p].current = From(call)
                THEN Go(p, "set") ELSE Return(p, "error")
  /\ Answered(p)

----------------------------------------------------------------------------
ProviderInit ==
  /\ RuleInit
  /\ journal = [op \in Operations |-> None]
  /\ calls = [p \in Procs |-> Quiet]
  /\ server \in Procs
  /\ prepared = None /\ reply = None
  /\ seen = [p \in Procs |-> {}]

ProcStep(p) ==
  \/ Begin(p) \/ Lookup(p) \/ Complete(p) \/ Ask(p) \/ TimeOut(p)
  \/ HearFailure(p) \/ HearSet(p) \/ HearPlain(p) \/ HearStatus(p) \/ HearOperation(p)

\* Another client sets the rule, and waits for its answer.
ExternalStep ==
  /\ \/ \E expected, desired \in States :
          expected # desired /\ Send(Request(External, "cas", Comm, expected, desired))
     \/ Receive(External)
  /\ UNCHANGED <<journal, calls, server, prepared, reply>>

SchedulerStep ==
  /\ Scheduler \/ Crash \/ Start
  /\ UNCHANGED <<journal, calls, server, prepared, reply>>

\* The rule, when memory, file and map have the same.
Settled(rules, file, map) ==
  {rules[Comm]} \intersect {file[Comm]} \intersect {map[Comm]}

Observe ==
  LET now == IF up' THEN Settled(store'.rules, doc'.rules, active') ELSE {} IN
  seen' = [p \in Procs |->
    IF calls'[p].stage # "idle" THEN now \union IF calls[p].stage = "idle" THEN {} ELSE seen[p]
    ELSE IF p = server' /\ reply' # None THEN seen[p]
    ELSE {}]

ProviderNext ==
  /\ \/ AgentCalls \/ AgentPrepares \/ AgentRestarts
     \/ \E p \in Procs : ProcStep(p)
     \/ ExternalStep \/ SchedulerStep
  /\ Observe

ProviderSpec == ProviderInit /\ [][ProviderNext]_allVars

----------------------------------------------------------------------------
StateOf(r) ==
  IF r.state \in {"applied", "finalized"} THEN r.input.desired ELSE r.input.baseline

\* An answer that names a state of the rule is not a guess: at some moment during
\* the call the scheduler's memory, its file and the BPF map all had that state,
\* whatever the other client did, however often the scheduler crashed, and
\* whether the operation was done, replayed or found done (mutate,
\* mutation_finalize, mutation_status).
ReceiptIsTrue ==
  reply # None /\ reply.state \in {"applied", "restored", "finalized", "not_applied"}
    => StateOf(reply) \in seen[server]

\* A compare-and-set of this server that the scheduler has yet to serve, or that a
\* process may yet send.
Outstanding ==
  \/ \E i \in DOMAIN backlog : backlog[i].op = "cas" /\ backlog[i].conn # External
  \/ job # Idle /\ job.request.conn # External
  \/ \E p \in Procs : \/ calls[p].stage \in {"begin", "set"}
                      \/ calls[p].stage \in {"ask", "reading"} /\ calls[p].purpose = "preflight"

\* When a call has answered with a state, nothing the server did before can change
\* the rule any more, not even a request that timed out and still waits on the
\* socket: what the agent is told does not become false later by its own doing.
NothingOutstanding ==
  reply # None /\ reply.state \notin {"error", "unknown"} => ~Outstanding

\* A call never waits for the scheduler or for the other client: whatever they do,
\* hang or be gone, it can go on by itself. Its stages do not repeat, so it returns.
CallGoesOn == \A p \in Procs : calls[p].stage # "idle" => ENABLED ProcStep(p)

\* A call comes to its answer without waiting for anybody, and its answer stands: the
\* call leaves no request behind that could undo it (exchange, mutate).
CallIsSettled == NothingOutstanding /\ CallGoesOn
=============================================================================
