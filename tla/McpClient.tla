----------------------------- MODULE McpClient -----------------------------
(***************************************************************************)
(* The stdio client of an MCP server (adapters/mcp/client.rs): caller      *)
(* threads that put requests into a pipe and wait on a channel of their    *)
(* own, the reader thread that correlates the response frames with the     *)
(* pending map, and the server process at the other end, which is external *)
(* except for the order in which it works: one frame after the other, as   *)
(* serve_stdio of scx_agent_classed_mcp does.                              *)
(*                                                                         *)
(* A request goes through the flag check, the insertion into the map, the  *)
(* second flag check, the write and the wait as separate steps, because    *)
(* the reader may run between any two of them. Request 1 is "initialize";  *)
(* the other requests are tool calls. A frame carries the identifier it    *)
(* answers and a class that stands for its bytes.                          *)
(***************************************************************************)
EXTENDS Naturals, Sequences, Functions

CONSTANTS
  Callers,       \* the threads that share the client
  Initializer,   \* the thread that runs connect
  MaxRequests,   \* bound: identifiers handed out
  PipeCapacity,  \* frames the stdin pipe holds before a write blocks
  MaxStray,      \* bound: frames the server sends of its own accord
  ToolResults    \* the tools/call results a server may send

ASSUME McpAssumption ==
  /\ Initializer \in Callers
  /\ MaxRequests \in Nat \ {0}
  /\ PipeCapacity \in Nat \ {0}
  /\ MaxStray \in Nat

VARIABLES
  pc,        \* pc[c]: where caller c is in request()
  id,        \* id[c]: the identifier of c's request, 0 before the first
  outcome,   \* outcome[c]: how c's last request ended
  pending,   \* the identifiers in the pending map
  channel,   \* channel[i]: the message sent for request i, at most one
  closed,    \* the closed flag
  nextId,
  phase,     \* "initializing", "notifying", "ready", "failed" or "dropped"
  reader,    \* "reading", "failing" (flag set, map not drained), "sending" or "exited"
  drained,   \* the identifiers fail_all_pending took and has not yet answered
  stdin,     \* the frames on their way to the server; 0 is the notification
  stdout,    \* the frames on their way to the reader
  server,    \* "up", "deaf" (it has closed its input) or "dead"
  written,   \* history: the frames written to the pipe, in order
  taken,     \* history: how many of them the server has worked on
  stray      \* how many frames the server has sent of its own accord

clientVars == <<pc, id, outcome, pending, channel, closed, nextId, phase>>
readerVars == <<reader, drained>>
pipeVars   == <<stdin, stdout, server, written, taken, stray>>
mcpVars    == <<clientVars, readerVars, pipeVars>>

Ids        == 1 .. MaxRequests
Initialize == 1
NoOutcome  == [kind |-> "None", of |-> 0]

----------------------------------------------------------------------------
(* Decoding.                                                               *)

\* The value of a tools/call result: how it ends for the caller of call_tool.
\* raw.bytes and raw.output are sizes against the capability's limit.
DecodeToolResult(raw) ==
  IF raw.bytes = "over" \/ ~raw.envelope THEN "Protocol"
  ELSE IF raw.isError THEN "Tool"
  ELSE IF ~raw.structured /\ raw.content # <<"json">> THEN "Protocol"
  ELSE IF raw.output = "over" THEN "Protocol" ELSE "Ok"

\* What parse_response makes of a frame: a correlated message, nothing, or an
\* error that ends the connection.
ParseResponse(frame) ==
  CASE frame.class \in {"notification"} -> {}
    [] frame.class = "rpcError" -> {[kind |-> "Rpc", of |-> frame.id, raw |-> {}]}
    [] OTHER -> {[kind |-> "Result", of |-> frame.id, raw |-> frame.raw]}

\* Frames that read_frame or parse_response refuse.
Malformed(frame) == frame.class = "malformed"

\* How a received message ends the request of caller c: initialize() checks the
\* version and capabilities the server declares, call_tool decodes the result.
Finish(c, message) ==
  IF message.kind # "Result" THEN message.kind
  ELSE IF message.raw = {} THEN IF id[c] = Initialize THEN "Ok" ELSE "Protocol"
  ELSE IF id[c] = Initialize THEN "Protocol"
  ELSE DecodeToolResult(CHOOSE r \in message.raw : TRUE)

----------------------------------------------------------------------------
(* The caller threads.                                                     *)

MayStart(c) ==
  \/ phase = "initializing" /\ c = Initializer /\ nextId = Initialize
  \/ phase = "ready"

Return(c, kind, of) ==
  /\ pc' = [pc EXCEPT ![c] = "idle"]
  /\ outcome' = [outcome EXCEPT ![c] = [kind |-> kind, of |-> of]]
  /\ phase' = IF id[c] # Initialize \/ phase # "initializing" THEN phase
              ELSE IF kind = "Ok" THEN "notifying" ELSE "failed"

\* request(): the first look at the closed flag, then the identifier.
Begin(c) ==
  /\ pc[c] = "idle" /\ MayStart(c) /\ nextId <= MaxRequests
  /\ \/ /\ closed
        /\ outcome' = [outcome EXCEPT ![c] = [kind |-> "Io", of |-> 0]]
        /\ phase' = IF phase = "initializing" THEN "failed" ELSE phase
        /\ UNCHANGED <<pc, id, nextId>>
     \/ /\ ~closed
        /\ id' = [id EXCEPT ![c] = nextId]
        /\ nextId' = nextId + 1
        /\ pc' = [pc EXCEPT ![c] = "numbered"]
        /\ UNCHANGED <<outcome, phase>>
     \/ /\ ~closed /\ phase = "ready"   \* larger than MAX_TRANSPORT_FRAME_BYTES
        /\ id' = [id EXCEPT ![c] = nextId]
        /\ nextId' = nextId + 1
        /\ outcome' = [outcome EXCEPT ![c] = [kind |-> "Protocol", of |-> 0]]
        /\ UNCHANGED <<pc, phase>>
  /\ UNCHANGED <<pending, channel, closed, readerVars, pipeVars>>

Insert(c) ==
  /\ pc[c] = "numbered"
  /\ pending' = pending \union {id[c]}
  /\ pc' = [pc EXCEPT ![c] = "inserted"]
  /\ UNCHANGED <<id, outcome, channel, closed, nextId, phase, readerVars, pipeVars>>

\* Variant: the flag is not looked at again.
DispatchUnchecked(c) ==
  /\ pc[c] = "inserted"
  /\ pc' = [pc EXCEPT ![c] = "writing"]
  /\ UNCHANGED <<id, outcome, pending, channel, closed, nextId, phase, readerVars, pipeVars>>

\* The second look at the flag, after the insertion.
Recheck(c) ==
  /\ pc[c] = "inserted"
  /\ IF closed
       THEN pending' = pending \ {id[c]} /\ Return(c, "Io", 0)
       ELSE pc' = [pc EXCEPT ![c] = "writing"] /\ UNCHANGED <<pending, outcome, phase>>
  /\ UNCHANGED <<id, channel, closed, nextId, readerVars, pipeVars>>

\* write_frame under the stdin lock: it waits while the pipe is full.
Write(c) ==
  /\ pc[c] = "writing" /\ server = "up" /\ Len(stdin) < PipeCapacity
  /\ stdin' = Append(stdin, id[c])
  /\ written' = Append(written, id[c])
  /\ pc' = [pc EXCEPT ![c] = "waiting"]
  /\ UNCHANGED <<id, outcome, pending, channel, closed, nextId, phase, readerVars,
                 stdout, server, taken, stray>>

\* The pipe is broken: the flag is set, then the entry removed.
WriteFails(c) ==
  /\ pc[c] = "writing" /\ server # "up"
  /\ closed' = TRUE
  /\ pc' = [pc EXCEPT ![c] = "unwritten"]
  /\ UNCHANGED <<id, outcome, pending, channel, nextId, phase, readerVars, pipeVars>>

Receive(c) ==
  /\ pc[c] = "waiting"
  /\ \E message \in channel[id[c]] : Return(c, Finish(c, message), message.of)
  /\ UNCHANGED <<id, pending, channel, closed, nextId, readerVars, pipeVars>>

\* Variant: only the end of the connection ends the wait.
WaitForClose(c) ==
  /\ pc[c] = "waiting" /\ channel[id[c]] = {} /\ closed
  /\ pc' = [pc EXCEPT ![c] = "expired"]
  /\ UNCHANGED <<id, outcome, pending, channel, closed, nextId, phase, readerVars, pipeVars>>

\* recv_timeout gives up; the entry is removed in a later step.
TimeOut(c) ==
  /\ pc[c] = "waiting" /\ channel[id[c]] = {}
  /\ pc' = [pc EXCEPT ![c] = "expired"]
  /\ UNCHANGED <<id, outcome, pending, channel, closed, nextId, phase, readerVars, pipeVars>>

\* Variant: a request that timed out leaves its entry behind.
AbandonEntry(c) ==
  /\ pc[c] \in {"expired", "unwritten"}
  /\ Return(c, IF pc[c] = "expired" THEN "Timeout" ELSE "Io", 0)
  /\ UNCHANGED <<pending, id, channel, closed, nextId, readerVars, pipeVars>>

RemovePending(c) ==
  /\ pc[c] \in {"expired", "unwritten"}
  /\ pending' = pending \ {id[c]}
  /\ Return(c, IF pc[c] = "expired" THEN "Timeout" ELSE "Io", 0)
  /\ UNCHANGED <<id, channel, closed, nextId, readerVars, pipeVars>>

\* The rest of initialize(): notify writes one frame, and a failure of it does
\* not set the flag.
Notify ==
  /\ phase = "notifying"
  /\ \/ /\ closed \/ server # "up"
        /\ phase' = "failed"
        /\ UNCHANGED <<stdin, written>>
     \/ /\ ~closed /\ server = "up" /\ Len(stdin) < PipeCapacity
        /\ stdin' = Append(stdin, 0)
        /\ written' = Append(written, 0)
        /\ phase' = "ready"
  /\ UNCHANGED <<pc, id, outcome, pending, channel, closed, nextId, readerVars,
                 stdout, server, taken, stray>>

\* The last handle is gone, so no caller is inside request(): the child is
\* killed and waited for, and what is pending is failed.
Drop ==
  /\ phase \in {"ready", "failed"} /\ \A c \in Callers : pc[c] = "idle"
  /\ phase' = "dropped"
  /\ closed' = TRUE
  /\ server' = "dead"
  /\ pending' = {}
  /\ UNCHANGED <<pc, id, outcome, channel, nextId, readerVars, stdin, stdout, written,
                 taken, stray>>

----------------------------------------------------------------------------
(* The reader thread.                                                      *)

Send(i, message) ==
  channel' = [channel EXCEPT ![i] = @ \union {message}]

\* Variant: answers are matched with requests by their order.
DeliverInOrder ==
  /\ reader = "reading" /\ stdout # <<>> /\ ~Malformed(Head(stdout))
  /\ stdout' = Tail(stdout)
  /\ IF ParseResponse(Head(stdout)) = {} \/ pending = {} THEN UNCHANGED <<pending, channel>>
     ELSE LET first == CHOOSE i \in pending : \A j \in pending : i <= j
          IN /\ pending' = pending \ {first}
             /\ Send(first, CHOOSE m \in ParseResponse(Head(stdout)) : TRUE)
  /\ UNCHANGED <<pc, id, outcome, closed, nextId, phase, readerVars, stdin, server,
                 written, taken, stray>>

\* Variant: the sender stays in the map.
DeliverAndKeep ==
  /\ reader = "reading" /\ stdout # <<>> /\ ~Malformed(Head(stdout))
  /\ stdout' = Tail(stdout)
  /\ IF \E m \in ParseResponse(Head(stdout)) : m.of \in pending
       THEN \E m \in ParseResponse(Head(stdout)) : Send(m.of, m)
       ELSE UNCHANGED channel
  /\ UNCHANGED <<pc, id, outcome, pending, closed, nextId, phase, readerVars, stdin, server,
                 written, taken, stray>>

\* One frame: the sender is taken out of the map and used under its lock. A
\* response that nobody waits for, and a notification, are ignored.
Deliver ==
  /\ reader = "reading" /\ stdout # <<>> /\ ~Malformed(Head(stdout))
  /\ stdout' = Tail(stdout)
  /\ \/ \E m \in ParseResponse(Head(stdout)) :
          /\ m.of \in pending
          /\ pending' = pending \ {m.of}
          /\ Send(m.of, m)
     \/ /\ \A m \in ParseResponse(Head(stdout)) : m.of \notin pending
        /\ UNCHANGED <<pending, channel>>
  /\ UNCHANGED <<pc, id, outcome, closed, nextId, phase, readerVars, stdin, server,
                 written, taken, stray>>

\* A malformed frame, the end of the stream or a read error.
ReaderFails ==
  /\ reader = "reading"
  /\ \/ stdout # <<>> /\ Malformed(Head(stdout))
     \/ stdout = <<>> /\ server = "dead"
  /\ closed' = TRUE
  /\ reader' = "failing"
  /\ UNCHANGED <<pc, id, outcome, pending, channel, nextId, phase, drained, pipeVars>>

\* fail_all_pending: the map is emptied under its lock ...
DrainPending ==
  /\ reader = "failing"
  /\ drained' = pending
  /\ pending' = {}
  /\ reader' = "sending"
  /\ UNCHANGED <<pc, id, outcome, channel, closed, nextId, phase, pipeVars>>

\* ... and every sender is told, after which the thread ends.
FailDrained ==
  /\ reader = "sending"
  /\ \/ \E i \in drained :
          /\ drained' = drained \ {i}
          /\ Send(i, [kind |-> "Io", of |-> i, raw |-> {}])
          /\ UNCHANGED reader
     \/ drained = {} /\ reader' = "exited" /\ UNCHANGED <<drained, channel>>
  /\ UNCHANGED <<pc, id, outcome, pending, closed, nextId, phase, pipeVars>>

----------------------------------------------------------------------------
(* The server process.                                                     *)

Frame(class, i, raw) == [class |-> class, id |-> i, raw |-> raw]

\* The answers a server may give to request i, none included.
Answers(i) ==
  {<<>>, <<Frame("rpcError", i, {})>>, <<Frame("result", i, {})>>}
    \union (IF i = Initialize THEN {} ELSE {<<Frame("result", i, {raw})>> : raw \in ToolResults})

\* Variant: requests are worked on in any order.
ServeAny ==
  /\ server = "up"
  /\ \E k \in DOMAIN stdin :
       /\ stdin' = SubSeq(stdin, 1, k - 1) \o SubSeq(stdin, k + 1, Len(stdin))
       /\ \E answer \in IF stdin[k] = 0 THEN {<<>>} ELSE Answers(stdin[k]) :
            stdout' = stdout \o answer
  /\ taken' = taken + 1
  /\ UNCHANGED <<clientVars, readerVars, server, written, stray>>

\* serve_stdio: one frame is read, worked on and answered before the next.
Serve ==
  /\ server = "up" /\ stdin # <<>>
  /\ stdin' = Tail(stdin)
  /\ taken' = taken + 1
  /\ \E answer \in IF Head(stdin) = 0 THEN {<<>>} ELSE Answers(Head(stdin)) :
       stdout' = stdout \o answer
  /\ UNCHANGED <<clientVars, readerVars, server, written, stray>>

\* A frame nobody asked for: a notification, a repeated answer to a request the
\* server has worked on, or bytes that are not a response.
Stray ==
  /\ server # "dead" /\ stray < MaxStray
  /\ stray' = stray + 1
  /\ \E frame \in {Frame("notification", 0, {}), Frame("malformed", 0, {})}
                    \union {Frame("rpcError", written[k], {}) :
                              k \in {n \in 1 .. taken : written[n] # 0}} :
       stdout' = Append(stdout, frame)
  /\ UNCHANGED <<clientVars, readerVars, stdin, server, written, taken>>

\* The server closes its input, or exits; what it had not read is lost.
Close(state) ==
  /\ server \in {"up", "deaf"} \ {state}
  /\ server' = state
  /\ stdin' = <<>>
  /\ UNCHANGED <<clientVars, readerVars, stdout, written, taken, stray>>

----------------------------------------------------------------------------
McpInit ==
  /\ pc = [c \in Callers |-> "idle"]
  /\ id = [c \in Callers |-> 0]
  /\ outcome = [c \in Callers |-> NoOutcome]
  /\ pending = {} /\ channel = [i \in Ids |-> {}]
  /\ closed = FALSE /\ nextId = 1 /\ phase = "initializing"
  /\ reader = "reading" /\ drained = {}
  /\ stdin = <<>> /\ stdout = <<>> /\ server = "up"
  /\ written = <<>> /\ taken = 0 /\ stray = 0

\* The steps of request() that no one else has to enable.
Proceed(c) ==
  Insert(c) \/ Recheck(c) \/ Write(c) \/ WriteFails(c) \/ Receive(c) \/ TimeOut(c)
    \/ RemovePending(c)

ReaderStep == Deliver \/ ReaderFails \/ DrainPending \/ FailDrained

McpNext ==
  \/ \E c \in Callers : Begin(c) \/ Proceed(c)
  \/ Notify \/ Drop
  \/ ReaderStep
  \/ Serve \/ Stray \/ \E state \in {"deaf", "dead"} : Close(state)

McpSpec == McpInit /\ [][McpNext]_mcpVars

----------------------------------------------------------------------------
McpTypeOK ==
  /\ pc \in [Callers -> {"idle", "numbered", "inserted", "writing", "unwritten",
                         "waiting", "expired"}]
  /\ id \in [Callers -> 0 .. MaxRequests] /\ nextId \in 1 .. MaxRequests + 1
  /\ pending \subseteq Ids /\ drained \subseteq Ids /\ DOMAIN channel = Ids
  /\ closed \in BOOLEAN /\ server \in {"up", "deaf", "dead"}
  /\ phase \in {"initializing", "notifying", "ready", "failed", "dropped"}
  /\ reader \in {"reading", "failing", "sending", "exited"}
  /\ \A i \in Ids : \A m, n \in channel[i] : m = n

\* request() looks at the closed flag again after the insertion because the reader
\* sets the flag before it empties the map: once the reader has ended, nobody
\* waits for a message that cannot come any more.
NoWaiterAbandoned ==
  reader = "exited" => \A c \in Callers : pc[c] = "waiting" => channel[id[c]] # {}

\* The pending map holds the requests that are being made and no others: an
\* answer, a timeout, a failed write and a closed connection all take their entry
\* out, whoever gets there first.
NoEntryLeft ==
  pending \subseteq {id[c] : c \in {d \in Callers : pc[d] # "idle"}}

\* The pending map and the waiting callers match whatever order the reader, the
\* timeouts and the end of the server come in: no waiter without an entry that will be
\* answered, no entry without a caller (McpClient::request, the reader thread).
PendingIsExact == McpTypeOK /\ NoWaiterAbandoned /\ NoEntryLeft

\* A late or repeated answer never ends another request: what a caller is told
\* is the server's answer to the very request it made.
AnswerIsOwn ==
  \A c \in Callers :
    pc[c] = "idle" /\ outcome[c].kind \in {"Ok", "Tool", "Rpc"} => outcome[c].of = id[c]

\* A timed-out request may still be carried out, but not behind the back of a
\* later one: when a request has been answered, every request written to the
\* pipe before it has been worked on. The kernel's status query after a lost
\* apply relies on it.
AnsweredMeansSettled ==
  \A c \in Callers :
    pc[c] = "idle" /\ outcome[c].kind \in {"Ok", "Tool", "Rpc"} =>
      \A k \in DOMAIN written : written[k] = outcome[c].of =>
        \A n \in 1 .. k : written[n] \notin Range(stdin)

\* An answer is the one to the request that was made, and whatever was asked before it
\* has been dealt with (dispatch of a response frame, one pipe to one server).
AnswerIsSettled == AnswerIsOwn /\ AnsweredMeansSettled

\* Every request ends, by an answer, a timeout or an error, as long as the
\* server reads its input or dies: recv_timeout bounds the wait for the answer.
RequestReturns ==
  \A c \in Callers : pc[c] = "numbered" ~> pc[c] = "idle"
============================================================================
