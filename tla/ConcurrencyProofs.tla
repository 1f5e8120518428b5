-------------------------- MODULE ConcurrencyProofs --------------------------
(***************************************************************************)
(* The proofs about the protocols by which concurrent parts share one map, *)
(* one word, one table or one directory. In the agent's MCP client: no     *)
(* caller waits in vain, and an answer settles what was asked before, for  *)
(* every number of callers and requests. In the scheduler                  *)
(* scx_agent_classed: no task keeps a class it read from a changing table, *)
(* for every set of tasks, comms and classes; the one-word claim of a      *)
(* queue excludes, for every number of CPUs and every length of the        *)
(* queues; and one activation is under way at a time, for every set of     *)
(* comms. In the agent's transaction store: no log is lost and none is     *)
(* shared, for every number of runtimes, transactions and files.           *)
(* Publications are bounded by MaxSeq in the model; nothing in the proofs  *)
(* depends on the bound.                                                   *)
(***************************************************************************)
EXTENDS McpClient, RuleMiss, RuleSeqlock, StealClaim, TransactionStore, TLAPS

\* The provers: a leaf that cites none is left to Zenon.
USE Zenon

(* McpClient.  MapInv is inductive: who holds the sender of every request, *)
(* from its insertion in the pending map to the message, so that no caller *)
(* waits in vain and no entry is left behind.  So is PipeInv with it: what *)
(* the server has written answers a frame that it has taken, so that an    *)
(* answer settles everything that was written before its request.          *)

CallSteps == {"inserted", "writing", "unwritten", "waiting", "expired"}

Pcs == {"idle", "numbered"} \union CallSteps

\* Every variable has its type.
ClientTypes ==
  /\ pc \in [Callers -> Pcs]
  /\ id \in [Callers -> Nat] /\ nextId \in Nat
  /\ pending \subseteq Ids /\ drained \subseteq Ids /\ DOMAIN channel = Ids
  /\ closed \in BOOLEAN /\ server \in {"up", "deaf", "dead"}
  /\ phase \in {"initializing", "notifying", "ready", "failed", "dropped"}
  /\ reader \in {"reading", "failing", "sending", "exited"}

\* An identifier is handed out once: request() keeps one caller from another.
IdsAreApart ==
  /\ 1 <= nextId /\ nextId <= MaxRequests + 1
  /\ \A c \in Callers :
       /\ id[c] < nextId
       /\ pc[c] # "idle" => id[c] # 0
       /\ \A d \in Callers : c # d => id[c] = 0 \/ id[c] # id[d]

\* The reader sets the flag before it takes the map, and answers what it took.
ReaderOrder ==
  /\ reader # "reading" => closed
  /\ reader # "sending" => drained = {}

\* An entry of the map is that of a request under way.
EntryHasCaller ==
  \A i \in pending : \E c \in Callers : pc[c] \in CallSteps /\ id[c] = i

\* A request has no message as long as its sender is in somebody's hands, and neither
\* sender nor message before it is inserted.
OneSender ==
  /\ \A i \in pending : channel[i] = {} /\ i \notin drained
  /\ \A i \in drained : channel[i] = {} /\ i < nextId
  /\ \A i \in Ids : channel[i] # {} => i < nextId
  /\ \A i \in Ids : \A m, n \in channel[i] : m = n
  /\ \A c \in Callers : pc[c] = "numbered" =>
       id[c] \notin pending /\ id[c] \notin drained /\ channel[id[c]] = {}

\* A request that waits, or is about to, has its message or a sender that will be used.
CallerHasSender ==
  \A c \in Callers :
    /\ pc[c] \in {"inserted", "writing", "waiting"} /\ reader \in {"reading", "failing"} =>
         channel[id[c]] # {} \/ id[c] \in pending
    /\ pc[c] \in {"writing", "waiting"} /\ reader \in {"sending", "exited"} =>
         channel[id[c]] # {} \/ id[c] \in drained

MapInv ==
  ClientTypes /\ IdsAreApart /\ ReaderOrder /\ EntryHasCaller /\ OneSender /\ CallerHasSender

FrameClasses == {"notification", "malformed", "rpcError", "result"}

Frames == [class : FrameClasses, id : Nat, raw : SUBSET ToolResults]

\* The outcomes that tell the caller what the server has answered.
Told == {"Ok", "Tool", "Rpc"}

Outcomes == [kind : {"None", "Io", "Timeout", "Protocol"} \union Told, of : Nat]

PipeTypes ==
  /\ outcome \in [Callers -> Outcomes]
  /\ written \in Seq(Nat) /\ stdin \in Seq(Nat) /\ taken \in Nat
  /\ stdout \in Seq(Frames)

\* The server takes the frames in the order they were written.
PipeOrder ==
  /\ taken + Len(stdin) <= Len(written)
  /\ server = "up" => taken + Len(stdin) = Len(written)
  /\ \A k \in 1 .. Len(stdin) : stdin[k] = written[taken + k]

\* A request that has not reached the pipe.
Unwritten == {"numbered", "inserted", "writing"}

\* A request is written once, and so is the notification.
WrittenOnce ==
  /\ \A j, k \in 1 .. Len(written) : written[j] = written[k] => j = k
  /\ \A k \in 1 .. Len(written) : written[k] < nextId
  /\ \A c \in Callers : pc[c] \in Unwritten => \A k \in 1 .. Len(written) : written[k] # id[c]
  /\ phase \in {"initializing", "notifying"} => \A k \in 1 .. Len(written) : written[k] # 0

WorkedOn(i) == \E k \in 1 .. taken : written[k] = i

\* What the server says, a channel holds or a caller was told is an answer to a
\* request that the server has worked on.
FramesAreEarned ==
  \A n \in 1 .. Len(stdout) :
    stdout[n].class \in {"rpcError", "result"} => WorkedOn(stdout[n].id)

MessagesAreEarned ==
  \A i \in Ids : \A m \in channel[i] :
    m.of = i /\ m.kind \in {"Result", "Rpc", "Io"} /\ (m.kind # "Io" => WorkedOn(i))

OutcomesAreEarned ==
  \A c \in Callers : outcome[c].kind \in Told =>
    WorkedOn(outcome[c].of) /\ (pc[c] = "idle" => outcome[c].of = id[c])

PipeInv ==
  /\ PipeTypes /\ PipeOrder /\ WrittenOnce
  /\ FramesAreEarned /\ MessagesAreEarned /\ OutcomesAreEarned

----------------------------------------------------------------------------
\* A caller that goes on with its request, or returns from it.
LEMMA CallerMoves ==
  ASSUME MapInv, NEW c \in Callers, NEW q \in {"idle"} \union CallSteps,
         pc[c] \in CallSteps, pc' = [pc EXCEPT ![c] = q],
         pending' \in {pending, pending \ {id[c]}},
         q = "idle" => id[c] \notin pending',
         \/ q \notin {"inserted", "writing", "waiting"}
         \/ q = "writing" /\ pc[c] = "inserted" /\ ~closed /\ pending' = pending
         \/ q = "waiting" /\ pc[c] = "writing" /\ pending' = pending,
         closed' \in {closed, TRUE}, ClientTypes',
         UNCHANGED <<id, channel, nextId, reader, drained>>
  PROVE  MapInv'
<1>0. /\ ClientTypes /\ IdsAreApart /\ ReaderOrder /\ EntryHasCaller
      /\ OneSender /\ CallerHasSender
  BY DEF MapInv
<1>1. pc'[c] = q /\ \A d \in Callers : d # c => pc'[d] = pc[d]
  BY <1>0 DEF ClientTypes
<1>2. IdsAreApart'
  BY <1>0, <1>1 DEF IdsAreApart, CallSteps
<1>3. ReaderOrder'
  BY <1>0 DEF ReaderOrder
<1>4. EntryHasCaller'
  <2> SUFFICES ASSUME NEW i \in pending'
               PROVE  \E d \in Callers : pc'[d] \in CallSteps /\ id[d] = i
    BY DEF EntryHasCaller
  <2>1. PICK d \in Callers : pc[d] \in CallSteps /\ id[d] = i
    BY <1>0 DEF EntryHasCaller
  <2> QED BY <1>1, <2>1
<1>5. OneSender'
  <2>1. \A d \in Callers : pc'[d] = "numbered" => pc[d] = "numbered"
    BY <1>1 DEF CallSteps
  <2> QED BY <1>0, <2>1 DEF OneSender
<1>6. CallerHasSender'
  <2> SUFFICES ASSUME NEW d \in Callers
               PROVE  /\ pc'[d] \in {"inserted", "writing", "waiting"}
                           /\ reader \in {"reading", "failing"} =>
                           channel[id[d]] # {} \/ id[d] \in pending'
                      /\ pc'[d] \in {"writing", "waiting"} /\ reader \in {"sending", "exited"} =>
                           channel[id[d]] # {} \/ id[d] \in drained
    BY DEF CallerHasSender
  <2>1. CASE d = c
    BY <1>0, <1>1, <2>1 DEF CallerHasSender, ReaderOrder
  <2>2. CASE d # c
    <3>1. pc'[d] # "idle" => id[d] # id[c]
      BY <1>0, <1>1, <2>2 DEF IdsAreApart
    <3> QED BY <1>0, <1>1, <2>2, <3>1 DEF CallerHasSender
  <2> QED BY <2>1, <2>2
<1> QED BY <1>2, <1>3, <1>4, <1>5, <1>6 DEF MapInv

\* Steps that leave the callers, the map and the reader alone.
LEMMA MapFrame ==
  ASSUME MapInv, ClientTypes',
         UNCHANGED <<pc, id, pending, channel, closed, nextId, reader, drained>>
  PROVE  MapInv'
BY SMT DEF MapInv, IdsAreApart, ReaderOrder, EntryHasCaller, OneSender, CallerHasSender

\* The identifier of a new request is nobody's.
LEMMA BeginKeepsMap ==
  ASSUME MapInv, NEW c \in Callers, Begin(c)
  PROVE  MapInv'
<1>0. /\ ClientTypes /\ IdsAreApart /\ ReaderOrder /\ EntryHasCaller
      /\ OneSender /\ CallerHasSender
  BY DEF MapInv
<1>1. /\ pc[c] = "idle" /\ nextId <= MaxRequests
      /\ UNCHANGED <<pending, channel, closed, reader, drained, server>>
  BY DEF Begin, readerVars, pipeVars
<1>2. ClientTypes'
  BY <1>0, <1>1, SMT DEF ClientTypes, Begin, Pcs
<1>3. CASE UNCHANGED <<pc, id, nextId>>
  BY <1>1, <1>2, <1>3, MapFrame
<1>4. CASE /\ id' = [id EXCEPT ![c] = nextId] /\ nextId' = nextId + 1
           /\ pc' \in {pc, [pc EXCEPT ![c] = "numbered"]}
  <2>1. /\ pc'[c] \in {"idle", "numbered"} /\ id'[c] = nextId
        /\ \A d \in Callers : d # c => pc'[d] = pc[d] /\ id'[d] = id[d]
    BY <1>0, <1>1, <1>4 DEF ClientTypes
  <2>2. IdsAreApart'
    BY <1>0, <1>1, <1>4, <2>1, McpAssumption, SMT DEF IdsAreApart, ClientTypes
  <2>3. ReaderOrder'
    BY <1>0, <1>1 DEF ReaderOrder
  <2>4. EntryHasCaller'
    <3>1. \A d \in Callers : pc[d] \in CallSteps => pc'[d] = pc[d] /\ id'[d] = id[d]
      BY <1>1, <2>1 DEF CallSteps
    <3> QED BY <1>0, <1>1, <3>1 DEF EntryHasCaller
  <2>5. nextId \in Ids /\ nextId \notin pending /\ nextId \notin drained /\ channel[nextId] = {}
    <3>1. nextId \in Ids
      BY <1>0, <1>1, McpAssumption, SMT DEF Ids, IdsAreApart, ClientTypes
    <3>2. \A i \in pending : i < nextId
      BY <1>0, SMT DEF EntryHasCaller, IdsAreApart
    <3> QED BY <1>0, <3>1, <3>2, SMT DEF OneSender, ClientTypes
  <2>6. OneSender'
    <3>1. \A i \in Ids : i < nextId => i < nextId'
      BY <1>0, <1>4, SMT DEF ClientTypes, Ids
    <3>2. \A d \in Callers : pc'[d] = "numbered" =>
            id'[d] \notin pending /\ id'[d] \notin drained /\ channel[id'[d]] = {}
      BY <1>0, <2>1, <2>5 DEF OneSender
    <3>3. \A i \in drained : i < nextId'
      BY <1>0, <3>1 DEF OneSender, ClientTypes
    <3>4. \A i \in Ids : channel[i] # {} => i < nextId'
      BY <1>0, <3>1 DEF OneSender
    <3> QED BY <1>0, <1>1, <3>2, <3>3, <3>4 DEF OneSender
  <2>7. CallerHasSender'
    BY <1>0, <1>1, <2>1 DEF CallerHasSender
  <2> QED BY <1>2, <2>2, <2>3, <2>4, <2>6, <2>7 DEF MapInv
<1> QED BY <1>3, <1>4 DEF Begin

LEMMA InsertKeepsMap ==
  ASSUME MapInv, NEW c \in Callers, Insert(c)
  PROVE  MapInv'
<1>0. /\ ClientTypes /\ IdsAreApart /\ ReaderOrder /\ EntryHasCaller
      /\ OneSender /\ CallerHasSender
  BY DEF MapInv
<1>1. /\ pc[c] = "numbered" /\ pending' = pending \union {id[c]}
      /\ UNCHANGED <<id, channel, closed, nextId, phase, reader, drained, server>>
  BY DEF Insert, readerVars, pipeVars
<1>2. pc'[c] = "inserted" /\ \A d \in Callers : d # c => pc'[d] = pc[d]
  BY <1>0 DEF Insert, ClientTypes
<1>3. id[c] \in Ids /\ \A d \in Callers : d # c => id[d] # id[c]
  BY <1>0, <1>1, McpAssumption, SMT DEF IdsAreApart, ClientTypes, Ids
<1>4. ClientTypes'
  BY <1>0, <1>1, <1>3 DEF Insert, ClientTypes, Pcs, CallSteps
<1>5. IdsAreApart'
  BY <1>0, <1>1, <1>2 DEF IdsAreApart
<1>6. ReaderOrder'
  BY <1>0, <1>1 DEF ReaderOrder
<1>7. EntryHasCaller'
  <2>1. \A d \in Callers : pc[d] \in CallSteps => pc'[d] \in CallSteps
    BY <1>1, <1>2 DEF CallSteps
  <2>2. pc'[c] \in CallSteps
    BY <1>2 DEF CallSteps
  <2> QED BY <1>0, <1>1, <2>1, <2>2 DEF EntryHasCaller
<1>8. OneSender'
  <2>1. \A i \in pending' : channel[i] = {} /\ i \notin drained
    BY <1>0, <1>1, SMT DEF OneSender
  <2>2. \A d \in Callers : pc'[d] = "numbered" =>
          id[d] \notin pending' /\ id[d] \notin drained /\ channel[id[d]] = {}
    BY <1>0, <1>1, <1>2, <1>3 DEF OneSender
  <2> QED BY <1>0, <1>1, <2>1, <2>2 DEF OneSender
<1>9. CallerHasSender'
  BY <1>0, <1>1, <1>2 DEF CallerHasSender
<1> QED BY <1>4, <1>5, <1>6, <1>7, <1>8, <1>9 DEF MapInv

\* The rest of request().
LEMMA RequestKeepsMap ==
  ASSUME MapInv, NEW c \in Callers,
         Recheck(c) \/ Write(c) \/ WriteFails(c) \/ Receive(c) \/ TimeOut(c) \/ RemovePending(c)
  PROVE  MapInv'
<1>0. ClientTypes /\ OneSender
  BY DEF MapInv
<1>t. ASSUME pc' \in [Callers -> Pcs], pending' \subseteq pending, closed' \in {closed, TRUE},
             phase' \in {"initializing", "notifying", "ready", "failed", "dropped"},
             UNCHANGED <<id, channel, nextId, reader, drained, server>>
      PROVE  ClientTypes'
  BY <1>0, <1>t DEF ClientTypes
<1>p. ASSUME NEW q \in Pcs PROVE [pc EXCEPT ![c] = q] \in [Callers -> Pcs]
  BY <1>0 DEF ClientTypes
<1>r. ASSUME NEW kind, NEW of, Return(c, kind, of)
      PROVE  /\ pc' = [pc EXCEPT ![c] = "idle"]
             /\ phase' \in {"initializing", "notifying", "ready", "failed", "dropped"}
  BY <1>0, <1>r DEF Return, ClientTypes
<1>1. CASE Recheck(c)
  <2>1. CASE closed
    <3>1. /\ pc[c] = "inserted" /\ pending' = pending \ {id[c]} /\ Return(c, "Io", 0)
          /\ UNCHANGED <<id, channel, closed, nextId, reader, drained, server>>
      BY <1>1, <2>1 DEF Recheck, readerVars, pipeVars
    <3>2. ClientTypes'
      BY <1>p, <1>r, <1>t, <3>1 DEF Pcs
    <3> QED BY <1>r, <3>1, <3>2, CallerMoves DEF CallSteps
  <2>2. CASE ~closed
    <3>1. /\ pc[c] = "inserted" /\ pc' = [pc EXCEPT ![c] = "writing"]
          /\ UNCHANGED <<pending, phase, id, channel, closed, nextId, reader, drained, server>>
      BY <1>1, <2>2 DEF Recheck, readerVars, pipeVars
    <3>2. ClientTypes'
      BY <1>0, <1>p, <3>1 DEF ClientTypes, Pcs, CallSteps
    <3>3. "writing" \in {"idle"} \union CallSteps /\ pc[c] \in CallSteps /\ "writing" # "idle"
      BY <3>1 DEF CallSteps
    <3> QED BY <2>2, <3>1, <3>2, <3>3, CallerMoves
  <2> QED BY <2>1, <2>2
<1>2. CASE Write(c)
  <2>1. /\ pc[c] = "writing" /\ pc' = [pc EXCEPT ![c] = "waiting"]
        /\ UNCHANGED <<pending, phase, id, channel, closed, nextId, reader, drained, server>>
    BY <1>2 DEF Write, readerVars
  <2>2. ClientTypes'
    BY <1>0, <1>p, <2>1 DEF ClientTypes, Pcs, CallSteps
  <2>3. "waiting" \in {"idle"} \union CallSteps /\ pc[c] \in CallSteps /\ "waiting" # "idle"
    BY <2>1 DEF CallSteps
  <2> QED BY <2>1, <2>2, <2>3, CallerMoves
<1>3. CASE WriteFails(c)
  <2>1. /\ pc[c] = "writing" /\ closed' = TRUE /\ pc' = [pc EXCEPT ![c] = "unwritten"]
        /\ UNCHANGED <<pending, phase, id, channel, nextId, reader, drained, server>>
    BY <1>3 DEF WriteFails, readerVars, pipeVars
  <2>2. ClientTypes'
    BY <1>0, <1>p, <2>1 DEF ClientTypes, Pcs, CallSteps
  <2>3. /\ "unwritten" \in {"idle"} \union CallSteps /\ pc[c] \in CallSteps
        /\ "unwritten" \notin {"idle", "inserted", "writing", "waiting"}
    BY <2>1 DEF CallSteps
  <2> QED BY <2>1, <2>2, <2>3, CallerMoves
<1>6. CASE TimeOut(c)
  <2>1. /\ pc[c] = "waiting" /\ pc' = [pc EXCEPT ![c] = "expired"]
        /\ UNCHANGED <<pending, phase, id, channel, closed, nextId, reader, drained, server>>
    BY <1>6 DEF TimeOut, readerVars, pipeVars
  <2>2. ClientTypes'
    BY <1>0, <1>p, <2>1 DEF ClientTypes, Pcs, CallSteps
  <2>3. /\ "expired" \in {"idle"} \union CallSteps /\ pc[c] \in CallSteps
        /\ "expired" \notin {"idle", "inserted", "writing", "waiting"}
    BY <2>1 DEF CallSteps
  <2> QED BY <2>1, <2>2, <2>3, CallerMoves
<1>4. CASE Receive(c)
  <2>1. /\ pc[c] = "waiting" /\ channel[id[c]] # {} /\ \E kind, of : Return(c, kind, of)
        /\ UNCHANGED <<pending, id, channel, closed, nextId, reader, drained, server>>
    BY <1>4 DEF Receive, readerVars, pipeVars
  <2>2. id[c] \notin pending
    BY <1>0, <2>1 DEF OneSender
  <2>3. ClientTypes'
    BY <1>p, <1>r, <1>t, <2>1 DEF Pcs
  <2> QED BY <1>r, <2>1, <2>2, <2>3, CallerMoves DEF CallSteps
<1>5. CASE RemovePending(c)
  <2>1. /\ pc[c] \in {"expired", "unwritten"} /\ pending' = pending \ {id[c]}
        /\ \E kind, of : Return(c, kind, of)
        /\ UNCHANGED <<id, channel, closed, nextId, reader, drained, server>>
    BY <1>5 DEF RemovePending, readerVars, pipeVars
  <2>2. ClientTypes'
    BY <1>p, <1>r, <1>t, <2>1 DEF Pcs
  <2> QED BY <1>r, <2>1, <2>2, CallerMoves DEF CallSteps
<1> QED BY <1>1, <1>2, <1>3, <1>4, <1>5, <1>6

\* The reader hands a message over, takes the map, and answers what it took; Drop finds
\* no caller.
LEMMA ReaderKeepsMap ==
  ASSUME MapInv, ReaderStep \/ Drop
  PROVE  MapInv'
<1>0. /\ ClientTypes /\ IdsAreApart /\ ReaderOrder /\ EntryHasCaller
      /\ OneSender /\ CallerHasSender
  BY DEF MapInv
<1>1. CASE Drop
  <2>1. /\ closed' = TRUE /\ server' = "dead" /\ phase' = "dropped" /\ pending' = {}
        /\ \A c \in Callers : pc[c] = "idle"
        /\ UNCHANGED <<pc, id, channel, nextId, reader, drained>>
    BY <1>1 DEF Drop, readerVars
  <2>2. ClientTypes'
    BY <1>0, <2>1 DEF ClientTypes
  <2>3. ReaderOrder' /\ EntryHasCaller' /\ IdsAreApart'
    BY <1>0, <2>1 DEF ReaderOrder, EntryHasCaller, IdsAreApart
  <2>4. OneSender' /\ CallerHasSender'
    BY <1>0, <2>1 DEF OneSender, CallerHasSender
  <2> QED BY <2>2, <2>3, <2>4 DEF MapInv
<1>2. CASE Deliver
  <2>1. /\ reader = "reading"
        /\ UNCHANGED <<pc, id, closed, nextId, phase, reader, drained, server>>
    BY <1>2 DEF Deliver, readerVars
  <2>2. CASE UNCHANGED <<pending, channel>>
    <3>1. ClientTypes'
      BY <1>0, <2>1, <2>2 DEF ClientTypes
    <3> QED BY <2>1, <2>2, <3>1, MapFrame
  <2>3. CASE \E m \in ParseResponse(Head(stdout)) :
               m.of \in pending /\ pending' = pending \ {m.of} /\ Send(m.of, m)
    <3>1. PICK m : m.of \in pending /\ pending' = pending \ {m.of} /\ Send(m.of, m)
      BY <2>3
    <3>2. /\ channel[m.of] = {} /\ m.of \in Ids /\ drained = {} /\ channel'[m.of] = {m}
          /\ DOMAIN channel' = Ids /\ \A i \in Ids : i # m.of => channel'[i] = channel[i]
      BY <1>0, <2>1, <3>1 DEF Send, OneSender, ClientTypes, ReaderOrder
    <3>3. ClientTypes'
      BY <1>0, <2>1, <3>1, <3>2 DEF ClientTypes
    <3>4. IdsAreApart' /\ ReaderOrder'
      BY <1>0, <2>1 DEF IdsAreApart, ReaderOrder
    <3>5. EntryHasCaller'
      BY <1>0, <2>1, <3>1 DEF EntryHasCaller
    <3>6. m.of < nextId
      BY <1>0, <3>1 DEF EntryHasCaller, IdsAreApart
    <3>7. OneSender'
      <4>1. \A c \in Callers : pc[c] = "numbered" => id[c] # m.of /\ id[c] \in Ids
        BY <1>0, <3>1, McpAssumption, SMT DEF OneSender, IdsAreApart, ClientTypes, Ids
      <4>2. \A i \in pending' : channel'[i] = {} /\ i \notin drained'
        BY <1>0, <2>1, <3>1, <3>2 DEF OneSender, ClientTypes
      <4>3. \A i \in Ids : channel'[i] # {} => i < nextId
        BY <1>0, <3>2, <3>6 DEF OneSender
      <4>4. \A i \in Ids : \A a, b \in channel'[i] : a = b
        <5>1. \A a, b \in channel'[m.of] : a = b
          BY <3>2
        <5>2. \A i \in Ids : \A a, b \in channel[i] : a = b
          BY <1>0 DEF OneSender
        <5> QED BY <3>2, <5>1, <5>2, SMT
      <4>5. \A c \in Callers : pc[c] = "numbered" =>
              id[c] \notin pending' /\ id[c] \notin drained /\ channel'[id[c]] = {}
        BY <1>0, <3>1, <3>2, <4>1 DEF OneSender
      <4> QED BY <2>1, <3>2, <4>2, <4>3, <4>4, <4>5 DEF OneSender
    <3>8. CallerHasSender'
      <4>1. \A c \in Callers : channel[id[c]] # {} \/ id[c] \in pending =>
              channel'[id[c]] # {} \/ id[c] \in pending'
        <5> SUFFICES ASSUME NEW c \in Callers, channel[id[c]] # {} \/ id[c] \in pending,
                            id[c] \notin pending'
                     PROVE  channel'[id[c]] # {}
          OBVIOUS
        <5>1. CASE id[c] = m.of
          BY <3>2, <5>1
        <5>2. CASE id[c] # m.of
          <6>1. channel[id[c]] # {} /\ id[c] \in Nat
            BY <1>0, <3>1, <5>2 DEF ClientTypes
          <6>2. channel'[id[c]] = channel[id[c]]
            BY <1>0, <3>1, <5>2, SMT DEF Send, ClientTypes
          <6> QED BY <6>1, <6>2
        <5> QED BY <5>1, <5>2
      <4> QED BY <1>0, <2>1, <4>1 DEF CallerHasSender
    <3> QED BY <3>3, <3>4, <3>5, <3>7, <3>8 DEF MapInv
  <2> QED BY <1>2, <2>2, <2>3 DEF Deliver
<1>3. CASE ReaderFails
  <2>1. /\ reader = "reading" /\ closed' = TRUE /\ reader' = "failing"
        /\ UNCHANGED <<pc, id, pending, channel, nextId, phase, drained, server>>
    BY <1>3 DEF ReaderFails, pipeVars
  <2>2. ClientTypes'
    BY <1>0, <2>1 DEF ClientTypes
  <2>3. EntryHasCaller' /\ IdsAreApart' /\ OneSender'
    BY <1>0, <2>1 DEF EntryHasCaller, IdsAreApart, OneSender
  <2>4. ReaderOrder' /\ CallerHasSender'
    BY <1>0, <2>1 DEF ReaderOrder, CallerHasSender
  <2> QED BY <2>2, <2>3, <2>4 DEF MapInv
<1>4. CASE DrainPending
  <2>1. /\ reader = "failing" /\ drained' = pending /\ pending' = {} /\ reader' = "sending"
        /\ UNCHANGED <<pc, id, channel, closed, nextId, phase, server>>
    BY <1>4 DEF DrainPending, pipeVars
  <2>2. ClientTypes'
    BY <1>0, <2>1 DEF ClientTypes
  <2>3. EntryHasCaller' /\ IdsAreApart'
    BY <1>0, <2>1 DEF EntryHasCaller, IdsAreApart
  <2>4. ReaderOrder' /\ CallerHasSender'
    BY <1>0, <2>1 DEF ReaderOrder, CallerHasSender
  <2>5. \A i \in pending : i < nextId
    BY <1>0 DEF EntryHasCaller, IdsAreApart
  <2>6. OneSender'
    BY <1>0, <2>1, <2>5 DEF OneSender
  <2> QED BY <2>2, <2>3, <2>4, <2>6 DEF MapInv
<1>5. CASE FailDrained
  <2>1. /\ reader = "sending" /\ UNCHANGED <<pc, id, pending, closed, nextId, phase, server>>
    BY <1>5 DEF FailDrained, pipeVars
  <2>2. CASE drained = {} /\ reader' = "exited" /\ UNCHANGED <<drained, channel>>
    <3>1. ClientTypes'
      BY <1>0, <2>1, <2>2 DEF ClientTypes
    <3>2. EntryHasCaller' /\ IdsAreApart' /\ OneSender'
      BY <1>0, <2>1, <2>2 DEF EntryHasCaller, IdsAreApart, OneSender
    <3>3. ReaderOrder' /\ CallerHasSender'
      BY <1>0, <2>1, <2>2 DEF ReaderOrder, CallerHasSender
    <3> QED BY <3>1, <3>2, <3>3 DEF MapInv
  <2>3. CASE \E i \in drained :
               /\ drained' = drained \ {i} /\ UNCHANGED reader
               /\ Send(i, [kind |-> "Io", of |-> i, raw |-> {}])
    <3>0. PICK i \in drained :
            /\ drained' = drained \ {i} /\ UNCHANGED reader
            /\ Send(i, [kind |-> "Io", of |-> i, raw |-> {}])
      BY <2>3
    <3>1. PICK m : drained' = drained \ {i} /\ UNCHANGED reader /\ Send(i, m)
      BY <3>0
    <3>a. channel[i] = {} /\ i \in Ids /\ i \notin pending /\ i < nextId
      BY <1>0 DEF OneSender, ClientTypes
    <3>b. /\ channel'[i] = {m} /\ DOMAIN channel' = Ids
          /\ \A j \in Ids : j # i => channel'[j] = channel[j]
      BY <1>0, <3>1, <3>a DEF Send, ClientTypes
    <3>2. /\ channel[i] = {} /\ i \in Ids /\ channel'[i] = {m} /\ i \notin pending /\ i < nextId
          /\ DOMAIN channel' = Ids /\ \A j \in Ids : j # i => channel'[j] = channel[j]
      BY <3>a, <3>b
    <3>3. ClientTypes'
      BY <1>0, <2>1, <3>1, <3>2 DEF ClientTypes
    <3>4. IdsAreApart' /\ EntryHasCaller'
      BY <1>0, <2>1 DEF IdsAreApart, EntryHasCaller
    <3>5. ReaderOrder'
      BY <1>0, <2>1, <3>1 DEF ReaderOrder
    <3>6. OneSender'
      <4>1. \A c \in Callers : pc[c] = "numbered" => id[c] # i /\ id[c] \in Ids
        BY <1>0, McpAssumption, SMT DEF OneSender, IdsAreApart, ClientTypes, Ids
      <4> QED BY <1>0, <2>1, <3>1, <3>2, <4>1, SMT DEF OneSender, ClientTypes
    <3>7. CallerHasSender'
      <4>1. \A c \in Callers : channel[id[c]] # {} \/ id[c] \in drained =>
              channel'[id[c]] # {} \/ id[c] \in drained'
        <5> SUFFICES ASSUME NEW c \in Callers, channel[id[c]] # {} \/ id[c] \in drained,
                            id[c] \notin drained'
                     PROVE  channel'[id[c]] # {}
          OBVIOUS
        <5>1. CASE id[c] = i
          BY <3>2, <5>1
        <5>2. CASE id[c] # i
          <6>1. channel[id[c]] # {} /\ id[c] \in Nat
            BY <1>0, <3>1, <5>2 DEF ClientTypes
          <6>2. channel'[id[c]] = channel[id[c]]
            BY <1>0, <3>1, <5>2, SMT DEF Send, ClientTypes
          <6> QED BY <6>1, <6>2
        <5> QED BY <5>1, <5>2
      <4> QED BY <1>0, <2>1, <3>1, <4>1 DEF CallerHasSender
    <3> QED BY <3>3, <3>4, <3>5, <3>6, <3>7 DEF MapInv
  <2> QED BY <1>5, <2>2, <2>3 DEF FailDrained
<1> QED BY <1>1, <1>2, <1>3, <1>4, <1>5 DEF ReaderStep

LEMMA MapInvStep ==
  ASSUME MapInv, McpNext \/ UNCHANGED mcpVars
  PROVE  MapInv'
<1>0. ClientTypes
  BY DEF MapInv
<1>1. CASE UNCHANGED mcpVars
  <2>1. UNCHANGED <<pc, id, pending, channel, closed, nextId, phase, reader, drained, server>>
    BY <1>1 DEF mcpVars, clientVars, readerVars, pipeVars
  <2>2. ClientTypes'
    BY <1>0, <2>1 DEF ClientTypes
  <2> QED BY <2>1, <2>2, MapFrame
<1>2. CASE Notify
  <2>1. UNCHANGED <<pc, id, pending, channel, closed, nextId, reader, drained, server>>
    BY <1>2 DEF Notify, readerVars
  <2>2. phase' \in {"failed", "ready"}
    BY <1>2 DEF Notify
  <2>3. ClientTypes'
    BY <1>0, <2>1, <2>2 DEF ClientTypes
  <2> QED BY <2>1, <2>3, MapFrame
<1>3. CASE Serve \/ Stray \/ \E state \in {"deaf", "dead"} : Close(state)
  <2>1. /\ UNCHANGED <<pc, id, pending, channel, closed, nextId, phase, reader, drained>>
        /\ server' \in {server, "deaf", "dead"}
    BY <1>3 DEF Serve, Stray, Close, clientVars, readerVars
  <2>2. ClientTypes'
    BY <1>0, <2>1 DEF ClientTypes
  <2> QED BY <2>1, <2>2, MapFrame
<1>4. CASE \E c \in Callers : Begin(c) \/ Proceed(c)
  BY <1>4, BeginKeepsMap, InsertKeepsMap, RequestKeepsMap DEF Proceed
<1>5. CASE ReaderStep \/ Drop
  BY <1>5, ReaderKeepsMap
<1> QED BY <1>1, <1>2, <1>3, <1>4, <1>5 DEF McpNext

LEMMA MapInvInit == McpInit => MapInv
<1> SUFFICES ASSUME McpInit PROVE MapInv
  OBVIOUS
<1>1. ClientTypes
  <2>1. pc \in [Callers -> Pcs] /\ id \in [Callers -> Nat] /\ nextId \in Nat
    BY DEF McpInit, Pcs
  <2> QED BY <2>1 DEF McpInit, ClientTypes
<1>2. IdsAreApart
  BY McpAssumption, SMT DEF McpInit, IdsAreApart
<1>3. ReaderOrder /\ EntryHasCaller /\ CallerHasSender
  BY DEF McpInit, ReaderOrder, EntryHasCaller, CallerHasSender
<1>4. OneSender
  BY DEF McpInit, OneSender
<1> QED BY <1>1, <1>2, <1>3, <1>4 DEF MapInv

LEMMA MapInvSafety == MapInv => PendingIsExact
<1> SUFFICES ASSUME MapInv PROVE PendingIsExact
  OBVIOUS
<1>0. /\ ClientTypes /\ IdsAreApart /\ ReaderOrder /\ EntryHasCaller
      /\ OneSender /\ CallerHasSender
  BY DEF MapInv
<1>1. id \in [Callers -> 0 .. MaxRequests] /\ nextId \in 1 .. MaxRequests + 1
  BY <1>0, McpAssumption, SMT DEF ClientTypes, IdsAreApart
<1>2. pc \in [Callers -> {"idle", "numbered", "inserted", "writing", "unwritten",
                          "waiting", "expired"}]
  BY <1>0 DEF ClientTypes, Pcs, CallSteps
<1>3. McpTypeOK
  BY <1>0, <1>1, <1>2 DEF McpTypeOK, ClientTypes, OneSender
<1>4. NoWaiterAbandoned
  BY <1>0 DEF NoWaiterAbandoned, CallerHasSender, ReaderOrder
<1>5. NoEntryLeft
  BY <1>0 DEF NoEntryLeft, EntryHasCaller, CallSteps
<1> QED BY <1>3, <1>4, <1>5 DEF PendingIsExact

\* Whatever order the reader, the timeouts and the end of the server come in, and however
\* many threads call McpClient::request, no caller waits for a message that cannot come
\* and no entry of the pending map outlives its request.
THEOREM PendingMapIsExact == McpSpec => []PendingIsExact
<1>1. McpInit => MapInv
  BY MapInvInit
<1>2. MapInv /\ [McpNext]_mcpVars => MapInv'
  BY MapInvStep
<1>3. MapInv => PendingIsExact
  BY MapInvSafety
<1> QED BY <1>1, <1>2, <1>3, PTL DEF McpSpec

----------------------------------------------------------------------------
\* A caller's step leaves the pipe alone.
LEMMA CallerKeepsPipe ==
  ASSUME PipeInv, ClientTypes, ClientTypes', PipeTypes', NEW c \in Callers,
         UNCHANGED <<stdin, stdout, server, written, taken, channel>>,
         nextId <= nextId',
         phase' \in {"initializing", "notifying"} => phase \in {"initializing", "notifying"},
         \A d \in Callers : d # c =>
           pc'[d] = pc[d] /\ id'[d] = id[d] /\ outcome'[d] = outcome[d],
         pc'[c] \in Unwritten => id'[c] = nextId \/ (pc[c] \in Unwritten /\ id'[c] = id[c]),
         outcome'[c].kind \in Told =>
           WorkedOn(outcome'[c].of) /\ (pc'[c] = "idle" => outcome'[c].of = id'[c])
  PROVE  PipeInv'
<1>0. /\ PipeTypes /\ PipeOrder /\ WrittenOnce
      /\ FramesAreEarned /\ MessagesAreEarned /\ OutcomesAreEarned
  BY DEF PipeInv
<1>1. PipeOrder' /\ FramesAreEarned' /\ MessagesAreEarned'
  BY <1>0 DEF PipeOrder, FramesAreEarned, MessagesAreEarned, WorkedOn
<1>2. WrittenOnce'
  <2>1. \A k \in 1 .. Len(written) : written[k] < nextId' /\ written[k] # nextId
    BY <1>0, SMT DEF WrittenOnce, PipeTypes, ClientTypes
  <2>2. \A d \in Callers : pc'[d] \in Unwritten =>
          \A k \in 1 .. Len(written) : written[k] # id'[d]
    <3> SUFFICES ASSUME NEW d \in Callers, pc'[d] \in Unwritten
                 PROVE  \A k \in 1 .. Len(written) : written[k] # id'[d]
      OBVIOUS
    <3>1. pc[d] \in Unwritten => \A k \in 1 .. Len(written) : written[k] # id[d]
      BY <1>0 DEF WrittenOnce
    <3> QED BY <2>1, <3>1
  <2>3. phase' \in {"initializing", "notifying"} => \A k \in 1 .. Len(written) : written[k] # 0
    BY <1>0 DEF WrittenOnce
  <2>4. \A j, k \in 1 .. Len(written) : written[j] = written[k] => j = k
    BY <1>0 DEF WrittenOnce
  <2> QED BY <2>1, <2>2, <2>3, <2>4 DEF WrittenOnce
<1>3. OutcomesAreEarned'
  <2>1. \A d \in Callers : outcome'[d].kind \in Told =>
          WorkedOn(outcome'[d].of) /\ (pc'[d] = "idle" => outcome'[d].of = id'[d])
    BY <1>0 DEF OutcomesAreEarned
  <2> QED BY <2>1 DEF OutcomesAreEarned, WorkedOn
<1> QED BY <1>0, <1>1, <1>2, <1>3 DEF PipeInv

\* What a received message makes of a request.
LEMMA FinishTells ==
  ASSUME NEW c \in Callers, NEW m, m.kind \in {"Result", "Rpc", "Io"}
  PROVE  /\ Finish(c, m) \in {"Io", "Protocol"} \union Told
         /\ Finish(c, m) \in Told => m.kind # "Io"
<1>1. \A raw : DecodeToolResult(raw) \in {"Protocol", "Tool", "Ok"}
  BY DEF DecodeToolResult
<1>2. CASE m.kind # "Result"
  BY <1>2 DEF Finish, Told
<1>3. CASE m.kind = "Result" /\ m.raw = {}
  BY <1>3 DEF Finish, Told
<1>4. CASE m.kind = "Result" /\ m.raw # {}
  BY <1>1, <1>4 DEF Finish, Told
<1> QED BY <1>2, <1>3, <1>4

LEMMA ReturnKeepsPipe ==
  ASSUME PipeInv, MapInv, ClientTypes', NEW c \in Callers, NEW kind, NEW of, Return(c, kind, of),
         [kind |-> kind, of |-> of] \in Outcomes,
         kind \in Told => WorkedOn(of) /\ of = id[c],
         UNCHANGED <<id, channel, nextId, stdin, stdout, server, written, taken>>
  PROVE  PipeInv'
<1>0. PipeTypes /\ ClientTypes
  BY DEF PipeInv, MapInv
<1>1. /\ pc'[c] = "idle" /\ outcome'[c].kind = kind /\ outcome'[c].of = of
      /\ \A d \in Callers : d # c => pc'[d] = pc[d] /\ outcome'[d] = outcome[d]
  BY <1>0 DEF Return, ClientTypes, PipeTypes
<1>2. phase' \in {"initializing", "notifying"} => phase \in {"initializing", "notifying"}
  BY DEF Return
<1>3. PipeTypes'
  <2>1. outcome' \in [Callers -> Outcomes]
    BY <1>0 DEF Return, PipeTypes
  <2> QED BY <1>0, <2>1 DEF PipeTypes
<1>4. nextId <= nextId' /\ "idle" \notin Unwritten
  BY <1>0, SMT DEF ClientTypes, Unwritten
<1> QED BY <1>0, <1>1, <1>2, <1>3, <1>4, CallerKeepsPipe

LEMMA RequestKeepsPipe ==
  ASSUME PipeInv, MapInv, MapInv', NEW c \in Callers,
         \/ Begin(c) \/ Insert(c) \/ Recheck(c) \/ WriteFails(c) \/ Receive(c) \/ TimeOut(c)
         \/ RemovePending(c)
  PROVE  PipeInv'
<1>0. PipeTypes /\ ClientTypes /\ ClientTypes' /\ MessagesAreEarned /\ OutcomesAreEarned
  BY DEF PipeInv, MapInv
<1>1. CASE Begin(c)
  <2>1. /\ pc[c] = "idle" /\ UNCHANGED <<channel, stdin, stdout, server, written, taken>>
    BY <1>1 DEF Begin, pipeVars
  <2>2. PipeTypes'
    <3>1. [kind |-> "Io", of |-> 0] \in Outcomes /\ [kind |-> "Protocol", of |-> 0] \in Outcomes
      BY DEF Outcomes
    <3>2. outcome' \in [Callers -> Outcomes]
      <4>1. \E o \in Outcomes : outcome' \in {outcome, [outcome EXCEPT ![c] = o]}
        BY <1>1, <3>1 DEF Begin
      <4>2. ASSUME NEW o \in Outcomes PROVE [outcome EXCEPT ![c] = o] \in [Callers -> Outcomes]
        BY <1>0 DEF PipeTypes
      <4>3. outcome \in [Callers -> Outcomes]
        BY <1>0 DEF PipeTypes
      <4> QED BY <4>1, <4>2, <4>3
    <3> QED BY <1>0, <2>1, <3>2 DEF PipeTypes
  <2>3. /\ nextId <= nextId'
        /\ phase' \in {"initializing", "notifying"} => phase \in {"initializing", "notifying"}
    BY <1>0, <1>1, SMT DEF Begin, ClientTypes
  <2>4. \A d \in Callers : d # c => pc'[d] = pc[d] /\ id'[d] = id[d] /\ outcome'[d] = outcome[d]
    BY <1>0, <1>1 DEF Begin, ClientTypes, PipeTypes
  <2>5. pc'[c] \in Unwritten => id'[c] = nextId
    BY <1>0, <1>1, <2>1 DEF Begin, ClientTypes, Unwritten
  <2>6. outcome'[c].kind \in Told => outcome'[c] = outcome[c] /\ pc'[c] # "idle"
    BY <1>0, <1>1, <2>1, SMT DEF Begin, ClientTypes, PipeTypes, Told
  <2>7. outcome'[c].kind \in Told =>
          WorkedOn(outcome'[c].of) /\ (pc'[c] = "idle" => outcome'[c].of = id'[c])
    BY <1>0, <2>6 DEF OutcomesAreEarned
  <2> QED BY <1>0, <2>1, <2>2, <2>3, <2>4, <2>5, <2>7, CallerKeepsPipe
<1>2. CASE /\ UNCHANGED <<outcome, phase, id, channel, nextId, stdin, stdout, server, written, taken>>
           /\ pc[c] # "idle"
           /\ \E q : pc' = [pc EXCEPT ![c] = q] /\ q # "idle"
                     /\ (q \in Unwritten => pc[c] \in Unwritten)
  <2>1. PipeTypes'
    BY <1>0, <1>2 DEF PipeTypes
  <2>2. /\ \A d \in Callers : d # c => pc'[d] = pc[d]
        /\ pc'[c] # "idle" /\ (pc'[c] \in Unwritten => pc[c] \in Unwritten)
    BY <1>0, <1>2 DEF ClientTypes
  <2>3. nextId <= nextId'
    BY <1>0, <1>2, SMT DEF ClientTypes
  <2>4. outcome'[c].kind \in Told => WorkedOn(outcome'[c].of)
    BY <1>0, <1>2 DEF OutcomesAreEarned
  <2> QED BY <1>0, <1>2, <2>1, <2>2, <2>3, <2>4, CallerKeepsPipe
<1>3. ASSUME NEW kind \in {"Io", "Timeout"}
      PROVE  [kind |-> kind, of |-> 0] \in Outcomes /\ kind \notin Told
  BY DEF Outcomes, Told
<1>4. CASE Insert(c) \/ WriteFails(c) \/ TimeOut(c) \/ (Recheck(c) /\ ~closed)
  <2>1. /\ UNCHANGED <<outcome, phase, id, channel, nextId, stdin, stdout, server, written, taken>>
        /\ pc[c] # "idle"
    BY <1>4 DEF Insert, WriteFails, TimeOut, Recheck, pipeVars
  <2>2. \E q : pc' = [pc EXCEPT ![c] = q] /\ q # "idle" /\ (q \in Unwritten => pc[c] \in Unwritten)
    <3>1. CASE Insert(c)
      BY <3>1 DEF Insert, Unwritten
    <3>2. CASE WriteFails(c)
      <4>1. pc' = [pc EXCEPT ![c] = "unwritten"]
        BY <3>2 DEF WriteFails
      <4>2. "unwritten" # "idle" /\ "unwritten" \notin Unwritten
        BY DEF Unwritten
      <4> QED BY <4>1, <4>2
    <3>3. CASE TimeOut(c)
      <4>1. pc' = [pc EXCEPT ![c] = "expired"]
        BY <3>3 DEF TimeOut
      <4>2. "expired" # "idle" /\ "expired" \notin Unwritten
        BY DEF Unwritten
      <4> QED BY <4>1, <4>2
    <3>4. CASE Recheck(c) /\ ~closed
      BY <3>4 DEF Recheck, Unwritten
    <3> QED BY <1>4, <3>1, <3>2, <3>3, <3>4
  <2> QED BY <1>2, <2>1, <2>2
<1>5. CASE Recheck(c) /\ closed
  <2>1. /\ Return(c, "Io", 0)
        /\ UNCHANGED <<id, channel, nextId, stdin, stdout, server, written, taken>>
    BY <1>5 DEF Recheck, pipeVars
  <2> QED BY <1>0, <1>3, <2>1, ReturnKeepsPipe
<1>6. CASE RemovePending(c)
  <2>1. UNCHANGED <<id, channel, nextId, stdin, stdout, server, written, taken>>
    BY <1>6 DEF RemovePending, pipeVars
  <2>2. PICK kind \in {"Io", "Timeout"} : Return(c, kind, 0)
    BY <1>6 DEF RemovePending
  <2> QED BY <1>0, <1>3, <2>1, <2>2, ReturnKeepsPipe
<1>7. CASE Receive(c)
  <2>1. /\ pc[c] = "waiting"
        /\ UNCHANGED <<id, channel, nextId, stdin, stdout, server, written, taken>>
    BY <1>7 DEF Receive, pipeVars
  <2>2. PICK m \in channel[id[c]] : Return(c, Finish(c, m), m.of)
    BY <1>7 DEF Receive
  <2>3. id[c] \in Ids
    BY <1>0, <2>1, McpAssumption, SMT DEF MapInv, IdsAreApart, ClientTypes, Ids
  <2>4. m.of = id[c] /\ m.kind \in {"Result", "Rpc", "Io"} /\ (m.kind # "Io" => WorkedOn(id[c]))
    BY <1>0, <2>2, <2>3 DEF MessagesAreEarned
  <2>5. /\ Finish(c, m) \in {"Io", "Protocol"} \union Told
        /\ Finish(c, m) \in Told => m.kind # "Io"
    BY <2>4, FinishTells, SMT
  <2>6. [kind |-> Finish(c, m), of |-> m.of] \in Outcomes
    BY <1>0, <2>4, <2>5 DEF Outcomes, ClientTypes
  <2> QED BY <1>0, <2>1, <2>2, <2>4, <2>5, <2>6, ReturnKeepsPipe
<1> QED BY <1>1, <1>4, <1>5, <1>6, <1>7

\* What a frame at the end of a sequence of frames changes.
LEMMA Appended ==
  ASSUME NEW S, NEW s \in Seq(S), NEW e \in S
  PROVE  /\ Append(s, e) \in Seq(S) /\ Len(s) \in Nat /\ Len(Append(s, e)) = Len(s) + 1
         /\ \A k \in 1 .. Len(s) : Append(s, e)[k] = s[k]
         /\ Append(s, e)[Len(s) + 1] = e
BY SMT

LEMMA Tailed ==
  ASSUME NEW S, NEW s \in Seq(S), s # <<>>
  PROVE  /\ Tail(s) \in Seq(S) /\ Len(s) \in Nat \ {0} /\ Len(Tail(s)) = Len(s) - 1
         /\ \A k \in 1 .. Len(Tail(s)) : Tail(s)[k] = s[k + 1]
         /\ Head(s) = s[1] /\ s[1] \in S
BY SMT

LEMMA AppendedInStep ==
  ASSUME NEW w \in Seq(Nat), NEW s \in Seq(Nat), NEW t \in Nat, NEW i \in Nat,
         t + Len(s) = Len(w), \A k \in 1 .. Len(s) : s[k] = w[t + k]
  PROVE  /\ t + Len(Append(s, i)) = Len(Append(w, i))
         /\ t + Len(Append(s, i)) <= Len(Append(w, i))
         /\ \A k \in 1 .. Len(Append(s, i)) : Append(s, i)[k] = Append(w, i)[t + k]
<1>1. /\ Len(Append(s, i)) = Len(s) + 1 /\ Len(s) \in Nat
      /\ \A k \in 1 .. Len(s) : Append(s, i)[k] = s[k]
      /\ Append(s, i)[Len(s) + 1] = i
  BY Appended, SMT
<1>2. /\ Len(Append(w, i)) = Len(w) + 1 /\ Len(w) \in Nat
      /\ \A k \in 1 .. Len(w) : Append(w, i)[k] = w[k]
      /\ Append(w, i)[Len(w) + 1] = i
  BY Appended, SMT
<1>3. ASSUME NEW a \in Nat, NEW b \in Nat, t + a = b
      PROVE  /\ t + (a + 1) = b + 1 /\ t + (a + 1) <= b + 1
             /\ \A k \in 1 .. a + 1 : k \in 1 .. a \/ k = a + 1
             /\ \A k \in 1 .. a : t + k \in 1 .. b
  BY <1>3, SMT
<1>4. /\ t + (Len(s) + 1) = Len(w) + 1 /\ t + (Len(s) + 1) <= Len(w) + 1
      /\ \A k \in 1 .. Len(s) + 1 : k \in 1 .. Len(s) \/ k = Len(s) + 1
      /\ \A k \in 1 .. Len(s) : t + k \in 1 .. Len(w)
  BY <1>1, <1>2, <1>3
<1> QED BY <1>1, <1>2, <1>4

\* A frame that is written is new to the pipe.
LEMMA AppendKeepsPipe ==
  ASSUME PipeInv, ClientTypes, ClientTypes', NEW i \in Nat,
         server = "up", i < nextId,
         \A k \in 1 .. Len(written) : written[k] # i,
         stdin' = Append(stdin, i), written' = Append(written, i),
         UNCHANGED <<outcome, channel, nextId, id, stdout, server, taken>>,
         \A c \in Callers : pc'[c] \in Unwritten => pc[c] \in Unwritten /\ id[c] # i,
         \A c \in Callers : pc'[c] = "idle" => pc[c] = "idle",
         phase' \in {"initializing", "notifying"} => i # 0 /\ phase \in {"initializing", "notifying"}
  PROVE  PipeInv'
<1>0. /\ PipeTypes /\ PipeOrder /\ WrittenOnce
      /\ FramesAreEarned /\ MessagesAreEarned /\ OutcomesAreEarned
  BY DEF PipeInv
<1>1. written \in Seq(Nat) /\ stdin \in Seq(Nat) /\ taken \in Nat
  BY <1>0 DEF PipeTypes
<1>2. /\ written' \in Seq(Nat) /\ Len(written) \in Nat /\ Len(written') = Len(written) + 1
      /\ \A k \in 1 .. Len(written) : written'[k] = written[k]
      /\ written'[Len(written) + 1] = i
  BY <1>1, Appended, SMT
<1>3. /\ stdin' \in Seq(Nat) /\ Len(stdin) \in Nat /\ Len(stdin') = Len(stdin) + 1
      /\ \A k \in 1 .. Len(stdin) : stdin'[k] = stdin[k]
      /\ stdin'[Len(stdin) + 1] = i
  BY <1>1, Appended, SMT
<1>4. PipeTypes'
  BY <1>0, <1>2, <1>3 DEF PipeTypes
<1>5. taken + Len(stdin) = Len(written) /\ \A k \in 1 .. Len(stdin) : stdin[k] = written[taken + k]
  BY <1>0 DEF PipeOrder
<1>6. PipeOrder'
  <2>1. /\ taken + Len(Append(stdin, i)) = Len(Append(written, i))
        /\ taken + Len(Append(stdin, i)) <= Len(Append(written, i))
        /\ \A k \in 1 .. Len(Append(stdin, i)) : Append(stdin, i)[k] = Append(written, i)[taken + k]
    BY <1>1, <1>5, AppendedInStep, ZenonT(30)
  <2> QED BY <2>1 DEF PipeOrder
<1>7. \A k \in 1 .. Len(written') : k \in 1 .. Len(written) \/ k = Len(written) + 1
  BY <1>2, SMT
<1>8. WrittenOnce'
  <2>1. \A j, k \in 1 .. Len(written') : written'[j] = written'[k] => j = k
    <3>1. \A j, k \in 1 .. Len(written) : written[j] = written[k] => j = k
      BY <1>0 DEF WrittenOnce
    <3> QED BY <1>2, <1>7, <3>1, SMT
  <2>2. \A k \in 1 .. Len(written') : written'[k] < nextId
    <3>1. \A k \in 1 .. Len(written) : written[k] < nextId
      BY <1>0 DEF WrittenOnce
    <3> QED BY <1>2, <1>7, <3>1
  <2>3. \A c \in Callers : pc'[c] \in Unwritten =>
          \A k \in 1 .. Len(written') : written'[k] # id[c]
    <3>1. \A c \in Callers : pc[c] \in Unwritten =>
            \A k \in 1 .. Len(written) : written[k] # id[c]
      BY <1>0 DEF WrittenOnce
    <3> QED BY <1>2, <1>7, <3>1, SMT
  <2>4. phase' \in {"initializing", "notifying"} =>
          \A k \in 1 .. Len(written') : written'[k] # 0
    <3>1. phase \in {"initializing", "notifying"} => \A k \in 1 .. Len(written) : written[k] # 0
      BY <1>0 DEF WrittenOnce
    <3> QED BY <1>2, <1>7, <3>1
  <2> QED BY <2>1, <2>2, <2>3, <2>4 DEF WrittenOnce
<1>9. \A n : WorkedOn(n) => WorkedOn(n)'
  <2>1. \A k \in 1 .. taken : k \in 1 .. Len(written)
    BY <1>1, <1>2, <1>3, <1>5, SMT
  <2> QED BY <1>2, <2>1 DEF WorkedOn
<1>10. FramesAreEarned' /\ MessagesAreEarned'
  BY <1>0, <1>9 DEF FramesAreEarned, MessagesAreEarned
<1>11. OutcomesAreEarned'
  BY <1>0, <1>9 DEF OutcomesAreEarned
<1> QED BY <1>4, <1>6, <1>8, <1>10, <1>11 DEF PipeInv

LEMMA WriteKeepsPipe ==
  ASSUME PipeInv, MapInv, MapInv', (\E c \in Callers : Write(c)) \/ Notify
  PROVE  PipeInv'
<1>0. /\ PipeTypes /\ PipeOrder /\ WrittenOnce /\ ClientTypes /\ ClientTypes' /\ IdsAreApart
      /\ FramesAreEarned /\ MessagesAreEarned /\ OutcomesAreEarned
  BY DEF PipeInv, MapInv
<1>1. ASSUME NEW c \in Callers, Write(c) PROVE PipeInv'
  <2>1. /\ pc[c] = "writing" /\ server = "up"
        /\ stdin' = Append(stdin, id[c]) /\ written' = Append(written, id[c])
        /\ pc' = [pc EXCEPT ![c] = "waiting"]
        /\ UNCHANGED <<outcome, channel, nextId, id, phase, stdout, server, taken>>
    BY <1>1 DEF Write
  <2>2. pc'[c] = "waiting" /\ \A d \in Callers : d # c => pc'[d] = pc[d]
    BY <1>0, <2>1 DEF ClientTypes
  <2>3. /\ id[c] \in Nat /\ id[c] < nextId /\ id[c] # 0
        /\ \A d \in Callers : d # c => id[d] # id[c]
    BY <1>0, <2>1 DEF ClientTypes, IdsAreApart
  <2>4. pc[c] \in Unwritten /\ "waiting" \notin Unwritten
    BY <2>1 DEF Unwritten
  <2>5. \A k \in 1 .. Len(written) : written[k] # id[c]
    BY <1>0, <2>4 DEF WrittenOnce
  <2>6. \A d \in Callers : pc'[d] \in Unwritten => pc[d] \in Unwritten /\ id[d] # id[c]
    BY <2>2, <2>3, <2>4
  <2>7. \A d \in Callers : pc'[d] = "idle" => pc[d] = "idle"
    BY <2>2
  <2> QED BY <1>0, <2>1, <2>3, <2>5, <2>6, <2>7, AppendKeepsPipe
<1>2. CASE Notify
  <2>1. /\ phase = "notifying"
        /\ UNCHANGED <<pc, outcome, channel, nextId, id, stdout, server, taken>>
    BY <1>2 DEF Notify
  <2>2. CASE phase' = "failed" /\ UNCHANGED <<stdin, written>>
    <3>1. PipeTypes' /\ PipeOrder' /\ FramesAreEarned' /\ MessagesAreEarned' /\ OutcomesAreEarned'
      BY <1>0, <2>1, <2>2
      DEF PipeTypes, PipeOrder, FramesAreEarned, MessagesAreEarned, OutcomesAreEarned, WorkedOn
    <3>2. phase' \notin {"initializing", "notifying"}
      BY <2>2
    <3>3. WrittenOnce'
      BY <1>0, <2>1, <2>2, <3>2 DEF WrittenOnce
    <3> QED BY <3>1, <3>3 DEF PipeInv
  <2>3. CASE /\ server = "up" /\ stdin' = Append(stdin, 0) /\ written' = Append(written, 0)
             /\ phase' = "ready"
    <3>1. \A k \in 1 .. Len(written) : written[k] # 0
      BY <1>0, <2>1 DEF WrittenOnce
    <3>2. 0 \in Nat /\ 0 < nextId /\ phase' \notin {"initializing", "notifying"}
      BY <1>0, <2>3, SMT DEF IdsAreApart, ClientTypes
    <3>3. \A c \in Callers : pc[c] \in Unwritten => id[c] # 0
      BY <1>0 DEF IdsAreApart, Unwritten
    <3> QED BY <1>0, <2>1, <2>3, <3>1, <3>2, <3>3, AppendKeepsPipe
  <2> QED BY <1>2, <2>2, <2>3 DEF Notify
<1> QED BY <1>1, <1>2

LEMMA TailedInStep ==
  ASSUME NEW w \in Seq(Nat), NEW s \in Seq(Nat), NEW t \in Nat, s # <<>>,
         t + Len(s) = Len(w), \A k \in 1 .. Len(s) : s[k] = w[t + k]
  PROVE  /\ (t + 1) + Len(Tail(s)) = Len(w) /\ (t + 1) + Len(Tail(s)) <= Len(w)
         /\ \A k \in 1 .. Len(Tail(s)) : Tail(s)[k] = w[(t + 1) + k]
         /\ w[t + 1] = Head(s) /\ Head(s) \in Nat
<1>1. /\ Len(s) \in Nat \ {0} /\ Len(w) \in Nat /\ Len(Tail(s)) = Len(s) - 1
      /\ \A k \in 1 .. Len(Tail(s)) : Tail(s)[k] = s[k + 1]
      /\ Head(s) = s[1] /\ s[1] \in Nat
  BY Tailed, SMT
<1>2. ASSUME NEW a \in Nat \ {0}, NEW b \in Nat, t + a = b
      PROVE  /\ (t + 1) + (a - 1) = b /\ (t + 1) + (a - 1) <= b /\ 1 \in 1 .. a
             /\ \A k \in 1 .. a - 1 : k + 1 \in 1 .. a /\ t + (k + 1) = (t + 1) + k
  BY <1>2, SMT
<1>3. /\ (t + 1) + (Len(s) - 1) = Len(w) /\ (t + 1) + (Len(s) - 1) <= Len(w) /\ 1 \in 1 .. Len(s)
      /\ \A k \in 1 .. Len(s) - 1 : k + 1 \in 1 .. Len(s) /\ t + (k + 1) = (t + 1) + k
  BY <1>1, <1>2, ZenonT(30)
<1> QED BY <1>1, <1>3, ZenonT(30)

\* An answer of the server is one frame, to the request, or none.
LEMMA AnswerShape ==
  ASSUME NEW i \in Nat, NEW answer \in Answers(i)
  PROVE  answer = <<>> \/ \E f \in Frames : answer = <<f>> /\ f.id = i
<1>1. ASSUME NEW shape \in {"rpcError", "result"}, NEW raw \in SUBSET ToolResults
      PROVE  Frame(shape, i, raw) \in Frames /\ Frame(shape, i, raw).id = i
  BY DEF Frame, Frames, FrameClasses
<1>2. \/ answer = <<>> \/ answer = <<Frame("rpcError", i, {})>>
      \/ answer = <<Frame("result", i, {})>>
      \/ \E raw \in ToolResults : answer = <<Frame("result", i, {raw})>>
  BY DEF Answers
<1>3. {} \in SUBSET ToolResults /\ \A raw \in ToolResults : {raw} \in SUBSET ToolResults
  OBVIOUS
<1> QED BY <1>1, <1>2, <1>3

LEMMA Joined ==
  ASSUME NEW S, NEW s \in Seq(S), NEW e \in S
  PROVE  s \o <<>> = s /\ s \o <<e>> = Append(s, e)
BY SMT

\* The server says nothing, or one thing that is earned.
LEMMA FramesGrow ==
  ASSUME PipeTypes, FramesAreEarned, \A n : WorkedOn(n) => WorkedOn(n)',
         \/ UNCHANGED stdout
         \/ \E f \in Frames : /\ stdout' = Append(stdout, f)
                              /\ f.class \in {"rpcError", "result"} => WorkedOn(f.id)'
  PROVE  stdout' \in Seq(Frames) /\ FramesAreEarned'
<1>0. stdout \in Seq(Frames)
  BY DEF PipeTypes
<1>1. CASE UNCHANGED stdout
  BY <1>0, <1>1 DEF FramesAreEarned
<1>2. ASSUME NEW f \in Frames, stdout' = Append(stdout, f),
             f.class \in {"rpcError", "result"} => WorkedOn(f.id)'
      PROVE  stdout' \in Seq(Frames) /\ FramesAreEarned'
  <2>1. /\ stdout' \in Seq(Frames) /\ Len(stdout) \in Nat /\ Len(stdout') = Len(stdout) + 1
        /\ \A k \in 1 .. Len(stdout) : stdout'[k] = stdout[k]
        /\ stdout'[Len(stdout) + 1] = f
    BY <1>0, <1>2, Appended, SMT
  <2>2. \A k \in 1 .. Len(stdout') : k \in 1 .. Len(stdout) \/ k = Len(stdout) + 1
    BY <2>1, SMT
  <2>3. \A n \in 1 .. Len(stdout') :
          stdout'[n].class \in {"rpcError", "result"} =>
            \A i : i = stdout'[n].id => WorkedOn(i)'
    BY <1>2, <2>1, <2>2 DEF FramesAreEarned
  <2> QED BY <2>1, <2>3 DEF FramesAreEarned, WorkedOn
<1> QED BY <1>1, <1>2

LEMMA ServerKeepsPipe ==
  ASSUME PipeInv, ClientTypes,
         Serve \/ Stray \/ (\E state \in {"deaf", "dead"} : Close(state)) \/ Drop
  PROVE  PipeInv'
<1>0. /\ PipeTypes /\ PipeOrder /\ WrittenOnce
      /\ FramesAreEarned /\ MessagesAreEarned /\ OutcomesAreEarned
  BY DEF PipeInv
<1>1. written \in Seq(Nat) /\ stdin \in Seq(Nat) /\ taken \in Nat /\ stdout \in Seq(Frames)
  BY <1>0 DEF PipeTypes
<1>2. ASSUME UNCHANGED <<pc, id, outcome, channel, nextId, written>>,
             phase' \in {phase, "dropped"}, \A n : WorkedOn(n) => WorkedOn(n)'
      PROVE  WrittenOnce' /\ MessagesAreEarned' /\ OutcomesAreEarned'
  <2>1. phase' \in {"initializing", "notifying"} => phase \in {"initializing", "notifying"}
    BY <1>2
  <2>2. WrittenOnce'
    BY <1>0, <1>2, <2>1 DEF WrittenOnce
  <2> QED BY <1>0, <1>2, <2>2 DEF MessagesAreEarned, OutcomesAreEarned
<1>3. CASE Serve
  <2>1. /\ server = "up" /\ stdin # <<>> /\ stdin' = Tail(stdin) /\ taken' = taken + 1
        /\ UNCHANGED <<pc, id, outcome, channel, nextId, phase, server, written>>
        /\ \E answer \in IF Head(stdin) = 0 THEN {<<>>} ELSE Answers(Head(stdin)) :
             stdout' = stdout \o answer
    BY <1>3 DEF Serve, clientVars
  <2>2. taken + Len(stdin) = Len(written) /\ \A k \in 1 .. Len(stdin) : stdin[k] = written[taken + k]
    BY <1>0, <2>1 DEF PipeOrder
  <2>3. /\ (taken + 1) + Len(Tail(stdin)) = Len(written)
        /\ (taken + 1) + Len(Tail(stdin)) <= Len(written)
        /\ \A k \in 1 .. Len(Tail(stdin)) : Tail(stdin)[k] = written[(taken + 1) + k]
        /\ written[taken + 1] = Head(stdin) /\ Head(stdin) \in Nat
    BY <1>1, <2>1, <2>2, TailedInStep, ZenonT(30)
  <2>4. PipeOrder'
    BY <2>1, <2>3 DEF PipeOrder
  <2>i. PICK i : i = Head(stdin)
    OBVIOUS
  <2>5. (\A n : WorkedOn(n) => WorkedOn(n)') /\ WorkedOn(i)'
    <3>1. (\A k \in 1 .. taken : k \in 1 .. taken + 1) /\ taken + 1 \in 1 .. taken + 1
      BY <1>1, SMT
    <3> QED BY <2>i, <2>1, <2>3, <3>1 DEF WorkedOn
  <2>6. \/ UNCHANGED stdout
        \/ \E f \in Frames : stdout' = Append(stdout, f) /\ f.id = i
    <3>1. PICK answer \in IF Head(stdin) = 0 THEN {<<>>} ELSE Answers(Head(stdin)) :
            stdout' = stdout \o answer
      BY <2>1
    <3>2. answer = <<>> \/ \E f \in Frames : answer = <<f>> /\ f.id = i
      BY <2>i, <2>3, <3>1, AnswerShape
    <3>3. stdout \o <<>> = stdout /\ \A f \in Frames : stdout \o <<f>> = Append(stdout, f)
      BY <1>1, Joined, SMT
    <3> QED BY <3>1, <3>2, <3>3
  <2>7. stdout' \in Seq(Frames) /\ FramesAreEarned'
    BY <1>0, <2>5, <2>6, FramesGrow
  <2>8. PipeTypes'
    <3>1. stdin' \in Seq(Nat) /\ taken' \in Nat
      BY <1>1, <2>1, SMT
    <3> QED BY <1>0, <2>1, <2>7, <3>1 DEF PipeTypes
  <2> QED BY <1>2, <2>1, <2>4, <2>5, <2>7, <2>8 DEF PipeInv
<1>4. CASE Stray
  <2>1. UNCHANGED <<pc, id, outcome, channel, nextId, phase, stdin, server, written, taken>>
    BY <1>4 DEF Stray, clientVars
  <2>2. \A n : WorkedOn(n) => WorkedOn(n)'
    BY <2>1 DEF WorkedOn
  <2>3. PICK f \in {Frame("notification", 0, {}), Frame("malformed", 0, {})}
                         \union {Frame("rpcError", written[k], {}) :
                                   k \in {n \in 1 .. taken : written[n] # 0}} :
          stdout' = Append(stdout, f)
    BY <1>4 DEF Stray
  <2>4. f \in Frames /\ (f.class \in {"rpcError", "result"} => WorkedOn(f.id))
    <3>1. \A shape \in FrameClasses, i \in Nat :
            Frame(shape, i, {}) \in Frames /\ Frame(shape, i, {}).class = shape
              /\ Frame(shape, i, {}).id = i
      BY DEF Frame, Frames
    <3>2. \A k \in 1 .. taken : written[k] \in Nat /\ WorkedOn(written[k])
      <4>1. taken <= Len(written) /\ Len(written) \in Nat
        BY <1>0, <1>1, SMT DEF PipeOrder
      <4>2. \A k \in 1 .. taken : written[k] \in Nat
        BY <1>1, <4>1, SMT
      <4> QED BY <4>2 DEF WorkedOn
    <3>3. \/ f = Frame("notification", 0, {}) \/ f = Frame("malformed", 0, {})
          \/ \E k \in 1 .. taken : f = Frame("rpcError", written[k], {})
      BY <2>3
    <3>4. {"notification", "malformed", "rpcError"} \subseteq FrameClasses /\ 0 \in Nat
      BY DEF FrameClasses
    <3> QED BY <3>1, <3>2, <3>3, <3>4, SMT
  <2>5. stdout' \in Seq(Frames) /\ FramesAreEarned'
    BY <1>0, <2>2, <2>3, <2>4, FramesGrow
  <2>6. PipeOrder' /\ PipeTypes'
    BY <1>0, <2>1, <2>5 DEF PipeOrder, PipeTypes
  <2> QED BY <1>2, <2>1, <2>2, <2>5, <2>6 DEF PipeInv
<1>5. CASE (\E state \in {"deaf", "dead"} : Close(state)) \/ Drop
  <2>1. /\ UNCHANGED <<pc, id, outcome, channel, nextId, stdout, written, taken>>
        /\ phase' \in {phase, "dropped"} /\ stdin' \in {stdin, <<>>} /\ server' # "up"
    BY <1>5 DEF Close, Drop, clientVars
  <2>2. \A n : WorkedOn(n) => WorkedOn(n)'
    BY <2>1 DEF WorkedOn
  <2>3. FramesAreEarned'
    BY <1>0, <2>1, <2>2 DEF FramesAreEarned
  <2>4. PipeTypes'
    <3>1. <<>> \in Seq(Nat)
      BY SMT
    <3>2. stdin' \in Seq(Nat)
      BY <1>1, <2>1, <3>1
    <3> QED BY <1>0, <2>1, <3>2 DEF PipeTypes
  <2>5. PipeOrder'
    <3>1. taken + Len(stdin) <= Len(written) => taken + Len(<<>>) <= Len(written)
      <4>1. Len(<<>>) = 0 /\ Len(stdin) \in Nat /\ Len(written) \in Nat
        BY <1>1, SMT
      <4>2. ASSUME NEW a \in Nat, NEW b \in Nat PROVE taken + a <= b => taken + 0 <= b
        BY <1>1, SMT
      <4> QED BY <4>1, <4>2
    <3>2. \A k \in 1 .. Len(<<>>) : FALSE
      BY SMT
    <3>3. CASE stdin' = stdin
      BY <1>0, <2>1, <3>3 DEF PipeOrder
    <3>4. CASE stdin' = <<>>
      <4>1. taken + Len(stdin) <= Len(written)
        BY <1>0 DEF PipeOrder
      <4> QED BY <2>1, <3>1, <3>2, <3>4, <4>1 DEF PipeOrder
    <3> QED BY <2>1, <3>3, <3>4
  <2> QED BY <1>2, <2>1, <2>2, <2>3, <2>4, <2>5 DEF PipeInv
<1> QED BY <1>3, <1>4, <1>5

\* The reader passes on what the server has said, or the end of the connection.
LEMMA ReaderKeepsPipe ==
  ASSUME PipeInv, ClientTypes, ClientTypes', ReaderStep
  PROVE  PipeInv'
<1>0. /\ PipeTypes /\ PipeOrder /\ WrittenOnce
      /\ FramesAreEarned /\ MessagesAreEarned /\ OutcomesAreEarned
  BY DEF PipeInv
<1>1. UNCHANGED <<pc, id, outcome, nextId, phase, stdin, server, written, taken>>
  BY DEF ReaderStep, Deliver, ReaderFails, DrainPending, FailDrained, pipeVars
<1>2. PipeOrder' /\ WrittenOnce' /\ OutcomesAreEarned'
  BY <1>0, <1>1 DEF PipeOrder, WrittenOnce, OutcomesAreEarned, WorkedOn
<1>3. \A n : WorkedOn(n) => WorkedOn(n)'
  BY <1>1 DEF WorkedOn
<1>4. ASSUME NEW i \in Ids, NEW m, Send(i, m), m.of = i, m.kind \in {"Result", "Rpc", "Io"},
             m.kind # "Io" => WorkedOn(i)
      PROVE  MessagesAreEarned'
  <2>1. \A j \in Ids : channel'[j] = channel[j] \/ (j = i /\ channel'[j] = channel[j] \union {m})
    BY <1>4 DEF Send, ClientTypes
  <2>2. \A j \in Ids : \A n \in channel'[j] : n \in channel[j] \/ (j = i /\ n = m)
    BY <2>1, SMT
  <2>3. \A j \in Ids : \A n \in channel[j] :
          n.of = j /\ n.kind \in {"Result", "Rpc", "Io"} /\ (n.kind # "Io" => WorkedOn(j)')
    BY <1>0, <1>3 DEF MessagesAreEarned
  <2>4. \A j \in Ids : \A n \in channel'[j] :
          n.of = j /\ n.kind \in {"Result", "Rpc", "Io"} /\ (n.kind # "Io" => WorkedOn(j)')
    BY <1>3, <1>4, <2>2, <2>3, SMT
  <2> QED BY <2>4 DEF MessagesAreEarned
<1>5. CASE Deliver
  <2>1. /\ stdout # <<>> /\ ~Malformed(Head(stdout)) /\ stdout' = Tail(stdout)
    BY <1>5 DEF Deliver
  <2>2. stdout \in Seq(Frames)
    BY <1>0 DEF PipeTypes
  <2>3. /\ stdout' \in Seq(Frames) /\ Len(stdout) \in Nat \ {0} /\ Len(stdout') = Len(stdout) - 1
        /\ \A k \in 1 .. Len(stdout') : stdout'[k] = stdout[k + 1]
        /\ Head(stdout) = stdout[1] /\ stdout[1] \in Frames
    BY <2>1, <2>2, Tailed
  <2>4. PipeTypes'
    BY <1>0, <1>1, <2>3 DEF PipeTypes
  <2>5. FramesAreEarned'
    <3>1. 1 \in 1 .. Len(stdout) /\ \A k \in 1 .. Len(stdout') : k + 1 \in 1 .. Len(stdout)
      BY <2>3, SMT
    <3>2. \A n \in 1 .. Len(stdout') :
            stdout'[n].class \in {"rpcError", "result"} =>
              \A i : i = stdout'[n].id => WorkedOn(i)'
      BY <1>0, <1>3, <2>3, <3>1 DEF FramesAreEarned
    <3> QED BY <3>2 DEF FramesAreEarned, WorkedOn
  <2>6. CASE UNCHANGED channel
    BY <1>0, <1>2, <1>3, <2>4, <2>5, <2>6 DEF PipeInv, MessagesAreEarned
  <2>7. CASE \E m \in ParseResponse(Head(stdout)) : m.of \in pending /\ Send(m.of, m)
    <3>1. PICK m \in ParseResponse(Head(stdout)) : m.of \in pending /\ Send(m.of, m)
      BY <2>7
    <3>2. /\ m.kind \in {"Result", "Rpc"} /\ m.of = Head(stdout).id
          /\ Head(stdout).class \in {"rpcError", "result"}
      <4>1. Head(stdout).class \in FrameClasses \ {"malformed"}
        BY <2>1, <2>3 DEF Frames, Malformed
      <4> QED BY <3>1, <4>1, SMT DEF ParseResponse, FrameClasses
    <3>3. WorkedOn(m.of)
      <4>1. 1 \in 1 .. Len(stdout)
        BY <2>3, SMT
      <4> QED BY <1>0, <2>3, <3>2, <4>1 DEF FramesAreEarned
    <3>4. m.of \in Ids
      BY <3>1 DEF ClientTypes
    <3>5. MessagesAreEarned'
      BY <1>4, <3>1, <3>2, <3>3, <3>4
    <3> QED BY <1>2, <2>4, <2>5, <3>5 DEF PipeInv
  <2> QED BY <1>5, <2>6, <2>7 DEF Deliver
<1>6. CASE UNCHANGED <<stdout, channel>>
  <2>1. PipeTypes' /\ FramesAreEarned'
    BY <1>0, <1>1, <1>6 DEF PipeTypes, FramesAreEarned, WorkedOn
  <2>2. MessagesAreEarned'
    BY <1>0, <1>1, <1>6 DEF MessagesAreEarned, WorkedOn
  <2> QED BY <1>2, <2>1, <2>2 DEF PipeInv
<1>7. CASE FailDrained
  <2>1. UNCHANGED stdout
    BY <1>7 DEF FailDrained, pipeVars
  <2>2. PipeTypes' /\ FramesAreEarned'
    BY <1>0, <1>1, <2>1 DEF PipeTypes, FramesAreEarned, WorkedOn
  <2>3. CASE \E i \in drained : Send(i, [kind |-> "Io", of |-> i, raw |-> {}])
    <3>1. PICK i \in drained : Send(i, [kind |-> "Io", of |-> i, raw |-> {}])
      BY <2>3
    <3>2. i \in Ids
      BY DEF ClientTypes
    <3>3. MessagesAreEarned'
      BY <1>4, <3>1, <3>2
    <3> QED BY <1>2, <2>2, <3>3 DEF PipeInv
  <2> QED BY <1>6, <1>7, <2>1, <2>3 DEF FailDrained
<1> QED BY <1>5, <1>6, <1>7 DEF ReaderStep, ReaderFails, DrainPending, pipeVars

LEMMA PipeInvStep ==
  ASSUME PipeInv, MapInv, MapInv', McpNext \/ UNCHANGED mcpVars
  PROVE  PipeInv'
<1>0. ClientTypes /\ ClientTypes'
  BY DEF MapInv
<1>1. CASE UNCHANGED mcpVars
  <2>1. UNCHANGED <<pc, id, outcome, channel, nextId, phase, stdin, stdout, server, written, taken>>
    BY <1>1 DEF mcpVars, clientVars, pipeVars
  <2>2. PipeTypes' /\ PipeOrder' /\ WrittenOnce'
    BY <2>1 DEF PipeInv, PipeTypes, PipeOrder, WrittenOnce
  <2>3. FramesAreEarned' /\ MessagesAreEarned' /\ OutcomesAreEarned'
    BY <2>1 DEF PipeInv, FramesAreEarned, MessagesAreEarned, OutcomesAreEarned, WorkedOn
  <2> QED BY <2>2, <2>3 DEF PipeInv
<1>2. CASE \E c \in Callers : Begin(c) \/ Proceed(c)
  BY <1>2, RequestKeepsPipe, WriteKeepsPipe DEF Proceed
<1>3. CASE Notify
  BY <1>3, WriteKeepsPipe
<1>4. CASE ReaderStep
  BY <1>0, <1>4, ReaderKeepsPipe
<1>5. CASE Serve \/ Stray \/ (\E state \in {"deaf", "dead"} : Close(state)) \/ Drop
  BY <1>0, <1>5, ServerKeepsPipe
<1> QED BY <1>1, <1>2, <1>3, <1>4, <1>5 DEF McpNext

LEMMA PipeInvInit == McpInit => PipeInv
<1> SUFFICES ASSUME McpInit PROVE PipeInv
  OBVIOUS
<1>0. NoOutcome \in Outcomes /\ NoOutcome.kind \notin Told
  BY DEF NoOutcome, Outcomes, Told
<1>1. PipeTypes
  BY <1>0, SMT DEF McpInit, PipeTypes
<1>2. written = <<>> /\ stdin = <<>> /\ taken = 0 /\ stdout = <<>>
  BY DEF McpInit
<1>3. PipeOrder /\ FramesAreEarned /\ WrittenOnce
  BY <1>2, SMT DEF PipeOrder, FramesAreEarned, WrittenOnce
<1>4. MessagesAreEarned /\ OutcomesAreEarned
  BY <1>0 DEF McpInit, MessagesAreEarned, OutcomesAreEarned
<1> QED BY <1>1, <1>3, <1>4 DEF PipeInv

LEMMA PipeInvSafety == PipeInv => AnswerIsSettled
<1> SUFFICES ASSUME PipeInv PROVE AnswerIsSettled
  OBVIOUS
<1>0. PipeTypes /\ PipeOrder /\ WrittenOnce /\ OutcomesAreEarned
  BY DEF PipeInv
<1>1. AnswerIsOwn
  BY <1>0 DEF AnswerIsOwn, OutcomesAreEarned, Told
<1>2. AnsweredMeansSettled
  <2> SUFFICES ASSUME NEW c \in Callers, outcome[c].kind \in {"Ok", "Tool", "Rpc"},
                      NEW k \in DOMAIN written, written[k] = outcome[c].of, NEW n \in 1 .. k,
                      written[n] \in Range(stdin)
               PROVE  FALSE
    BY DEF AnsweredMeansSettled
  <2>1. PICK w \in 1 .. taken : written[w] = outcome[c].of
    BY <1>0 DEF OutcomesAreEarned, Told, WorkedOn
  <2>2. /\ written \in Seq(Nat) /\ stdin \in Seq(Nat) /\ taken \in Nat
        /\ Len(written) \in Nat /\ Len(stdin) \in Nat /\ DOMAIN written = 1 .. Len(written)
        /\ DOMAIN stdin = 1 .. Len(stdin)
    BY <1>0, SMT DEF PipeTypes
  <2>3. taken + Len(stdin) <= Len(written) /\ \A j \in 1 .. Len(stdin) : stdin[j] = written[taken + j]
    BY <1>0 DEF PipeOrder
  <2>4. \A i, j \in 1 .. Len(written) : written[i] = written[j] => i = j
    BY <1>0 DEF WrittenOnce
  <2>5. w \in 1 .. Len(written)
    BY <2>2, <2>3, SMT
  <2>6. w = k
    BY <2>1, <2>2, <2>4, <2>5
  <2>7. PICK j \in 1 .. Len(stdin) : stdin[j] = written[n]
    BY <2>2 DEF Range
  <2>8. n \in 1 .. Len(written) /\ taken + j \in 1 .. Len(written) /\ n < taken + j
    <3>1. ASSUME NEW t \in Nat, NEW s \in Nat, NEW l \in Nat, t + s <= l,
                 NEW x \in 1 .. t, NEW y \in 1 .. x, NEW z \in 1 .. s
          PROVE  y \in 1 .. l /\ t + z \in 1 .. l /\ y < t + z
      BY <3>1, SMT
    <3>2. n \in 1 .. w
      BY <2>6
    <3> QED BY <2>2, <2>3, <3>1, <3>2
  <2>9. n = taken + j
    BY <2>3, <2>4, <2>7, <2>8
  <2> QED BY <2>2, <2>8, <2>9, SMT
<1> QED BY <1>1, <1>2 DEF AnswerIsSettled

\* However many requests McpClient has in the pipe and however their timeouts fall, the
\* caller of request is told the server's answer to its own request, and by then
\* everything written before that request has been worked on.
THEOREM AnswersAreSettled == McpSpec => []AnswerIsSettled
<1>1. McpInit => MapInv /\ PipeInv
  BY MapInvInit, PipeInvInit
<1>2. (MapInv /\ PipeInv) /\ [McpNext]_mcpVars => (MapInv /\ PipeInv)'
  BY MapInvStep, PipeInvStep
<1>3. MapInv /\ PipeInv => AnswerIsSettled
  BY PipeInvSafety
<1> QED BY <1>1, <1>2, <1>3, PTL DEF McpSpec

---------------------------------------------------------------------------
(* RuleSeqlock: the sequence of the rule table.                            *)

States == Classes \union {Absent}

Writing == [pc : {"update", "end"}, comm : RuleComms, state : States]

Reading ==
  [pc : {"lookup", "confirm", "write"}, seq : Nat, comm : RuleComms, class : Classes]

\* Every variable has its type.
SeqlockTypeOK ==
  /\ seq \in Nat
  /\ table \in [RuleComms -> States]
  /\ writer \in {Resting} \union Writing
  /\ comm \in [Tasks -> RuleComms]
  /\ onCpu \in [Tasks -> BOOLEAN]
  /\ class \in [Tasks -> Classes]
  /\ classified \in [Tasks -> RuleComms]
  /\ seen \in [Tasks -> Nat]
  /\ refresher \in [Tasks -> {Resting} \union Reading]

\* The sequence is odd exactly while publish_rule is between its two writes of it.
OddWhileWriting == Even(seq) <=> writer = Resting

\* What a task has seen, and what a refresh has read, is an even sequence of the past.
SeenIsPast ==
  \A t \in Tasks :
    /\ Even(seen[t]) /\ seen[t] <= seq
    /\ refresher[t] # Resting => Even(refresher[t].seq) /\ refresher[t].seq <= seq

\* A refresh whose sequence is still the current one has looked up the current class.
LookupIsCurrent ==
  \A t \in Tasks :
    refresher[t] # Resting /\ refresher[t].pc # "lookup" /\ refresher[t].seq = seq =>
      refresher[t].class = ClassOf(refresher[t].comm)

SeqlockInv ==
  SeqlockTypeOK /\ OddWhileWriting /\ SeenIsPast /\ LookupIsCurrent /\ SeenIsCurrent

----------------------------------------------------------------------------
\* The two steps of the sequence: to the next odd number, and to the next even one.
LEMMA Parity ==
  ASSUME NEW n \in Nat
  PROVE  /\ Even(n) => (n - (n % 2)) + 1 = n + 1 /\ ~Even(n + 1)
         /\ ~Even(n) => Even(n + 1)
BY SMT DEF Even

\* A record that is read or written is not the resting one.
LEMMA NotResting ==
  /\ Resting.pc = "idle"
  /\ \A r \in Writing : r # Resting /\ r.pc \in {"update", "end"}
  /\ \A r \in Reading : r # Resting /\ r.pc \in {"lookup", "confirm", "write"}
BY SMT DEF Resting, Writing, Reading

\* A class is found for every comm.
LEMMA ClassOfType ==
  ASSUME SeqlockTypeOK, NEW c \in RuleComms
  PROVE  ClassOf(c) \in Classes
BY SeqlockAssumption DEF SeqlockTypeOK, ClassOf, States

----------------------------------------------------------------------------
(* The steps of the writer                                                 *)

\* The sequence becomes odd: readers that come now do not settle.
LEMMA PublishBeginKeeps ==
  ASSUME SeqlockInv, NEW c \in RuleComms, NEW state \in States, PublishBegin(c, state)
  PROVE  SeqlockInv'
<1> USE DEF SeqlockInv
<1>1. writer = Resting
  BY NotResting DEF PublishBegin, SeqlockTypeOK
<1>2. seq \in Nat /\ Even(seq) /\ seq' = seq + 1 /\ ~Even(seq + 1)
  BY <1>1, Parity DEF PublishBegin, SeqlockTypeOK, OddWhileWriting
<1>3. writer' \in Writing /\ writer' # Resting
  BY NotResting DEF PublishBegin, Writing
<1>4. SeqlockTypeOK'
  BY <1>2, <1>3, SMT DEF PublishBegin, SeqlockTypeOK
<1>5. OddWhileWriting'
  BY <1>2, <1>3 DEF OddWhileWriting
<1>6. SeenIsPast'
  BY <1>2, SMT DEF PublishBegin, SeqlockTypeOK, SeenIsPast, Reading
<1>7. \A t \in Tasks : seen'[t] # seq' /\ (refresher'[t] # Resting => refresher'[t].seq # seq')
  BY <1>2, <1>6 DEF SeenIsPast
<1> QED BY <1>4, <1>5, <1>6, <1>7 DEF LookupIsCurrent, SeenIsCurrent

\* The table changes under an odd sequence, which nobody has seen.
LEMMA PublishUpdateKeeps ==
  ASSUME SeqlockInv, PublishUpdate
  PROVE  SeqlockInv'
<1> USE DEF SeqlockInv
<1>1. writer \in Writing /\ ~Even(seq)
  BY NotResting DEF PublishUpdate, SeqlockTypeOK, OddWhileWriting
<1>2. writer' \in Writing /\ writer' # Resting
  BY <1>1, NotResting DEF PublishUpdate, Writing
<1>3. SeqlockTypeOK'
  BY <1>1, <1>2 DEF PublishUpdate, SeqlockTypeOK, Writing
<1>4. OddWhileWriting' /\ SeenIsPast'
  BY <1>1, <1>2 DEF PublishUpdate, OddWhileWriting, SeenIsPast
<1>5. \A t \in Tasks : seen'[t] # seq' /\ (refresher'[t] # Resting => refresher'[t].seq # seq')
  BY <1>1 DEF PublishUpdate, SeenIsPast
<1> QED BY <1>3, <1>4, <1>5 DEF LookupIsCurrent, SeenIsCurrent

\* The sequence becomes even: what was read before is old.
LEMMA PublishEndKeeps ==
  ASSUME SeqlockInv, PublishEnd
  PROVE  SeqlockInv'
<1> USE DEF SeqlockInv
<1>1. seq \in Nat /\ ~Even(seq) /\ seq' = seq + 1 /\ Even(seq + 1)
  BY NotResting, Parity DEF PublishEnd, SeqlockTypeOK, OddWhileWriting
<1>2. SeqlockTypeOK'
  BY <1>1, SMT DEF PublishEnd, SeqlockTypeOK
<1>3. OddWhileWriting'
  BY <1>1 DEF PublishEnd, OddWhileWriting
<1>4. SeenIsPast'
  BY <1>1, SMT DEF PublishEnd, SeqlockTypeOK, SeenIsPast, Reading
<1>5. \A t \in Tasks : seen'[t] # seq' /\ (refresher'[t] # Resting => refresher'[t].seq # seq')
  BY <1>1, SMT DEF PublishEnd, SeqlockTypeOK, SeenIsPast, Reading
<1> QED BY <1>2, <1>3, <1>4, <1>5 DEF LookupIsCurrent, SeenIsCurrent

----------------------------------------------------------------------------
(* The steps of a task                                                     *)

\* A task reads the sequence, looks its class up and reads the sequence again.
LEMMA TaskKeeps ==
  ASSUME SeqlockInv, NEW t \in Tasks, TaskStep(t)
  PROVE  SeqlockInv'
<1> USE DEF SeqlockInv
<1>0. /\ seq' = seq /\ table' = table /\ writer' = writer
      /\ OddWhileWriting' /\ \A c : ClassOf(c)' = ClassOf(c)
  BY DEF TaskStep, Refresh, RefreshBegin, RefreshLookup, RefreshConfirm, RefreshWrite,
         Switch, Rename, OddWhileWriting, ClassOf
<1>1. CASE Switch(t) \/ \E c \in RuleComms : Rename(t, c)
  <2>1. /\ class' = class /\ classified' = classified /\ seen' = seen /\ refresher' = refresher
        /\ comm' \in [Tasks -> RuleComms] /\ onCpu' \in [Tasks -> BOOLEAN]
    BY <1>1 DEF Switch, Rename, SeqlockTypeOK
  <2> QED BY <1>0, <2>1 DEF SeqlockTypeOK, SeenIsPast, LookupIsCurrent, SeenIsCurrent
<1>2. ASSUME NEW checkComm \in BOOLEAN, RefreshBegin(t, checkComm)
      PROVE  SeqlockInv'
  <2> DEFINE r == [pc |-> "lookup", seq |-> seq, comm |-> comm[t], class |-> Default]
  <2>1. r \in Reading /\ r.pc = "lookup" /\ r.seq = seq /\ seq <= seq /\ Even(seq)
    <3>1. seq \in Nat /\ comm[t] \in RuleComms /\ Even(seq)
      BY <1>2 DEF RefreshBegin, SeqlockTypeOK
    <3>2. Default \in Classes
      BY SeqlockAssumption
    <3>3. seq <= seq
      BY <3>1, SMT
    <3> QED BY <3>1, <3>2, <3>3 DEF Reading
  <2>2. /\ refresher' = [refresher EXCEPT ![t] = r]
        /\ UNCHANGED <<comm, onCpu, class, classified, seen>>
    BY <1>2 DEF RefreshBegin
  <2> HIDE DEF r
  <2>3. SeqlockTypeOK'
    BY <1>0, <2>1, <2>2 DEF SeqlockTypeOK
  <2>4. SeenIsPast' /\ LookupIsCurrent' /\ SeenIsCurrent'
    BY <1>0, <2>1, <2>2 DEF SeqlockTypeOK, SeenIsPast, LookupIsCurrent, SeenIsCurrent
  <2> QED BY <1>0, <2>3, <2>4
<1>3. CASE RefreshLookup(t)
  <2> DEFINE r == [refresher[t] EXCEPT !.pc = "confirm", !.class = ClassOf(refresher[t].comm)]
  <2>1. refresher[t] \in Reading /\ refresher[t] # Resting
    BY <1>3, NotResting DEF RefreshLookup, SeqlockTypeOK
  <2>2. ClassOf(refresher[t].comm) \in Classes
    BY <2>1, ClassOfType DEF Reading
  <2>3. /\ r \in Reading /\ r.seq = refresher[t].seq /\ r.comm = refresher[t].comm
        /\ r.class = ClassOf(r.comm)
    BY <2>1, <2>2 DEF Reading
  <2>4. /\ refresher' = [refresher EXCEPT ![t] = r]
        /\ UNCHANGED <<comm, onCpu, class, classified, seen>>
    BY <1>3, <2>1 DEF RefreshLookup, SeqlockTypeOK, Reading
  <2> HIDE DEF r
  <2>5. SeqlockTypeOK'
    BY <1>0, <2>3, <2>4 DEF SeqlockTypeOK
  <2>6. SeenIsPast' /\ LookupIsCurrent' /\ SeenIsCurrent'
    BY <1>0, <2>1, <2>3, <2>4 DEF SeqlockTypeOK, SeenIsPast, LookupIsCurrent, SeenIsCurrent
  <2> QED BY <1>0, <2>5, <2>6
<1>4. CASE RefreshConfirm(t)
  <2> DEFINE r == [refresher[t] EXCEPT !.pc = "write"]
  <2>1. refresher[t] \in Reading /\ refresher[t] # Resting /\ refresher[t].pc = "confirm"
    BY <1>4, NotResting DEF RefreshConfirm, SeqlockTypeOK
  <2>2. /\ r \in Reading /\ r.seq = refresher[t].seq /\ r.comm = refresher[t].comm
        /\ r.class = refresher[t].class
    BY <2>1 DEF Reading
  <2>3. /\ refresher' = [refresher EXCEPT ![t] = r] \/ refresher' = [refresher EXCEPT ![t] = Resting]
        /\ UNCHANGED <<comm, onCpu, class, classified, seen>>
    BY <1>4 DEF RefreshConfirm
  <2> HIDE DEF r
  <2>4. SeqlockTypeOK'
    BY <1>0, <2>2, <2>3 DEF SeqlockTypeOK
  <2>5. SeenIsPast' /\ LookupIsCurrent' /\ SeenIsCurrent'
    <3>1. SeenIsCurrent'
      BY <1>0, <2>3 DEF SeenIsCurrent
    <3>2. \A u \in Tasks : u # t => refresher'[u] = refresher[u]
      BY <2>3 DEF SeqlockTypeOK
    <3>3. refresher'[t] = r \/ refresher'[t] = Resting
      BY <2>3 DEF SeqlockTypeOK
    <3>4. SeenIsPast'
      BY <1>0, <2>1, <2>2, <2>3, <3>2, <3>3 DEF SeenIsPast
    <3>5. LookupIsCurrent'
      <4>1. "confirm" # "lookup"
        OBVIOUS
      <4> QED BY <1>0, <2>1, <2>2, <3>2, <3>3, <4>1 DEF LookupIsCurrent
    <3> QED BY <3>1, <3>4, <3>5
  <2> QED BY <1>0, <2>4, <2>5
<1>5. CASE RefreshWrite(t)
  <2>1. refresher[t] \in Reading /\ refresher[t] # Resting /\ refresher[t].pc = "write"
    BY <1>5, NotResting DEF RefreshWrite, SeqlockTypeOK
  <2>2. SeqlockTypeOK'
    BY <1>0, <1>5, <2>1 DEF RefreshWrite, SeqlockTypeOK, Reading
  <2>3. SeenIsPast' /\ LookupIsCurrent'
    BY <1>0, <1>5, <2>1 DEF RefreshWrite, SeqlockTypeOK, SeenIsPast, LookupIsCurrent
  <2>4. SeenIsCurrent'
    BY <1>0, <1>5, <2>1 DEF RefreshWrite, SeqlockTypeOK, LookupIsCurrent, SeenIsCurrent
  <2> QED BY <1>0, <2>2, <2>3, <2>4
<1> QED BY <1>1, <1>2, <1>3, <1>4, <1>5 DEF TaskStep, Refresh

----------------------------------------------------------------------------
\* A task that has seen the current sequence has the class the table has for its
\* name, for every number of tasks, comms and classes and every interleaving of
\* publish_rule with refresh_task_class.
THEOREM SeqlockSafety == SeqlockSpec => []SeenIsCurrent
<1>1. SeqlockInit => SeqlockInv
  <2> SUFFICES ASSUME SeqlockInit PROVE SeqlockInv
    OBVIOUS
  <2>1. SeqlockTypeOK
    BY SeqlockAssumption DEF SeqlockInit, SeqlockTypeOK, States
  <2>2. OddWhileWriting /\ SeenIsPast
    BY SMT DEF SeqlockInit, OddWhileWriting, SeenIsPast, Even
  <2>3. LookupIsCurrent /\ SeenIsCurrent
    BY SMT DEF SeqlockInit, LookupIsCurrent, SeenIsCurrent
  <2> QED BY <2>1, <2>2, <2>3 DEF SeqlockInv
<1>2. SeqlockInv /\ [SeqlockNext]_seqlockVars => SeqlockInv'
  <2> SUFFICES ASSUME SeqlockInv, [SeqlockNext]_seqlockVars PROVE SeqlockInv'
    OBVIOUS
  <2>1. CASE UNCHANGED seqlockVars
    BY <2>1 DEF seqlockVars, SeqlockInv, SeqlockTypeOK, OddWhileWriting, SeenIsPast,
                LookupIsCurrent, SeenIsCurrent, ClassOf
  <2>2. CASE Publish
    BY <2>2, PublishBeginKeeps, PublishUpdateKeeps, PublishEndKeeps DEF Publish, States
  <2>3. CASE \E t \in Tasks : TaskStep(t)
    BY <2>3, TaskKeeps
  <2> QED BY <2>1, <2>2, <2>3 DEF SeqlockNext
<1>3. SeqlockInv => SeenIsCurrent
  BY DEF SeqlockInv
<1> QED BY <1>1, <1>2, <1>3, PTL DEF SeqlockSpec

------------------------------------------------------------------------------
(* StealClaim: the claim of a queue.                                       *)

Holding == {"move", "moved", "revalidate", "take", "taken"}

Label == {"away", "local", "retry", "check", "scan", "claim"} \union Holding

StealFrame == [pc : Label, source : CPUs, busy : BOOLEAN, tries : Nat]

Claim == {None} \union (CPUs \X {"local", "steal"})

\* The types of what the claims depend on.
ClaimTypeOK ==
  /\ claim \in [CPUs -> Claim]
  /\ frame \in [CPUs -> StealFrame]
  /\ errors \in BOOLEAN

\* What a CPU that is between acquire and release has written to the claim.
Ticket(c) == <<c, IF frame[c].pc \in {"move", "moved"} THEN "local" ELSE "steal">>

\* A CPU claims its own queue before it looks for others.
OwnSource ==
  \A c \in CPUs : frame[c].pc \notin {"claim", "revalidate", "take", "taken"} => Source(c) = c

\* A CPU between acquire and release has its ticket in the claim of its source.
HolderHasClaim ==
  \A c \in CPUs : frame[c].pc \in Holding => claim[Source(c)] = Ticket(c)

\* A claim that is taken is the ticket of such a CPU.
ClaimHasHolder ==
  \A src \in CPUs : claim[src] # None =>
    \E c \in CPUs : frame[c].pc \in Holding /\ Source(c) = src

ClaimInv ==
  ClaimTypeOK /\ OwnSource /\ HolderHasClaim /\ ClaimHasHolder /\ ~errors

----------------------------------------------------------------------------
\* A ticket is not the free claim.
LEMMA TicketIsNotNone ==
  ASSUME NEW c \in CPUs
  PROVE  Ticket(c) # None
<1>1. Ticket(c) \in CPUs \X {"local", "steal"}
  BY DEF Ticket
<1> QED BY <1>1, ClaimAssumption

\* Two CPUs that hold a claim hold those of different sources.
LEMMA TicketOfOne ==
  ASSUME ClaimInv, NEW c \in CPUs, NEW d \in CPUs,
         frame[c].pc \in Holding, frame[d].pc \in Holding, Source(c) = Source(d)
  PROVE  c = d
<1>1. Ticket(c) = Ticket(d)
  BY DEF ClaimInv, HolderHasClaim
<1> QED BY <1>1 DEF Ticket

\* A CPU that goes from one label to another, neither of them under a claim, or both
\* under the same ticket.
LEMMA StepAside ==
  ASSUME ClaimInv, NEW c \in CPUs, NEW f \in StealFrame,
         frame' = [frame EXCEPT ![c] = f], UNCHANGED <<claim, errors>>,
         f.pc \in Holding <=> frame[c].pc \in Holding,
         f.pc \in Holding => f.source = Source(c)
           /\ (f.pc \in {"move", "moved"} <=> frame[c].pc \in {"move", "moved"}),
         f.pc \notin {"claim", "revalidate", "take", "taken"} => f.source = c
  PROVE  ClaimInv'
<1> USE DEF ClaimInv
<1>0. frame'[c] = f /\ \A d \in CPUs : d # c => frame'[d] = frame[d]
  BY DEF ClaimTypeOK
<1>1. ClaimTypeOK'
  BY DEF ClaimTypeOK
<1>2. OwnSource'
  BY <1>0 DEF OwnSource, Source
<1>3. HolderHasClaim'
  BY <1>0, SMT DEF HolderHasClaim, Source, Ticket
<1>4. ClaimHasHolder'
  BY <1>0, SMT DEF ClaimHasHolder, Source
<1> QED BY <1>1, <1>2, <1>3, <1>4

\* A CPU that finds the claim of a source free and writes its ticket.
LEMMA AcquireKeeps ==
  ASSUME ClaimInv, NEW c \in CPUs, NEW src \in CPUs, NEW purpose \in {"local", "steal"},
         NEW f \in StealFrame, frame' = [frame EXCEPT ![c] = f], Acquire(c, src, purpose),
         UNCHANGED errors, frame[c].pc \notin Holding,
         f.pc \in Holding, f.source = src,
         purpose = "local" <=> f.pc \in {"move", "moved"}, purpose = "local" => src = c
  PROVE  ClaimInv'
<1> USE DEF ClaimInv
<1>0. frame'[c] = f /\ \A d \in CPUs : d # c => frame'[d] = frame[d]
  BY DEF ClaimTypeOK
<1>1. claim' = [claim EXCEPT ![src] = <<c, purpose>>] /\ claim[src] = None
  BY DEF Acquire
<1>2. ClaimTypeOK'
  BY <1>1 DEF ClaimTypeOK, Claim
<1>3. OwnSource'
  BY <1>0 DEF OwnSource, Source, Holding
<1>4. \A d \in CPUs : frame[d].pc \in Holding => Source(d) # src
  BY <1>1, TicketIsNotNone DEF HolderHasClaim
<1>5. HolderHasClaim'
  BY <1>0, <1>1, <1>4 DEF HolderHasClaim, Source, Ticket, ClaimTypeOK, StealFrame
<1>6. ClaimHasHolder'
  BY <1>0, <1>1, SMT DEF ClaimHasHolder, Source, ClaimTypeOK
<1> QED BY <1>2, <1>3, <1>5, <1>6

\* A CPU that gives back its own claim: the release finds its ticket.
LEMMA ReleaseKeeps ==
  ASSUME ClaimInv, NEW c \in CPUs, NEW purpose, frame[c].pc \in Holding,
         Ticket(c) = <<c, purpose>>, Release(c, Source(c), purpose),
         NEW f \in StealFrame, frame' = [frame EXCEPT ![c] = f],
         f.pc \notin Holding, f.source = c
  PROVE  ClaimInv'
<1> USE DEF ClaimInv
<1>0. frame'[c] = f /\ \A d \in CPUs : d # c => frame'[d] = frame[d]
  BY DEF ClaimTypeOK
<1>1. Source(c) \in CPUs
  BY DEF ClaimTypeOK, StealFrame, Source
<1>2. claim' = [claim EXCEPT ![Source(c)] = None] /\ errors' = errors
  BY DEF Release, HolderHasClaim
<1>3. ClaimTypeOK'
  BY <1>1, <1>2 DEF ClaimTypeOK, Claim
<1>4. OwnSource'
  BY <1>0 DEF OwnSource, Source
<1>5. \A d \in CPUs : d # c /\ frame[d].pc \in Holding => Source(d) # Source(c)
  BY TicketOfOne
<1>6. HolderHasClaim'
  BY <1>0, <1>1, <1>2, <1>5, SMT DEF HolderHasClaim, Source, Ticket, ClaimTypeOK, StealFrame
<1>7. ClaimHasHolder'
  <2> SUFFICES ASSUME NEW src \in CPUs, claim'[src] # None
               PROVE  \E d \in CPUs : frame'[d].pc \in Holding /\ Source(d)' = src
    BY DEF ClaimHasHolder
  <2>1. src # Source(c) /\ claim[src] # None
    BY <1>1, <1>2 DEF ClaimTypeOK
  <2>2. PICK d \in CPUs : frame[d].pc \in Holding /\ Source(d) = src
    BY <2>1 DEF ClaimHasHolder
  <2> QED BY <1>0, <2>1, <2>2 DEF Source
<1> QED BY <1>2, <1>3, <1>4, <1>6, <1>7

----------------------------------------------------------------------------
\* A frame in which only the label, or the label and the source, is another one.
LEMMA FrameUpdates ==
  ASSUME ClaimTypeOK, NEW c \in CPUs
  PROVE  /\ Away(c) \in StealFrame
         /\ \A l \in Label : /\ [frame[c] EXCEPT !.pc = l] \in StealFrame
                             /\ [frame[c] EXCEPT !.pc = l].pc = l
                             /\ [frame[c] EXCEPT !.pc = l].source = Source(c)
BY SMT DEF ClaimTypeOK, StealFrame, Label, Away, Source

\* Every step of a CPU in agent_classed_dispatch keeps the invariant.
LEMMA CpuKeeps ==
  ASSUME ClaimInv, NEW c \in CPUs, Cpu(c)
  PROVE  ClaimInv'
<1> DEFINE to(l) == [frame[c] EXCEPT !.pc = l]
<1>0. ClaimTypeOK /\ frame[c] \in StealFrame
  BY DEF ClaimInv, ClaimTypeOK
<1>a. Away(c) \in StealFrame /\ Away(c).pc = "away" /\ Away(c).source = c
  BY <1>0, FrameUpdates DEF Away
<1>b. \A l \in Label : to(l) \in StealFrame /\ to(l).pc = l /\ to(l).source = Source(c)
  BY <1>0, FrameUpdates
<1>c. frame[c].pc \notin {"claim", "revalidate", "take", "taken"} => Source(c) = c
  BY DEF ClaimInv, OwnSource
<1>1. CASE Dispatch(c)
  <2>1. PICK l \in {"local", "check"} :
          frame' = [frame EXCEPT ![c] = to(l)] /\ UNCHANGED <<claim, errors>>
    BY <1>1 DEF Dispatch, Goto
  <2> QED BY <1>1, <1>b, <1>c, <2>1, StepAside DEF Dispatch, At, Label, Holding
<1>2. CASE LocalClaim(c)
  <2>1. frame[c].pc = "local" /\ Source(c) = c
    BY <1>2, <1>c DEF LocalClaim, At
  <2>2. CASE Acquire(c, c, "local")
    <3> DEFINE f == [frame[c] EXCEPT !.tries = @ + 1, !.pc = "move"]
    <3>0. "move" \in Label /\ frame[c].tries + 1 \in Nat
      BY <1>0, SMT DEF StealFrame, Label, Holding
    <3>1. f \in StealFrame /\ f.pc = "move" /\ f.source = c
      BY <1>0, <2>1, <3>0 DEF StealFrame, Source
    <3>2. frame' = [frame EXCEPT ![c] = f] /\ UNCHANGED errors
      BY <1>2, <2>2 DEF LocalClaim, Acquire
    <3> HIDE DEF f
    <3> QED BY <2>1, <2>2, <3>1, <3>2, AcquireKeeps DEF Holding
  <2>3. CASE claim[c] # None
    <3> DEFINE f == [frame[c] EXCEPT !.tries = @ + 1, !.pc = "retry", !.busy = TRUE]
    <3>0. "retry" \in Label /\ frame[c].tries + 1 \in Nat
      BY <1>0, SMT DEF StealFrame, Label, Holding
    <3>1. f \in StealFrame /\ f.pc = "retry" /\ f.source = c
      BY <1>0, <2>1, <3>0 DEF StealFrame, Source
    <3>2. frame' = [frame EXCEPT ![c] = f] /\ UNCHANGED <<claim, errors>>
      BY <1>2, <2>3 DEF LocalClaim, Acquire
    <3> HIDE DEF f
    <3> QED BY <2>1, <3>1, <3>2, StepAside DEF Holding
  <2> QED BY <1>2, <2>2, <2>3 DEF LocalClaim, Acquire
<1>3. CASE Move(c)
  <2>1. PICK l \in {"moved", "taken"} :
          /\ frame' = [frame EXCEPT ![c] = to(l)] /\ UNCHANGED <<claim, errors>>
          /\ IF l = "moved" THEN frame[c].pc = "move" ELSE frame[c].pc = "take"
    BY <1>3 DEF Move, Goto, At
  <2> QED BY <1>b, <1>c, <2>1, StepAside DEF Label, Holding
<1>4. CASE LocalRelease(c)
  <2>0. frame[c].pc = "moved" /\ Source(c) = c
    BY <1>4, <1>c DEF LocalRelease, At
  <2>1. Release(c, Source(c), "local")
    BY <1>4, <2>0 DEF LocalRelease
  <2>2. Ticket(c) = <<c, "local">> /\ frame[c].pc \in Holding /\ Away(c).pc \notin Holding
    BY <2>0, <1>a DEF Ticket, Holding
  <2>3. CASE LeaveDispatch(c)
    BY <1>a, <2>1, <2>2, <2>3, ReleaseKeeps DEF LeaveDispatch
  <2>4. CASE Goto(c, "retry")
    <3>1. frame' = [frame EXCEPT ![c] = to("retry")] /\ "retry" \in Label \ Holding
      BY <2>4 DEF Goto, Label, Holding
    <3>2. to("retry") \in StealFrame /\ to("retry").pc \notin Holding /\ to("retry").source = c
      BY <1>b, <2>0, <3>1
    <3> HIDE DEF to
    <3> QED BY <2>1, <2>2, <3>1, <3>2, ReleaseKeeps
  <2> QED BY <1>4, <2>3, <2>4 DEF LocalRelease
<1>5. CASE Retry(c)
  <2>1. PICK l \in {"local", "check"} :
          frame' = [frame EXCEPT ![c] = to(l)] /\ UNCHANGED <<claim, errors>>
    BY <1>5 DEF Retry, Goto
  <2> QED BY <1>5, <1>b, <1>c, <2>1, StepAside DEF Retry, At, Label, Holding
<1>6. CASE Check(c)
  <2>0. frame[c].pc = "check" /\ UNCHANGED <<claim, errors>>
    BY <1>6 DEF Check, At
  <2>1. CASE LeaveDispatch(c)
    BY <1>a, <2>0, <2>1, StepAside DEF LeaveDispatch, Holding
  <2>2. CASE Goto(c, "scan")
    <3>1. frame' = [frame EXCEPT ![c] = to("scan")] /\ "scan" \in Label
      BY <2>2 DEF Goto, Label, Holding
    <3> QED BY <1>b, <1>c, <2>0, <3>1, StepAside DEF Holding
  <2> QED BY <1>6, <2>1, <2>2 DEF Check
<1>7. CASE Scan(c)
  <2>1. CASE LeaveDispatch(c)
    BY <1>7, <2>1, <1>a, StepAside DEF Scan, LeaveDispatch, At, Holding
  <2>2. ASSUME NEW src \in CPUs, frame' = [frame EXCEPT ![c].pc = "claim", ![c].source = src]
        PROVE  ClaimInv'
    <3> DEFINE f == [frame[c] EXCEPT !.pc = "claim", !.source = src]
    <3>1. f \in StealFrame /\ f.pc = "claim"
      BY <1>0 DEF StealFrame, Label, Holding
    <3>2. frame' = [frame EXCEPT ![c] = f]
      BY <2>2
    <3>3. frame[c].pc = "scan" /\ UNCHANGED <<claim, errors>>
      BY <1>7 DEF Scan, At
    <3> HIDE DEF f
    <3> QED BY <3>1, <3>2, <3>3, StepAside DEF Holding
  <2> QED BY <1>7, <2>1, <2>2 DEF Scan
<1>8. CASE StealSource(c)
  <2>0. frame[c].pc = "claim" /\ Source(c) \in CPUs /\ UNCHANGED errors
    BY <1>8, <1>0 DEF StealSource, At, StealFrame, Source
  <2>1. CASE Acquire(c, Source(c), "steal") /\ Goto(c, "revalidate")
    <3>1. frame' = [frame EXCEPT ![c] = to("revalidate")] /\ "revalidate" \in Label
      BY <2>1 DEF Goto, Label, Holding
    <3> QED BY <1>b, <2>0, <2>1, <3>1, AcquireKeeps DEF Holding
  <2>2. CASE UNCHANGED claim /\ LeaveDispatch(c)
    BY <1>a, <2>0, <2>2, StepAside DEF LeaveDispatch, Holding
  <2> QED BY <1>8, <2>1, <2>2 DEF StealSource
<1>9. CASE Revalidate(c)
  <2>0. frame[c].pc = "revalidate"
    BY <1>9 DEF Revalidate, At
  <2>1. CASE Goto(c, "take") /\ UNCHANGED <<claim, errors>>
    <3>1. frame' = [frame EXCEPT ![c] = to("take")] /\ "take" \in Label
      BY <2>1 DEF Goto, Label, Holding
    <3> QED BY <1>b, <2>0, <2>1, <3>1, StepAside DEF Holding
  <2>2. CASE Release(c, Source(c), "steal") /\ LeaveDispatch(c)
    <3>1. Ticket(c) = <<c, "steal">> /\ frame[c].pc \in Holding /\ Away(c).pc \notin Holding
      BY <2>0, <1>a DEF Ticket, Holding
    <3> QED BY <1>a, <2>2, <3>1, ReleaseKeeps DEF LeaveDispatch
  <2> QED BY <1>9, <2>1, <2>2 DEF Revalidate
<1>10. CASE StealRelease(c)
  <2>1. frame[c].pc = "taken" /\ Release(c, Source(c), "steal") /\ LeaveDispatch(c)
    BY <1>10 DEF StealRelease, At
  <2>2. Ticket(c) = <<c, "steal">> /\ frame[c].pc \in Holding /\ Away(c).pc \notin Holding
    BY <2>1, <1>a DEF Ticket, Holding
  <2> QED BY <1>a, <2>1, <2>2, ReleaseKeeps DEF LeaveDispatch
<1> QED BY <1>1, <1>2, <1>3, <1>4, <1>5, <1>6, <1>7, <1>8, <1>9, <1>10 DEF Cpu

----------------------------------------------------------------------------
\* The claim of a source is held by exactly the CPU that is between its acquire and
\* its release, for every number of CPUs: dispatch_local_claimed and gated_steal
\* never move tasks of one source at a time, and no release finds another's claim.
THEOREM ClaimSafety == StealSpec => []ClaimIsHeldByOne
<1>1. StealInit => ClaimInv
  <2> SUFFICES ASSUME StealInit PROVE ClaimInv
    OBVIOUS
  <2>1. \A c \in CPUs : /\ frame[c] \in StealFrame /\ frame[c].pc \notin Holding
                        /\ frame[c].source = c
    BY DEF StealInit, Away, StealFrame, Label, Holding
  <2>2. ClaimTypeOK
    BY <2>1 DEF StealInit, ClaimTypeOK, Claim
  <2>3. OwnSource
    BY <2>1 DEF OwnSource, Source
  <2>4. HolderHasClaim /\ ClaimHasHolder /\ ~errors
    BY <2>1 DEF StealInit, HolderHasClaim, ClaimHasHolder
  <2> QED BY <2>2, <2>3, <2>4 DEF ClaimInv
<1>2. ClaimInv /\ [StealNext]_stealVars => ClaimInv'
  <2> SUFFICES ASSUME ClaimInv, [StealNext]_stealVars PROVE ClaimInv'
    OBVIOUS
  <2>1. CASE UNCHANGED <<claim, frame, errors>>
    BY <2>1 DEF ClaimInv, ClaimTypeOK, OwnSource, HolderHasClaim, ClaimHasHolder, Source, Ticket
  <2>2. ASSUME NEW c \in CPUs, Cpu(c) PROVE ClaimInv'
    BY <2>2, CpuKeeps
  <2> QED BY <2>1, <2>2 DEF StealNext, Enqueue, Dequeue, Stop, stealVars
<1>3. ClaimInv => ClaimIsHeldByOne
  <2> SUFFICES ASSUME ClaimInv, NEW src \in CPUs
               PROVE  \/ claim[src] = None /\ Inside(src) = {}
                      \/ \E c \in CPUs : /\ claim[src] \in {<<c, "local">>, <<c, "steal">>}
                                        /\ Inside(src) = {c}
    BY DEF ClaimIsHeldByOne, ClaimInv
  <2>1. CASE claim[src] = None
    <3>1. \A c \in CPUs : frame[c].pc \in Holding => Source(c) # src
      BY <2>1, TicketIsNotNone DEF ClaimInv, HolderHasClaim
    <3> QED BY <2>1, <3>1 DEF Inside, Holding
  <2>2. CASE claim[src] # None
    <3>1. PICK c \in CPUs : frame[c].pc \in Holding /\ Source(c) = src
      BY <2>2 DEF ClaimInv, ClaimHasHolder
    <3>2. claim[src] \in {<<c, "local">>, <<c, "steal">>}
      BY <3>1 DEF ClaimInv, HolderHasClaim, Ticket
    <3>3. \A d \in CPUs : frame[d].pc \in Holding /\ Source(d) = src => d = c
      BY <3>1, TicketOfOne
    <3> QED BY <3>1, <3>2, <3>3 DEF Inside, Holding
  <2> QED BY <2>1, <2>2
<1> QED BY <1>1, <1>2, <1>3, PTL DEF StealSpec

------------------------------------------------------------------------------
(* RuleMiss: the batcher and the notifier.                                 *)

Queued == commands # {}
AtWorker == worker \in {"send", "deliver"}
Done == completions # {}

\* As long as the loop runs, the stop token is not there and the worker has not
\* ended, and an activation that is in flight is in exactly one place.
MissInv ==
  /\ ~failed
  /\ loop # "ended" =>
       /\ stop = FALSE /\ worker # "ended"
       /\ inFlight = {} => ~Queued /\ ~AtWorker /\ ~Done
       /\ inFlight # {} => \/ Queued /\ ~AtWorker /\ ~Done
                           \/ ~Queued /\ AtWorker /\ ~Done
                           \/ ~Queued /\ ~AtWorker /\ Done

\* What is pending may be removed without touching the batch in flight.
LEMMA BatcherKeepsFlight ==
  ASSUME NEW C
  PROVE  RemoveMissing(Batcher, C).inFlight = inFlight
BY DEF RemoveMissing, Batcher

\* A batch starts only when none is in flight, and then the channel is free.
LEMMA CollectKeepsOne ==
  ASSUME MissInv, NEW rescan, NEW elapsed, Collect(rescan, elapsed)
  PROVE  MissInv'
<1> DEFINE keys == ring \union (IF rescan THEN missMap ELSE {})
           seen0 == Recorded(keys)
           resolved == (seen0.missing \union (keys \intersect Allowed)) \intersect rules
           b == RemoveMissing(seen0, resolved)
<1>1. b.inFlight = inFlight
  BY DEF Recorded, RemoveMissing, ObserveAll, Batcher
<1>2. /\ UNCHANGED <<completions, stop, worker>>
      /\ loop = "collect"
      /\ \/ /\ Becomes(b) /\ loop' = "control" /\ UNCHANGED <<commands, failed>>
         \/ /\ Ready(b, elapsed) /\ Becomes(Taken(b))
            /\ IF commands = {} THEN commands' = Batch(b) /\ loop' = "control" /\ UNCHANGED failed
               ELSE failed' = TRUE /\ loop' = "ended" /\ UNCHANGED commands
  BY DEF Collect
<1> HIDE DEF b
<1>3. CASE Becomes(b) /\ loop' = "control" /\ UNCHANGED <<commands, failed>>
  BY <1>1, <1>2, <1>3 DEF Becomes, MissInv, Queued, AtWorker, Done
<1>4. CASE /\ Ready(b, elapsed) /\ Becomes(Taken(b))
           /\ IF commands = {} THEN commands' = Batch(b) /\ loop' = "control" /\ UNCHANGED failed
              ELSE failed' = TRUE /\ loop' = "ended" /\ UNCHANGED commands
  <2>1. inFlight = {} /\ inFlight' = Batch(b)
    BY <1>1, <1>4 DEF Ready, Becomes, Taken
  <2>2. commands = {} /\ ~AtWorker /\ ~Done
    BY <1>2, <2>1 DEF MissInv, Queued
  <2> QED BY <1>2, <1>4, <2>1, <2>2 DEF MissInv, Queued, AtWorker, Done
<1> QED BY <1>2, <1>3, <1>4

LEMMA MissStep ==
  ASSUME MissInv, [MissNext]_missVars
  PROVE  MissInv'
<1> USE DEF Queued, AtWorker, Done
<1>1. CASE \E c \in MissComms : Lookup(c) \/ RecordMiss(c)
  <2>1. UNCHANGED <<inFlight, loop, commands, completions, stop, worker, failed>>
    BY <1>1 DEF Lookup, RecordMiss, batcher, notifier
  <2> QED BY <2>1 DEF MissInv
<1>2. CASE PollControl
  <2>1. inFlight' = inFlight
    BY <1>2, BatcherKeepsFlight DEF PollControl, Becomes, batcher
  <2> QED BY <1>2, <2>1 DEF MissInv, PollControl, notifier
<1>3. CASE PollCompletion
  <2>1. CASE completions = {}
    BY <1>3, <2>1 DEF MissInv, PollCompletion, batcher
  <2>2. CASE completions # {}
    <3>1. inFlight' = {} /\ completions' = {}
      BY <1>3, <2>2 DEF PollCompletion, Becomes, RemoveMissing, Batcher
    <3> QED BY <1>3, <2>2, <3>1 DEF MissInv, PollCompletion
  <2> QED BY <2>1, <2>2
<1>4. CASE \E rescan, elapsed \in BOOLEAN : Collect(rescan, elapsed)
  BY <1>4, CollectKeepsOne
<1>5. CASE Shutdown
  BY <1>5 DEF MissInv, Shutdown
<1>6. CASE Worker
  <2>1. CASE WorkerWaits
    BY <2>1 DEF MissInv, WorkerWaits, batcher
  <2>2. CASE WorkerSends
    BY <2>2 DEF MissInv, WorkerSends, batcher
  <2>3. CASE WorkerDelivers
    BY <2>3 DEF MissInv, WorkerDelivers, batcher
  <2> QED BY <1>6, <2>1, <2>2, <2>3 DEF Worker
<1>7. CASE UNCHANGED missVars
  BY <1>7 DEF MissInv, missVars
<1> QED BY <1>1, <1>2, <1>3, <1>4, <1>5, <1>6, <1>7 DEF MissNext, Loop

\* One activation is under way at a time, and the batcher knows of it, whatever
\* comms there are, however long a batch may be and whatever the ring drops or the
\* map evicts: start_activation never answers Busy.
THEOREM ActivationSafety == MissSpec => []OneActivation
<1>1. MissInit => MissInv
  BY DEF MissInit, MissInv, Queued, AtWorker, Done
<1>2. MissInv => OneActivation
  BY DEF MissInv, OneActivation, UnderWay, Queued, AtWorker, Done
<1> QED BY <1>1, <1>2, MissStep, PTL DEF MissSpec

----------------------------------------------------------------------------
(* TransactionStore: the directory of the logs.                             *)

Working == {"remove", "recovering", "created", "open"}

Steps == {"down", "discover", "recover", "removed", "up"} \union Working

Logs == [id : TxIds, file : Files]

Items == [id : TxIds, file : Files, kind : LogKinds \union {Nobody}]

StoreTypeOK ==
  /\ lock \in Runtimes \union {Nobody}
  /\ dir \in [TxIds -> Files \union {Nobody}]
  /\ durable \in [TxIds -> Files \union {Nobody}]
  /\ content \in [Files -> LogKinds \union {Nobody}]
  /\ step \in [Runtimes -> Steps]
  /\ todo \in [Runtimes -> SUBSET Items]
  /\ log \in [Runtimes -> Logs \union {Nobody}]

\* What a runtime that works on a log may rely on: the name still stands for the
\* file, and the file is in the state that the step needs.
Relies(r) ==
  /\ log[r] \in Logs
  /\ dir[log[r].id] = log[r].file
  /\ step[r] \in {"remove", "created"} => content[log[r].file] = "empty"
  /\ step[r] = "recovering" => content[log[r].file] \in {"started", "sealed"}
  /\ step[r] = "open" => durable[log[r].id] = log[r].file

\* A runtime that is up has the lock, one that is down has nothing, and what the
\* recovery has yet to open is not an empty log.
Sound(r) ==
  /\ step[r] # "down" => lock = r
  /\ step[r] = "down" => todo[r] = {}
  /\ step[r] \notin Working => log[r] = Nobody
  /\ step[r] \in Working => Relies(r)
  /\ \A item \in todo[r] : IsPending(item) => content[item.file] \in {"started", "sealed"}

StoreInv == StoreTypeOK /\ StartedIsListed /\ \A r \in Runtimes : Sound(r)

----------------------------------------------------------------------------
\* The lock excludes: while a runtime is up, or takes the lock, the others are down.
LEMMA OneIsUp ==
  ASSUME StoreInv, NEW r \in Runtimes, step[r] # "down" \/ lock = Nobody,
         NEW s \in Runtimes \ {r}
  PROVE  step[s] = "down" /\ log[s] = Nobody /\ todo[s] = {}
<1>1. step[s] = "down"
  <2>1. lock = r \/ lock = Nobody
    BY DEF StoreInv, Sound
  <2>2. r # s /\ Nobody # s
    BY StoreAssumption
  <2>3. step[s] # "down" => lock = s
    BY DEF StoreInv, Sound
  <2> QED BY <2>1, <2>2, <2>3
<1> QED BY <1>1 DEF StoreInv, Sound, Working

\* So a step of one runtime need only be examined for that runtime.
LEMMA StepOfOne ==
  ASSUME StoreInv, NEW r \in Runtimes, step[r] # "down" \/ lock = Nobody,
         StoreTypeOK', StartedIsListed', Sound(r)',
         \A s \in Runtimes \ {r} :
           step'[s] = step[s] /\ log'[s] = log[s] /\ todo'[s] = todo[s]
  PROVE  StoreInv'
<1>1. ASSUME NEW s \in Runtimes \ {r} PROVE Sound(s)'
  <2>1. step'[s] = "down" /\ log'[s] = Nobody /\ todo'[s] = {}
    BY OneIsUp
  <2> QED BY <2>1 DEF Sound, Working
<1> QED BY <1>1 DEF StoreInv

\* An item of the inventory names a log.
LEMMA ItemsNameLogs ==
  ASSUME StoreTypeOK, NEW r \in Runtimes, NEW item \in todo[r]
  PROVE  item \in Items /\ item.file \in Files /\ [id |-> item.id, file |-> item.file] \in Logs
<1>1. item \in Items
  BY DEF StoreTypeOK
<1>2. item.id \in TxIds /\ item.file \in Files
  BY <1>1 DEF Items
<1> QED BY <1>1, <1>2 DEF Logs

\* A process that ends leaves the directory as it is.
LEMMA EndedKeeps ==
  ASSUME StoreInv, NEW r \in Runtimes, step[r] # "down", Ended(r),
         UNCHANGED <<dir, durable, content>>
  PROVE  StoreInv'
<1>0. StoreTypeOK /\ StartedIsListed /\ Sound(r)
  BY DEF StoreInv
<1>1. StoreTypeOK'
  BY <1>0 DEF StoreTypeOK, Ended, Steps
<1>2. StartedIsListed'
  BY <1>0 DEF StartedIsListed
<1>3. /\ Sound(r)'
      /\ \A s \in Runtimes \ {r} : step'[s] = step[s] /\ log'[s] = log[s] /\ todo'[s] = todo[s]
  BY <1>0 DEF StoreTypeOK, Ended, Sound, Working
<1> QED BY <1>1, <1>2, <1>3, StepOfOne

----------------------------------------------------------------------------
\* The startup: the lock, the inventory and the recovery of its items.
LEMMA StartupKeeps ==
  ASSUME StoreInv, NEW r \in Runtimes,
         \/ AcquireLock(r) \/ Discover(r) \/ RecoveryDone(r)
         \/ \E item \in todo[r] : DiscardCheck(r, item) \/ OpenExisting(r, item)
  PROVE  StoreInv'
<1>0. StoreTypeOK /\ StartedIsListed /\ Sound(r)
  BY DEF StoreInv
<1>1. CASE AcquireLock(r)
  <2>1. StoreTypeOK'
    BY <1>0, <1>1 DEF AcquireLock, StoreGoto, own, StoreTypeOK, Steps
  <2>2. StartedIsListed'
    BY <1>0, <1>1 DEF AcquireLock, StartedIsListed
  <2>3. Sound(r)'
    BY <1>0, <1>1 DEF AcquireLock, StoreGoto, own, StoreTypeOK, Sound, Working
  <2> QED BY <1>0, <1>1, <2>1, <2>2, <2>3, StepOfOne DEF AcquireLock, StoreGoto, own, StoreTypeOK
<1>2. CASE Discover(r)
  <2>0. step[r] = "discover" /\ lock = r
    BY <1>0, <1>2 DEF Discover, Sound
  <2>1. {Named(tx) : tx \in {i \in TxIds : dir[i] # Nobody}} \subseteq Items
    <3> SUFFICES ASSUME NEW tx \in TxIds, dir[tx] # Nobody PROVE Named(tx) \in Items
      OBVIOUS
    <3>1. dir[tx] \in Files /\ content[dir[tx]] \in LogKinds \union {Nobody}
      BY <1>0 DEF StoreTypeOK
    <3> QED BY <3>1 DEF Named, Items
  <2>2. StoreTypeOK'
    BY <1>0, <1>2, <2>1 DEF Discover, StoreGoto, StoreTypeOK, Steps
  <2>3. StartedIsListed'
    BY <1>0, <1>2 DEF Discover, StartedIsListed
  <2>4. Sound(r)'
    <3>1. /\ step'[r] = "recover" /\ lock' = r /\ log'[r] = Nobody /\ content' = content
          /\ todo'[r] = {Named(tx) : tx \in {i \in TxIds : dir[i] # Nobody}}
      BY <1>0, <1>2, <2>0 DEF Discover, StoreGoto, StoreTypeOK, Sound, Working
    <3>2. ASSUME NEW item \in todo'[r], IsPending(item)
          PROVE  content'[item.file] \in {"started", "sealed"}
      <4>1. PICK tx \in TxIds : item = Named(tx)
        BY <3>1, <3>2
      <4>2. item.file = dir[tx] /\ item.kind = content[dir[tx]]
        BY <4>1 DEF Named
      <4> QED BY <3>1, <3>2, <4>2 DEF IsPending
    <3> QED BY <3>1, <3>2 DEF Sound, Working
  <2> QED BY <1>0, <1>2, <2>0, <2>2, <2>3, <2>4, StepOfOne DEF Discover, StoreGoto, StoreTypeOK
<1>3. CASE RecoveryDone(r)
  <2>0. step[r] = "recover" /\ lock = r
    BY <1>0, <1>3 DEF RecoveryDone, Sound
  <2>1. CASE recoveryFailed[r]
    BY <1>3, <2>0, <2>1, EndedKeeps DEF RecoveryDone
  <2>2. CASE ~recoveryFailed[r]
    <3>1. StoreTypeOK'
      BY <1>0, <1>3, <2>2 DEF RecoveryDone, StoreGoto, StoreTypeOK, Steps
    <3>2. StartedIsListed'
      BY <1>0, <1>3 DEF RecoveryDone, StartedIsListed
    <3>3. Sound(r)'
      <4>1. StoreGoto(r, "up") /\ todo' = [todo EXCEPT ![r] = {}] /\ lock' = lock /\ log' = log
        BY <1>3, <2>2 DEF RecoveryDone
      <4>2. step'[r] = "up" /\ todo'[r] = {}
        BY <1>0, <4>1 DEF StoreGoto, StoreTypeOK
      <4>3. log[r] = Nobody
        BY <1>0, <2>0 DEF Sound, Working
      <4> QED BY <2>0, <4>1, <4>2, <4>3 DEF Sound, Working
    <3> QED BY <1>0, <1>3, <2>0, <2>2, <3>1, <3>2, <3>3, StepOfOne
            DEF RecoveryDone, StoreGoto, StoreTypeOK
  <2> QED BY <2>1, <2>2
<1>4. ASSUME NEW item \in todo[r], DiscardCheck(r, item) PROVE StoreInv'
  <2>0. /\ step[r] = "recover" /\ lock = r /\ log[r] = Nobody
        /\ item \in Items /\ [id |-> item.id, file |-> item.file] \in Logs
    <3>1. step[r] = "recover" /\ step[r] \notin Working
      BY <1>4 DEF DiscardCheck, Working
    <3>2. item \in Items /\ [id |-> item.id, file |-> item.file] \in Logs
      BY <1>0, ItemsNameLogs
    <3> QED BY <1>0, <1>4, <3>1, <3>2 DEF Sound
  <2>1. StoreTypeOK'
    <3>1. /\ todo' = [todo EXCEPT ![r] = @ \ {item}] /\ UNCHANGED <<lock, dir, durable, content>>
          /\ \/ UNCHANGED <<step, log>>
             \/ /\ step' = [step EXCEPT ![r] = "remove"]
                /\ log' = [log EXCEPT ![r] = [id |-> item.id, file |-> item.file]]
      BY <1>4 DEF DiscardCheck, StoreGoto, TakeItem
    <3>2. todo' \in [Runtimes -> SUBSET Items]
      BY <1>0, <3>1 DEF StoreTypeOK
    <3>3. step' \in [Runtimes -> Steps]
      BY <1>0, <3>1 DEF StoreTypeOK, Steps, Working
    <3>4. log' \in [Runtimes -> Logs \union {Nobody}]
      BY <1>0, <2>0, <3>1 DEF StoreTypeOK
    <3> QED BY <1>0, <3>1, <3>2, <3>3, <3>4 DEF StoreTypeOK
  <2>2. StartedIsListed'
    BY <1>0, <1>4 DEF DiscardCheck, StartedIsListed
  <2>3. Sound(r)'
    <3>1. /\ lock' = r /\ dir' = dir /\ content' = content
          /\ todo'[r] \subseteq todo[r]
      BY <1>0, <1>4, <2>0 DEF DiscardCheck, TakeItem, StoreTypeOK
    <3>2. \/ step'[r] = "recover" /\ log'[r] = Nobody
          \/ /\ step'[r] = "remove" /\ log'[r] = [id |-> item.id, file |-> item.file]
             /\ dir'[item.id] = item.file /\ content'[item.file] = "empty"
      <4>1. \/ UNCHANGED <<step, log>>
            \/ /\ step' = [step EXCEPT ![r] = "remove"]
               /\ log' = [log EXCEPT ![r] = [id |-> item.id, file |-> item.file]]
               /\ dir[item.id] = item.file /\ content[item.file] = "empty"
        BY <1>4, <2>0 DEF DiscardCheck, StoreGoto
      <4> QED BY <1>0, <2>0, <3>1, <4>1 DEF StoreTypeOK
    <3>3. ASSUME NEW l \in Logs, l = [id |-> item.id, file |-> item.file]
          PROVE  l.id = item.id /\ l.file = item.file
      BY <3>3
    <3>4. step'[r] = "remove" => Relies(r)'
      BY <2>0, <3>2, <3>3 DEF Relies
    <3> QED BY <1>0, <3>1, <3>2, <3>4 DEF Sound, Working
  <2>4. \A s \in Runtimes \ {r} : step'[s] = step[s] /\ log'[s] = log[s] /\ todo'[s] = todo[s]
    BY <1>0, <1>4 DEF DiscardCheck, StoreGoto, TakeItem, StoreTypeOK
  <2> QED BY <2>0, <2>1, <2>2, <2>3, <2>4, StepOfOne
<1>5. ASSUME NEW item \in todo[r], OpenExisting(r, item) PROVE StoreInv'
  <2>0. /\ step[r] = "recover" /\ lock = r /\ log[r] = Nobody
        /\ item \in Items /\ [id |-> item.id, file |-> item.file] \in Logs
        /\ content[item.file] \in {"started", "sealed"}
    <3>1. step[r] = "recover" /\ step[r] \notin Working /\ IsPending(item)
      BY <1>5 DEF OpenExisting, Working
    <3>2. item \in Items /\ [id |-> item.id, file |-> item.file] \in Logs
      BY <1>0, ItemsNameLogs
    <3> QED BY <1>0, <1>5, <3>1, <3>2 DEF Sound
  <2>1. StoreTypeOK'
    <3>1. /\ todo' = [todo EXCEPT ![r] = @ \ {item}] /\ UNCHANGED <<lock, dir, durable, content>>
          /\ \/ UNCHANGED <<step, log>>
             \/ /\ step' = [step EXCEPT ![r] = "recovering"]
                /\ log' = [log EXCEPT ![r] = [id |-> item.id, file |-> item.file]]
      BY <1>5 DEF OpenExisting, StoreGoto, TakeItem
    <3>2. todo' \in [Runtimes -> SUBSET Items]
      BY <1>0, <3>1 DEF StoreTypeOK
    <3>3. step' \in [Runtimes -> Steps]
      BY <1>0, <3>1 DEF StoreTypeOK, Steps, Working
    <3>4. log' \in [Runtimes -> Logs \union {Nobody}]
      BY <1>0, <2>0, <3>1 DEF StoreTypeOK
    <3> QED BY <1>0, <3>1, <3>2, <3>3, <3>4 DEF StoreTypeOK
  <2>2. StartedIsListed'
    BY <1>0, <1>5 DEF OpenExisting, StartedIsListed
  <2>3. Sound(r)'
    <3>1. /\ lock' = r /\ dir' = dir /\ content' = content
          /\ todo'[r] \subseteq todo[r]
      BY <1>0, <1>5, <2>0 DEF OpenExisting, TakeItem, StoreTypeOK
    <3>2. \/ step'[r] = "recover" /\ log'[r] = Nobody
          \/ /\ step'[r] = "recovering" /\ log'[r] = [id |-> item.id, file |-> item.file]
             /\ dir'[item.id] = item.file /\ content'[item.file] \in {"started", "sealed"}
      <4>1. \/ UNCHANGED <<step, log>>
            \/ /\ step' = [step EXCEPT ![r] = "recovering"]
               /\ log' = [log EXCEPT ![r] = [id |-> item.id, file |-> item.file]]
               /\ dir[item.id] = item.file
        BY <1>5, <2>0 DEF OpenExisting, StoreGoto
      <4> QED BY <1>0, <2>0, <3>1, <4>1 DEF StoreTypeOK
    <3>3. ASSUME NEW l \in Logs, l = [id |-> item.id, file |-> item.file]
          PROVE  l.id = item.id /\ l.file = item.file
      BY <3>3
    <3>4. step'[r] = "recovering" => Relies(r)'
      BY <2>0, <3>2, <3>3 DEF Relies
    <3> QED BY <1>0, <3>1, <3>2, <3>4 DEF Sound, Working
  <2>4. \A s \in Runtimes \ {r} : step'[s] = step[s] /\ log'[s] = log[s] /\ todo'[s] = todo[s]
    BY <1>0, <1>5, ZenonT(30) DEF OpenExisting, StoreGoto, TakeItem, StoreTypeOK
  <2> QED BY <2>0, <2>1, <2>2, <2>3, <2>4, StepOfOne
<1> QED BY <1>1, <1>2, <1>3, <1>4, <1>5

----------------------------------------------------------------------------
\* What the recovery does with an item it has taken.
LEMMA RecoveryKeeps ==
  ASSUME StoreInv, NEW r \in Runtimes, RemoveLog(r) \/ RemoveSync(r) \/ Recovered(r)
  PROVE  StoreInv'
<1>0. StoreTypeOK /\ StartedIsListed /\ Sound(r)
  BY DEF StoreInv
<1>1. CASE RemoveLog(r)
  <2>0. step[r] = "remove" /\ lock = r /\ Relies(r) /\ content[log[r].file] = "empty"
    BY <1>0, <1>1 DEF RemoveLog, Sound, Relies, Working
  <2>1. StoreTypeOK'
    BY <1>0, <1>1, <2>0 DEF RemoveLog, StoreGoto, StoreTypeOK, Steps
  <2>2. StartedIsListed'
    <3> SUFFICES ASSUME NEW f \in Files, content[f] \in {"started", "sealed"}
                 PROVE  \E tx \in TxIds : dir'[tx] = f /\ durable[tx] = f
      BY <1>0, <1>1 DEF RemoveLog, StartedIsListed
    <3>1. PICK tx \in TxIds : dir[tx] = f /\ durable[tx] = f
      BY <1>0 DEF StartedIsListed
    <3>2. tx # log[r].id
      BY <2>0, <3>1 DEF Relies
    <3> QED BY <1>0, <1>1, <3>1, <3>2 DEF RemoveLog, StoreTypeOK
  <2>3. Sound(r)'
    BY <1>0, <1>1, <2>0 DEF RemoveLog, StoreGoto, StoreTypeOK, Sound, Working
  <2> QED BY <1>0, <1>1, <2>0, <2>1, <2>2, <2>3, StepOfOne DEF RemoveLog, StoreGoto, StoreTypeOK
<1>2. CASE RemoveSync(r)
  <2>0. step[r] = "removed" /\ lock = r /\ durable' \in {dir, durable}
    BY <1>0, <1>2 DEF RemoveSync, Sound
  <2>1. StoreTypeOK'
    BY <1>0, <1>2, <2>0 DEF RemoveSync, StoreGoto, StoreTypeOK, Steps
  <2>2. StartedIsListed'
    BY <1>0, <1>2, <2>0, ZenonT(30) DEF RemoveSync, StartedIsListed
  <2>3. Sound(r)'
    BY <1>0, <1>2, <2>0 DEF RemoveSync, StoreGoto, StoreTypeOK, Sound, Working
  <2> QED BY <1>0, <1>2, <2>0, <2>1, <2>2, <2>3, StepOfOne DEF RemoveSync, StoreGoto, StoreTypeOK
<1>3. CASE Recovered(r)
  <2>0. /\ step[r] = "recovering" /\ lock = r /\ log[r].file \in Files
        /\ content[log[r].file] \in {"started", "sealed"}
        /\ content' \in {content, [content EXCEPT ![log[r].file] = "sealed"]}
    BY <1>0, <1>3 DEF Recovered, Sound, Relies, Logs, Working
  <2>1. StoreTypeOK'
    BY <1>0, <1>3, <2>0 DEF Recovered, StoreGoto, StoreTypeOK, Steps, LogKinds
  <2>2. \A f \in Files : content'[f] \in {"started", "sealed"} <=> content[f] \in {"started", "sealed"}
    BY <1>0, <2>0 DEF StoreTypeOK
  <2>3. StartedIsListed'
    BY <1>0, <1>3, <2>2 DEF Recovered, StartedIsListed
  <2>4. Sound(r)'
    <3>1. step'[r] = "recover" /\ lock' = r /\ log'[r] = Nobody /\ todo' = todo
      BY <1>0, <1>3, <2>0 DEF Recovered, StoreGoto, StoreTypeOK
    <3>2. \A item \in todo[r] : item.file \in Files
      BY <1>0, ItemsNameLogs
    <3> QED BY <1>0, <2>2, <3>1, <3>2 DEF Sound, Working
  <2> QED BY <1>0, <1>3, <2>0, <2>1, <2>3, <2>4, StepOfOne DEF Recovered, StoreGoto, StoreTypeOK
<1> QED BY <1>1, <1>2, <1>3

\* The creation of a log and the records of its transaction.
LEMMA TransactionKeeps ==
  ASSUME StoreInv, NEW r \in Runtimes,
         (\E tx \in TxIds : CreateFile(r, tx)) \/ CreateSync(r) \/ WriteLog(r)
  PROVE  StoreInv'
<1>0. StoreTypeOK /\ StartedIsListed /\ Sound(r)
  BY DEF StoreInv
<1>1. ASSUME NEW tx \in TxIds, CreateFile(r, tx) PROVE StoreInv'
  <2>0. step[r] = "up" /\ lock = r /\ log[r] = Nobody /\ dir[tx] = Nobody
    BY <1>0, <1>1 DEF CreateFile, Sound, Working
  <2>1. Fresh \in Files /\ content[Fresh] = Nobody
    BY <1>1 DEF CreateFile, Fresh
  <2>2. [id |-> tx, file |-> Fresh] \in Logs
    BY <2>1 DEF Logs
  <2>3. CASE UNCHANGED <<dir, content, log, step>> /\ durable' = dir
    <3>1. StoreTypeOK' /\ StartedIsListed'
      BY <1>0, <1>1, <2>3 DEF CreateFile, StoreTypeOK, StartedIsListed
    <3>2. Sound(r)'
      BY <1>0, <1>1, <2>0, <2>3 DEF CreateFile, Sound, Working
    <3> QED BY <1>1, <2>0, <2>3, <3>1, <3>2, StepOfOne DEF CreateFile
  <2>4. CASE /\ dir' = [dir EXCEPT ![tx] = Fresh]
             /\ content' = [content EXCEPT ![Fresh] = "empty"]
             /\ log' = [log EXCEPT ![r] = [id |-> tx, file |-> Fresh]]
             /\ StoreGoto(r, "created")
             /\ UNCHANGED durable
    <3> HIDE DEF Fresh
    <3>1. StoreTypeOK'
      BY <1>0, <1>1, <2>1, <2>2, <2>4 DEF CreateFile, StoreGoto, StoreTypeOK, Steps, Working, LogKinds
    <3>2. \A f \in Files : content'[f] \in {"started", "sealed"} <=> content[f] \in {"started", "sealed"}
      BY <1>0, <2>1, <2>4, StoreAssumption DEF StoreTypeOK, LogKinds
    <3>3. StartedIsListed'
      <4> SUFFICES ASSUME NEW f \in Files, content[f] \in {"started", "sealed"}
                   PROVE  \E i \in TxIds : dir'[i] = f /\ durable[i] = f
        BY <1>0, <2>4, <3>2 DEF StartedIsListed
      <4>1. PICK i \in TxIds : dir[i] = f /\ durable[i] = f
        BY <1>0 DEF StartedIsListed
      <4>2. i # tx
        BY <2>0, <4>1, StoreAssumption
      <4> QED BY <1>0, <2>4, <4>1, <4>2 DEF StoreTypeOK
    <3>4. Sound(r)'
      <4>1. /\ step'[r] = "created" /\ lock' = r /\ todo' = todo /\ dir'[tx] = Fresh
            /\ log'[r] = [id |-> tx, file |-> Fresh] /\ content'[Fresh] = "empty"
        BY <1>0, <1>1, <2>0, <2>1, <2>4 DEF CreateFile, StoreGoto, StoreTypeOK
      <4>2. PICK l \in Logs : l = [id |-> tx, file |-> Fresh]
        BY <2>2
      <4>3. l.id = tx /\ l.file = Fresh /\ log'[r] = l
        BY <4>1, <4>2
      <4>5. Relies(r)'
        BY <4>1, <4>3 DEF Relies
      <4>4. \A item \in todo[r] : item.file \in Files
        BY <1>0, ItemsNameLogs
      <4> QED BY <1>0, <3>2, <4>1, <4>4, <4>5 DEF Sound, Working
    <3> QED BY <1>0, <1>1, <2>0, <2>4, <3>1, <3>3, <3>4, StepOfOne DEF CreateFile, StoreGoto, StoreTypeOK
  <2> QED BY <1>1, <2>3, <2>4 DEF CreateFile
<1>2. CASE CreateSync(r)
  <2>0. step[r] = "created" /\ lock = r /\ Relies(r) /\ durable' \in {dir, durable}
    BY <1>0, <1>2 DEF CreateSync, Sound, Working
  <2>1. StoreTypeOK'
    BY <1>0, <1>2, <2>0 DEF CreateSync, StoreGoto, StoreTypeOK, Steps, Working
  <2>2. StartedIsListed'
    BY <1>0, <1>2, <2>0 DEF CreateSync, StartedIsListed
  <2>3. Sound(r)'
    BY <1>0, <1>2, <2>0 DEF CreateSync, StoreGoto, StoreTypeOK, Sound, Relies, Working
  <2> QED BY <1>0, <1>2, <2>0, <2>1, <2>2, <2>3, StepOfOne DEF CreateSync, StoreGoto, StoreTypeOK
<1>3. CASE WriteLog(r)
  <2>0. /\ step[r] = "open" /\ lock = r /\ Relies(r)
        /\ log[r].id \in TxIds /\ log[r].file \in Files
        /\ dir[log[r].id] = log[r].file /\ durable[log[r].id] = log[r].file
    BY <1>0, <1>3 DEF WriteLog, Sound, Relies, Logs, Working
  <2>1. StoreTypeOK'
    BY <1>0, <1>3, <2>0 DEF WriteLog, StoreGoto, StoreTypeOK, Steps, LogKinds
  <2>2. \A f \in Files : f # log[r].file => content'[f] = content[f]
    BY <1>0, <1>3 DEF WriteLog, StoreTypeOK
  <2>3. StartedIsListed'
    <3> SUFFICES ASSUME NEW f \in Files, content'[f] \in {"started", "sealed"}
                 PROVE  \E tx \in TxIds : dir[tx] = f /\ durable[tx] = f
      BY <1>0, <1>3 DEF WriteLog, StartedIsListed
    <3> QED BY <1>0, <2>0, <2>2 DEF StartedIsListed
  <2>4. \A f \in Files : content[f] \in {"started", "sealed"} => content'[f] \in {"started", "sealed"}
    BY <1>0, <1>3, <2>0 DEF WriteLog, StoreTypeOK
  <2>5. Sound(r)'
    <3>1. /\ lock' = lock /\ todo' = todo /\ dir' = dir /\ durable' = durable
          /\ \/ step'[r] = "open" /\ log'[r] = log[r]
             \/ step'[r] = "up" /\ log'[r] = Nobody
      BY <1>0, <1>3, <2>0 DEF WriteLog, StoreGoto, StoreTypeOK
    <3>2. \A item \in todo[r] : item.file \in Files
      BY <1>0, ItemsNameLogs
    <3> QED BY <1>0, <2>0, <2>4, <3>1, <3>2 DEF Sound, Relies, Working
  <2> QED BY <1>0, <1>3, <2>0, <2>1, <2>3, <2>5, StepOfOne DEF WriteLog, StoreGoto, StoreTypeOK
<1> QED BY <1>1, <1>2, <1>3

\* A loss of power ends every runtime and undoes some of the unsynced names.
LEMMA PowerLossKeeps ==
  ASSUME StoreInv, PowerLoss
  PROVE  StoreInv'
<1>0. StoreTypeOK /\ StartedIsListed /\ \A r \in Runtimes : Sound(r)
  BY DEF StoreInv
<1>1. PICK kept \in SUBSET TxIds :
        dir' = [tx \in TxIds |-> IF tx \in kept THEN dir[tx] ELSE durable[tx]]
  BY DEF PowerLoss
<1>2. StoreTypeOK'
  BY <1>0, <1>1 DEF PowerLoss, StoreTypeOK, Steps
<1>3. StartedIsListed'
  BY <1>0, <1>1 DEF PowerLoss, StartedIsListed
<1>4. \A r \in Runtimes : Sound(r)'
  BY <1>0 DEF PowerLoss, Sound, Working
<1> QED BY <1>2, <1>3, <1>4 DEF StoreInv

----------------------------------------------------------------------------
\* Every behaviour of the store has the invariant.
LEMMA StoreInvariance == StoreSpec => []StoreInv
<1>1. ASSUME StoreInit PROVE StoreInv
  <2>1. StoreTypeOK
    BY <1>1 DEF StoreInit, StoreTypeOK, Steps
  <2>2. StartedIsListed
    BY <1>1, StoreAssumption DEF StoreInit, StartedIsListed, LogKinds
  <2>3. \A r \in Runtimes : Sound(r)
    BY <1>1 DEF StoreInit, Sound, Working
  <2> QED BY <2>1, <2>2, <2>3 DEF StoreInv
<1>2. StoreInv /\ [StoreNext]_storeVars => StoreInv'
  <2> SUFFICES ASSUME StoreInv, [StoreNext]_storeVars PROVE StoreInv'
    OBVIOUS
  <2>1. ASSUME NEW r \in Runtimes, Runtime(r) PROVE StoreInv'
    <3>1. CASE Crash(r)
      BY <3>1, EndedKeeps DEF Crash
    <3> QED BY <2>1, <3>1, StartupKeeps, RecoveryKeeps, TransactionKeeps DEF Runtime
  <2>2. CASE UNCHANGED storeVars
    <3>1. StoreTypeOK' /\ StartedIsListed'
      BY <2>2 DEF storeVars, StoreInv, StoreTypeOK, StartedIsListed
    <3>2. \A r \in Runtimes : Sound(r)'
      BY <2>2 DEF storeVars, StoreInv, Sound, Relies
    <3> QED BY <3>1, <3>2 DEF StoreInv
  <2> QED BY <2>1, <2>2, PowerLossKeeps DEF StoreNext
<1> QED BY <1>1, <1>2, PTL DEF StoreSpec

\* No log whose transaction may have changed a resource is ever lost from the
\* directory: neither discard_unstarted nor a crash or a loss of power in the middle
\* of create takes one away.
THEOREM NoLogIsLost == StoreSpec => []StartedIsListed
<1>1. StoreInv => StartedIsListed
  BY DEF StoreInv
<1> QED BY <1>1, StoreInvariance, PTL

\* A runtime works on the log its name stands for and on nobody else's: the flock of
\* the directory suffices.
THEOREM NoLogIsShared == StoreSpec => []LogIsOwn
<1>1. StoreInv => LogIsOwn
  <2> SUFFICES ASSUME StoreInv, NEW r \in Runtimes, log[r] # Nobody
               PROVE  /\ dir[log[r].id] = log[r].file
                      /\ \A s \in Runtimes \ {r} : log[s] # log[r]
    BY DEF LogIsOwn
  <2>1. step[r] \in Working /\ Relies(r)
    BY DEF StoreInv, Sound
  <2>2. \A s \in Runtimes \ {r} : log[s] = Nobody
    BY <2>1, OneIsUp DEF Working
  <2> QED BY <2>1, <2>2 DEF Relies
<1> QED BY <1>1, StoreInvariance, PTL
==============================================================================
