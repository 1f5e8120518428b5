----------------------------- MODULE RuleProofs -----------------------------
(***************************************************************************)
(* Proofs about the rules of the scheduler: that the learned-rules file,   *)
(* the rules in memory and the BPF map agree between requests, that an     *)
(* answer to a compare-and-set is true when it is given (RuleControl), and *)
(* that what the MCP server reports to the agent was so during the call    *)
(* and is not undone later by a request of its own (RuleProvider).         *)
(*                                                                         *)
(* RuleInv is inductive for the scheduler. The agreement itself is not: a  *)
(* request is served in stages between which the three places differ, so   *)
(* JobInv says for each stage how far the change has come. ProviderInv     *)
(* adds where each server process is in its call, that it has one request  *)
(* on the socket at most, and that an answer on its way to it is true of a *)
(* state the rule had since the call began. OrderInv, for a server that    *)
(* ends with its agent, says that a read is answered after every change    *)
(* that was asked for before it: the socket keeps their order.             *)
(***************************************************************************)
EXTENDS RuleProvider, TLAPS

\* The provers: a leaf that cites none is left to Zenon.
USE Zenon

Documents == [rules : Tables, revision : Nat]

\* A request on the socket, of a client that may have given up.
SocketRequests ==
  [conn : Conns \union {Gone}, op : {"get", "snapshot", "invalid", "cas"},
   comm : Comms \union {None}, expected : States \union {None}, desired : States \union {None}]

IsPut(r) == r.comm \in Comms /\ r.expected \in States /\ r.desired \in States

BacklogTypes ==
  /\ backlog \in Seq(SocketRequests)
  /\ \A i \in DOMAIN backlog : backlog[i].op = "cas" => IsPut(backlog[i])

RuleTypes ==
  /\ up \in BOOLEAN /\ drifted \in BOOLEAN
  /\ doc \in Documents /\ synced \in Documents /\ store \in Documents
  /\ active \in Tables
  /\ promised \in [Comms -> States \union {None}]
  /\ DOMAIN answers = Conns

Jobs == [stage : {"publish", "undo", "republish", "reconcile"}, request : SocketRequests]

\* The rule of the request that is served, how far the file, the memory and stable
\* storage have followed it, and that nothing is promised about it meanwhile.
JobInv ==
  /\ job \in Jobs /\ up
  /\ IsPut(job.request) /\ Base[job.request.comm] = Absent
  /\ job.stage \in {"publish", "undo"} =>
       /\ store.rules[job.request.comm] = job.request.desired
       /\ promised[job.request.comm] = None /\ synced = doc
  /\ job.stage = "republish" => store.rules[job.request.comm] = job.request.expected
  /\ job.stage = "reconcile" => store.rules[job.request.comm] = job.request.desired

\* While a request is served only its own rule may differ between the map and the
\* memory, and the memory is the file as long as the process runs.
AgreementInv ==
  up => /\ doc = store
        /\ ~drifted => \A k \in Comms : \/ job # Idle /\ k = job.request.comm
                                        \/ active[k] = Effective(store.rules)[k]

\* What was acknowledged is in the file and on stable storage.
PromiseInv ==
  \A k \in Comms : promised[k] # None => doc.rules[k] = promised[k] /\ synced.rules[k] = promised[k]

RuleInv ==
  RuleTypes /\ BacklogTypes /\ (job = Idle \/ JobInv) /\ AgreementInv /\ PromiseInv

LEMMA AnyJob ==
  ASSUME NEW j \in Jobs
  PROVE  j # Idle /\ j.stage # "idle"
  BY SMT DEF Jobs, Idle

\* The oldest request, and what is left of the backlog without it.
LEMMA OldestRequest ==
  ASSUME BacklogTypes, backlog # <<>>
  PROVE  /\ Head(backlog) \in SocketRequests /\ Head(backlog) = backlog[1] /\ 1 \in DOMAIN backlog
         /\ Head(backlog).op = "cas" => IsPut(Head(backlog))
         /\ backlog' = Tail(backlog) => BacklogTypes'
<1>1. backlog \in Seq(SocketRequests) /\ \A i \in DOMAIN backlog : backlog[i].op = "cas" => IsPut(backlog[i])
  BY DEF BacklogTypes
<1>2. Head(backlog) \in SocketRequests /\ Head(backlog) = backlog[1] /\ 1 \in DOMAIN backlog
  BY <1>1, SMT
<1>3. /\ Tail(backlog) \in Seq(SocketRequests)
      /\ \A i \in DOMAIN Tail(backlog) : i + 1 \in DOMAIN backlog /\ Tail(backlog)[i] = backlog[i + 1]
  BY <1>1, SMT
<1>4. \A i \in DOMAIN Tail(backlog) : Tail(backlog)[i].op = "cas" => IsPut(Tail(backlog)[i])
  BY <1>1, <1>3
<1> QED BY <1>1, <1>2, <1>3, <1>4 DEF BacklogTypes

\* An answer goes to a connection.
LEMMA DeliverTypes ==
  ASSUME DOMAIN answers = Conns, NEW conn, NEW a, Deliver(conn, a)
  PROVE  DOMAIN answers' = Conns
  BY DEF Deliver

\* A step between requests that leaves rules and documents alone.
LEMMA QuietKeeps ==
  ASSUME RuleInv, UNCHANGED <<up, doc, synced, store, active, job, promised, drifted>>,
         DOMAIN answers' = Conns, BacklogTypes'
  PROVE  RuleInv'
<1>1. RuleTypes'
  BY DEF RuleInv, RuleTypes
<1>2. job' = Idle \/ JobInv'
  BY DEF RuleInv, JobInv
<1>3. AgreementInv' /\ PromiseInv'
  BY DEF RuleInv, AgreementInv, PromiseInv
<1> QED BY <1>1, <1>2, <1>3 DEF RuleInv

\* A client sends a request.
LEMMA SendKeeps ==
  ASSUME RuleInv, NEW request \in SocketRequests, request.op = "cas" => IsPut(request), Send(request)
  PROVE  RuleInv'
<1>1. /\ UNCHANGED <<up, doc, synced, store, active, job, promised, drifted>> /\ answers' = answers
      /\ backlog' = Append(backlog, request)
  BY DEF Send
<1>2. backlog \in Seq(SocketRequests) /\ \A i \in DOMAIN backlog : backlog[i].op = "cas" => IsPut(backlog[i])
  BY DEF RuleInv, BacklogTypes
<1>3. /\ Append(backlog, request) \in Seq(SocketRequests)
      /\ \A i \in DOMAIN Append(backlog, request) :
           \/ i \in DOMAIN backlog /\ Append(backlog, request)[i] = backlog[i]
           \/ Append(backlog, request)[i] = request
  BY <1>2, SMT
<1>4. BacklogTypes'
  BY <1>1, <1>2, <1>3 DEF BacklogTypes
<1>5. DOMAIN answers' = Conns
  BY <1>1 DEF RuleInv, RuleTypes
<1> QED BY <1>1, <1>4, <1>5, QuietKeeps

\* A client takes its answer.
LEMMA ReceiveKeeps ==
  ASSUME RuleInv, NEW conn, Receive(conn)
  PROVE  RuleInv'
<1>1. /\ UNCHANGED <<up, doc, synced, store, active, job, promised, drifted>> /\ backlog' = backlog
      /\ answers' = [answers EXCEPT ![conn] = None]
  BY DEF Receive
<1>2. DOMAIN answers' = Conns
  BY <1>1 DEF RuleInv, RuleTypes
<1>3. BacklogTypes'
  BY <1>1 DEF RuleInv, BacklogTypes
<1> QED BY <1>1, <1>2, <1>3, QuietKeeps

\* A request whose client gives up is the same request.
LEMMA Forgotten ==
  ASSUME NEW r \in SocketRequests, NEW conn
  PROVE  /\ Forget(r, conn) \in SocketRequests
         /\ Forget(r, conn).op = r.op /\ Forget(r, conn).comm = r.comm
         /\ Forget(r, conn).expected = r.expected /\ Forget(r, conn).desired = r.desired
         /\ Forget(r, conn).conn = IF r.conn = conn THEN Gone ELSE r.conn
         /\ IsPut(r) => IsPut(Forget(r, conn))
<1>1. CASE r.conn = conn
  <2>1. Forget(r, conn) = [r EXCEPT !.conn = Gone]
    BY <1>1 DEF Forget
  <2>2. /\ [r EXCEPT !.conn = Gone] \in SocketRequests
        /\ [r EXCEPT !.conn = Gone].op = r.op /\ [r EXCEPT !.conn = Gone].comm = r.comm
        /\ [r EXCEPT !.conn = Gone].expected = r.expected /\ [r EXCEPT !.conn = Gone].desired = r.desired
        /\ [r EXCEPT !.conn = Gone].conn = Gone
    BY DEF SocketRequests
  <2> QED BY <1>1, <2>1, <2>2 DEF IsPut
<1>2. CASE r.conn # conn
  BY <1>2 DEF Forget
<1> QED BY <1>1, <1>2

LEMMA FunctionIsSeq ==
  ASSUME NEW S, NEW n \in Nat, NEW f \in [1 .. n -> S]
  PROVE  f \in Seq(S)
  BY SMT

\* A client stops waiting: its request stays, for nobody.
LEMMA GiveUpKeeps ==
  ASSUME RuleInv, NEW conn, GiveUp(conn)
  PROVE  RuleInv'
<1>1. /\ UNCHANGED <<up, doc, synced, store, active, promised, drifted>> /\ answers' = answers
      /\ backlog' = [i \in DOMAIN backlog |-> Forget(backlog[i], conn)]
      /\ job' = IF job.stage = "idle" THEN job ELSE [job EXCEPT !.request = Forget(@, conn)]
  BY DEF GiveUp
<1>2. backlog \in Seq(SocketRequests) /\ \A i \in DOMAIN backlog : backlog[i].op = "cas" => IsPut(backlog[i])
  BY DEF RuleInv, BacklogTypes
<1>3. \A i \in DOMAIN backlog : backlog[i] \in SocketRequests
  BY <1>2, SMT
<1>4. ASSUME NEW i \in DOMAIN backlog
      PROVE  /\ Forget(backlog[i], conn) \in SocketRequests
             /\ Forget(backlog[i], conn).op = "cas" => IsPut(Forget(backlog[i], conn))
  <2>1. PICK r \in SocketRequests : r = backlog[i]
    BY <1>3
  <2>2. r.op = "cas" => IsPut(r)
    BY <1>2, <2>1
  <2>3. Forget(r, conn) \in SocketRequests /\ (Forget(r, conn).op = "cas" => IsPut(Forget(r, conn)))
    BY <2>2, Forgotten
  <2> QED BY <2>1, <2>3
<1>5. backlog' \in Seq(SocketRequests) /\ DOMAIN backlog' = DOMAIN backlog
  <2>1. PICK n \in Nat : DOMAIN backlog = 1 .. n
    BY <1>2, SMT
  <2>2. backlog' \in [1 .. n -> SocketRequests]
    BY <1>1, <1>4, <2>1
  <2>3. backlog' \in Seq(SocketRequests)
    BY <2>2, FunctionIsSeq
  <2> QED BY <1>1, <2>3
<1>6. BacklogTypes'
  BY <1>1, <1>4, <1>5 DEF BacklogTypes
<1>7. CASE job = Idle
  <2>1. job' = job
    BY <1>1, <1>7 DEF Idle
  <2>2. DOMAIN answers' = Conns
    BY <1>1 DEF RuleInv, RuleTypes
  <2> QED BY <1>1, <1>6, <2>1, <2>2, QuietKeeps
<1>8. CASE JobInv
  <2>1. job \in Jobs /\ job.stage # "idle" /\ job # Idle
    BY <1>8, AnyJob DEF JobInv
  <2>2. job.request \in SocketRequests
    BY <2>1 DEF Jobs
  <2> DEFINE q == Forget(job.request, conn)
  <2>3. /\ q \in SocketRequests /\ q.comm = job.request.comm /\ q.expected = job.request.expected
        /\ q.desired = job.request.desired /\ (IsPut(job.request) => IsPut(q))
    BY <2>2, Forgotten
  <2> HIDE DEF q
  <2>4. job' = [job EXCEPT !.request = q]
    BY <1>1, <2>1 DEF q
  <2>5. job' \in Jobs /\ job'.request = q /\ job'.stage = job.stage
    BY <2>1, <2>3, <2>4 DEF Jobs
  <2>6. job' # Idle
    BY <2>5, AnyJob
  <2>7. JobInv'
    BY <1>1, <1>8, <2>3, <2>5 DEF JobInv
  <2>8. AgreementInv'
    BY <1>1, <2>1, <2>3, <2>5, <2>6 DEF RuleInv, AgreementInv
  <2>9. RuleTypes' /\ PromiseInv'
    BY <1>1 DEF RuleInv, RuleTypes, PromiseInv
  <2> QED BY <1>6, <2>7, <2>8, <2>9 DEF RuleInv
<1> QED BY <1>7, <1>8 DEF RuleInv

\* A request that only reads changes nothing but the backlog.
LEMMA ReadsKeep ==
  ASSUME RuleInv, DropConnection \/ ServeRead \/ RefuseSet
  PROVE  RuleInv'
<1>1. /\ UNCHANGED <<up, doc, synced, store, active, job, promised, drifted>>
      /\ backlog # <<>> /\ backlog' = Tail(backlog)
      /\ \E conn, a : Deliver(conn, a)
  BY DEF DropConnection, ServeRead, RefuseSet, Finish
<1>2. BacklogTypes'
  BY <1>1, OldestRequest DEF RuleInv
<1>3. DOMAIN answers' = Conns
  BY <1>1, DeliverTypes DEF RuleInv, RuleTypes
<1> QED BY <1>1, <1>2, <1>3, QuietKeeps

\* The process ends, with the documents as they are.
LEMMA ExitKeeps ==
  ASSUME RuleInv, Exit, doc' \in Documents, synced' \in Documents, store' \in Documents,
         active' = active, drifted' = drifted, DOMAIN answers' = Conns,
         promised' \in [Comms -> States \union {None}], PromiseInv'
  PROVE  RuleInv'
<1>1. up' = FALSE /\ job' = Idle /\ backlog' = <<>>
  BY DEF Exit
<1>2. BacklogTypes'
  <2>1. <<>> \in Seq(SocketRequests) /\ \A i \in DOMAIN <<>> : FALSE
    BY SMT
  <2> QED BY <1>1, <2>1 DEF BacklogTypes
<1>3. RuleTypes'
  BY <1>1 DEF RuleInv, RuleTypes
<1>4. AgreementInv'
  BY <1>1 DEF AgreementInv
<1> QED BY <1>1, <1>2, <1>3, <1>4 DEF RuleInv

LEMMA DieTypes ==
  ASSUME NEW conn, Die(conn)
  PROVE  DOMAIN answers' = Conns /\ Exit
  BY DEF Die

\* The scheduler is killed, or the machine loses power.
LEMMA CrashKeeps ==
  ASSUME RuleInv, Crash \/ PowerLoss
  PROVE  RuleInv'
<1>1. /\ Exit /\ UNCHANGED <<store, active, promised, drifted>>
      /\ answers' = [conn \in Conns |-> IF Waiting(conn) THEN [status |-> "Closed"] ELSE answers[conn]]
      /\ doc' \in {doc, synced} /\ synced' \in {doc', synced}
  BY DEF Crash, PowerLoss
<1>2. DOMAIN answers' = Conns
  BY <1>1
<1>3. /\ doc \in Documents /\ synced \in Documents /\ store \in Documents
      /\ promised \in [Comms -> States \union {None}] /\ PromiseInv
  BY DEF RuleInv, RuleTypes
<1>4. PromiseInv'
  BY <1>1, <1>3 DEF PromiseInv
<1> QED BY <1>1, <1>2, <1>3, <1>4, ExitKeeps

LEMMA EffectiveTypes ==
  ASSUME NEW rules \in Tables
  PROVE  /\ Effective(rules) \in Tables
         /\ \A k \in Comms : Base[k] = Absent => Effective(rules)[k] = rules[k]
  BY RuleAssumption DEF Effective, Tables, States

\* The scheduler starts with the file it finds.
LEMMA StartKeeps ==
  ASSUME RuleInv, Start
  PROVE  RuleInv'
<1>1. /\ up' = TRUE /\ store' = doc /\ active' = Effective(doc.rules) /\ drifted' = FALSE
      /\ UNCHANGED <<doc, synced, job, backlog, answers, promised>> /\ ~up
  BY DEF Start
<1>2. job = Idle
  BY <1>1 DEF RuleInv, JobInv
<1>3. doc.rules \in Tables
  BY DEF RuleInv, RuleTypes, Documents
<1>4. RuleTypes'
  BY <1>1, <1>3, EffectiveTypes DEF RuleInv, RuleTypes
<1>5. BacklogTypes' /\ PromiseInv'
  BY <1>1 DEF RuleInv, BacklogTypes, PromiseInv
<1>6. AgreementInv'
  BY <1>1 DEF AgreementInv, Effective
<1> QED BY <1>1, <1>2, <1>4, <1>5, <1>6 DEF RuleInv

\* Something else writes the map.
LEMMA DriftKeeps ==
  ASSUME RuleInv, DriftMap
  PROVE  RuleInv'
<1>1. /\ \E c \in Comms, state \in States : active' = [active EXCEPT ![c] = state]
      /\ drifted' = TRUE /\ UNCHANGED <<up, doc, synced, store, job, backlog, answers, promised>>
      /\ job = Idle
  BY DEF DriftMap
<1>2. active' \in Tables
  BY <1>1 DEF RuleInv, RuleTypes, Tables
<1>3. RuleTypes' /\ BacklogTypes' /\ PromiseInv' /\ AgreementInv'
  BY <1>1, <1>2 DEF RuleInv, RuleTypes, BacklogTypes, PromiseInv, AgreementInv
<1> QED BY <1>1, <1>3 DEF RuleInv

\* The document with one rule changed.
LEMMA ReplaceGives ==
  ASSUME RuleInv, NEW k \in Comms, NEW state \in States, NEW outcome, Replace(k, state, outcome)
  PROVE  /\ doc' \in Documents /\ store' = doc' /\ synced' \in Documents
         /\ synced' = IF outcome = "durable" THEN doc' ELSE synced
         /\ doc'.rules[k] = state
         /\ \A m \in Comms : m # k => doc'.rules[m] = store.rules[m]
<1>1. /\ doc' = [rules |-> [store.rules EXCEPT ![k] = state], revision |-> store.revision + 1]
      /\ store' = doc' /\ synced' = IF outcome = "durable" THEN doc' ELSE synced
  BY DEF Replace, NextDocument, Changed
<1>2. store.rules \in Tables /\ store.revision \in Nat /\ synced \in Documents
  BY DEF RuleInv, RuleTypes, Documents
<1>3. [store.rules EXCEPT ![k] = state] \in Tables /\ store.revision + 1 \in Nat
  BY <1>2, SMT DEF Tables
<1>4. doc' \in Documents /\ doc'.rules = [store.rules EXCEPT ![k] = state]
  BY <1>1, <1>3 DEF Documents
<1>5. /\ doc'.rules[k] = state
      /\ \A m \in Comms : m # k => doc'.rules[m] = store.rules[m]
  BY <1>2, <1>4 DEF Tables
<1> QED BY <1>1, <1>2, <1>4, <1>5

\* What is promised of other rules stays in the documents.
LEMMA ReplaceKeepsPromises ==
  ASSUME RuleInv, up, NEW k \in Comms, NEW state \in States, NEW outcome, Replace(k, state, outcome),
         promised'[k] = None, \A m \in Comms : m # k => promised'[m] = promised[m]
  PROVE  PromiseInv'
<1>1. doc = store
  BY DEF RuleInv, AgreementInv
<1>2. \A m \in Comms : promised[m] # None => doc.rules[m] = promised[m] /\ synced.rules[m] = promised[m]
  BY DEF RuleInv, PromiseInv
<1>3. \A m \in Comms : m # k => doc'.rules[m] = doc.rules[m]
  BY <1>1, ReplaceGives
<1>4. synced' = doc' \/ synced' = synced
  BY ReplaceGives
<1>5. ASSUME NEW m \in Comms, promised'[m] # None
      PROVE  doc'.rules[m] = promised'[m] /\ synced'.rules[m] = promised'[m]
  <2>1. m # k /\ promised'[m] = promised[m]
    BY <1>5
  <2>2. doc'.rules[m] = promised[m] /\ synced.rules[m] = promised[m]
    BY <1>2, <1>3, <1>5, <2>1
  <2> QED BY <1>4, <2>1, <2>2
<1> QED BY <1>5 DEF PromiseInv

\* The request is taken up: nothing has changed yet but what its stage says.
LEMMA TakenUp ==
  ASSUME RuleInv, up, job = Idle, NEW r \in SocketRequests, IsPut(r), Base[r.comm] = Absent,
         NEW stage \in {"publish", "undo", "republish", "reconcile"},
         job' = [stage |-> stage, request |-> r]
  PROVE  /\ job' \in Jobs /\ job' # Idle /\ job'.stage = stage /\ job'.request = r
         /\ \A k \in Comms : ~drifted => active[k] = Effective(store.rules)[k]
         /\ doc = store
<1>1. job' \in Jobs /\ job'.stage = stage /\ job'.request = r
  BY DEF Jobs
<1>2. job' # Idle
  BY <1>1, AnyJob
<1> QED BY <1>1, <1>2 DEF RuleInv, AgreementInv

\* A compare-and-set of the state the rule has already.
LEMMA ServeNoopKeeps ==
  ASSUME RuleInv, ServeNoop
  PROVE  RuleInv'
<1> DEFINE r == Head(backlog)
<1>1. /\ up /\ job = Idle /\ backlog # <<>> /\ r.op = "cas" /\ Base[r.comm] = Absent
      /\ store.rules[r.comm] = r.expected /\ r.expected = r.desired
      /\ backlog' = Tail(backlog) /\ UNCHANGED <<up, doc, synced, store, active, promised, drifted>>
      /\ \/ job' = [stage |-> "reconcile", request |-> r] /\ UNCHANGED answers
         \/ job' = Idle /\ \E a : Deliver(r.conn, a)
  BY DEF ServeNoop
<1>2. BacklogTypes' /\ r \in SocketRequests /\ IsPut(r)
  BY <1>1, OldestRequest DEF RuleInv
<1> HIDE DEF r
<1>3. DOMAIN answers' = Conns
  BY <1>1, DeliverTypes DEF RuleInv, RuleTypes
<1>4. CASE job' = Idle
  BY <1>1, <1>2, <1>3, <1>4, QuietKeeps
<1>5. CASE job' = [stage |-> "reconcile", request |-> r]
  <2>0. "reconcile" \in {"publish", "undo", "republish", "reconcile"}
    OBVIOUS
  <2>1. /\ job' \in Jobs /\ job' # Idle /\ job'.stage = "reconcile" /\ job'.request = r
        /\ (\A k \in Comms : ~drifted => active[k] = Effective(store.rules)[k]) /\ doc = store
    BY <1>1, <1>2, <1>5, <2>0, TakenUp
  <2>2. JobInv'
    <3>1. job'.stage \notin {"publish", "undo", "republish"}
      BY <2>1
    <3> QED BY <1>1, <1>2, <2>1, <3>1 DEF JobInv
  <2>3. AgreementInv'
    BY <1>1, <2>1 DEF AgreementInv
  <2>4. RuleTypes' /\ PromiseInv'
    BY <1>1, <1>3 DEF RuleInv, RuleTypes, PromiseInv
  <2> QED BY <1>2, <2>2, <2>3, <2>4 DEF RuleInv
<1> QED BY <1>1, <1>4, <1>5

LEMMA WithdrawTypes ==
  ASSUME RuleInv, NEW k \in Comms, Withdraw(k)
  PROVE  /\ promised' \in [Comms -> States \union {None}] /\ promised'[k] = None
         /\ \A m \in Comms : m # k => promised'[m] = promised[m]
<1>1. promised \in [Comms -> States \union {None}] /\ promised' = [promised EXCEPT ![k] = None]
  BY DEF RuleInv, RuleTypes, Withdraw
<1> QED BY <1>1

\* A compare-and-set that saves the new rules.
LEMMA ServeSetKeeps ==
  ASSUME RuleInv, ServeSet
  PROVE  RuleInv'
<1> DEFINE r == Head(backlog)
<1>1. /\ up /\ job = Idle /\ backlog # <<>> /\ r.op = "cas" /\ Base[r.comm] = Absent
      /\ UNCHANGED <<active, drifted>>
      /\ \/ (\E a : Deliver(r.conn, a)) /\ Finish /\ UNCHANGED <<up, doc, synced, store, promised>>
         \/ /\ Replace(r.comm, r.desired, "durable") /\ job' = [stage |-> "publish", request |-> r]
            /\ backlog' = Tail(backlog) /\ Withdraw(r.comm) /\ UNCHANGED <<up, answers>>
         \/ /\ Replace(r.comm, r.desired, "unsynced") /\ Withdraw(r.comm) /\ Die(r.conn)
  BY DEF ServeSet
<1>2. (backlog' = Tail(backlog) => BacklogTypes') /\ r \in SocketRequests /\ IsPut(r)
  BY <1>1, OldestRequest DEF RuleInv
<1> HIDE DEF r
<1>3. r.comm \in Comms /\ r.desired \in States
  BY <1>2 DEF IsPut
<1>4. CASE (\E a : Deliver(r.conn, a)) /\ Finish /\ UNCHANGED <<up, doc, synced, store, promised>>
  <2>1. DOMAIN answers' = Conns
    BY <1>4, DeliverTypes DEF RuleInv, RuleTypes
  <2> QED BY <1>1, <1>2, <1>4, <2>1, QuietKeeps DEF Finish
<1>5. CASE /\ Replace(r.comm, r.desired, "durable") /\ job' = [stage |-> "publish", request |-> r]
           /\ backlog' = Tail(backlog) /\ Withdraw(r.comm) /\ UNCHANGED <<up, answers>>
  <2>0. "publish" \in {"publish", "undo", "republish", "reconcile"}
    OBVIOUS
  <2>1. /\ job' \in Jobs /\ job' # Idle /\ job'.stage = "publish" /\ job'.request = r
        /\ (\A k \in Comms : ~drifted => active[k] = Effective(store.rules)[k]) /\ doc = store
    BY <1>1, <1>2, <1>5, <2>0, TakenUp
  <2>2. /\ doc' \in Documents /\ store' = doc' /\ synced' = doc' /\ doc'.rules[r.comm] = r.desired
        /\ \A m \in Comms : m # r.comm => doc'.rules[m] = store.rules[m]
    BY <1>3, <1>5, ReplaceGives
  <2>3. /\ promised' \in [Comms -> States \union {None}] /\ promised'[r.comm] = None
        /\ \A m \in Comms : m # r.comm => promised'[m] = promised[m]
    BY <1>3, <1>5, WithdrawTypes
  <2>4. PromiseInv'
    BY <1>1, <1>3, <1>5, <2>3, ReplaceKeepsPromises
  <2>5. RuleTypes'
    BY <1>1, <1>5, <2>2, <2>3 DEF RuleInv, RuleTypes
  <2>6. JobInv'
    <3>1. job'.stage \notin {"republish", "reconcile"}
      BY <2>1
    <3> QED BY <1>1, <1>2, <1>5, <2>1, <2>2, <2>3, <3>1 DEF JobInv
  <2>7. AgreementInv'
    <3>1. ASSUME NEW k \in Comms, k # r.comm PROVE Effective(store'.rules)[k] = Effective(store.rules)[k]
      BY <2>2, <3>1 DEF Effective
    <3> QED BY <1>1, <2>1, <2>2, <3>1 DEF AgreementInv
  <2> QED BY <1>2, <1>5, <2>4, <2>5, <2>6, <2>7 DEF RuleInv
<1>6. CASE Replace(r.comm, r.desired, "unsynced") /\ Withdraw(r.comm) /\ Die(r.conn)
  <2>1. doc' \in Documents /\ store' = doc' /\ synced' \in Documents
    BY <1>3, <1>6, ReplaceGives
  <2>2. /\ promised' \in [Comms -> States \union {None}] /\ promised'[r.comm] = None
        /\ \A m \in Comms : m # r.comm => promised'[m] = promised[m]
    BY <1>3, <1>6, WithdrawTypes
  <2>3. PromiseInv'
    BY <1>1, <1>3, <1>6, <2>2, ReplaceKeepsPromises
  <2>4. Exit /\ DOMAIN answers' = Conns
    BY <1>6, DieTypes
  <2> QED BY <1>1, <2>1, <2>2, <2>3, <2>4, ExitKeeps
<1> QED BY <1>1, <1>4, <1>5, <1>6

\* The rule of a request that is served, with the file, the memory and the map.
LEMMA ServedRule ==
  ASSUME RuleInv, job.stage # "idle"
  PROVE  /\ JobInv /\ job \in Jobs /\ job # Idle /\ job.request.comm \in Comms
         /\ job.request.expected \in States /\ job.request.desired \in States
<1>1. job # Idle
  BY SMT DEF Idle
<1> QED BY <1>1 DEF RuleInv, JobInv, IsPut

\* The map gets the state that the memory has of the rule, and the request ends.
LEMMA EndsAgreed ==
  ASSUME RuleInv, NEW k \in Comms, Base[k] = Absent, job # Idle, k = job.request.comm,
         active' = [active EXCEPT ![k] = store.rules[k]], job' = Idle,
         UNCHANGED <<up, doc, synced, store, backlog, drifted>>, DOMAIN answers' = Conns,
         promised' \in [Comms -> States \union {None}], PromiseInv'
  PROVE  RuleInv'
<1>1. store.rules \in Tables /\ active \in Tables
  BY DEF RuleInv, RuleTypes, Documents
<1>2. /\ active' \in Tables /\ active'[k] = store.rules[k]
      /\ \A m \in Comms : m # k => active'[m] = active[m]
  BY <1>1 DEF Tables
<1>3. RuleTypes' /\ BacklogTypes'
  BY <1>2 DEF RuleInv, RuleTypes, BacklogTypes
<1>4. Effective(store.rules)[k] = store.rules[k]
  BY <1>1, EffectiveTypes
<1>5. AgreementInv'
  <2>1. Effective(store'.rules) = Effective(store.rules)
    OBVIOUS
  <2> QED BY <1>2, <1>4, <2>1 DEF RuleInv, AgreementInv
<1> QED BY <1>3, <1>5 DEF RuleInv

\* The next stage of a request that is served.
LEMMA NextStage ==
  ASSUME RuleInv, job.stage # "idle", NEW stage \in {"undo", "republish"},
         job' = [job EXCEPT !.stage = stage]
  PROVE  job' \in Jobs /\ job' # Idle /\ job'.stage = stage /\ job'.request = job.request
<1>1. job \in Jobs
  BY ServedRule
<1>2. job' \in Jobs /\ job'.stage = stage /\ job'.request = job.request
  BY <1>1 DEF Jobs
<1> QED BY <1>2, AnyJob

\* The map follows the file, or the save is undone.
LEMMA PublishKeeps ==
  ASSUME RuleInv, Publish
  PROVE  RuleInv'
<1> DEFINE r == job.request
<1>1. /\ up /\ job.stage = "publish" /\ UNCHANGED <<up, doc, synced, store, backlog, drifted>>
      /\ \/ job' = [job EXCEPT !.stage = "undo"] /\ UNCHANGED <<active, answers, promised>>
         \/ /\ active' = [active EXCEPT ![r.comm] = r.desired] /\ job' = Idle
            /\ \E a : Deliver(r.conn, a)
            /\ promised' = promised \/ promised' = [promised EXCEPT ![r.comm] = r.desired]
  BY DEF Publish
<1>0. job.stage # "idle" /\ job.stage \in {"publish", "undo"}
  BY <1>1
<1>2. /\ JobInv /\ job \in Jobs /\ job # Idle /\ r.comm \in Comms /\ r.desired \in States
      /\ IsPut(r) /\ Base[r.comm] = Absent
  BY <1>0, ServedRule DEF JobInv
<1>3. store.rules[r.comm] = r.desired /\ promised[r.comm] = None /\ synced = doc /\ doc = store
  BY <1>0, <1>1, <1>2 DEF JobInv, RuleInv, AgreementInv
<1>4. CASE job' = [job EXCEPT !.stage = "undo"] /\ UNCHANGED <<active, answers, promised>>
  <2>0. "undo" \in {"undo", "republish"}
    OBVIOUS
  <2>1. job' \in Jobs /\ job' # Idle /\ job'.stage = "undo" /\ job'.request = r
    BY <1>0, <1>4, <2>0, NextStage
  <2>2. JobInv'
    <3>1. job'.stage \notin {"republish", "reconcile"}
      BY <2>1
    <3> QED BY <1>1, <1>2, <1>3, <1>4, <2>1, <3>1 DEF JobInv
  <2>3. RuleTypes' /\ BacklogTypes' /\ PromiseInv' /\ AgreementInv'
    BY <1>1, <1>2, <1>4, <2>1 DEF RuleInv, RuleTypes, BacklogTypes, PromiseInv, AgreementInv
  <2> QED BY <2>2, <2>3 DEF RuleInv
<1>5. CASE /\ active' = [active EXCEPT ![r.comm] = r.desired] /\ job' = Idle
           /\ \E a : Deliver(r.conn, a)
           /\ promised' = promised \/ promised' = [promised EXCEPT ![r.comm] = r.desired]
  <2>1. DOMAIN answers' = Conns
    BY <1>5, DeliverTypes DEF RuleInv, RuleTypes
  <2>2. promised \in [Comms -> States \union {None}] /\ PromiseInv
    BY DEF RuleInv, RuleTypes
  <2>3. /\ promised' \in [Comms -> States \union {None}]
        /\ promised'[r.comm] # None => promised'[r.comm] = r.desired
        /\ \A m \in Comms : m # r.comm => promised'[m] = promised[m]
    BY <1>2, <1>3, <1>5, <2>2
  <2>4. PromiseInv'
    BY <1>1, <1>3, <2>2, <2>3 DEF PromiseInv
  <2> QED BY <1>1, <1>2, <1>3, <1>5, <2>1, <2>3, <2>4, EndsAgreed
<1> QED BY <1>1, <1>4, <1>5

\* The file is set back, and the rules in memory with it.
LEMMA UndoKeeps ==
  ASSUME RuleInv, Undo
  PROVE  RuleInv'
<1> DEFINE r == job.request
<1>1. /\ up /\ job.stage = "undo" /\ UNCHANGED <<active, promised, drifted>>
      /\ \/ Die(r.conn) /\ UNCHANGED <<doc, synced, store>>
         \/ Replace(r.comm, r.expected, "unsynced") /\ Die(r.conn)
         \/ /\ Replace(r.comm, r.expected, "durable")
            /\ job' = [job EXCEPT !.stage = "republish"]
            /\ UNCHANGED <<up, answers, backlog>>
  BY DEF Undo
<1>0. job.stage # "idle" /\ job.stage \in {"publish", "undo"}
  BY <1>1
<1>2. /\ JobInv /\ job \in Jobs /\ job # Idle /\ r.comm \in Comms /\ r.expected \in States
      /\ IsPut(r) /\ Base[r.comm] = Absent
  BY <1>0, ServedRule DEF JobInv
<1>3. promised[r.comm] = None /\ promised \in [Comms -> States \union {None}] /\ PromiseInv
  BY <1>0, <1>2 DEF JobInv, RuleInv, RuleTypes
<1>4. CASE Die(r.conn) /\ UNCHANGED <<doc, synced, store>>
  <2>1. Exit /\ DOMAIN answers' = Conns
    BY <1>4, DieTypes
  <2>2. doc \in Documents /\ synced \in Documents /\ store \in Documents /\ PromiseInv'
    BY <1>1, <1>3, <1>4 DEF RuleInv, RuleTypes, PromiseInv
  <2> QED BY <1>1, <1>3, <1>4, <2>1, <2>2, ExitKeeps
<1>5. CASE Replace(r.comm, r.expected, "unsynced") /\ Die(r.conn)
  <2>1. Exit /\ DOMAIN answers' = Conns
    BY <1>5, DieTypes
  <2>2. doc' \in Documents /\ synced' \in Documents /\ store' = doc'
    BY <1>2, <1>5, ReplaceGives
  <2>3. PromiseInv'
    BY <1>1, <1>2, <1>3, <1>5, ReplaceKeepsPromises
  <2> QED BY <1>1, <1>3, <2>1, <2>2, <2>3, ExitKeeps
<1>6. CASE /\ Replace(r.comm, r.expected, "durable")
           /\ job' = [job EXCEPT !.stage = "republish"] /\ UNCHANGED <<up, answers, backlog>>
  <2>0. "republish" \in {"undo", "republish"}
    OBVIOUS
  <2>1. job' \in Jobs /\ job' # Idle /\ job'.stage = "republish" /\ job'.request = r
    BY <1>0, <1>6, <2>0, NextStage
  <2>2. /\ doc' \in Documents /\ store' = doc' /\ synced' \in Documents /\ doc'.rules[r.comm] = r.expected
        /\ \A m \in Comms : m # r.comm => doc'.rules[m] = store.rules[m]
    BY <1>2, <1>6, ReplaceGives
  <2>3. PromiseInv'
    BY <1>1, <1>2, <1>3, <1>6, ReplaceKeepsPromises
  <2>4. RuleTypes' /\ BacklogTypes'
    BY <1>1, <1>3, <1>6, <2>2 DEF RuleInv, RuleTypes, BacklogTypes
  <2>5. JobInv'
    <3>1. job'.stage \notin {"publish", "undo", "reconcile"}
      BY <2>1
    <3> QED BY <1>1, <1>2, <1>6, <2>1, <2>2, <3>1 DEF JobInv
  <2>6. AgreementInv'
    <3>1. ASSUME NEW k \in Comms, k # r.comm PROVE Effective(store'.rules)[k] = Effective(store.rules)[k]
      BY <2>2, <3>1 DEF Effective
    <3> QED BY <1>1, <1>2, <1>6, <2>1, <2>2, <3>1 DEF RuleInv, AgreementInv
  <2> QED BY <2>3, <2>4, <2>5, <2>6 DEF RuleInv
<1> QED BY <1>1, <1>4, <1>5, <1>6

\* The map is set back, or written again.
LEMMA SetBackKeeps ==
  ASSUME RuleInv, Republish \/ Reconcile
  PROVE  RuleInv'
<1> DEFINE r == job.request
<1>1. /\ up /\ UNCHANGED <<doc, synced, store, promised, drifted>>
      /\ \/ job.stage = "republish"
         \/ job.stage = "reconcile"
      /\ \/ Die(r.conn) /\ UNCHANGED active
         \/ /\ \/ job.stage = "republish" /\ active' = [active EXCEPT ![r.comm] = r.expected]
               \/ job.stage = "reconcile" /\ active' = [active EXCEPT ![r.comm] = r.desired]
            /\ (\E a : Deliver(r.conn, a)) /\ job' = Idle /\ UNCHANGED <<up, backlog>>
  BY DEF Republish, Reconcile
<1>0. job.stage # "idle"
  BY <1>1
<1>2. JobInv /\ job # Idle /\ r.comm \in Comms /\ Base[r.comm] = Absent
  BY <1>0, ServedRule DEF JobInv
<1>3. /\ promised' \in [Comms -> States \union {None}] /\ PromiseInv'
      /\ doc' \in Documents /\ synced' \in Documents /\ store' \in Documents
  BY <1>1 DEF RuleInv, RuleTypes, PromiseInv
<1>4. CASE Die(r.conn) /\ UNCHANGED active
  <2>1. Exit /\ DOMAIN answers' = Conns
    BY <1>4, DieTypes
  <2> QED BY <1>1, <1>3, <1>4, <2>1, ExitKeeps
<1>5. CASE /\ \/ job.stage = "republish" /\ active' = [active EXCEPT ![r.comm] = r.expected]
              \/ job.stage = "reconcile" /\ active' = [active EXCEPT ![r.comm] = r.desired]
           /\ (\E a : Deliver(r.conn, a)) /\ job' = Idle /\ UNCHANGED <<up, backlog>>
  <2>1. active' = [active EXCEPT ![r.comm] = store.rules[r.comm]]
    BY <1>2, <1>5 DEF JobInv
  <2>2. DOMAIN answers' = Conns
    BY <1>5, DeliverTypes DEF RuleInv, RuleTypes
  <2> QED BY <1>1, <1>2, <1>3, <1>5, <2>1, <2>2, EndsAgreed
<1> QED BY <1>1, <1>4, <1>5

\* The scheduler starts without learned rules.
LEMMA RuleStarts == RuleInit => RuleInv
<1> SUFFICES ASSUME RuleInit PROVE RuleInv
  OBVIOUS
<1> DEFINE empty == [rules |-> [c \in Comms |-> Absent], revision |-> 0]
<1>1. /\ up = TRUE /\ doc = empty /\ synced = empty /\ store = empty /\ active = Effective(doc.rules)
      /\ job = Idle /\ backlog = <<>> /\ answers = [conn \in Conns |-> None]
      /\ promised = [c \in Comms |-> None] /\ drifted = FALSE
  BY DEF RuleInit
<1>2. empty \in Documents /\ empty.rules \in Tables
  BY DEF Documents, Tables, States
<1>3. DOMAIN answers = Conns /\ promised \in [Comms -> States \union {None}]
  BY <1>1
<1>4. \A k \in Comms : promised[k] = None
  BY <1>1
<1>5. RuleTypes
  BY <1>1, <1>2, <1>3, EffectiveTypes DEF RuleTypes
<1>6. BacklogTypes
  <2>1. <<>> \in Seq(SocketRequests) /\ \A i \in DOMAIN <<>> : FALSE
    BY SMT
  <2> QED BY <1>1, <2>1 DEF BacklogTypes
<1>7. AgreementInv /\ PromiseInv
  BY <1>1, <1>4 DEF AgreementInv, PromiseInv
<1> QED BY <1>1, <1>5, <1>6, <1>7 DEF RuleInv

\* What a client may ask for.
LEMMA RequestTypes ==
  ASSUME NEW conn \in Conns, NEW request \in Requests(conn)
  PROVE  request \in SocketRequests /\ (request.op = "cas" => IsPut(request)) /\ request.conn = conn
  BY SMT DEF Requests, Request, SocketRequests, IsPut

\* Every step keeps the invariant of the scheduler.
LEMMA RuleStepKeeps ==
  ASSUME RuleInv, [RuleNext(Conns)]_ruleVars
  PROVE  RuleInv'
<1>1. CASE Scheduler
  BY <1>1, ReadsKeep, ServeNoopKeeps, ServeSetKeeps, PublishKeeps, UndoKeeps, SetBackKeeps DEF Scheduler
<1>2. CASE Clients(Conns)
  <2>1. PICK conn \in Conns : \/ Receive(conn)
                              \/ GiveUp(conn)
                              \/ \E request \in Requests(conn) : Send(request)
    BY <1>2 DEF Clients
  <2>2. CASE \E request \in Requests(conn) : Send(request)
    BY <2>2, RequestTypes, SendKeeps
  <2> QED BY <2>1, <2>2, ReceiveKeeps, GiveUpKeeps
<1>3. CASE UNCHANGED ruleVars
  <2>1. UNCHANGED <<up, doc, synced, store, active, job, backlog, answers, promised, drifted>>
    BY <1>3 DEF ruleVars
  <2>2. DOMAIN answers' = Conns /\ BacklogTypes'
    BY <2>1 DEF RuleInv, RuleTypes, BacklogTypes
  <2> QED BY <2>1, <2>2, QuietKeeps
<1> QED BY <1>1, <1>2, <1>3, CrashKeeps, StartKeeps, DriftKeeps DEF RuleNext

\* So it always holds.
LEMMA RuleInvAlways == RuleSpec => []RuleInv
  BY RuleStarts, RuleStepKeeps, PTL DEF RuleSpec

\* It says that the file, the memory and the map agree, and that promises are kept.
LEMMA RuleInvSuffices == RuleInv => IdleMeansAgreed /\ AppliedIsDurable
<1> SUFFICES ASSUME RuleInv PROVE IdleMeansAgreed /\ AppliedIsDurable
  OBVIOUS
<1>1. AppliedIsDurable
  BY DEF RuleInv, PromiseInv, AppliedIsDurable
<1>2. ASSUME up, job = Idle PROVE doc = store /\ (~drifted => \A k \in Comms : active[k] = Effective(store.rules)[k])
  BY <1>2 DEF RuleInv, AgreementInv
<1>3. active \in Tables /\ Effective(store.rules) \in Tables
  <2>1. store.rules \in Tables
    BY DEF RuleInv, RuleTypes, Documents
  <2> QED BY <2>1, EffectiveTypes DEF RuleInv, RuleTypes
<1>4. (\A k \in Comms : active[k] = Effective(store.rules)[k]) => active = Effective(store.rules)
  <2>1. ASSUME NEW f \in Tables, NEW g \in Tables, \A k \in Comms : f[k] = g[k] PROVE f = g
    BY <2>1, SMT DEF Tables
  <2> QED BY <1>3, <2>1
<1> QED BY <1>1, <1>2, <1>4 DEF IdleMeansAgreed

\* Between two requests the learned-rules file, the rules in memory and the BPF map agree.
THEOREM RuleAgreement == RuleSpec => []IdleMeansAgreed
  BY RuleInvAlways, RuleInvSuffices, PTL

\* The answer a that a step puts on a connection is true of the map and the file.
TrueAnswer(a) ==
  a.status \in {"Applied", "Noop"} =>
    \A c \in DOMAIN a.rules : active'[c] = a.current /\ doc'.rules[c] = a.current

\* Every answer that a step puts on a connection is.
TrueAnswers ==
  \A conn \in Conns : answers'[conn] # answers[conn] /\ answers'[conn] # None => TrueAnswer(answers'[conn])

\* A step that delivers one answer.
LEMMA OneAnswer ==
  ASSUME DOMAIN answers = Conns, NEW conn, NEW a, Deliver(conn, a), TrueAnswer(a)
  PROVE  TrueAnswers
<1>1. ASSUME NEW c \in Conns, answers'[c] # answers[c] PROVE answers'[c] = a
  BY <1>1 DEF Deliver
<1> QED BY <1>1 DEF TrueAnswers

LEMMA OtherAnswers ==
  /\ TrueAnswer(Error) /\ TrueAnswer([status |-> "Closed"])
  /\ \A current, comms : /\ TrueAnswer(Answer("Ok", current, comms))
                         /\ TrueAnswer(Answer("Conflict", current, comms))
<1>1. Error.status = "Error" /\ [status |-> "Closed"].status = "Closed"
  BY DEF Error
<1>2. \A current, comms : /\ Answer("Ok", current, comms).status = "Ok"
                          /\ Answer("Conflict", current, comms).status = "Conflict"
  BY DEF Answer
<1>3. "Error" \notin {"Applied", "Noop"} /\ "Closed" \notin {"Applied", "Noop"}
      /\ "Ok" \notin {"Applied", "Noop"} /\ "Conflict" \notin {"Applied", "Noop"}
  OBVIOUS
<1> QED BY <1>1, <1>2, <1>3 DEF TrueAnswer

\* The answer to a compare-and-set that succeeded.
LEMMA NoopAnswer ==
  ASSUME NEW k, NEW state, active'[k] = state, doc'.rules[k] = state
  PROVE  TrueAnswer(Answer("Noop", state, {k}))
<1>1. Answer("Noop", state, {k}).current = state /\ DOMAIN Answer("Noop", state, {k}).rules = {k}
  BY DEF Answer
<1> QED BY <1>1 DEF TrueAnswer

\* The connections of a process that ends.
LEMMA LastAnswers ==
  ASSUME \A c \in Conns : answers'[c] \in {Error, [status |-> "Closed"], answers[c]}
  PROVE  TrueAnswers
  BY OtherAnswers DEF TrueAnswers

LEMMA DieAnswers ==
  ASSUME NEW conn, Die(conn)
  PROVE  TrueAnswers
<1>1. \A c \in Conns : answers'[c] \in {Error, [status |-> "Closed"], answers[c]}
  BY DEF Die, Closed
<1> QED BY <1>1, LastAnswers

LEMMA ServeAnswers ==
  ASSUME RuleInv, DropConnection \/ ServeRead \/ RefuseSet \/ ServeNoop \/ ServeSet
  PROVE  TrueAnswers
<1> DEFINE r == Head(backlog)
<1>0. DOMAIN answers = Conns
  BY DEF RuleInv, RuleTypes
<1>1. CASE DropConnection
  BY <1>0, <1>1, OneAnswer, OtherAnswers DEF DropConnection
<1>2. CASE ServeRead
  <2>1. \/ Deliver(r.conn, Error) \/ Deliver(r.conn, Answer("Ok", store.rules[r.comm], {r.comm}))
        \/ Deliver(r.conn, Answer("Ok", None, Comms))
    BY <1>2 DEF ServeRead
  <2> QED BY <1>0, <2>1, OneAnswer, OtherAnswers
<1>3. CASE RefuseSet
  <2>1. \/ Deliver(r.conn, Error) \/ Deliver(r.conn, Answer("Conflict", store.rules[r.comm], {r.comm}))
    BY <1>3 DEF RefuseSet
  <2> QED BY <1>0, <2>1, OneAnswer, OtherAnswers
<1>4. CASE ServeNoop
  <2>1. /\ up /\ store.rules[r.comm] = r.expected /\ r.expected = r.desired
        /\ \/ UNCHANGED answers
           \/ Deliver(r.conn, Error)
           \/ active[r.comm] = r.desired /\ Deliver(r.conn, Answer("Noop", r.desired, {r.comm}))
        /\ active' = active /\ doc' = doc
    BY <1>4 DEF ServeNoop
  <2>2. doc = store
    BY <2>1 DEF RuleInv, AgreementInv
  <2>3. CASE UNCHANGED answers
    BY <2>3 DEF TrueAnswers
  <2>4. CASE active[r.comm] = r.desired /\ Deliver(r.conn, Answer("Noop", r.desired, {r.comm}))
    <3>1. TrueAnswer(Answer("Noop", r.desired, {r.comm}))
      BY <2>1, <2>2, <2>4, NoopAnswer
    <3> QED BY <1>0, <2>4, <3>1, OneAnswer
  <2> QED BY <1>0, <2>1, <2>3, <2>4, OneAnswer, OtherAnswers
<1>5. CASE ServeSet
  <2>1. Deliver(r.conn, Error) \/ UNCHANGED answers \/ Die(r.conn)
    BY <1>5 DEF ServeSet
  <2>2. CASE UNCHANGED answers
    BY <2>2 DEF TrueAnswers
  <2> QED BY <1>0, <2>1, <2>2, OneAnswer, OtherAnswers, DieAnswers
<1> QED BY <1>1, <1>2, <1>3, <1>4, <1>5

LEMMA JobAnswers ==
  ASSUME RuleInv, Publish \/ Undo \/ Republish \/ Reconcile
  PROVE  TrueAnswers
<1> DEFINE r == job.request
<1>0. DOMAIN answers = Conns
  BY DEF RuleInv, RuleTypes
<1>8. CASE UNCHANGED answers
  BY <1>8 DEF TrueAnswers
<1>1. CASE Publish
  <2> DEFINE applied == [status |-> "Applied", current |-> r.desired,
                         rules |-> [c \in {r.comm} |->
                           [active |-> r.desired, persisted |-> doc.rules[c],
                            base |-> FALSE, consistent |-> doc = store]]]
  <2>1. /\ up /\ job.stage = "publish" /\ doc' = doc
        /\ \/ UNCHANGED answers
           \/ /\ active' = [active EXCEPT ![r.comm] = r.desired]
              /\ Deliver(r.conn, applied) \/ Deliver(r.conn, Error)
    BY <1>1 DEF Publish
  <2>2. job.stage # "idle" /\ job.stage \in {"publish", "undo"}
    BY <2>1
  <2>3. /\ r.comm \in Comms /\ doc = store /\ store.rules[r.comm] = r.desired /\ active \in Tables
    BY <2>1, <2>2, ServedRule DEF JobInv, RuleInv, RuleTypes, AgreementInv
  <2>4. applied.current = r.desired /\ DOMAIN applied.rules = {r.comm}
    OBVIOUS
  <2>5. ASSUME active' = [active EXCEPT ![r.comm] = r.desired] PROVE TrueAnswer(applied)
    <3>1. active'[r.comm] = r.desired
      BY <2>3, <2>5 DEF Tables
    <3> QED BY <2>1, <2>3, <2>4, <3>1 DEF TrueAnswer
  <2> HIDE DEF applied
  <2> QED BY <1>0, <1>8, <2>1, <2>5, OneAnswer, OtherAnswers
<1>2. CASE Undo
  BY <1>2, <1>8, DieAnswers DEF Undo
<1>3. CASE Republish
  BY <1>0, <1>3, DieAnswers, OneAnswer, OtherAnswers DEF Republish
<1>4. CASE Reconcile
  <2>1. /\ up /\ job.stage = "reconcile" /\ doc' = doc
        /\ \/ Die(r.conn)
           \/ /\ active' = [active EXCEPT ![r.comm] = r.desired]
              /\ Deliver(r.conn, Error) \/ Deliver(r.conn, Answer("Noop", r.desired, {r.comm}))
    BY <1>4 DEF Reconcile
  <2>2. job.stage # "idle"
    BY <2>1
  <2>3. /\ r.comm \in Comms /\ doc = store /\ store.rules[r.comm] = r.desired /\ active \in Tables
    BY <2>1, <2>2, ServedRule DEF JobInv, RuleInv, RuleTypes, AgreementInv
  <2>4. ASSUME active' = [active EXCEPT ![r.comm] = r.desired]
        PROVE  TrueAnswer(Answer("Noop", r.desired, {r.comm}))
    <3>1. active'[r.comm] = r.desired
      BY <2>3, <2>4 DEF Tables
    <3> QED BY <2>1, <2>3, <3>1, NoopAnswer
  <2> QED BY <1>0, <2>1, <2>4, DieAnswers, OneAnswer, OtherAnswers
<1> QED BY <1>1, <1>2, <1>3, <1>4

\* Every answer that a step of the scheduler gives is true.
LEMMA StepAnswers ==
  ASSUME RuleInv, [RuleNext(Conns)]_ruleVars
  PROVE  TrueAnswers
<1>0. DOMAIN answers = Conns
  BY DEF RuleInv, RuleTypes
<1>1. CASE Scheduler
  BY <1>1, ServeAnswers, JobAnswers DEF Scheduler
<1>2. CASE Clients(Conns)
  <2>1. PICK conn : UNCHANGED answers \/ answers' = [answers EXCEPT ![conn] = None]
    BY <1>2 DEF Clients, Receive, GiveUp, Send
  <2>2. \A c \in Conns : answers'[c] = answers[c] \/ answers'[c] = None
    BY <1>0, <2>1
  <2> QED BY <2>2 DEF TrueAnswers
<1>3. CASE Crash \/ PowerLoss
  <2>1. \A c \in Conns : answers'[c] \in {Error, [status |-> "Closed"], answers[c]}
    BY <1>3 DEF Crash, PowerLoss
  <2> QED BY <2>1, LastAnswers
<1>4. CASE UNCHANGED answers
  BY <1>4 DEF TrueAnswers
<1> QED BY <1>1, <1>2, <1>3, <1>4 DEF RuleNext, Start, DriftMap, ruleVars

\* An acknowledged rule is in force and stays: a compare-and-set is answered Applied or Noop
\* only with the rule in the BPF map and in the file, and an applied rule is on stable
\* storage until another request changes it (compare_and_set_rule).
THEOREM RuleAcknowledged == RuleSpec => AcknowledgedHolds
<1> DEFINE Step == \A conn \in Conns :
       answers'[conn] # answers[conn] /\ answers'[conn] # None
         /\ answers'[conn].status \in {"Applied", "Noop"}
       => \A c \in DOMAIN answers'[conn].rules :
            active'[c] = answers'[conn].current /\ doc'.rules[c] = answers'[conn].current
<1>1. RuleInv /\ [RuleNext(Conns)]_ruleVars => Step
  BY StepAnswers DEF TrueAnswers, TrueAnswer
<1>2. RuleSpec => [][Step]_ruleVars
  <2> HIDE DEF Step
  <2> QED BY <1>1, RuleInvAlways, PTL DEF RuleSpec
<1>3. RuleSpec => []AppliedIsDurable
  BY RuleInvAlways, RuleInvSuffices, PTL
<1> QED BY <1>2, <1>3, PTL DEF AcknowledgedHolds, AcknowledgedIsActive

----------------------------------------------------------------------------
(* The MCP server on the other end of the socket.                          *)

\* A change that was prepared, and the record of an operation with it.
Changes == [baseline : States, desired : States]

Results == {"applied", "restored", "finalized"}

Records ==
  [kind : Operations, input : Changes, phase : {"started", "completed"}, result : Results \union {None}]

Stages == {"idle", "begin", "lookup", "ask", "reading", "set", "setting", "complete"}

CallRecords ==
  [stage : Stages, kind : Operations \union {"prepare", "verify", None},
   purpose : {"prepare", "verify", "status", "preflight", "replay", "readback", None},
   input : Changes \union [baseline : {None}, desired : Classes] \union {None},
   result : Results \union {None}]

WellKept(record, op) == record \in Records /\ record.kind = op

\* A call of an operation, or of prepare or verify, which only read.
Mutates(call, kept) ==
  /\ call.kind \in Operations /\ call.purpose \in {"status", "preflight", "replay", "readback"}
  /\ call.stage \in {"begin", "set", "setting"} => call.purpose = "preflight"
  /\ call.stage = "complete" \/ call.purpose # "status" => call.input \in Changes
  /\ call.stage \in {"ask", "reading"} /\ call.purpose = "status" => WellKept(kept[call.kind], call.kind)

Reads(call) ==
  /\ call.kind \in {"prepare", "verify"} /\ call.purpose = call.kind /\ call.stage \in {"ask", "reading"}
  /\ call.kind = "prepare" => call.input \in [baseline : {None}, desired : Classes]

CallInv ==
  /\ server \in Procs
  /\ DOMAIN journal = Operations /\ \A op \in Operations : journal[op] # None => WellKept(journal[op], op)
  /\ calls \in [Procs -> CallRecords]
  /\ \A p \in Procs : calls[p].stage = "idle" \/ Mutates(calls[p], journal) \/ Reads(calls[p])
  /\ prepared # None => prepared \in Changes
  /\ reply # None => /\ calls[server].stage = "idle"
                     /\ reply.kind = "prepare" /\ reply.state = "prepared" => reply.input \in Changes

\* The request that a process has on the socket is the one its call is at.
AskedBy(call, r) ==
  \/ call.stage = "reading" /\ r.op = "get" /\ r.comm = Comm
  \/ call.stage = "setting" /\ r.op = "cas"

\* A process has one request on the socket, or is served, or has an answer.
ExchangeInv ==
  /\ \A i, j \in DOMAIN backlog : backlog[i].conn \in Procs /\ backlog[i].conn = backlog[j].conn => i = j
  /\ \A i \in DOMAIN backlog :
       backlog[i].conn \in Procs => answers[backlog[i].conn] = None /\ AskedBy(calls[backlog[i].conn], backlog[i])
  /\ job # Idle /\ job.request.conn \in Procs =>
       /\ answers[job.request.conn] = None /\ calls[job.request.conn].stage = "setting"
       /\ \A i \in DOMAIN backlog : backlog[i].conn # job.request.conn
  /\ \A p \in Procs : answers[p] # None => calls[p].stage \in {"reading", "setting"}

\* What the answer to a read says of the rule was so during the call.
TrueReading(a, states) ==
  Failed(a) \/ (a.current \in States /\ \A s \in States : Holds(a, s) => s \in states)

\* So was what a finished operation will report.
SightOf(call, answer, states) ==
  /\ call.stage = "reading" /\ answer # None => TrueReading(answer, states)
  /\ call.stage = "complete" => To(call) \in states /\ call.result = CompletedState[call.kind]

SightInv == \A p \in Procs : SightOf(calls[p], answers[p], seen[p])

ProviderInv == RuleInv /\ CallInv /\ ExchangeInv /\ SightInv /\ ReceiptIsTrue

\* What the history of a call holds after a step.
LEMMA ObserveGives ==
  ASSUME Observe
  PROVE  \A p \in Procs :
           /\ calls'[p].stage # "idle" /\ calls[p].stage # "idle" => seen[p] \subseteq seen'[p]
           /\ calls'[p].stage # "idle" /\ up' => Settled(store'.rules, doc'.rules, active') \subseteq seen'[p]
           /\ calls'[p].stage = "idle" /\ p = server' /\ reply' # None => seen'[p] = seen[p]
<1> DEFINE now == IF up' THEN Settled(store'.rules, doc'.rules, active') ELSE {}
<1>1. seen' = [p \in Procs |->
        IF calls'[p].stage # "idle" THEN now \union IF calls[p].stage = "idle" THEN {} ELSE seen[p]
        ELSE IF p = server' /\ reply' # None THEN seen[p] ELSE {}]
  BY DEF Observe
<1>2. up' => now = Settled(store'.rules, doc'.rules, active')
  OBVIOUS
<1> HIDE DEF now
<1>3. \A p \in Procs : seen'[p] =
        IF calls'[p].stage # "idle" THEN now \union IF calls[p].stage = "idle" THEN {} ELSE seen[p]
        ELSE IF p = server' /\ reply' # None THEN seen[p] ELSE {}
  BY <1>1
<1>4. ASSUME NEW p \in Procs, calls'[p].stage # "idle"
      PROVE  seen'[p] = now \union IF calls[p].stage = "idle" THEN {} ELSE seen[p]
  BY <1>3, <1>4
<1>5. ASSUME NEW p \in Procs, calls'[p].stage = "idle", p = server', reply' # None
      PROVE  seen'[p] = seen[p]
  BY <1>3, <1>5
<1>6. ASSUME NEW p \in Procs, calls'[p].stage # "idle", calls[p].stage # "idle"
      PROVE  seen[p] \subseteq seen'[p]
  <2>1. seen'[p] = now \union seen[p]
    BY <1>4, <1>6
  <2> QED BY <2>1
<1>7. ASSUME NEW p \in Procs, calls'[p].stage # "idle", up'
      PROVE  Settled(store'.rules, doc'.rules, active') \subseteq seen'[p]
  BY <1>2, <1>4, <1>7
<1> QED BY <1>5, <1>6, <1>7

\* The answer the agent has stays true while its server is idle.
LEMMA ReceiptKept ==
  ASSUME CallInv, ReceiptIsTrue, Observe, reply' = reply, server' = server, calls'[server] = calls[server]
  PROVE  ReceiptIsTrue'
<1> SUFFICES ASSUME reply # None PROVE seen'[server] = seen[server]
  BY DEF ReceiptIsTrue, StateOf
<1>1. server \in Procs /\ calls'[server].stage = "idle"
  BY DEF CallInv
<1> QED BY <1>1, ObserveGives

\* More was seen.
LEMMA ReadingKept ==
  ASSUME NEW a, NEW S, NEW T, TrueReading(a, S), S \subseteq T
  PROVE  TrueReading(a, T)
  BY DEF TrueReading

LEMMA SightKept ==
  ASSUME Observe, NEW p \in Procs, SightOf(calls[p], answers[p], seen[p]), calls'[p] = calls[p],
         answers'[p] = answers[p] \/ answers'[p] = None \/ TrueReading(answers'[p], seen'[p])
  PROVE  SightOf(calls'[p], answers'[p], seen'[p])
<1>1. calls[p].stage # "idle" => seen[p] \subseteq seen'[p]
  BY ObserveGives
<1>2. "reading" # "idle" /\ "complete" # "idle"
  OBVIOUS
<1>3. ASSUME calls[p].stage = "reading", answers'[p] # None PROVE TrueReading(answers'[p], seen'[p])
  BY <1>1, <1>2, <1>3, ReadingKept DEF SightOf
<1>4. ASSUME calls[p].stage = "complete"
      PROVE  To(calls'[p]) \in seen'[p] /\ calls'[p].result = CompletedState[calls'[p].kind]
  BY <1>1, <1>2, <1>4 DEF SightOf
<1> QED BY <1>3, <1>4 DEF SightOf

\* What is left of the backlog.
LEMMA RestOfBacklog ==
  ASSUME BacklogTypes, backlog # <<>>, backlog' = Tail(backlog)
  PROVE  /\ \A i \in DOMAIN backlog' : i + 1 \in DOMAIN backlog /\ i + 1 # 1 /\ backlog'[i] = backlog[i + 1]
         /\ \A i, j \in DOMAIN backlog' : i + 1 = j + 1 => i = j
         /\ 1 \in DOMAIN backlog /\ Head(backlog) = backlog[1]
  BY SMT DEF BacklogTypes

LEMMA DeliverGives ==
  ASSUME DOMAIN answers = Conns, NEW conn, NEW a, Deliver(conn, a)
  PROVE  \A q \in Procs : answers'[q] = answers[q] \/ (q = conn /\ answers'[q] = a)
  BY ProviderAssumption DEF Deliver

\* A process that has a request on the socket or an answer.
LEMMA Exchanging ==
  ASSUME ExchangeInv
  PROVE  /\ \A i \in DOMAIN backlog : backlog[i].conn \in Procs =>
              calls[backlog[i].conn].stage \in {"reading", "setting"}
         /\ job # Idle /\ job.request.conn \in Procs => calls[job.request.conn].stage \in {"reading", "setting"}
         /\ \A p \in Procs : answers[p] # None => calls[p].stage \in {"reading", "setting"}
  BY DEF ExchangeInv, AskedBy

\* The oldest request is answered, or becomes the one that is served.
LEMMA ServeExchange ==
  ASSUME RuleInv, ExchangeInv, calls' = calls, job = Idle, backlog # <<>>, backlog' = Tail(backlog),
         NEW r \in SocketRequests, r = Head(backlog),
         \/ job' = Idle /\ \E a : Deliver(r.conn, a)
         \/ job'.request = r /\ r.op = "cas" /\ answers' = answers
  PROVE  ExchangeInv'
<1>0. DOMAIN answers = Conns /\ BacklogTypes
  BY DEF RuleInv, RuleTypes
<1>1. /\ \A i \in DOMAIN backlog' : i + 1 \in DOMAIN backlog /\ i + 1 # 1 /\ backlog'[i] = backlog[i + 1]
      /\ \A i, j \in DOMAIN backlog' : i + 1 = j + 1 => i = j
      /\ 1 \in DOMAIN backlog /\ r = backlog[1]
  BY <1>0, RestOfBacklog
<1>2. \A q \in Procs : q # r.conn => answers'[q] = answers[q]
  BY <1>0, DeliverGives
<1>3. ASSUME NEW i \in DOMAIN backlog', NEW j \in DOMAIN backlog',
             backlog'[i].conn \in Procs, backlog'[i].conn = backlog'[j].conn
      PROVE  i = j
  <2>1. backlog[i + 1].conn \in Procs /\ backlog[i + 1].conn = backlog[j + 1].conn
    BY <1>1, <1>3
  <2>2. i + 1 = j + 1
    BY <1>1, <2>1 DEF ExchangeInv
  <2> QED BY <1>1, <2>2
<1>4. ASSUME NEW i \in DOMAIN backlog', backlog'[i].conn \in Procs
      PROVE  /\ answers'[backlog'[i].conn] = None /\ AskedBy(calls'[backlog'[i].conn], backlog'[i])
             /\ backlog'[i].conn # r.conn
  <2>0. \A k, m \in DOMAIN backlog : backlog[k].conn \in Procs /\ backlog[k].conn = backlog[m].conn => k = m
    BY DEF ExchangeInv
  <2>1. backlog[i + 1].conn \in Procs /\ backlog[i + 1].conn # r.conn
    BY <1>1, <1>4, <2>0
  <2>2. answers[backlog[i + 1].conn] = None /\ AskedBy(calls[backlog[i + 1].conn], backlog[i + 1])
    BY <1>1, <2>1 DEF ExchangeInv
  <2>3. backlog'[i] = backlog[i + 1]
    BY <1>1
  <2> QED BY <1>2, <2>1, <2>2, <2>3 DEF AskedBy
<1>5. r.conn \in Procs => /\ answers[r.conn] = None /\ calls[r.conn].stage \in {"reading", "setting"}
                          /\ r.op = "cas" => calls[r.conn].stage = "setting"
  <2>1. "cas" # "get"
    OBVIOUS
  <2> QED BY <1>1, <2>1 DEF ExchangeInv, AskedBy
<1>6. ASSUME job' # Idle, job'.request.conn \in Procs
      PROVE  /\ answers'[job'.request.conn] = None /\ calls'[job'.request.conn].stage = "setting"
             /\ \A i \in DOMAIN backlog' : backlog'[i].conn # job'.request.conn
  <2>1. job'.request = r /\ r.op = "cas" /\ answers' = answers
    BY <1>6
  <2> QED BY <1>4, <1>5, <1>6, <2>1
<1>7. ASSUME NEW p \in Procs, answers'[p] # None PROVE calls'[p].stage \in {"reading", "setting"}
  BY <1>2, <1>5, <1>7 DEF ExchangeInv
<1> QED BY <1>3, <1>4, <1>6, <1>7 DEF ExchangeInv

\* The request that is served goes on, or is answered.
LEMMA JobExchange ==
  ASSUME RuleInv, ExchangeInv, calls' = calls, job # Idle, backlog' = backlog,
         NEW conn, conn = job.request.conn,
         \/ job' = Idle /\ \E a : Deliver(conn, a)
         \/ job'.request = job.request /\ answers' = answers
  PROVE  ExchangeInv'
<1>0. DOMAIN answers = Conns
  BY DEF RuleInv, RuleTypes
<1>1. (\E a : Deliver(conn, a)) \/ answers' = answers
  OBVIOUS
<1>2. \A q \in Procs : q # conn => answers'[q] = answers[q]
  <2>1. CASE \E a : Deliver(conn, a)
    <3>1. PICK a : Deliver(conn, a)
      BY <2>1
    <3> QED BY <1>0, <3>1, DeliverGives, SMT
  <2>2. CASE answers' = answers
    BY <2>2
  <2> QED BY <1>1, <2>1, <2>2
<1>3. \A i \in DOMAIN backlog : backlog[i].conn \in Procs => backlog[i].conn # job.request.conn
  BY DEF ExchangeInv
<1>4. \A i \in DOMAIN backlog' :
        backlog'[i].conn \in Procs => answers'[backlog'[i].conn] = None /\ AskedBy(calls'[backlog'[i].conn], backlog'[i])
  BY <1>2, <1>3 DEF ExchangeInv, AskedBy
<1>5. job' # Idle /\ job'.request.conn \in Procs =>
       /\ answers'[job'.request.conn] = None /\ calls'[job'.request.conn].stage = "setting"
       /\ \A i \in DOMAIN backlog' : backlog'[i].conn # job'.request.conn
  BY DEF ExchangeInv
<1>6. \A p \in Procs : answers'[p] # None => calls'[p].stage \in {"reading", "setting"}
  BY <1>2, Exchanging DEF ExchangeInv
<1> QED BY <1>4, <1>5, <1>6 DEF ExchangeInv

LEMMA ExitExchange ==
  ASSUME ExchangeInv, calls' = calls, Exit,
         \A p \in Procs : answers'[p] = answers[p] \/ calls[p].stage \in {"reading", "setting"}
  PROVE  ExchangeInv'
<1>1. backlog' = <<>> /\ job' = Idle
  BY DEF Exit
<1>2. \A i \in DOMAIN backlog' : FALSE
  BY <1>1, SMT
<1> QED BY <1>1, <1>2 DEF ExchangeInv

\* Nothing happens on the socket, and a process that is not at an exchange moves.
LEMMA MoveExchange ==
  ASSUME ExchangeInv, UNCHANGED <<backlog, job, answers>>,
         NEW p \in Procs, calls[p].stage \notin {"reading", "setting"},
         \A q \in Procs : q # p => calls'[q] = calls[q]
  PROVE  ExchangeInv'
<1>1. \A i \in DOMAIN backlog : backlog[i].conn \in Procs => backlog[i].conn # p
  BY Exchanging
<1>2. job # Idle /\ job.request.conn \in Procs => job.request.conn # p
  BY Exchanging
<1>3. answers[p] = None
  BY Exchanging
<1>4. \A i \in DOMAIN backlog : backlog[i].conn \in Procs =>
        answers[backlog[i].conn] = None /\ AskedBy(calls'[backlog[i].conn], backlog[i])
  BY <1>1 DEF ExchangeInv, AskedBy
<1> QED BY <1>1, <1>2, <1>3, <1>4 DEF ExchangeInv

\* A process takes its answer.
LEMMA ReceiveExchange ==
  ASSUME RuleInv, ExchangeInv, NEW p \in Procs, Receive(p), \A q \in Procs : q # p => calls'[q] = calls[q]
  PROVE  ExchangeInv'
<1>1. answers[p] # None /\ answers' = [answers EXCEPT ![p] = None] /\ backlog' = backlog /\ job' = job
  BY DEF Receive
<1>2. answers'[p] = None /\ \A q \in Procs : q # p => answers'[q] = answers[q]
  BY <1>1, ProviderAssumption DEF RuleInv, RuleTypes
<1>3. \A i \in DOMAIN backlog : backlog[i].conn \in Procs => backlog[i].conn # p
  BY <1>1 DEF ExchangeInv
<1>4. job # Idle /\ job.request.conn \in Procs => job.request.conn # p
  BY <1>1 DEF ExchangeInv
<1>5. ASSUME NEW i \in DOMAIN backlog', backlog'[i].conn \in Procs
      PROVE  answers'[backlog'[i].conn] = None /\ AskedBy(calls'[backlog'[i].conn], backlog'[i])
  <2>1. i \in DOMAIN backlog /\ backlog'[i] = backlog[i] /\ backlog[i].conn \in Procs
    BY <1>1, <1>5
  <2>2. answers[backlog[i].conn] = None /\ AskedBy(calls[backlog[i].conn], backlog[i])
    BY <2>1 DEF ExchangeInv
  <2> QED BY <1>2, <1>3, <2>1, <2>2
<1> QED BY <1>1, <1>2, <1>3, <1>4, <1>5 DEF ExchangeInv

\* A process gives up: its request is nobody's.
LEMMA GiveUpExchange ==
  ASSUME RuleInv, ExchangeInv, NEW p \in Procs, GiveUp(p), \A q \in Procs : q # p => calls'[q] = calls[q]
  PROVE  ExchangeInv'
<1>1. /\ answers' = answers /\ backlog' = [i \in DOMAIN backlog |-> Forget(backlog[i], p)]
      /\ job' = IF job.stage = "idle" THEN job ELSE [job EXCEPT !.request = Forget(@, p)]
      /\ Waiting(p)
  BY DEF GiveUp
<1>2. \A i \in DOMAIN backlog : backlog[i] \in SocketRequests
  BY SMT DEF RuleInv, BacklogTypes
<1>3. DOMAIN backlog' = DOMAIN backlog /\ \A i \in DOMAIN backlog : backlog'[i] = Forget(backlog[i], p)
  BY <1>1
<1>4. Gone \notin Procs
  BY RuleAssumption, ProviderAssumption
<1>5. ASSUME NEW r \in SocketRequests, Forget(r, p).conn \in Procs
      PROVE  Forget(r, p) = r /\ r.conn # p
  <2>0. r.conn = p => Forget(r, p).conn = Gone
    BY Forgotten, SMT
  <2>1. r.conn # p
    BY <1>4, <1>5, <2>0
  <2> QED BY <2>1 DEF Forget
<1>6. ASSUME NEW i \in DOMAIN backlog, backlog'[i].conn \in Procs
      PROVE  backlog'[i] = backlog[i] /\ backlog[i].conn # p
  <2>1. PICK r \in SocketRequests : r = backlog[i]
    BY <1>2
  <2>2. backlog'[i] = Forget(r, p)
    BY <1>3, <2>1
  <2> QED BY <1>5, <1>6, <2>1, <2>2
<1>7. job = Idle => job' = Idle
  BY <1>1, SMT DEF Idle
<1>8. ASSUME job # Idle, job'.request.conn \in Procs
      PROVE  job'.request = job.request /\ job.request.conn # p
  <2>1. job \in Jobs
    BY <1>8 DEF RuleInv, JobInv
  <2>2. job.stage # "idle" /\ job.request \in SocketRequests
    BY <2>1, AnyJob DEF Jobs
  <2>3. PICK r \in SocketRequests : r = job.request
    BY <2>2
  <2>4. job' = [job EXCEPT !.request = Forget(r, p)]
    BY <1>1, <2>2, <2>3
  <2>5. job'.request = Forget(r, p)
    BY <2>1, <2>4 DEF Jobs
  <2> QED BY <1>5, <1>8, <2>3, <2>5
<1>9. answers[p] = None
  <2>1. CASE \E i \in DOMAIN backlog : backlog[i].conn = p
    BY <2>1 DEF ExchangeInv
  <2>2. CASE job.stage # "idle" /\ job.request.conn = p
    <3>1. job # Idle
      BY <2>2, SMT DEF Idle
    <3> QED BY <2>2, <3>1 DEF ExchangeInv
  <2> QED BY <1>1, <2>1, <2>2 DEF Waiting
<1>10. ASSUME NEW i \in DOMAIN backlog', backlog'[i].conn \in Procs
      PROVE  answers'[backlog'[i].conn] = None /\ AskedBy(calls'[backlog'[i].conn], backlog'[i])
  <2>1. i \in DOMAIN backlog /\ backlog'[i] = backlog[i] /\ backlog[i].conn # p /\ backlog[i].conn \in Procs
    BY <1>3, <1>6, <1>10
  <2>2. answers[backlog[i].conn] = None /\ AskedBy(calls[backlog[i].conn], backlog[i])
    BY <2>1 DEF ExchangeInv
  <2> QED BY <1>1, <2>1, <2>2
<1>11. ASSUME NEW i \in DOMAIN backlog', NEW j \in DOMAIN backlog',
             backlog'[i].conn \in Procs, backlog'[i].conn = backlog'[j].conn
      PROVE  i = j
  <2>1. /\ i \in DOMAIN backlog /\ j \in DOMAIN backlog /\ backlog'[j].conn \in Procs
        /\ backlog'[i] = backlog[i] /\ backlog'[j] = backlog[j]
    BY <1>3, <1>6, <1>11
  <2> QED BY <1>11, <2>1 DEF ExchangeInv
<1>12. ASSUME job' # Idle, job'.request.conn \in Procs
      PROVE  /\ answers'[job'.request.conn] = None /\ calls'[job'.request.conn].stage = "setting"
             /\ \A i \in DOMAIN backlog' : backlog'[i].conn # job'.request.conn
  <2>1. job'.request = job.request /\ job.request.conn # p /\ job # Idle
    BY <1>7, <1>8, <1>12
  <2>2. /\ answers[job.request.conn] = None /\ calls[job.request.conn].stage = "setting"
        /\ \A i \in DOMAIN backlog : backlog[i].conn # job.request.conn
    BY <1>12, <2>1 DEF ExchangeInv
  <2>3. ASSUME NEW i \in DOMAIN backlog', backlog'[i].conn = job'.request.conn PROVE FALSE
    <3>1. i \in DOMAIN backlog /\ backlog'[i] = backlog[i]
      BY <1>3, <1>6, <1>12, <2>3
    <3> QED BY <2>1, <2>2, <2>3, <3>1
  <2> QED BY <1>1, <1>12, <2>1, <2>2, <2>3
<1>13. \A q \in Procs : answers'[q] # None => calls'[q].stage \in {"reading", "setting"}
  BY <1>1, <1>9 DEF ExchangeInv
<1> QED BY <1>10, <1>11, <1>12, <1>13 DEF ExchangeInv

\* A client that has neither a request nor an answer on the socket sends a request.
LEMMA SendExchange ==
  ASSUME RuleInv, ExchangeInv, NEW r, Send(r), NEW conn \in Conns, r.conn = conn,
         conn \in Procs => AskedBy(calls'[conn], r),
         \A q \in Procs : q # conn => calls'[q] = calls[q]
  PROVE  ExchangeInv'
<1>1. /\ ~Waiting(r.conn) /\ answers[r.conn] = None /\ backlog' = Append(backlog, r)
      /\ answers' = answers /\ job' = job
  BY DEF Send
<1>2. /\ \A i \in DOMAIN backlog : backlog[i].conn # conn
      /\ job.stage # "idle" => job.request.conn # conn
  BY <1>1 DEF Waiting
<1>3. job # Idle => job.request.conn # conn
  <2>1. job # Idle => job \in Jobs
    BY DEF RuleInv, JobInv
  <2> QED BY <1>2, <2>1, AnyJob
<1>4. PICK k : /\ backlog'[k] = r
               /\ \A i \in DOMAIN backlog' : i = k \/ (i \in DOMAIN backlog /\ backlog'[i] = backlog[i])
  <2>1. PICK S : backlog \in Seq(S)
    BY DEF RuleInv, BacklogTypes
  <2>2. /\ Append(backlog, r)[Len(backlog) + 1] = r
        /\ \A i \in DOMAIN Append(backlog, r) :
             i = Len(backlog) + 1 \/ (i \in DOMAIN backlog /\ Append(backlog, r)[i] = backlog[i])
    BY <2>1, SMT
  <2> QED BY <1>1, <2>2
<1>5. ASSUME NEW i \in DOMAIN backlog', backlog'[i].conn \in Procs
      PROVE  answers'[backlog'[i].conn] = None /\ AskedBy(calls'[backlog'[i].conn], backlog'[i])
  <2>1. CASE i = k
    BY <1>1, <1>4, <1>5, <2>1
  <2>2. CASE i \in DOMAIN backlog /\ backlog'[i] = backlog[i]
    <3>1. answers[backlog[i].conn] = None /\ AskedBy(calls[backlog[i].conn], backlog[i])
      BY <1>5, <2>2 DEF ExchangeInv
    <3> QED BY <1>1, <1>2, <1>5, <2>2, <3>1
  <2> QED BY <1>4, <2>1, <2>2
<1>6. ASSUME NEW i \in DOMAIN backlog', NEW j \in DOMAIN backlog',
             backlog'[i].conn \in Procs, backlog'[i].conn = backlog'[j].conn
      PROVE  i = j
  <2>1. CASE i = k \/ j = k
    BY <1>2, <1>4, <1>6, <2>1
  <2>2. CASE i # k /\ j # k
    <3>1. /\ i \in DOMAIN backlog /\ backlog'[i] = backlog[i]
          /\ j \in DOMAIN backlog /\ backlog'[j] = backlog[j]
      BY <1>4, <2>2
    <3> QED BY <1>6, <3>1 DEF ExchangeInv
  <2> QED BY <2>1, <2>2
<1>7. ASSUME job' # Idle, job'.request.conn \in Procs
      PROVE  /\ answers'[job'.request.conn] = None /\ calls'[job'.request.conn].stage = "setting"
             /\ \A i \in DOMAIN backlog' : backlog'[i].conn # job'.request.conn
  <2>1. /\ answers[job.request.conn] = None /\ calls[job.request.conn].stage = "setting"
        /\ \A i \in DOMAIN backlog : backlog[i].conn # job.request.conn
    BY <1>1, <1>7 DEF ExchangeInv
  <2> QED BY <1>1, <1>3, <1>4, <1>7, <2>1
<1>8. \A q \in Procs : answers'[q] # None => calls'[q].stage \in {"reading", "setting"}
  BY <1>1 DEF ExchangeInv
<1> QED BY <1>5, <1>6, <1>7, <1>8 DEF ExchangeInv

\* A step that changes no call and no answer to a read.
LEMMA SightsKept ==
  ASSUME Observe, SightInv, calls' = calls,
         \A p \in Procs : \/ answers'[p] = answers[p]
                          \/ calls[p].stage # "reading"
                          \/ TrueReading(answers'[p], seen'[p])
  PROVE  SightInv'
<1>1. ASSUME NEW p \in Procs PROVE SightOf(calls'[p], answers'[p], seen'[p])
  <2>1. SightOf(calls[p], answers[p], seen[p])
    BY DEF SightInv
  <2>2. CASE answers'[p] = answers[p] \/ TrueReading(answers'[p], seen'[p])
    BY <2>1, <2>2, SightKept
  <2>3. CASE calls[p].stage # "reading"
    <3>1. calls[p].stage # "idle" => seen[p] \subseteq seen'[p]
      BY ObserveGives
    <3>2. "complete" # "idle"
      OBVIOUS
    <3> QED BY <2>1, <2>3, <3>1, <3>2 DEF SightOf
  <2> QED BY <2>2, <2>3
<1> QED BY <1>1 DEF SightInv

LEMMA FailedAnswers ==
  /\ Failed(Error) /\ Failed([status |-> "Closed"])
  /\ \A states : TrueReading(Error, states) /\ TrueReading([status |-> "Closed"], states)
<1>1. Failed(Error) /\ Failed([status |-> "Closed"])
  BY DEF Failed, Error
<1> QED BY <1>1 DEF TrueReading

\* The answer to get_rule: what it says the rule is in all places, it is.
LEMMA ReadingIsTrue ==
  ASSUME RuleInv, up', UNCHANGED <<store, doc, active>>, NEW S,
         Settled(store'.rules, doc'.rules, active') \subseteq S
  PROVE  TrueReading(Answer("Ok", store.rules[Comm], {Comm}), S)
<1> DEFINE a == Answer("Ok", store.rules[Comm], {Comm})
<1>1. /\ a.current = store.rules[Comm] /\ a.rules[Comm].active = active[Comm]
      /\ a.rules[Comm].persisted = doc.rules[Comm]
  BY DEF Answer, Observation
<1>2. store.rules[Comm] \in States
  BY ProviderAssumption DEF RuleInv, RuleTypes, Documents, Tables
<1>3. ASSUME NEW s \in States, Holds(a, s) PROVE s \in S
  <2>1. s = store.rules[Comm] /\ s = active[Comm] /\ s = doc.rules[Comm]
    BY <1>1, <1>3 DEF Holds, IntegrityMatches
  <2>2. s \in Settled(store'.rules, doc'.rules, active')
    BY <2>1 DEF Settled
  <2> QED BY <2>2
<1> QED BY <1>1, <1>2, <1>3 DEF TrueReading

\* The step that serves the oldest request.
LEMMA ServeSight ==
  ASSUME RuleInv, ExchangeInv, SightInv, Observe, calls' = calls, job = Idle, backlog # <<>>,
         backlog' = Tail(backlog), NEW r \in SocketRequests, r = Head(backlog),
         \/ /\ job' = Idle
            /\ \E a : /\ Deliver(r.conn, a)
                      /\ \/ r.op = "cas"
                         \/ \A q \in Procs : calls[q].stage = "reading" => TrueReading(a, seen'[q])
         \/ job'.request = r /\ r.op = "cas" /\ answers' = answers
  PROVE  ExchangeInv' /\ SightInv'
<1>1. ExchangeInv'
  BY ServeExchange
<1>2. CASE answers' = answers
  <2>1. SightInv'
    BY <1>2, SightsKept
  <2> QED BY <1>1, <2>1
<1>3. CASE \E a : /\ Deliver(r.conn, a)
                  /\ \/ r.op = "cas"
                     \/ \A q \in Procs : calls[q].stage = "reading" => TrueReading(a, seen'[q])
  <2>1. PICK a : /\ Deliver(r.conn, a)
                 /\ \/ r.op = "cas"
                    \/ \A q \in Procs : calls[q].stage = "reading" => TrueReading(a, seen'[q])
    BY <1>3
  <2>2. DOMAIN answers = Conns /\ 1 \in DOMAIN backlog /\ r = backlog[1]
    BY RestOfBacklog DEF RuleInv, RuleTypes
  <2>3. \A q \in Procs : answers'[q] = answers[q] \/ (q = r.conn /\ answers'[q] = a)
    BY <2>1, <2>2, DeliverGives
  <2>4. r.conn \in Procs /\ r.op = "cas" => calls[r.conn].stage # "reading"
    <3>1. "cas" # "get" /\ "setting" # "reading"
      OBVIOUS
    <3> QED BY <2>2, <3>1 DEF ExchangeInv, AskedBy
  <2>5. SightInv'
    BY <2>1, <2>3, <2>4, SightsKept
  <2> QED BY <1>1, <2>5
<1> QED BY <1>2, <1>3

\* The process of the scheduler ends.
LEMMA ExitSight ==
  ASSUME ExchangeInv, SightInv, Observe, calls' = calls, Exit,
         \A p \in Procs : \/ answers'[p] = answers[p]
                          \/ /\ calls[p].stage \in {"reading", "setting"}
                             /\ answers'[p] \in {Error, [status |-> "Closed"]}
  PROVE  ExchangeInv' /\ SightInv'
<1>1. ExchangeInv'
  BY ExitExchange
<1>2. SightInv'
  BY SightsKept, FailedAnswers
<1> QED BY <1>1, <1>2

LEMMA DieSight ==
  ASSUME RuleInv, ExchangeInv, SightInv, Observe, calls' = calls, NEW conn, Die(conn),
         conn \in Procs => calls[conn].stage \in {"reading", "setting"}
  PROVE  ExchangeInv' /\ SightInv'
<1>1. Exit
  BY DEF Die
<1>2. \A p \in Procs : \/ answers'[p] = answers[p]
                       \/ /\ p = conn \/ \E i \in DOMAIN backlog : backlog[i].conn = p
                          /\ answers'[p] \in {Error, [status |-> "Closed"]}
  BY ProviderAssumption DEF Die, Closed
<1>3. \A p \in Procs : \/ answers'[p] = answers[p]
                       \/ /\ calls[p].stage \in {"reading", "setting"}
                          /\ answers'[p] \in {Error, [status |-> "Closed"]}
  BY <1>2, Exchanging
<1> QED BY <1>1, <1>3, ExitSight

\* The step that goes on with the request that is served.
LEMMA JobSight ==
  ASSUME RuleInv, ExchangeInv, SightInv, Observe, calls' = calls, job.stage # "idle",
         NEW conn, conn = job.request.conn,
         \/ Die(conn)
         \/ job' = Idle /\ backlog' = backlog /\ \E a : Deliver(conn, a)
         \/ job'.request = job.request /\ backlog' = backlog /\ answers' = answers
  PROVE  ExchangeInv' /\ SightInv'
<1>0. job # Idle
  BY ServedRule
<1>1. conn \in Procs => calls[conn].stage = "setting"
  BY <1>0 DEF ExchangeInv
<1>2. CASE Die(conn)
  BY <1>1, <1>2, DieSight
<1>3. CASE job' = Idle /\ backlog' = backlog /\ \E a : Deliver(conn, a)
  <2>1. PICK a : Deliver(conn, a)
    BY <1>3
  <2>2. DOMAIN answers = Conns
    BY DEF RuleInv, RuleTypes
  <2>3. \A q \in Procs : answers'[q] = answers[q] \/ q = conn
    BY <2>1, <2>2, DeliverGives, SMT
  <2>4. "setting" # "reading"
    OBVIOUS
  <2>5. SightInv'
    BY <1>1, <2>3, <2>4, SightsKept
  <2>6. ExchangeInv'
    BY <1>0, <1>3, JobExchange
  <2> QED BY <2>5, <2>6
<1>4. CASE job'.request = job.request /\ backlog' = backlog /\ answers' = answers
  <2>1. SightInv'
    BY <1>4, SightsKept
  <2>2. ExchangeInv'
    BY <1>0, <1>4, JobExchange
  <2> QED BY <2>1, <2>2
<1> QED BY <1>2, <1>3, <1>4

LEMMA ServeReadSight ==
  ASSUME RuleInv, ExchangeInv, SightInv, Observe, calls' = calls, DropConnection \/ ServeRead
  PROVE  ExchangeInv' /\ SightInv'
<1>0. BacklogTypes /\ job = Idle /\ backlog # <<>> /\ backlog' = Tail(backlog) /\ job' = Idle /\ up
  BY DEF RuleInv, DropConnection, ServeRead, Finish
<1>1. PICK r \in SocketRequests : r = Head(backlog) /\ r = backlog[1] /\ 1 \in DOMAIN backlog
  BY <1>0, OldestRequest
<1>2. \/ Deliver(r.conn, Error) \/ Deliver(r.conn, [status |-> "Closed"])
      \/ /\ r.op = "get" /\ Deliver(r.conn, Answer("Ok", store.rules[r.comm], {r.comm}))
         /\ UNCHANGED <<store, doc, active, up>>
      \/ r.op = "snapshot" /\ \E a : Deliver(r.conn, a)
  <2>1. CASE DropConnection
    BY <1>1, <2>1 DEF DropConnection
  <2>2. CASE ServeRead
    <3>1. UNCHANGED <<store, doc, active, up>>
      BY <2>2 DEF ServeRead
    <3>2. \/ Deliver(r.conn, Error)
          \/ r.op = "get" /\ Deliver(r.conn, Answer("Ok", store.rules[r.comm], {r.comm}))
          \/ r.op = "snapshot" /\ Deliver(r.conn, Answer("Ok", None, Comms))
      BY <1>1, <2>2 DEF ServeRead
    <3> QED BY <3>1, <3>2
  <2> QED BY <2>1, <2>2
<1>3. CASE Deliver(r.conn, Error) \/ Deliver(r.conn, [status |-> "Closed"])
  BY <1>0, <1>1, <1>3, FailedAnswers, ServeSight
<1>4. CASE /\ r.op = "get" /\ Deliver(r.conn, Answer("Ok", store.rules[r.comm], {r.comm}))
           /\ UNCHANGED <<store, doc, active, up>>
  <2>1. CASE r.comm = Comm
    <3>1. \A q \in Procs : calls[q].stage = "reading" => Settled(store'.rules, doc'.rules, active') \subseteq seen'[q]
      <4>1. "reading" # "idle"
        OBVIOUS
      <4> QED BY <1>0, <1>4, <4>1, ObserveGives
    <3>2. \A q \in Procs : calls[q].stage = "reading" =>
            TrueReading(Answer("Ok", store.rules[Comm], {Comm}), seen'[q])
      BY <1>0, <1>4, <3>1, ReadingIsTrue
    <3> QED BY <1>0, <1>1, <1>4, <2>1, <3>2, ServeSight
  <2>2. CASE r.comm # Comm
    <3>1. r.conn \notin Procs
      <4>1. "get" # "cas"
        OBVIOUS
      <4> QED BY <1>1, <1>4, <2>2, <4>1 DEF ExchangeInv, AskedBy
    <3>2. ExchangeInv'
      BY <1>0, <1>1, <1>4, ServeExchange
    <3>3. \A q \in Procs : answers'[q] = answers[q]
      <4>1. DOMAIN answers = Conns
        BY DEF RuleInv, RuleTypes
      <4>2. PICK a : Deliver(r.conn, a)
        BY <1>4
      <4> QED BY <3>1, <4>1, <4>2, DeliverGives
    <3> QED BY <3>2, <3>3, SightsKept
  <2> QED BY <2>1, <2>2
<1>5. CASE r.op = "snapshot" /\ \E a : Deliver(r.conn, a)
  <2>1. r.conn \notin Procs
    <3>1. "snapshot" # "cas" /\ "snapshot" # "get"
      OBVIOUS
    <3> QED BY <1>1, <1>5, <3>1 DEF ExchangeInv, AskedBy
  <2>2. ExchangeInv'
    BY <1>0, <1>1, <1>5, ServeExchange
  <2>3. \A q \in Procs : answers'[q] = answers[q]
    <3>1. DOMAIN answers = Conns
      BY DEF RuleInv, RuleTypes
    <3>2. PICK a : Deliver(r.conn, a)
      BY <1>5
    <3> QED BY <2>1, <3>1, <3>2, DeliverGives
  <2> QED BY <2>2, <2>3, SightsKept
<1> QED BY <1>2, <1>3, <1>4, <1>5

LEMMA ServePutSight ==
  ASSUME RuleInv, ExchangeInv, SightInv, Observe, calls' = calls, RefuseSet \/ ServeNoop \/ ServeSet
  PROVE  ExchangeInv' /\ SightInv'
<1>0. BacklogTypes /\ job = Idle /\ backlog # <<>>
  BY DEF RuleInv, RefuseSet, ServeNoop, ServeSet
<1>1. PICK r \in SocketRequests : r = Head(backlog) /\ r = backlog[1] /\ 1 \in DOMAIN backlog
  BY <1>0, OldestRequest
<1>2. /\ r.op = "cas"
      /\ \/ backlog' = Tail(backlog) /\ job' = Idle /\ \E a : Deliver(r.conn, a)
         \/ /\ backlog' = Tail(backlog) /\ answers' = answers
            /\ \E stage : job' = [stage |-> stage, request |-> r]
         \/ Die(r.conn)
  <2>1. CASE RefuseSet
    BY <1>1, <2>1 DEF RefuseSet, Finish
  <2>2. CASE ServeNoop
    BY <1>1, <2>2 DEF ServeNoop
  <2>3. CASE ServeSet
    BY <1>1, <2>3 DEF ServeSet, Finish
  <2> QED BY <2>1, <2>2, <2>3
<1>3. CASE backlog' = Tail(backlog) /\ job' = Idle /\ \E a : Deliver(r.conn, a)
  BY <1>0, <1>1, <1>2, <1>3, ServeSight
<1>4. CASE /\ backlog' = Tail(backlog) /\ answers' = answers
           /\ \E stage : job' = [stage |-> stage, request |-> r]
  <2>1. job'.request = r
    BY <1>4, SMT
  <2> QED BY <1>0, <1>1, <1>2, <1>4, <2>1, ServeSight
<1>5. CASE Die(r.conn)
  <2>1. r.conn \in Procs => calls[r.conn].stage \in {"reading", "setting"}
    BY <1>1, Exchanging
  <2> QED BY <1>5, <2>1, DieSight
<1> QED BY <1>2, <1>3, <1>4, <1>5

LEMMA ServeJobSight ==
  ASSUME RuleInv, ExchangeInv, SightInv, Observe, calls' = calls, Publish \/ Undo \/ Republish \/ Reconcile
  PROVE  ExchangeInv' /\ SightInv'
<1>1. job.stage \in {"publish", "undo", "republish", "reconcile"}
  BY DEF Publish, Undo, Republish, Reconcile
<1>2. job.stage # "idle"
  BY <1>1
<1>3. PICK conn : conn = job.request.conn
  OBVIOUS
<1>4. \/ Die(conn)
      \/ job' = Idle /\ backlog' = backlog /\ \E a : Deliver(conn, a)
      \/ /\ backlog' = backlog /\ answers' = answers
         /\ \E stage \in {"undo", "republish"} : job' = [job EXCEPT !.stage = stage]
  BY <1>3 DEF Publish, Undo, Republish, Reconcile
<1>5. CASE \E stage \in {"undo", "republish"} : job' = [job EXCEPT !.stage = stage]
  BY <1>2, <1>3, <1>4, <1>5, NextStage, JobSight
<1> QED BY <1>2, <1>3, <1>4, <1>5, JobSight

\* Every step of the scheduler.
LEMMA SchedulerKeeps ==
  ASSUME ProviderInv, SchedulerStep, Observe
  PROVE  ProviderInv'
<1>0. /\ RuleInv /\ CallInv /\ ExchangeInv /\ SightInv /\ ReceiptIsTrue
      /\ UNCHANGED <<journal, calls, server, prepared, reply>>
      /\ Scheduler \/ Crash \/ Start
  BY DEF ProviderInv, SchedulerStep
<1>1. RuleInv'
  BY <1>0, RuleStepKeeps DEF RuleNext
<1>2. CallInv'
  BY <1>0 DEF CallInv
<1>3. ReceiptIsTrue'
  BY <1>0, ReceiptKept
<1>4. CASE Scheduler
  BY <1>0, <1>1, <1>2, <1>3, <1>4, ServeReadSight, ServePutSight, ServeJobSight DEF Scheduler, ProviderInv
<1>5. CASE Crash
  <2>1. Exit /\ answers' = [conn \in Conns |-> IF Waiting(conn) THEN [status |-> "Closed"] ELSE answers[conn]]
    BY <1>5 DEF Crash
  <2>2. \A p \in Procs : answers'[p] = answers[p] \/ (Waiting(p) /\ answers'[p] = [status |-> "Closed"])
    BY <2>1, ProviderAssumption
  <2>3. ASSUME NEW p \in Procs, Waiting(p) PROVE calls[p].stage \in {"reading", "setting"}
    <3>1. job.stage # "idle" => job # Idle
      BY SMT DEF Idle
    <3> QED BY <1>0, <2>3, <3>1, Exchanging DEF Waiting
  <2> QED BY <1>0, <1>1, <1>2, <1>3, <2>1, <2>2, <2>3, ExitSight DEF ProviderInv
<1>6. CASE Start
  <2>1. UNCHANGED <<backlog, job, answers>>
    BY <1>6 DEF Start
  <2>2. ExchangeInv'
    BY <1>0, <2>1 DEF ExchangeInv
  <2>3. SightInv'
    BY <1>0, <2>1, SightsKept
  <2> QED BY <1>1, <1>2, <1>3, <2>2, <2>3 DEF ProviderInv
<1> QED BY <1>0, <1>4, <1>5, <1>6

\* Every step of the other client.
LEMMA ExternalKeeps ==
  ASSUME ProviderInv, ExternalStep, Observe
  PROVE  ProviderInv'
<1>0. /\ RuleInv /\ CallInv /\ ExchangeInv /\ SightInv /\ ReceiptIsTrue
      /\ UNCHANGED <<journal, calls, server, prepared, reply>>
      /\ External \in Conns /\ External \notin Procs
  BY ProviderAssumption DEF ProviderInv, ExternalStep
<1>1. CallInv' /\ ReceiptIsTrue'
  <2>1. CallInv'
    BY <1>0 DEF CallInv
  <2> QED BY <1>0, <2>1, ReceiptKept
<1>2. CASE \E expected, desired \in States : Send(Request(External, "cas", Comm, expected, desired))
  <2>1. PICK expected \in States, desired \in States : Send(Request(External, "cas", Comm, expected, desired))
    BY <1>2
  <2>2. PICK r : r = Request(External, "cas", Comm, expected, desired)
    OBVIOUS
  <2>3. r \in SocketRequests /\ IsPut(r) /\ r.conn = External
    BY <1>0, <2>2, ProviderAssumption DEF Request, SocketRequests, IsPut
  <2>4. Send(r)
    BY <2>1, <2>2
  <2>5. RuleInv'
    BY <1>0, <2>3, <2>4, SendKeeps
  <2>6. ExchangeInv'
    BY <1>0, <2>3, <2>4, SendExchange
  <2>7. SightInv'
    BY <1>0, <2>4, SightsKept DEF Send
  <2> QED BY <1>1, <2>5, <2>6, <2>7 DEF ProviderInv
<1>3. CASE Receive(External)
  <2>1. RuleInv'
    BY <1>0, <1>3, ReceiveKeeps
  <2>2. answers' = [answers EXCEPT ![External] = None] /\ backlog' = backlog /\ job' = job
    BY <1>3 DEF Receive
  <2>3. \A q \in Procs : answers'[q] = answers[q]
    BY <1>0, <2>2, SMT
  <2>4. SightInv'
    BY <1>0, <2>3, SightsKept
  <2>5. ExchangeInv'
    BY <1>0, <2>2, <2>3 DEF ExchangeInv
  <2> QED BY <1>1, <2>1, <2>4, <2>5 DEF ProviderInv
<1> QED BY <1>2, <1>3 DEF ExternalStep

\* What a step may do to the journal.
JournalStep ==
  /\ DOMAIN journal' = Operations
  /\ \A op \in Operations : /\ WellKept(journal[op], op) => WellKept(journal'[op], op)
                            /\ journal'[op] # None => WellKept(journal'[op], op)

LEMMA JournalSaved ==
  ASSUME CallInv, NEW op \in Operations, NEW record, WellKept(record, op),
         journal' = journal \/ journal' = [journal EXCEPT ![op] = record]
  PROVE  JournalStep
<1>1. DOMAIN journal = Operations /\ \A k \in Operations : journal[k] # None => WellKept(journal[k], k)
  BY DEF CallInv
<1>2. DOMAIN journal' = Operations /\ \A k \in Operations : journal'[k] = journal[k] \/ (k = op /\ journal'[k] = record)
  BY <1>1
<1> QED BY <1>1, <1>2 DEF JournalStep

LEMMA JournalSame ==
  ASSUME CallInv, journal' = journal
  PROVE  JournalStep
  BY DEF CallInv, JournalStep

\* A process goes on with its call, or ends it.
LEMMA ProcKeeps ==
  ASSUME RuleInv', ExchangeInv', CallInv, SightInv, ReceiptIsTrue, Observe, JournalStep,
         NEW p \in Procs, NEW c \in CallRecords, calls' = [calls EXCEPT ![p] = c],
         calls[p].stage # "idle" \/ (reply' = None /\ c.stage # "complete"),
         server' = server, prepared' = prepared,
         \A q \in Procs : q # p => answers'[q] = answers[q],
         c.stage = "idle" \/ Mutates(c, journal') \/ Reads(c),
         c.stage = "reading" => answers'[p] = None,
         c.stage = "complete" => To(c) \in seen[p] /\ c.result = CompletedState[c.kind],
         \/ reply' = reply \/ reply' = None
         \/ /\ p = server /\ c.stage = "idle"
            /\ reply'.state = "prepared" => reply'.input \in Changes
            /\ reply'.state \in {"applied", "restored", "finalized", "not_applied"} => StateOf(reply') \in seen[p]
  PROVE  ProviderInv'
<1>1. /\ calls \in [Procs -> CallRecords] /\ server \in Procs
      /\ \A q \in Procs : calls[q].stage = "idle" \/ Mutates(calls[q], journal) \/ Reads(calls[q])
      /\ prepared # None => prepared \in Changes
      /\ reply # None => /\ calls[server].stage = "idle"
                         /\ reply.kind = "prepare" /\ reply.state = "prepared" => reply.input \in Changes
  BY DEF CallInv
<1>2. calls' \in [Procs -> CallRecords] /\ calls'[p] = c /\ \A q \in Procs : q # p => calls'[q] = calls[q]
  BY <1>1
<1>3. ASSUME NEW call \in CallRecords, Mutates(call, journal) PROVE Mutates(call, journal')
  BY <1>3 DEF Mutates, JournalStep
<1>4. ASSUME NEW q \in Procs PROVE calls'[q].stage = "idle" \/ Mutates(calls'[q], journal') \/ Reads(calls'[q])
  <2>1. calls[q] \in CallRecords
    BY <1>1
  <2>2. CASE q = p
    BY <1>2, <2>2
  <2>3. CASE q # p
    BY <1>1, <1>2, <1>3, <2>1, <2>3
  <2> QED BY <2>2, <2>3
<1>5. reply' = reply /\ reply' # None => p # server
  BY <1>1
<1>6. CallInv'
  <2>1. reply' # None => /\ calls'[server].stage = "idle"
                         /\ reply'.kind = "prepare" /\ reply'.state = "prepared" => reply'.input \in Changes
    BY <1>1, <1>2, <1>5
  <2> QED BY <1>1, <1>2, <1>4, <2>1 DEF CallInv, JournalStep
<1>7. SightInv'
  <2>1. ASSUME NEW q \in Procs, q # p PROVE SightOf(calls'[q], answers'[q], seen'[q])
    BY <1>2, <2>1, SightKept DEF SightInv
  <2>2. "complete" # "idle"
    OBVIOUS
  <2>3. c.stage = "complete" => seen[p] \subseteq seen'[p]
    BY <1>2, <2>2, ObserveGives
  <2>4. SightOf(c, answers'[p], seen'[p])
    BY <2>3 DEF SightOf
  <2> QED BY <1>2, <2>1, <2>4 DEF SightInv
<1>8. ReceiptIsTrue'
  <2>1. CASE reply' = reply /\ reply # None
    BY <1>1, <1>2, <1>5, <2>1, ReceiptKept
  <2>2. CASE reply' = None
    BY <2>2 DEF ReceiptIsTrue
  <2>3. CASE reply' # None /\ reply' # reply
    <3>1. seen'[server] = seen[p] /\ p = server
      BY <1>2, <2>3, ObserveGives
    <3> QED BY <2>3, <3>1 DEF ReceiptIsTrue, StateOf
  <2> QED BY <2>1, <2>2, <2>3
<1> QED BY <1>6, <1>7, <1>8 DEF ProviderInv

\* A call at another stage.
At(call, stage, purpose, input, result) ==
  [stage |-> stage, kind |-> call.kind, purpose |-> purpose, input |-> input, result |-> result]

\* A call at another stage, and with another purpose.
LEMMA StageUpdate ==
  ASSUME CallInv, NEW p \in Procs, NEW stage
  PROVE  [calls EXCEPT ![p].stage = stage] =
           [calls EXCEPT ![p] = At(calls[p], stage, calls[p].purpose, calls[p].input, calls[p].result)]
<1>1. calls \in [Procs -> CallRecords]
  BY DEF CallInv
<1>2. PICK call \in CallRecords : call = calls[p]
  BY <1>1
<1>3. [call EXCEPT !.stage = stage] = At(call, stage, call.purpose, call.input, call.result)
  BY SMT DEF CallRecords, At
<1>4. [calls EXCEPT ![p].stage = stage] = [calls EXCEPT ![p] = [calls[p] EXCEPT !.stage = stage]]
  BY <1>1
<1> QED BY <1>2, <1>3, <1>4

LEMMA PurposeUpdate ==
  ASSUME CallInv, NEW p \in Procs, NEW stage, NEW purpose
  PROVE  [calls EXCEPT ![p].stage = stage, ![p].purpose = purpose] =
           [calls EXCEPT ![p] = At(calls[p], stage, purpose, calls[p].input, calls[p].result)]
<1>1. calls \in [Procs -> CallRecords]
  BY DEF CallInv
<1>2. PICK call \in CallRecords : call = calls[p]
  BY <1>1
<1> DEFINE Fields == {"stage", "kind", "purpose", "input", "result"}
<1>3. [call EXCEPT !.stage = stage, !.purpose = purpose] = At(call, stage, purpose, call.input, call.result)
  <2>1. [call EXCEPT !.stage = stage, !.purpose = purpose] = [f \in Fields |-> IF f = "purpose" THEN purpose ELSE IF f = "stage" THEN stage ELSE call[f]]
    BY DEF CallRecords
  <2>2. At(call, stage, purpose, call.input, call.result) = [f \in Fields |-> IF f = "purpose" THEN purpose ELSE IF f = "stage" THEN stage ELSE call[f]]
    BY SMT DEF CallRecords, At
  <2> QED BY <2>1, <2>2
<1>4. [calls EXCEPT ![p].stage = stage, ![p].purpose = purpose] = [calls EXCEPT ![p] = [calls[p] EXCEPT !.stage = stage, !.purpose = purpose]]
  BY <1>1
<1> QED BY <1>2, <1>3, <1>4

\* A call whose operation is done, or found done.
LEMMA FinishedAt ==
  ASSUME CallInv, NEW p \in Procs, NEW result, Finished(p, result)
  PROVE  calls' = [calls EXCEPT ![p] = At(calls[p], "complete", calls[p].purpose, calls[p].input, result)]
<1>1. calls \in [Procs -> CallRecords]
  BY DEF CallInv
<1>2. PICK call \in CallRecords : call = calls[p]
  BY <1>1
<1> DEFINE Fields == {"stage", "kind", "purpose", "input", "result"}
<1>3. [call EXCEPT !.stage = "complete", !.result = result] = At(call, "complete", call.purpose, call.input, result)
  <2>1. [call EXCEPT !.stage = "complete", !.result = result] = [f \in Fields |-> IF f = "result" THEN result ELSE IF f = "stage" THEN "complete" ELSE call[f]]
    BY DEF CallRecords
  <2>2. At(call, "complete", call.purpose, call.input, result) = [f \in Fields |-> IF f = "result" THEN result ELSE IF f = "stage" THEN "complete" ELSE call[f]]
    BY SMT DEF CallRecords, At
  <2> QED BY <2>1, <2>2
<1>4. [calls EXCEPT ![p].stage = "complete", ![p].result = result] = [calls EXCEPT ![p] = [calls[p] EXCEPT !.stage = "complete", !.result = result]]
  BY <1>1
<1> QED BY <1>2, <1>3, <1>4 DEF Finished

LEMMA FoundDoneAt ==
  ASSUME CallInv, NEW p \in Procs, NEW result, NEW input,
     calls' = [calls EXCEPT ![p].stage = "complete", ![p].result = result, ![p].input = input]
  PROVE  calls' = [calls EXCEPT ![p] = At(calls[p], "complete", calls[p].purpose, input, result)]
<1>1. calls \in [Procs -> CallRecords]
  BY DEF CallInv
<1>2. PICK call \in CallRecords : call = calls[p]
  BY <1>1
<1> DEFINE Fields == {"stage", "kind", "purpose", "input", "result"}
<1>3. [call EXCEPT !.stage = "complete", !.result = result, !.input = input] = At(call, "complete", call.purpose, input, result)
  <2>1. [call EXCEPT !.stage = "complete", !.result = result, !.input = input] = [f \in Fields |-> 
             IF f = "input" THEN input
             ELSE IF f = "result" THEN result ELSE IF f = "stage" THEN "complete" ELSE call[f]]
    BY DEF CallRecords
  <2>2. At(call, "complete", call.purpose, input, result) = [f \in Fields |-> 
             IF f = "input" THEN input
             ELSE IF f = "result" THEN result ELSE IF f = "stage" THEN "complete" ELSE call[f]]
    BY SMT DEF CallRecords, At
  <2> QED BY <2>1, <2>2
<1>4. [calls EXCEPT ![p].stage = "complete", ![p].result = result, ![p].input = input] = [calls EXCEPT ![p] = [calls[p] EXCEPT !.stage = "complete", !.result = result, !.input = input]]
  BY <1>1
<1> QED BY <1>2, <1>3, <1>4

LEMMA AtTypes ==
  ASSUME NEW call \in CallRecords, NEW stage \in Stages,
         NEW purpose \in {"prepare", "verify", "status", "preflight", "replay", "readback", None},
         NEW input \in Changes \union [baseline : {None}, desired : Classes] \union {None},
         NEW result \in Results \union {None}
  PROVE  /\ At(call, stage, purpose, input, result) \in CallRecords
         /\ At(call, stage, purpose, input, result).stage = stage
         /\ At(call, stage, purpose, input, result).kind = call.kind
         /\ At(call, stage, purpose, input, result).purpose = purpose
         /\ At(call, stage, purpose, input, result).input = input
         /\ At(call, stage, purpose, input, result).result = result
  BY SMT DEF At, CallRecords

LEMMA QuietTypes == Quiet \in CallRecords /\ Quiet.stage = "idle"
  BY DEF Quiet, CallRecords, Stages

\* The call returns to the agent, if it is still there.
LEMMA ReturnKeeps ==
  ASSUME RuleInv', ExchangeInv', CallInv, SightInv, ReceiptIsTrue, Observe, JournalStep,
         NEW p \in Procs, calls[p].stage # "idle", NEW state, state # "prepared", Return(p, state),
         server' = server, prepared' = prepared, \A q \in Procs : q # p => answers'[q] = answers[q],
         state \in {"applied", "restored", "finalized", "not_applied"} =>
           StateOf([kind |-> calls[p].kind, state |-> state, input |-> calls[p].input]) \in seen[p]
  PROVE  ProviderInv'
<1> DEFINE answer == [kind |-> calls[p].kind, state |-> state, input |-> calls[p].input]
<1>1. calls' = [calls EXCEPT ![p] = Quiet] /\ reply' = IF p = server THEN answer ELSE reply
  BY DEF Return
<1>2. answer.state = state
  OBVIOUS
<1> HIDE DEF answer
<1>3. \/ reply' = reply
      \/ /\ p = server
         /\ reply'.state = "prepared" => reply'.input \in Changes
         /\ reply'.state \in {"applied", "restored", "finalized", "not_applied"} => StateOf(reply') \in seen[p]
  <2>1. CASE p = server
    BY <1>1, <1>2, <2>1 DEF answer
  <2>2. CASE p # server
    BY <1>1, <2>2
  <2> QED BY <2>1, <2>2
<1>4. "idle" # "reading" /\ "idle" # "complete"
  OBVIOUS
<1> QED BY <1>1, <1>3, <1>4, QuietTypes, ProcKeeps

LEMMA ErrorStates ==
  /\ "error" \notin {"applied", "restored", "finalized", "not_applied"} /\ "error" # "prepared"
  /\ "unknown" \notin {"applied", "restored", "finalized", "not_applied"} /\ "unknown" # "prepared"
  /\ "matched" \notin {"applied", "restored", "finalized", "not_applied"} /\ "matched" # "prepared"
  /\ "differs" \notin {"applied", "restored", "finalized", "not_applied"} /\ "differs" # "prepared"
  OBVIOUS

\* A step of a process that leaves the socket alone.
LEMMA OwnStep ==
  ASSUME RuleInv, ExchangeInv, UNCHANGED ruleVars, NEW p \in Procs, calls[p].stage \notin {"reading", "setting"},
         \A q \in Procs : q # p => calls'[q] = calls[q]
  PROVE  RuleInv' /\ ExchangeInv' /\ \A q \in Procs : answers'[q] = answers[q]
<1>1. RuleInv'
  BY RuleStepKeeps
<1>2. UNCHANGED <<backlog, job, answers>>
  BY DEF ruleVars
<1> QED BY <1>1, <1>2, MoveExchange

\* A call of an operation before it has read the rule.
LEMMA BeginGives ==
  ASSUME CallInv, NEW p \in Procs, calls[p].stage \in {"begin", "lookup", "set", "setting", "complete"}
  PROVE  /\ calls[p].stage # "idle" /\ Mutates(calls[p], journal) /\ calls[p].kind \in Operations
         /\ calls[p].stage # "lookup" => calls[p].input \in Changes
<1>1. calls[p].stage = "idle" \/ Mutates(calls[p], journal) \/ Reads(calls[p])
  BY DEF CallInv
<1>2. calls[p].stage # "idle" /\ calls[p].stage \notin {"ask", "reading"}
  OBVIOUS
<1>3. Mutates(calls[p], journal)
  BY <1>1, <1>2 DEF Reads
<1>4. "preflight" # "status"
  OBVIOUS
<1> QED BY <1>2, <1>3, <1>4 DEF Mutates

\* A call moves on in the same kind.
LEMMA OthersKeepCalls ==
  ASSUME CallInv, NEW p \in Procs, NEW c, calls' = [calls EXCEPT ![p] = c]
  PROVE  \A q \in Procs : q # p => calls'[q] = calls[q]
  BY DEF CallInv

LEMMA ReturnOthers ==
  ASSUME CallInv, NEW p \in Procs, NEW state, Return(p, state)
  PROVE  \A q \in Procs : q # p => calls'[q] = calls[q]
<1>1. calls' = [calls EXCEPT ![p] = Quiet]
  BY DEF Return
<1> QED BY <1>1, OthersKeepCalls

\* The call of an operation goes on to another stage than that of a finished operation.
LEMMA OperationAt ==
  ASSUME NEW call \in CallRecords, call.kind \in Operations, call.input \in Changes,
         NEW purpose \in {"preflight", "replay", "readback"},
         NEW stage \in {"ask", "reading", "set", "setting"},
         stage \in {"set", "setting"} => purpose = "preflight", NEW kept
  PROVE  /\ At(call, stage, purpose, call.input, call.result) \in CallRecords
         /\ At(call, stage, purpose, call.input, call.result).stage = stage
         /\ Mutates(At(call, stage, purpose, call.input, call.result), kept)
         /\ stage # "complete"
<1>1. call.result \in Results \union {None} /\ call.input \in Changes \union [baseline : {None}, desired : Classes] \union {None}
  BY DEF CallRecords
<1>2. /\ stage \in Stages /\ stage \notin {"begin", "complete"}
      /\ purpose \in {"prepare", "verify", "status", "preflight", "replay", "readback", None}
      /\ purpose \in {"status", "preflight", "replay", "readback"} /\ purpose # "status"
  BY DEF Stages
<1>3. PICK c : c = At(call, stage, purpose, call.input, call.result)
  OBVIOUS
<1>4. /\ c \in CallRecords /\ c.stage = stage /\ c.kind = call.kind /\ c.purpose = purpose
      /\ c.input = call.input
  BY <1>1, <1>2, <1>3 DEF At, CallRecords
<1>5. Mutates(c, kept)
  <2>1. c.stage \in {"begin", "set", "setting"} => c.purpose = "preflight"
    BY <1>2, <1>4
  <2> QED BY <1>2, <1>4, <2>1 DEF Mutates
<1> QED BY <1>2, <1>3, <1>4, <1>5

\* Journal::begin.
LEMMA BeginKeeps ==
  ASSUME ProviderInv, Observe, NEW p \in Procs, Begin(p)
  PROVE  ProviderInv'
<1> DEFINE record == journal[calls[p].kind]
           new == Record(calls[p].kind, calls[p].input)
<1>0. RuleInv /\ CallInv /\ ExchangeInv /\ SightInv /\ ReceiptIsTrue
  BY DEF ProviderInv
<1>1. calls[p].stage = "begin" /\ UNCHANGED <<ruleVars, server, prepared>>
  BY DEF Begin
<1>2. \/ Return(p, "error") /\ journal' = journal
      \/ /\ calls' = [calls EXCEPT ![p].stage = "ask",
                        ![p].purpose = IF record.phase = "completed" THEN "replay" ELSE "preflight"]
         /\ UNCHANGED <<journal, reply>>
      \/ Save(calls[p].kind, new) /\ Return(p, "error")
      \/ journal' = [journal EXCEPT ![calls[p].kind] = new] /\ Go(p, "ask")
  BY DEF Begin
<1>3. calls[p].stage \in {"begin", "lookup", "set", "setting", "complete"} /\ calls[p].stage \notin {"reading", "setting"}
      /\ calls[p].stage # "lookup"
  BY <1>1
<1>4. /\ calls[p].stage # "idle" /\ Mutates(calls[p], journal) /\ calls[p].kind \in Operations
      /\ calls[p].input \in Changes /\ calls[p].purpose = "preflight" /\ calls[p] \in CallRecords
  <2>1. calls[p] \in CallRecords
    BY <1>0 DEF CallInv
  <2>2. "begin" \in {"begin", "set", "setting"}
    OBVIOUS
  <2> QED BY <1>0, <1>1, <1>3, <2>1, <2>2, BeginGives DEF Mutates
<1>5. JournalStep
  <2>1. new \in Records /\ new.kind = calls[p].kind
    BY <1>4 DEF Record, Records
  <2>2. WellKept(new, calls[p].kind)
    BY <2>1 DEF WellKept
  <2>3. journal' = journal \/ journal' = [journal EXCEPT ![calls[p].kind] = new]
    BY <1>2 DEF Save
  <2> HIDE DEF new
  <2> QED BY <1>0, <1>4, <2>2, <2>3, JournalSaved
<1>6. server' = server /\ prepared' = prepared /\ UNCHANGED ruleVars
  BY <1>1
<1>7. CASE Return(p, "error")
  <2>1. RuleInv' /\ ExchangeInv' /\ \A q \in Procs : answers'[q] = answers[q]
    BY <1>0, <1>3, <1>6, <1>7, ReturnOthers, OwnStep
  <2> QED BY <1>0, <1>4, <1>5, <1>6, <1>7, <2>1, ErrorStates, ReturnKeeps
<1>8. CASE /\ \E purpose \in {"preflight", "replay", "readback"} :
                calls' = [calls EXCEPT ![p] = At(calls[p], "ask", purpose, calls[p].input, calls[p].result)]
           /\ reply' = reply
  <2>1. PICK purpose \in {"preflight", "replay", "readback"} :
           calls' = [calls EXCEPT ![p] = At(calls[p], "ask", purpose, calls[p].input, calls[p].result)]
    BY <1>8
  <2>2. PICK c : c = At(calls[p], "ask", purpose, calls[p].input, calls[p].result)
    OBVIOUS
  <2>3. "ask" \in {"ask", "reading", "set", "setting"} /\ "ask" \notin {"set", "setting"} /\ "ask" # "reading" /\ "ask" # "complete"
    OBVIOUS
  <2>4. c \in CallRecords /\ c.stage = "ask" /\ Mutates(c, journal')
    BY <1>4, <2>2, <2>3, OperationAt
  <2>5. calls' = [calls EXCEPT ![p] = c]
    BY <2>1, <2>2
  <2>6. RuleInv' /\ ExchangeInv' /\ \A q \in Procs : answers'[q] = answers[q]
    BY <1>0, <1>3, <1>6, <2>5, OthersKeepCalls, OwnStep
  <2> QED BY <1>0, <1>4, <1>5, <1>6, <1>8, <2>3, <2>4, <2>5, <2>6, ProcKeeps
<1>9. CASE /\ calls' = [calls EXCEPT ![p].stage = "ask",
                          ![p].purpose = IF record.phase = "completed" THEN "replay" ELSE "preflight"]
           /\ UNCHANGED <<journal, reply>>
  <2>1. PICK purpose : purpose = IF record.phase = "completed" THEN "replay" ELSE "preflight"
    OBVIOUS
  <2>2. purpose \in {"preflight", "replay", "readback"}
    BY <2>1
  <2>3. calls' = [calls EXCEPT ![p] = At(calls[p], "ask", purpose, calls[p].input, calls[p].result)]
    <3>1. calls' = [calls EXCEPT ![p].stage = "ask", ![p].purpose = purpose]
      BY <1>9, <2>1
    <3>2. [calls EXCEPT ![p].stage = "ask", ![p].purpose = purpose] =
            [calls EXCEPT ![p] = At(calls[p], "ask", purpose, calls[p].input, calls[p].result)]
      BY <1>0, PurposeUpdate
    <3> QED BY <3>1, <3>2
  <2> QED BY <1>8, <1>9, <2>2, <2>3
<1>10. CASE Go(p, "ask")
  <2>1. calls' = [calls EXCEPT ![p].stage = "ask"] /\ reply' = reply
    BY <1>10 DEF Go
  <2>2. calls' = [calls EXCEPT ![p] = At(calls[p], "ask", calls[p].purpose, calls[p].input, calls[p].result)]
    BY <1>0, <2>1, StageUpdate
  <2>3. calls[p].purpose \in {"preflight", "replay", "readback"}
    BY <1>4
  <2> QED BY <1>8, <2>1, <2>2, <2>3
<1> QED BY <1>2, <1>7, <1>9, <1>10

\* Journal::get.
LEMMA LookupKeeps ==
  ASSUME ProviderInv, Observe, NEW p \in Procs, Lookup(p)
  PROVE  ProviderInv'
<1>0. RuleInv /\ CallInv /\ ExchangeInv /\ SightInv /\ ReceiptIsTrue
  BY DEF ProviderInv
<1>1. /\ calls[p].stage = "lookup" /\ UNCHANGED ruleVars /\ journal' = journal
      /\ server' = server /\ prepared' = prepared
      /\ \/ Return(p, "unknown")
         \/ journal[calls[p].kind] # None /\ Go(p, "ask")
  BY DEF Lookup
<1>2. calls[p].stage \in {"begin", "lookup", "set", "setting", "complete"} /\ calls[p].stage \notin {"reading", "setting"}
  BY <1>1
<1>3. /\ calls[p].stage # "idle" /\ Mutates(calls[p], journal) /\ calls[p].kind \in Operations
      /\ calls[p] \in CallRecords
  <2>1. calls[p] \in CallRecords
    BY <1>0 DEF CallInv
  <2> QED BY <1>0, <1>2, <2>1, BeginGives
<1>4. JournalStep
  BY <1>0, <1>1, JournalSame
<1>5. CASE Return(p, "unknown")
  <2>1. RuleInv' /\ ExchangeInv' /\ \A q \in Procs : answers'[q] = answers[q]
    BY <1>0, <1>1, <1>2, <1>5, ReturnOthers, OwnStep
  <2> QED BY <1>0, <1>1, <1>3, <1>4, <1>5, <2>1, ErrorStates, ReturnKeeps
<1>6. CASE journal[calls[p].kind] # None /\ Go(p, "ask")
  <2>1. PICK c : c = At(calls[p], "ask", calls[p].purpose, calls[p].input, calls[p].result)
    OBVIOUS
  <2>2. calls' = [calls EXCEPT ![p] = c] /\ reply' = reply
    BY <1>0, <1>6, <2>1, StageUpdate DEF Go
  <2>3. /\ c \in CallRecords /\ c.stage = "ask" /\ c.kind = calls[p].kind /\ c.purpose = calls[p].purpose
        /\ c.input = calls[p].input
    BY <1>3, <2>1 DEF At, CallRecords, Stages
  <2>4. WellKept(journal[calls[p].kind], calls[p].kind)
    BY <1>0, <1>3, <1>6 DEF CallInv
  <2>5. "ask" \notin {"begin", "set", "setting"} /\ "ask" # "complete" /\ "ask" # "reading" /\ "ask" # "idle"
    OBVIOUS
  <2>6. Mutates(c, journal')
    BY <1>1, <1>3, <2>3, <2>4, <2>5 DEF Mutates
  <2>7. RuleInv' /\ ExchangeInv' /\ \A q \in Procs : answers'[q] = answers[q]
    BY <1>0, <1>1, <1>2, <2>2, OthersKeepCalls, OwnStep
  <2> QED BY <1>0, <1>1, <1>3, <1>4, <2>2, <2>3, <2>5, <2>6, <2>7, ProcKeeps
<1> QED BY <1>1, <1>5, <1>6

\* The state that a completed operation reports.
LEMMA CompletedGives ==
  ASSUME NEW call, NEW kind \in Operations, call.kind = kind
  PROVE  /\ CompletedState[kind] \in Results /\ CompletedState[kind] # "prepared"
         /\ StateOf([kind |-> kind, state |-> CompletedState[kind], input |-> call.input]) = To(call)
<1>1. kind = "apply" \/ kind = "restore" \/ kind = "finalize"
  BY DEF Operations
<1>2. CASE kind = "apply"
  BY <1>2, SMT DEF CompletedState, Results, StateOf, To
<1>3. CASE kind = "restore"
  BY <1>3, SMT DEF CompletedState, Results, StateOf, To
<1>4. CASE kind = "finalize"
  BY <1>4, SMT DEF CompletedState, Results, StateOf, To
<1> QED BY <1>1, <1>2, <1>3, <1>4

\* Journal::complete.
LEMMA CompleteKeeps ==
  ASSUME ProviderInv, Observe, NEW p \in Procs, Complete(p)
  PROVE  ProviderInv'
<1> DEFINE record == journal[calls[p].kind]
           done == [record EXCEPT !.phase = "completed", !.result = calls[p].result]
<1>0. RuleInv /\ CallInv /\ ExchangeInv /\ SightInv /\ ReceiptIsTrue
  BY DEF ProviderInv
<1>1. /\ calls[p].stage = "complete" /\ UNCHANGED ruleVars
      /\ server' = server /\ prepared' = prepared
      /\ \/ journal' = journal
         \/ record # None /\ journal' = [journal EXCEPT ![calls[p].kind] = done]
      /\ Return(p, "error") \/ Return(p, calls[p].result)
  BY DEF Complete, Save
<1>2. calls[p].stage \in {"begin", "lookup", "set", "setting", "complete"} /\ calls[p].stage \notin {"reading", "setting"}
  BY <1>1
<1>3. calls[p].stage # "idle" /\ calls[p].kind \in Operations
  BY <1>0, <1>2, BeginGives
<1>4. To(calls[p]) \in seen[p] /\ calls[p].result = CompletedState[calls[p].kind]
  BY <1>0, <1>1 DEF SightInv, SightOf
<1>5. /\ calls[p].result \in Results /\ calls[p].result # "prepared"
      /\ StateOf([kind |-> calls[p].kind, state |-> calls[p].result, input |-> calls[p].input]) = To(calls[p])
  BY <1>3, <1>4, CompletedGives
<1>6. JournalStep
  <2>1. CASE journal' = journal
    BY <1>0, <2>1, JournalSame
  <2>2. CASE record # None /\ journal' = [journal EXCEPT ![calls[p].kind] = done]
    <3>1. record \in Records /\ record.kind = calls[p].kind
      BY <1>0, <1>3, <2>2 DEF CallInv, WellKept
    <3>2. done \in Records /\ done.kind = record.kind
      BY <1>5, <3>1 DEF Records
    <3>3. WellKept(done, calls[p].kind)
      BY <3>1, <3>2 DEF WellKept
    <3> HIDE DEF done
    <3> QED BY <1>0, <1>3, <2>2, <3>3, JournalSaved
  <2> QED BY <1>1, <2>1, <2>2
<1>7. RuleInv' /\ ExchangeInv' /\ \A q \in Procs : answers'[q] = answers[q]
  BY <1>0, <1>1, <1>2, ReturnOthers, OwnStep
<1>8. CASE Return(p, "error")
  BY <1>0, <1>1, <1>3, <1>6, <1>7, <1>8, ErrorStates, ReturnKeeps
<1>9. CASE Return(p, calls[p].result)
  <2>1. PICK state : state = calls[p].result
    OBVIOUS
  <2>2. /\ Return(p, state) /\ state # "prepared"
        /\ StateOf([kind |-> calls[p].kind, state |-> state, input |-> calls[p].input]) \in seen[p]
    BY <1>4, <1>5, <1>9, <2>1
  <2> QED BY <1>0, <1>1, <1>3, <1>6, <1>7, <2>2, ReturnKeeps
<1> QED BY <1>1, <1>8, <1>9

\* A call that has asked for the rule is the same call.
LEMMA ReadingAt ==
  ASSUME NEW call \in CallRecords, call.stage = "ask", NEW kept, Mutates(call, kept) \/ Reads(call),
         NEW c, c = At(call, "reading", call.purpose, call.input, call.result)
  PROVE  c \in CallRecords /\ c.stage = "reading" /\ (Mutates(c, kept) \/ Reads(c))
<1>1. /\ c \in CallRecords /\ c.stage = "reading" /\ c.kind = call.kind /\ c.purpose = call.purpose
      /\ c.input = call.input
  BY DEF At, CallRecords, Stages
<1>2. /\ "reading" \notin {"begin", "set", "setting"} /\ "reading" # "complete"
      /\ "ask" # "complete" /\ "ask" \in {"ask", "reading"} /\ "reading" \in {"ask", "reading"}
  OBVIOUS
<1> QED BY <1>1, <1>2 DEF Mutates, Reads

\* A request of a call goes out, or cannot.
LEMMA AskKeeps ==
  ASSUME ProviderInv, Observe, NEW p \in Procs, Ask(p)
  PROVE  ProviderInv'
<1>0. RuleInv /\ CallInv /\ ExchangeInv /\ SightInv /\ ReceiptIsTrue
  BY DEF ProviderInv
<1>1. /\ calls[p].stage \in {"ask", "set"} /\ journal' = journal /\ server' = server /\ prepared' = prepared
      /\ \/ UNCHANGED ruleVars /\ Return(p, "error")
         \/ /\ calls[p].stage = "ask" /\ Send(Request(p, "get", Comm, None, None)) /\ Go(p, "reading")
         \/ /\ calls[p].stage = "set" /\ Send(Request(p, "cas", Comm, From(calls[p]), To(calls[p]))) /\ Go(p, "setting")
  <2>1. "ask" # "set"
    OBVIOUS
  <2> QED BY <2>1 DEF Ask
<1>2. /\ calls[p].stage \notin {"reading", "setting"} /\ calls[p].stage # "idle"
      /\ calls[p].stage = "set" => calls[p].stage # "lookup" /\ calls[p].stage \in {"begin", "lookup", "set", "setting", "complete"}
  BY <1>1
<1>3. calls[p] \in CallRecords /\ JournalStep /\ p \in Conns /\ Comm \in Comms
  <2>1. calls[p] \in CallRecords
    BY <1>0 DEF CallInv
  <2> QED BY <1>0, <1>1, <2>1, JournalSame, ProviderAssumption
<1>4. CASE UNCHANGED ruleVars /\ Return(p, "error")
  <2>1. RuleInv' /\ ExchangeInv' /\ \A q \in Procs : answers'[q] = answers[q]
    BY <1>0, <1>2, <1>4, ReturnOthers, OwnStep
  <2> QED BY <1>0, <1>1, <1>2, <1>3, <1>4, <2>1, ErrorStates, ReturnKeeps
<1>5. CASE calls[p].stage = "ask" /\ Send(Request(p, "get", Comm, None, None)) /\ Go(p, "reading")
  <2>1. PICK c : c = At(calls[p], "reading", calls[p].purpose, calls[p].input, calls[p].result)
    OBVIOUS
  <2>2. calls' = [calls EXCEPT ![p] = c] /\ reply' = reply
    BY <1>0, <1>5, <2>1, StageUpdate DEF Go
  <2>3. Mutates(calls[p], journal) \/ Reads(calls[p])
    BY <1>0, <1>2 DEF CallInv
  <2>4. c \in CallRecords /\ c.stage = "reading" /\ (Mutates(c, journal) \/ Reads(c))
    BY <1>3, <1>5, <2>1, <2>3, ReadingAt
  <2>5. PICK r : r = Request(p, "get", Comm, None, None)
    OBVIOUS
  <2>6. r \in SocketRequests /\ r.op = "get" /\ r.comm = Comm /\ r.conn = p /\ "get" # "cas"
    BY <1>3, <2>5 DEF Request, SocketRequests
  <2>7. Send(r) /\ answers' = answers /\ answers[p] = None
    BY <1>5, <2>5, <2>6 DEF Send
  <2>8. calls'[p] = c /\ \A q \in Procs : q # p => calls'[q] = calls[q]
    BY <1>0, <2>2 DEF CallInv
  <2>9. RuleInv'
    BY <1>0, <2>6, <2>7, SendKeeps
  <2>10. ExchangeInv'
    <3>1. AskedBy(calls'[p], r)
      BY <2>4, <2>6, <2>8 DEF AskedBy
    <3> QED BY <1>0, <1>3, <2>6, <2>7, <2>8, <3>1, SendExchange
  <2>11. "reading" # "complete"
    OBVIOUS
  <2> QED BY <1>0, <1>1, <1>2, <1>3, <2>2, <2>4, <2>7, <2>9, <2>10, <2>11, ProcKeeps
<1>6. CASE calls[p].stage = "set" /\ Send(Request(p, "cas", Comm, From(calls[p]), To(calls[p]))) /\ Go(p, "setting")
  <2>1. PICK c : c = At(calls[p], "setting", calls[p].purpose, calls[p].input, calls[p].result)
    OBVIOUS
  <2>2. calls' = [calls EXCEPT ![p] = c] /\ reply' = reply
    BY <1>0, <1>6, <2>1, StageUpdate DEF Go
  <2>3. Mutates(calls[p], journal) /\ calls[p].kind \in Operations /\ calls[p].input \in Changes
    BY <1>0, <1>2, <1>6, BeginGives
  <2>4. calls[p].purpose = "preflight" /\ "preflight" \in {"preflight", "replay", "readback"}
    <3>1. "set" \in {"begin", "set", "setting"}
      OBVIOUS
    <3> QED BY <1>6, <2>3, <3>1 DEF Mutates
  <2>5. c \in CallRecords /\ c.stage = "setting" /\ Mutates(c, journal')
    <3>1. "setting" \in {"ask", "reading", "set", "setting"}
      OBVIOUS
    <3>2. c = At(calls[p], "setting", "preflight", calls[p].input, calls[p].result)
      BY <2>1, <2>4
    <3> QED BY <1>3, <2>3, <2>4, <3>1, <3>2, OperationAt
  <2>6. From(calls[p]) \in States /\ To(calls[p]) \in States
    BY <2>3 DEF From, To, Changes
  <2>7. PICK r : r = Request(p, "cas", Comm, From(calls[p]), To(calls[p]))
    OBVIOUS
  <2>8. r \in SocketRequests /\ r.op = "cas" /\ IsPut(r) /\ r.conn = p
    BY <1>3, <2>6, <2>7 DEF Request, SocketRequests, IsPut
  <2>9. Send(r) /\ answers' = answers
    BY <1>6, <2>7 DEF Send
  <2>10. calls'[p] = c /\ \A q \in Procs : q # p => calls'[q] = calls[q]
    BY <1>0, <2>2 DEF CallInv
  <2>11. RuleInv'
    BY <1>0, <2>8, <2>9, SendKeeps
  <2>12. ExchangeInv'
    <3>1. AskedBy(calls'[p], r)
      BY <2>5, <2>8, <2>10 DEF AskedBy
    <3> QED BY <1>0, <1>3, <2>8, <2>9, <2>10, <3>1, SendExchange
  <2>13. "setting" # "complete" /\ "setting" # "reading"
    OBVIOUS
  <2> QED BY <1>0, <1>1, <1>2, <1>3, <2>2, <2>5, <2>9, <2>11, <2>12, <2>13, ProcKeeps
<1> QED BY <1>1, <1>4, <1>5, <1>6

\* The answer does not come in time.
LEMMA TimeOutKeeps ==
  ASSUME ProviderInv, Observe, NEW p \in Procs, TimeOut(p)
  PROVE  ProviderInv'
<1>0. RuleInv /\ CallInv /\ ExchangeInv /\ SightInv /\ ReceiptIsTrue
  BY DEF ProviderInv
<1>1. /\ calls[p].stage \in {"reading", "setting"} /\ GiveUp(p) /\ Return(p, "error")
      /\ journal' = journal /\ server' = server /\ prepared' = prepared /\ answers' = answers
  BY DEF TimeOut, GiveUp
<1>2. calls[p].stage # "idle"
  BY <1>1
<1>3. RuleInv' /\ JournalStep
  BY <1>0, <1>1, GiveUpKeeps, JournalSame
<1>4. ExchangeInv'
  BY <1>0, <1>1, ReturnOthers, GiveUpExchange
<1> QED BY <1>0, <1>1, <1>2, <1>3, <1>4, ErrorStates, ReturnKeeps

\* An answer is taken from the socket.
LEMMA HearGives ==
  ASSUME ProviderInv, NEW p \in Procs, calls[p].stage \in {"reading", "setting"}, Answered(p),
         \A q \in Procs : q # p => calls'[q] = calls[q]
  PROVE  /\ RuleInv /\ CallInv /\ ExchangeInv /\ SightInv /\ ReceiptIsTrue
         /\ RuleInv' /\ ExchangeInv' /\ JournalStep /\ calls[p].stage # "idle" /\ calls[p] \in CallRecords
         /\ server' = server /\ prepared' = prepared /\ journal' = journal
         /\ \A q \in Procs : q # p => answers'[q] = answers[q]
<1>0. RuleInv /\ CallInv /\ ExchangeInv /\ SightInv /\ ReceiptIsTrue
  BY DEF ProviderInv
<1>1. Receive(p) /\ journal' = journal /\ server' = server /\ prepared' = prepared
  BY DEF Answered
<1>2. calls[p].stage # "idle" /\ calls[p] \in CallRecords
  BY <1>0 DEF CallInv
<1>3. RuleInv' /\ ExchangeInv' /\ JournalStep
  BY <1>0, <1>1, ReceiveKeeps, ReceiveExchange, JournalSame
<1>4. \A q \in Procs : q # p => answers'[q] = answers[q]
  <2>1. answers' = [answers EXCEPT ![p] = None]
    BY <1>1 DEF Receive
  <2> QED BY <1>0, <2>1, ProviderAssumption DEF RuleInv, RuleTypes
<1> QED BY <1>0, <1>1, <1>2, <1>3, <1>4

\* A process that has heard the answer goes on with its call, or ends it.
LEMMA HearKeeps ==
  ASSUME ProviderInv, Observe, NEW p \in Procs, calls[p].stage \in {"reading", "setting"}, Answered(p),
         NEW c \in CallRecords, calls' = [calls EXCEPT ![p] = c], \A q \in Procs : q # p => calls'[q] = calls[q],
         c.stage # "reading", c.stage = "idle" \/ Mutates(c, journal') \/ Reads(c),
         c.stage = "complete" => To(c) \in seen[p] /\ c.result = CompletedState[c.kind],
         \/ reply' = reply \/ reply' = None
         \/ /\ p = server /\ c.stage = "idle"
            /\ reply'.state = "prepared" => reply'.input \in Changes
            /\ reply'.state \in {"applied", "restored", "finalized", "not_applied"} => StateOf(reply') \in seen[p]
  PROVE  ProviderInv'
<1>1. /\ CallInv /\ RuleInv' /\ ExchangeInv' /\ JournalStep /\ calls[p].stage # "idle" /\ SightInv /\ ReceiptIsTrue
      /\ server' = server /\ prepared' = prepared /\ \A q \in Procs : q # p => answers'[q] = answers[q]
  BY HearGives
<1> QED BY <1>1, ProcKeeps

\* A call ends with an answer that names no state of the rule.
LEMMA HearReturn ==
  ASSUME ProviderInv, Observe, NEW p \in Procs, calls[p].stage \in {"reading", "setting"}, Answered(p),
         NEW state \in {"error", "unknown", "matched", "differs"}, Return(p, state)
  PROVE  ProviderInv'
<1>1. CallInv
  BY DEF ProviderInv
<1>2. \A q \in Procs : q # p => calls'[q] = calls[q]
  BY <1>1, ReturnOthers
<1>3. state # "prepared" /\ state \notin {"applied", "restored", "finalized", "not_applied"}
  OBVIOUS
<1> QED BY <1>2, <1>3, HearGives, ReturnKeeps

\* The exchange failed, or the compare-and-set is answered.
LEMMA HearSetKeeps ==
  ASSUME ProviderInv, Observe, NEW p \in Procs, HearFailure(p) \/ HearSet(p)
  PROVE  ProviderInv'
<1>1. /\ Answered(p)
      /\ \/ calls[p].stage \in {"reading", "setting"} /\ Return(p, "error")
         \/ /\ calls[p].stage = "setting" /\ reply' = reply
            /\ calls' = [calls EXCEPT ![p].stage = "ask", ![p].purpose = "readback"]
  <2>1. "setting" \in {"reading", "setting"}
    OBVIOUS
  <2> QED BY <2>1 DEF HearFailure, HearSet
<1>2. CASE calls[p].stage \in {"reading", "setting"} /\ Return(p, "error")
  <2>1. "error" \in {"error", "unknown", "matched", "differs"}
    OBVIOUS
  <2> QED BY <1>1, <1>2, <2>1, HearReturn
<1>3. CASE /\ calls[p].stage = "setting" /\ reply' = reply
           /\ calls' = [calls EXCEPT ![p].stage = "ask", ![p].purpose = "readback"]
  <2>0. CallInv
    BY DEF ProviderInv
  <2>1. /\ calls[p].stage \in {"begin", "lookup", "set", "setting", "complete"} /\ calls[p].stage # "lookup"
        /\ calls[p].stage \in {"reading", "setting"}
        /\ "readback" \in {"preflight", "replay", "readback"}
        /\ "ask" \in {"ask", "reading", "set", "setting"} /\ "ask" \notin {"set", "setting"}
        /\ "ask" # "complete" /\ "ask" # "reading"
    BY <1>3
  <2>2. PICK c : c = At(calls[p], "ask", "readback", calls[p].input, calls[p].result)
    OBVIOUS
  <2>3. calls' = [calls EXCEPT ![p] = c]
    BY <1>3, <2>0, <2>2, PurposeUpdate
  <2>4. \A q \in Procs : q # p => calls'[q] = calls[q]
    BY <2>0, <2>3, OthersKeepCalls
  <2>5. calls[p].kind \in Operations /\ calls[p].input \in Changes /\ calls[p] \in CallRecords
    BY <1>1, <2>0, <2>1, <2>4, BeginGives, HearGives
  <2>6. c \in CallRecords /\ c.stage = "ask" /\ Mutates(c, journal')
    BY <2>1, <2>2, <2>5, OperationAt
  <2> QED BY <1>1, <1>3, <2>1, <2>3, <2>4, <2>6, HearKeeps
<1> QED BY <1>1, <1>2, <1>3

\* The answer to a read of the rule.
LEMMA HeardReading ==
  ASSUME ProviderInv, NEW p \in Procs, calls[p].stage = "reading", answers[p] # None, ~Failed(answers[p])
  PROVE  /\ answers[p].current \in States
         /\ \A s \in States : Holds(answers[p], s) => s \in seen[p]
         /\ calls[p].stage \in {"reading", "setting"}
  BY DEF ProviderInv, SightInv, SightOf, TrueReading

\* prepare and verify hear what the rule is.
LEMMA HearPlainKeeps ==
  ASSUME ProviderInv, Observe, NEW p \in Procs, HearPlain(p)
  PROVE  ProviderInv'
<1> DEFINE change == [calls[p].input EXCEPT !.baseline = answers[p].current]
           answer == [kind |-> "prepare", state |-> "prepared", input |-> change]
<1>1. /\ Answered(p) /\ calls[p].stage = "reading" /\ answers[p] # None /\ ~Failed(answers[p])
      /\ \/ \E state \in {"error", "matched", "differs"} : Return(p, state)
         \/ /\ calls[p].purpose = "prepare" /\ calls' = [calls EXCEPT ![p] = Quiet]
            /\ reply' = IF p # server THEN reply ELSE answer
  BY DEF HearPlain
<1>2. answers[p].current \in States /\ calls[p].stage \in {"reading", "setting"}
  BY <1>1, HeardReading
<1>3. CASE \E state \in {"error", "matched", "differs"} : Return(p, state)
  <2>1. PICK state \in {"error", "unknown", "matched", "differs"} : Return(p, state)
    BY <1>3
  <2> QED BY <1>1, <1>2, <2>1, HearReturn
<1>4. CASE /\ calls[p].purpose = "prepare" /\ calls' = [calls EXCEPT ![p] = Quiet]
           /\ reply' = IF p # server THEN reply ELSE answer
  <2>0. CallInv
    BY DEF ProviderInv
  <2>1. Reads(calls[p]) /\ calls[p].kind = "prepare"
    <3>1. "reading" # "idle" /\ "prepare" \notin {"status", "preflight", "replay", "readback"}
      OBVIOUS
    <3> QED BY <1>1, <1>4, <2>0, <3>1 DEF CallInv, Mutates, Reads
  <2>2. calls[p].input \in [baseline : {None}, desired : Classes]
    BY <2>1 DEF Reads
  <2>3. change \in Changes /\ answer.state = "prepared" /\ answer.input = change
    BY <1>2, <2>2 DEF Changes, States
  <2>4. \A q \in Procs : q # p => calls'[q] = calls[q]
    BY <1>4, <2>0, OthersKeepCalls
  <2>5. "prepared" \notin {"applied", "restored", "finalized", "not_applied"} /\ "idle" # "reading" /\ "idle" # "complete"
    OBVIOUS
  <2> HIDE DEF change, answer
  <2>6. \/ reply' = reply
        \/ p = server /\ reply' = answer
    BY <1>4
  <2>7. \/ reply' = reply \/ reply' = None
        \/ /\ p = server
           /\ reply'.state = "prepared" => reply'.input \in Changes
           /\ reply'.state \in {"applied", "restored", "finalized", "not_applied"} => StateOf(reply') \in seen[p]
    BY <2>3, <2>5, <2>6
  <2> QED BY <1>1, <1>2, <1>4, <2>4, <2>5, <2>7, QuietTypes, HearKeeps
<1> QED BY <1>1, <1>3, <1>4

\* What mutation_status infers of an operation was so.
LEMMA InferGives ==
  ASSUME NEW record \in Records, NEW a, NEW S, \A s \in States : Holds(a, s) => s \in S,
         NEW state, state = InferState(record, a)
  PROVE  /\ state # "prepared"
         /\ state \in {"applied", "restored", "finalized", "not_applied"} =>
              StateOf([kind |-> record.kind, state |-> state, input |-> record.input]) \in S
<1>1. record.input.baseline \in States /\ record.input.desired \in States
  BY DEF Records, Changes
<1>2. \/ state \in {"applied", "finalized"} /\ Holds(a, record.input.desired)
      \/ state \in {"restored", "not_applied"} /\ Holds(a, record.input.baseline)
      \/ state = "unknown"
  BY DEF InferState
<1>3. PICK r : r = [kind |-> record.kind, state |-> state, input |-> record.input]
  OBVIOUS
<1>4. r.state = state /\ r.input = record.input
  BY <1>3
<1>5. CASE state \in {"applied", "finalized"} /\ Holds(a, record.input.desired)
  <2>1. StateOf(r) = record.input.desired /\ state # "prepared"
    BY <1>4, <1>5 DEF StateOf
  <2> QED BY <1>1, <1>3, <1>5, <2>1
<1>6. CASE state \in {"restored", "not_applied"} /\ Holds(a, record.input.baseline)
  <2>1. StateOf(r) = record.input.baseline /\ state # "prepared"
    BY <1>4, <1>6 DEF StateOf
  <2> QED BY <1>1, <1>3, <1>6, <2>1
<1>7. CASE state = "unknown"
  BY <1>7, ErrorStates
<1> QED BY <1>2, <1>5, <1>6, <1>7

\* mutation_status hears what the rule is.
LEMMA HearStatusKeeps ==
  ASSUME ProviderInv, Observe, NEW p \in Procs, HearStatus(p)
  PROVE  ProviderInv'
<1>0. CallInv
  BY DEF ProviderInv
<1>1. PICK record, state :
      /\ record = journal[calls[p].kind] /\ state = InferState(record, answers[p])
      /\ Answered(p) /\ calls[p].stage = "reading" /\ answers[p] # None /\ ~Failed(answers[p])
      /\ calls[p].purpose = "status"
      /\ IF state = CompletedState[record.kind]
           THEN calls' = [calls EXCEPT ![p].stage = "complete", ![p].result = state,
                                       ![p].input = record.input] /\ reply' = reply
           ELSE calls' = [calls EXCEPT ![p] = Quiet]
                /\ reply' = IF p # server THEN reply
                            ELSE [kind |-> record.kind, state |-> state, input |-> record.input]
  BY DEF HearStatus
<1>2. calls[p].stage \in {"reading", "setting"} /\ \A s \in States : Holds(answers[p], s) => s \in seen[p]
  BY <1>1, HeardReading
<1>3. Mutates(calls[p], journal) /\ record \in Records /\ record.kind = calls[p].kind /\ calls[p].kind \in Operations
  <2>1. "reading" # "idle" /\ "status" \notin {"prepare", "verify"} /\ "reading" \in {"ask", "reading"}
    OBVIOUS
  <2>2. Mutates(calls[p], journal)
    BY <1>0, <1>1, <2>1 DEF CallInv, Reads
  <2> QED BY <1>1, <2>1, <2>2 DEF Mutates, WellKept
<1>4. /\ state # "prepared"
      /\ state \in {"applied", "restored", "finalized", "not_applied"} =>
           StateOf([kind |-> record.kind, state |-> state, input |-> record.input]) \in seen[p]
  BY <1>1, <1>2, <1>3, InferGives
<1>5. CASE state = CompletedState[record.kind]
  <2>1. PICK c : c = At(calls[p], "complete", calls[p].purpose, record.input, state)
    OBVIOUS
  <2>2. calls' = [calls EXCEPT ![p] = c] /\ reply' = reply
    <3>1. calls' = [calls EXCEPT ![p].stage = "complete", ![p].result = state, ![p].input = record.input]
      BY <1>1, <1>5
    <3>2. PICK input : input = record.input
      OBVIOUS
    <3>3. calls' = [calls EXCEPT ![p] = At(calls[p], "complete", calls[p].purpose, input, state)]
      BY <1>0, <3>1, <3>2, FoundDoneAt
    <3> QED BY <1>1, <1>5, <2>1, <3>2, <3>3
  <2>3. \A q \in Procs : q # p => calls'[q] = calls[q]
    BY <1>0, <2>2, OthersKeepCalls
  <2>4. calls[p] \in CallRecords /\ record.input \in Changes /\ state \in Results
    <3>1. calls[p] \in CallRecords
      BY <1>0 DEF CallInv
    <3>2. record.input \in Changes
      BY <1>3 DEF Records
    <3> QED BY <1>3, <1>5, <3>1, <3>2, CompletedGives
  <2>5. /\ c \in CallRecords /\ c.stage = "complete" /\ c.kind = record.kind /\ c.purpose = "status"
        /\ c.input = record.input /\ c.result = state
    BY <1>1, <1>3, <2>1, <2>4 DEF At, CallRecords, Stages
  <2>6. Mutates(c, journal')
    <3>1. "complete" \notin {"begin", "set", "setting", "ask", "reading"}
      OBVIOUS
    <3> QED BY <1>3, <2>4, <2>5, <3>1 DEF Mutates
  <2>7. To(c) \in seen[p]
    <3>1. StateOf([kind |-> record.kind, state |-> state, input |-> record.input]) = To(c)
      BY <1>3, <1>5, <2>5, CompletedGives
    <3>2. state \in {"applied", "restored", "finalized", "not_applied"}
      BY <2>4 DEF Results
    <3> QED BY <1>4, <3>1, <3>2
  <2>8. "complete" # "reading"
    OBVIOUS
  <2> QED BY <1>1, <1>2, <1>5, <2>2, <2>3, <2>5, <2>6, <2>7, <2>8, HearKeeps
<1>6. CASE state # CompletedState[record.kind]
  <2>1. PICK answer : answer = [kind |-> record.kind, state |-> state, input |-> record.input]
    OBVIOUS
  <2>2. answer.state = state
    BY <2>1
  <2>3. calls' = [calls EXCEPT ![p] = Quiet] /\ (reply' = reply \/ (p = server /\ reply' = answer))
    BY <1>1, <1>6, <2>1
  <2>4. \A q \in Procs : q # p => calls'[q] = calls[q]
    BY <1>0, <2>3, OthersKeepCalls
  <2>5. \/ reply' = reply \/ reply' = None
        \/ /\ p = server
           /\ reply'.state = "prepared" => reply'.input \in Changes
           /\ reply'.state \in {"applied", "restored", "finalized", "not_applied"} => StateOf(reply') \in seen[p]
    BY <1>4, <2>1, <2>2, <2>3
  <2>6. "idle" # "reading" /\ "idle" # "complete"
    OBVIOUS
  <2> QED BY <1>1, <1>2, <2>3, <2>4, <2>5, <2>6, QuietTypes, HearKeeps
<1> QED BY <1>5, <1>6

\* A call that reads the rule for an operation.
LEMMA HeardOperation ==
  ASSUME CallInv, NEW p \in Procs, calls[p].stage = "reading",
         calls[p].purpose \in {"preflight", "replay", "readback"}
  PROVE  /\ calls[p].kind \in Operations /\ calls[p].input \in Changes /\ calls[p] \in CallRecords
         /\ Mutates(calls[p], journal)
<1>1. /\ "reading" # "idle" /\ \A s \in {"preflight", "replay", "readback"} : s \notin {"prepare", "verify", "status"}
      /\ "reading" \notin {"begin", "complete"}
  OBVIOUS
<1>2. Mutates(calls[p], journal) /\ calls[p] \in CallRecords
  BY <1>1 DEF CallInv, Reads
<1>3. calls[p].purpose # "status" /\ calls[p].stage # "lookup"
  BY <1>1
<1> QED BY <1>2, <1>3 DEF Mutates

\* apply, restore and finalize hear what the rule is.
LEMMA HearOperationKeeps ==
  ASSUME ProviderInv, Observe, NEW p \in Procs, HearOperation(p)
  PROVE  ProviderInv'
<1>0. CallInv
  BY DEF ProviderInv
<1>1. /\ Answered(p) /\ calls[p].stage = "reading" /\ answers[p] # None /\ ~Failed(answers[p])
      /\ calls[p].purpose \in {"preflight", "replay", "readback"}
      /\ \/ Return(p, "unknown") \/ Return(p, "error")
         \/ Holds(answers[p], To(calls[p])) /\ Return(p, CompletedState[calls[p].kind])
         \/ Holds(answers[p], To(calls[p])) /\ Finished(p, CompletedState[calls[p].kind])
         \/ calls[p].purpose = "preflight" /\ Go(p, "set")
  BY DEF HearOperation
<1>2. calls[p].stage \in {"reading", "setting"} /\ \A s \in States : Holds(answers[p], s) => s \in seen[p]
  BY <1>1, HeardReading
<1>3. /\ calls[p].kind \in Operations /\ calls[p].input \in Changes /\ calls[p] \in CallRecords
      /\ Mutates(calls[p], journal)
  BY <1>0, <1>1, HeardOperation
<1>4. PICK kind \in Operations : kind = calls[p].kind
  BY <1>3
<1>5. PICK state : state = CompletedState[kind]
  OBVIOUS
<1>6. /\ state \in Results /\ state # "prepared"
      /\ StateOf([kind |-> kind, state |-> state, input |-> calls[p].input]) = To(calls[p])
  BY <1>4, <1>5, CompletedGives
<1>7. To(calls[p]) \in States
  BY <1>3 DEF To, Changes, States
<1>8. CASE Return(p, "unknown") \/ Return(p, "error")
  <2>1. PICK answer \in {"error", "unknown", "matched", "differs"} : Return(p, answer)
    BY <1>8
  <2> QED BY <1>1, <1>2, <2>1, HearReturn
<1>9. CASE Holds(answers[p], To(calls[p])) /\ Return(p, CompletedState[calls[p].kind])
  <2>1. Return(p, state)
    BY <1>4, <1>5, <1>9
  <2>2. \A q \in Procs : q # p => calls'[q] = calls[q]
    BY <1>0, <2>1, ReturnOthers
  <2>3. To(calls[p]) \in seen[p]
    BY <1>2, <1>7, <1>9
  <2>4. StateOf([kind |-> calls[p].kind, state |-> state, input |-> calls[p].input]) \in seen[p]
    BY <1>4, <1>6, <2>3
  <2> QED BY <1>1, <1>2, <1>6, <2>1, <2>2, <2>4, HearGives, ReturnKeeps
<1>10. CASE Holds(answers[p], To(calls[p])) /\ Finished(p, CompletedState[calls[p].kind])
  <2>1. PICK c : c = At(calls[p], "complete", calls[p].purpose, calls[p].input, state)
    OBVIOUS
  <2>2. calls' = [calls EXCEPT ![p] = c] /\ reply' = reply
    <3>1. Finished(p, state)
      BY <1>4, <1>5, <1>10
    <3>2. calls' = [calls EXCEPT ![p] = At(calls[p], "complete", calls[p].purpose, calls[p].input, state)]
      BY <1>0, <3>1, FinishedAt
    <3>3. reply' = reply
      BY <3>1 DEF Finished
    <3> QED BY <2>1, <3>2, <3>3
  <2>3. \A q \in Procs : q # p => calls'[q] = calls[q]
    BY <1>0, <2>2, OthersKeepCalls
  <2>4. /\ c \in CallRecords /\ c.stage = "complete" /\ c.kind = calls[p].kind
        /\ c.input = calls[p].input /\ c.result = state /\ c.purpose = calls[p].purpose
    BY <1>3, <1>6, <2>1 DEF At, CallRecords, Stages
  <2>5. Mutates(c, journal')
    <3>1. "complete" \notin {"begin", "set", "setting", "ask", "reading", "lookup"}
      OBVIOUS
    <3>2. c.purpose \in {"status", "preflight", "replay", "readback"}
      BY <1>1, <2>4
    <3> QED BY <1>3, <1>6, <2>4, <3>1, <3>2 DEF Mutates
  <2>6. To(c) \in seen[p]
    <3>1. To(c) = To(calls[p])
      BY <2>4 DEF To
    <3> QED BY <1>2, <1>7, <1>10, <3>1
  <2>7. "complete" # "reading"
    OBVIOUS
  <2>8. c.result = CompletedState[c.kind]
    BY <1>4, <1>5, <2>4
  <2> QED BY <1>1, <1>2, <2>2, <2>3, <2>4, <2>5, <2>6, <2>7, <2>8, HearKeeps
<1>11. CASE calls[p].purpose = "preflight" /\ Go(p, "set")
  <2>1. PICK c : c = At(calls[p], "set", "preflight", calls[p].input, calls[p].result)
    OBVIOUS
  <2>2. calls' = [calls EXCEPT ![p] = c] /\ reply' = reply
    <3>1. PICK stage : stage = "set"
      OBVIOUS
    <3>2. calls' = [calls EXCEPT ![p].stage = stage] /\ reply' = reply
      BY <1>11, <3>1 DEF Go
    <3>3. [calls EXCEPT ![p].stage = stage] =
            [calls EXCEPT ![p] = At(calls[p], stage, calls[p].purpose, calls[p].input, calls[p].result)]
      BY <1>0, StageUpdate
    <3> QED BY <1>11, <2>1, <3>1, <3>2, <3>3
  <2>3. \A q \in Procs : q # p => calls'[q] = calls[q]
    BY <1>0, <2>2, OthersKeepCalls
  <2>4. c \in CallRecords /\ c.stage = "set" /\ Mutates(c, journal')
    <3>1. "preflight" \in {"preflight", "replay", "readback"} /\ "set" \in {"ask", "reading", "set", "setting"}
      OBVIOUS
    <3> QED BY <1>3, <2>1, <3>1, OperationAt
  <2>5. "set" # "reading" /\ "set" # "complete"
    OBVIOUS
  <2> QED BY <1>1, <1>2, <2>2, <2>3, <2>4, <2>5, HearKeeps
<1> QED BY <1>1, <1>8, <1>9, <1>10, <1>11

\* The agent calls a tool.
LEMMA CallKeeps ==
  ASSUME ProviderInv, Observe, NEW kind, NEW purpose, NEW input, Call(kind, purpose, input),
         NEW c \in CallRecords,
         c = [stage |-> IF kind \in Operations /\ purpose # "status" THEN "begin"
                        ELSE IF purpose = "status" THEN "lookup" ELSE "ask",
              kind |-> kind, purpose |-> purpose, input |-> input, result |-> None],
         c.stage \in {"begin", "lookup", "ask"}, Mutates(c, journal) \/ Reads(c)
  PROVE  ProviderInv'
<1>0. RuleInv /\ CallInv /\ ExchangeInv /\ SightInv /\ ReceiptIsTrue
  BY DEF ProviderInv
<1>1. PICK p \in Procs : p = server
  BY <1>0 DEF CallInv
<1>2. /\ calls[p].stage = "idle" /\ calls' = [calls EXCEPT ![p] = c] /\ reply' = None
      /\ UNCHANGED ruleVars /\ journal' = journal /\ server' = server /\ prepared' = prepared
  BY <1>1 DEF Call
<1>3. \A q \in Procs : q # p => calls'[q] = calls[q]
  BY <1>0, <1>2, OthersKeepCalls
<1>4. calls[p].stage \notin {"reading", "setting"} /\ c.stage # "reading" /\ c.stage # "complete"
  BY <1>2
<1>5. RuleInv' /\ ExchangeInv' /\ \A q \in Procs : answers'[q] = answers[q]
  BY <1>0, <1>2, <1>3, <1>4, OwnStep
<1>6. JournalStep
  BY <1>0, <1>2, JournalSame
<1> QED BY <1>0, <1>2, <1>4, <1>5, <1>6, ProcKeeps

\* Every call of the agent.
LEMMA AgentCallsKeeps ==
  ASSUME ProviderInv, Observe, AgentCalls
  PROVE  ProviderInv'
<1>0. prepared # None => prepared \in Changes
  BY DEF ProviderInv, CallInv
<1>1. ASSUME NEW class \in Classes, Call("prepare", "prepare", [baseline |-> None, desired |-> class])
      PROVE  ProviderInv'
  <2>1. PICK input : input = [baseline |-> None, desired |-> class]
    OBVIOUS
  <2>2. PICK c : c = [stage |-> IF "prepare" \in Operations /\ "prepare" # "status" THEN "begin"
                        ELSE IF "prepare" = "status" THEN "lookup" ELSE "ask",
                      kind |-> "prepare", purpose |-> "prepare", input |-> input, result |-> None]
    OBVIOUS
  <2>3. c = [stage |-> "ask", kind |-> "prepare", purpose |-> "prepare", input |-> input, result |-> None]
    BY <2>2 DEF Operations
  <2>4. c \in CallRecords /\ c.stage \in {"begin", "lookup", "ask"} /\ Reads(c)
    BY <2>1, <2>3 DEF CallRecords, Stages, Reads
  <2>5. Call("prepare", "prepare", input)
    BY <1>1, <2>1
  <2> QED BY <2>2, <2>4, <2>5, CallKeeps
<1>2. ASSUME NEW kind \in Operations, Call(kind, "status", None)
      PROVE  ProviderInv'
  <2>1. PICK c : c = [stage |-> IF kind \in Operations /\ "status" # "status" THEN "begin"
                        ELSE IF "status" = "status" THEN "lookup" ELSE "ask",
                      kind |-> kind, purpose |-> "status", input |-> None, result |-> None]
    OBVIOUS
  <2>2. c = [stage |-> "lookup", kind |-> kind, purpose |-> "status", input |-> None, result |-> None]
    BY <2>1
  <2>3. c \in CallRecords /\ c.stage \in {"begin", "lookup", "ask"}
    BY <2>2 DEF CallRecords, Stages
  <2>4. Mutates(c, journal)
    BY <2>2 DEF Mutates
  <2> QED BY <1>2, <2>1, <2>3, <2>4, CallKeeps
<1>3. ASSUME NEW kind \in Operations, prepared # None, Call(kind, "preflight", prepared)
      PROVE  ProviderInv'
  <2>1. PICK input \in Changes : input = prepared
    BY <1>0, <1>3
  <2>2. PICK c : c = [stage |-> IF kind \in Operations /\ "preflight" # "status" THEN "begin"
                        ELSE IF "preflight" = "status" THEN "lookup" ELSE "ask",
                      kind |-> kind, purpose |-> "preflight", input |-> input, result |-> None]
    OBVIOUS
  <2>3. c = [stage |-> "begin", kind |-> kind, purpose |-> "preflight", input |-> input, result |-> None]
    BY <2>2
  <2>4. c \in CallRecords /\ c.stage \in {"begin", "lookup", "ask"}
    BY <2>3 DEF CallRecords, Stages
  <2>5. Mutates(c, journal)
    BY <2>3 DEF Mutates
  <2>6. Call(kind, "preflight", input)
    BY <1>3, <2>1
  <2> QED BY <2>2, <2>4, <2>5, <2>6, CallKeeps
<1>4. ASSUME prepared # None, Call("verify", "verify", prepared)
      PROVE  ProviderInv'
  <2>1. PICK input \in Changes : input = prepared
    BY <1>0, <1>4
  <2>2. PICK c : c = [stage |-> IF "verify" \in Operations /\ "verify" # "status" THEN "begin"
                        ELSE IF "verify" = "status" THEN "lookup" ELSE "ask",
                      kind |-> "verify", purpose |-> "verify", input |-> input, result |-> None]
    OBVIOUS
  <2>3. c = [stage |-> "ask", kind |-> "verify", purpose |-> "verify", input |-> input, result |-> None]
    BY <2>2 DEF Operations
  <2>4. c \in CallRecords /\ c.stage \in {"begin", "lookup", "ask"} /\ Reads(c)
    BY <2>1, <2>3 DEF CallRecords, Stages, Reads
  <2>5. Call("verify", "verify", input)
    BY <1>4, <2>1
  <2> QED BY <2>2, <2>4, <2>5, CallKeeps
<1> QED BY <1>1, <1>2, <1>3, <1>4 DEF AgentCalls

\* The agent keeps what it prepared, or starts anew with another server process.
LEMMA AgentKeeps ==
  ASSUME RuleInv', ExchangeInv', CallInv, SightInv, Observe, journal' = journal, server' \in Procs,
         prepared' # None => prepared' \in Changes, calls' \in [Procs -> CallRecords],
         \A q \in Procs : calls'[q].stage = "idle" \/ (calls'[q] = calls[q] /\ answers'[q] = answers[q]),
         reply' # None => reply' = reply /\ server' = server /\ calls' = calls, ReceiptIsTrue
  PROVE  ProviderInv'
<1>1. CallInv'
  BY DEF CallInv
<1>2. ASSUME NEW q \in Procs PROVE SightOf(calls'[q], answers'[q], seen'[q])
  <2>1. CASE calls'[q].stage = "idle"
    <3>1. "idle" # "reading" /\ "idle" # "complete"
      OBVIOUS
    <3> QED BY <2>1, <3>1 DEF SightOf
  <2>2. CASE calls'[q] = calls[q] /\ answers'[q] = answers[q]
    BY <2>2, SightKept DEF SightInv
  <2> QED BY <2>1, <2>2
<1>3. ReceiptIsTrue'
  <2>1. CASE reply' = None
    BY <2>1 DEF ReceiptIsTrue
  <2>2. CASE reply' # None
    BY <2>2, ReceiptKept
  <2> QED BY <2>1, <2>2
<1> QED BY <1>1, <1>2, <1>3 DEF ProviderInv, SightInv

\* A process without a request and without an answer leaves no trace on the socket.
LEMMA SilentExchange ==
  ASSUME RuleInv, ExchangeInv, UNCHANGED ruleVars, NEW p \in Procs, ~Waiting(p), answers[p] = None,
         \A q \in Procs : q # p => calls'[q] = calls[q]
  PROVE  ExchangeInv'
<1>1. \A i \in DOMAIN backlog : backlog[i].conn # p
  BY DEF Waiting
<1>2. job # Idle => job.request.conn # p
  BY AnyJob DEF Waiting, RuleInv, JobInv
<1>3. UNCHANGED <<backlog, job, answers>>
  BY DEF ruleVars
<1>4. \A i \in DOMAIN backlog : backlog[i].conn \in Procs =>
        answers[backlog[i].conn] = None /\ AskedBy(calls'[backlog[i].conn], backlog[i])
  BY <1>1 DEF ExchangeInv, AskedBy
<1> QED BY <1>1, <1>2, <1>3, <1>4 DEF ExchangeInv

\* The agent keeps what prepare returned, or drops it.
LEMMA AgentPreparesKeeps ==
  ASSUME ProviderInv, Observe, AgentPrepares
  PROVE  ProviderInv'
<1>0. RuleInv /\ CallInv /\ ExchangeInv /\ SightInv /\ ReceiptIsTrue
  BY DEF ProviderInv
<1>1. /\ UNCHANGED ruleVars /\ journal' = journal /\ calls' = calls /\ server' = server
      /\ \/ reply # None /\ reply.kind = "prepare" /\ reply.state = "prepared" /\ prepared' = reply.input /\ reply' = None
         \/ prepared' = None /\ reply' = reply
  BY DEF AgentPrepares
<1>2. RuleInv' /\ backlog' = backlog /\ job' = job /\ answers' = answers
  BY <1>0, <1>1, RuleStepKeeps DEF ruleVars
<1>3. ExchangeInv'
  BY <1>0, <1>1, <1>2 DEF ExchangeInv
<1>4. prepared' # None => prepared' \in Changes
  BY <1>0, <1>1 DEF CallInv
<1>5. server' \in Procs /\ calls' \in [Procs -> CallRecords]
  BY <1>0, <1>1 DEF CallInv
<1>6. \A q \in Procs : calls'[q] = calls[q] /\ answers'[q] = answers[q]
  BY <1>1, <1>2
<1> QED BY <1>0, <1>1, <1>2, <1>3, <1>4, <1>5, <1>6, AgentKeeps

\* The agent dies, with its server or without, and starts another.
LEMMA AgentRestartsKeeps ==
  ASSUME ProviderInv, Observe, AgentRestarts
  PROVE  ProviderInv'
<1>0. RuleInv /\ CallInv /\ ExchangeInv /\ SightInv /\ ReceiptIsTrue
  BY DEF ProviderInv
<1>1. PICK old \in Procs : old = server
  BY <1>0 DEF CallInv
<1>2. /\ server' \in Procs /\ reply' = None /\ journal' = journal /\ prepared' = prepared
      /\ \/ calls' = calls /\ UNCHANGED ruleVars
         \/ /\ calls' = [calls EXCEPT ![old] = Quiet]
            /\ \/ GiveUp(old) \/ Receive(old)
               \/ ~Waiting(old) /\ answers[old] = None /\ UNCHANGED ruleVars
  BY <1>1 DEF AgentRestarts
<1>3. prepared' # None => prepared' \in Changes
  BY <1>0, <1>2 DEF CallInv
<1>4. CASE calls' = calls /\ UNCHANGED ruleVars
  <2>1. RuleInv' /\ backlog' = backlog /\ job' = job /\ answers' = answers
    BY <1>0, <1>4, RuleStepKeeps DEF ruleVars
  <2>2. ExchangeInv'
    BY <1>0, <1>4, <2>1 DEF ExchangeInv
  <2>3. calls' \in [Procs -> CallRecords]
    BY <1>0, <1>4 DEF CallInv
  <2>4. \A q \in Procs : calls'[q] = calls[q] /\ answers'[q] = answers[q]
    BY <1>4, <2>1
  <2> QED BY <1>0, <1>2, <1>3, <2>1, <2>2, <2>3, <2>4, AgentKeeps
<1>5. CASE /\ calls' = [calls EXCEPT ![old] = Quiet]
           /\ \/ GiveUp(old) \/ Receive(old)
              \/ ~Waiting(old) /\ answers[old] = None /\ UNCHANGED ruleVars
  <2>1. calls \in [Procs -> CallRecords]
    BY <1>0 DEF CallInv
  <2>2. calls' \in [Procs -> CallRecords] /\ calls'[old].stage = "idle" /\ \A q \in Procs : q # old => calls'[q] = calls[q]
    BY <1>5, <2>1, QuietTypes
  <2>3. old \in Conns
    BY ProviderAssumption
  <2>4. RuleInv' /\ ExchangeInv' /\ \A q \in Procs : q # old => answers'[q] = answers[q]
    <3>1. CASE GiveUp(old)
      <4>1. answers' = answers
        BY <3>1 DEF GiveUp
      <4> QED BY <1>0, <2>2, <2>3, <3>1, <4>1, GiveUpKeeps, GiveUpExchange
    <3>2. CASE Receive(old)
      <4>1. answers' = [answers EXCEPT ![old] = None]
        BY <3>2 DEF Receive
      <4>2. DOMAIN answers = Conns
        BY <1>0 DEF RuleInv, RuleTypes
      <4>3. \A q \in Procs : q # old => answers'[q] = answers[q]
        BY <4>1, <4>2, ProviderAssumption
      <4> QED BY <1>0, <2>2, <2>3, <3>2, <4>3, ReceiveKeeps, ReceiveExchange
    <3>3. CASE ~Waiting(old) /\ answers[old] = None /\ UNCHANGED ruleVars
      <4>1. RuleInv' /\ answers' = answers
        BY <1>0, <3>3, RuleStepKeeps DEF ruleVars
      <4> QED BY <1>0, <2>2, <3>3, <4>1, SilentExchange
    <3> QED BY <1>5, <3>1, <3>2, <3>3
  <2>5. \A q \in Procs : calls'[q].stage = "idle" \/ (calls'[q] = calls[q] /\ answers'[q] = answers[q])
    BY <2>2, <2>4
  <2> QED BY <1>0, <1>2, <1>3, <2>2, <2>4, <2>5, AgentKeeps
<1> QED BY <1>2, <1>4, <1>5

\* The invariant of the server holds at first.
LEMMA ProviderStarts == ProviderInit => ProviderInv
<1> SUFFICES ASSUME ProviderInit PROVE ProviderInv
  OBVIOUS
<1>1. /\ RuleInv /\ backlog = <<>> /\ job = Idle /\ answers = [conn \in Conns |-> None]
      /\ journal = [op \in Operations |-> None] /\ calls = [p \in Procs |-> Quiet]
      /\ server \in Procs /\ prepared = None /\ reply = None
  BY RuleStarts DEF ProviderInit, RuleInit
<1>2. \A p \in Procs : calls[p] = Quiet /\ answers[p] = None
  BY <1>1, ProviderAssumption
<1>3. CallInv
  <2>1. calls \in [Procs -> CallRecords] /\ \A p \in Procs : calls[p].stage = "idle"
    BY <1>1, <1>2, QuietTypes
  <2>2. DOMAIN journal = Operations /\ \A op \in Operations : journal[op] = None
    BY <1>1
  <2> QED BY <1>1, <2>1, <2>2 DEF CallInv
<1>4. ExchangeInv
  <2>1. DOMAIN backlog = {}
    BY <1>1, SMT
  <2> QED BY <1>1, <1>2, <2>1 DEF ExchangeInv
<1>5. SightInv
  <2>1. Quiet.stage # "reading" /\ Quiet.stage # "complete"
    BY DEF Quiet
  <2> QED BY <1>2, <2>1 DEF SightInv, SightOf
<1>6. ReceiptIsTrue
  BY <1>1 DEF ReceiptIsTrue
<1> QED BY <1>1, <1>3, <1>4, <1>5, <1>6 DEF ProviderInv

\* Every step keeps it.
LEMMA ProviderStepKeeps == ProviderInv /\ [ProviderNext]_allVars => ProviderInv'
<1> SUFFICES ASSUME ProviderInv, [ProviderNext]_allVars PROVE ProviderInv'
  OBVIOUS
<1>1. CASE ProviderNext
  <2>1. /\ Observe
        /\ \/ AgentCalls \/ AgentPrepares \/ AgentRestarts \/ ExternalStep \/ SchedulerStep
           \/ \E p \in Procs : ProcStep(p)
    BY <1>1 DEF ProviderNext
  <2>2. CASE AgentCalls \/ AgentPrepares \/ AgentRestarts
    BY <2>1, <2>2, AgentCallsKeeps, AgentPreparesKeeps, AgentRestartsKeeps
  <2>3. CASE ExternalStep \/ SchedulerStep
    BY <2>1, <2>3, ExternalKeeps, SchedulerKeeps
  <2>4. ASSUME NEW p \in Procs, ProcStep(p) PROVE ProviderInv'
    <3>1. \/ Begin(p) \/ Lookup(p) \/ Complete(p) \/ Ask(p) \/ TimeOut(p)
          \/ HearFailure(p) \/ HearSet(p) \/ HearPlain(p) \/ HearStatus(p) \/ HearOperation(p)
      BY <2>4 DEF ProcStep
    <3>2. CASE Begin(p) \/ Lookup(p) \/ Complete(p) \/ Ask(p) \/ TimeOut(p)
      BY <2>1, <3>2, BeginKeeps, LookupKeeps, CompleteKeeps, AskKeeps, TimeOutKeeps
    <3>3. CASE HearFailure(p) \/ HearSet(p) \/ HearPlain(p) \/ HearStatus(p) \/ HearOperation(p)
      BY <2>1, <3>3, HearSetKeeps, HearPlainKeeps, HearStatusKeeps, HearOperationKeeps
    <3> QED BY <3>1, <3>2, <3>3
  <2> QED BY <2>1, <2>2, <2>3, <2>4
<1>2. CASE UNCHANGED allVars
  <2>1. UNCHANGED ruleVars /\ UNCHANGED <<journal, calls, server, prepared, reply, seen>>
    BY <1>2 DEF allVars, providerVars
  <2>2. RuleInv' /\ backlog' = backlog /\ job' = job /\ answers' = answers
    BY <2>1, RuleStepKeeps DEF ruleVars, ProviderInv
  <2>3. CallInv' /\ ReceiptIsTrue'
    BY <2>1 DEF ProviderInv, CallInv, ReceiptIsTrue
  <2>4. ExchangeInv' /\ SightInv'
    BY <2>1, <2>2 DEF ProviderInv, ExchangeInv, SightInv
  <2> QED BY <2>2, <2>3, <2>4 DEF ProviderInv
<1> QED BY <1>1, <1>2

\* Whatever the agent, the other client and the scheduler do, a state that the MCP
\* server reports of a rule is one that memory, file and map had during the call.
THEOREM ReceiptSafety == ProviderSpec => []ReceiptIsTrue
<1>1. ProviderInv => ReceiptIsTrue
  BY DEF ProviderInv
<1> QED BY <1>1, ProviderStarts, ProviderStepKeeps, PTL DEF ProviderSpec

----------------------------------------------------------------------------
(* Without orphans an answer stands.                                       *)

\* A change that the server asked for is still on the socket, or is being made.
Late ==
  \/ \E i \in DOMAIN backlog : backlog[i].op = "cas" /\ backlog[i].conn # External
  \/ job # Idle /\ job.request.conn # External

\* The read of the call is behind every such change.
ReadIsLast ==
  \A i, j \in DOMAIN backlog :
    backlog[i].conn = server /\ backlog[j].op = "cas" /\ backlog[j].conn # External => j < i

\* Only one process has a call; what it has read, it has read after its changes.
OrderInv ==
  /\ \A p \in Procs : p # server => calls[p].stage = "idle"
  /\ reply # None /\ reply.state \notin {"error", "unknown"} => ~Late
  /\ calls[server].stage = "complete" => ~Late
  /\ calls[server].stage = "reading" =>
       ReadIsLast /\ (answers[server] # None /\ ~Failed(answers[server]) => ~Late)

\* Nobody's call changes, and nothing new comes from the server.
LEMMA OrderKept ==
  ASSUME OrderInv, UNCHANGED <<calls, server, reply>>, Late' => Late,
         calls[server].stage = "reading" =>
           ReadIsLast' /\ (answers'[server] = answers[server] \/ Failed(answers'[server]) \/ ~Late')
  PROVE  OrderInv'
<1>1. calls[server].stage = "reading" => (answers'[server] # None /\ ~Failed(answers'[server]) => ~Late')
  BY DEF OrderInv
<1> QED BY <1>1 DEF OrderInv, Failed

\* The oldest request is answered, or becomes the one that is served.
LEMMA ServeOrder ==
  ASSUME RuleInv, CallInv, ExchangeInv, OrderInv, UNCHANGED <<calls, server, reply>>,
         job = Idle, backlog # <<>>, backlog' = Tail(backlog),
         NEW r \in SocketRequests, r = Head(backlog),
         \/ job' = Idle /\ \E a : Deliver(r.conn, a)
         \/ job'.request = r /\ r.op = "cas" /\ answers' = answers
  PROVE  OrderInv'
<1>0. DOMAIN answers = Conns /\ BacklogTypes /\ server \in Procs
  BY DEF RuleInv, RuleTypes, CallInv
<1>1. /\ \A i \in DOMAIN backlog' : i + 1 \in DOMAIN backlog /\ i + 1 # 1 /\ backlog'[i] = backlog[i + 1]
      /\ 1 \in DOMAIN backlog /\ r = backlog[1]
  BY <1>0, RestOfBacklog
<1>2. Late' => Late
  <2>1. CASE \E i \in DOMAIN backlog' : backlog'[i].op = "cas" /\ backlog'[i].conn # External
    BY <1>1, <2>1 DEF Late
  <2>2. CASE job' # Idle /\ job'.request.conn # External
    BY <1>1, <2>2 DEF Late
  <2> QED BY <2>1, <2>2 DEF Late
<1>3. ASSUME calls[server].stage = "reading" PROVE ReadIsLast'
  <2>1. ReadIsLast
    BY <1>3 DEF OrderInv
  <2>2. ASSUME NEW i \in DOMAIN backlog', NEW j \in DOMAIN backlog',
               backlog'[i].conn = server, backlog'[j].op = "cas", backlog'[j].conn # External
        PROVE  j < i
    <3>1. j + 1 < i + 1
      BY <1>1, <2>1, <2>2 DEF ReadIsLast
    <3>2. backlog' \in Seq(SocketRequests)
      BY <1>0, OldestRequest DEF BacklogTypes
    <3>3. i \in Nat /\ j \in Nat
      BY <3>2, SMT
    <3> QED BY <3>1, <3>3, SMT
  <2> QED BY <2>2 DEF ReadIsLast
<1>4. ASSUME calls[server].stage = "reading", answers'[server] # answers[server] PROVE ~Late
  <2>1. r.conn = server
    <3>1. PICK a : Deliver(r.conn, a)
      BY <1>4
    <3> QED BY <1>0, <1>4, <3>1, DeliverGives
  <2>2. ASSUME NEW j \in DOMAIN backlog, backlog[j].op = "cas", backlog[j].conn # External PROVE FALSE
    <3>1. j < 1
      BY <1>1, <1>4, <2>1, <2>2 DEF OrderInv, ReadIsLast
    <3>2. backlog \in Seq(SocketRequests)
      BY <1>0 DEF BacklogTypes
    <3> QED BY <3>1, <3>2, SMT
  <2> QED BY <2>2 DEF Late
<1> QED BY <1>2, <1>3, <1>4, OrderKept

\* The request that is served goes on, or is answered.
LEMMA JobOrder ==
  ASSUME RuleInv, CallInv, ExchangeInv, OrderInv, UNCHANGED <<calls, server, reply>>,
         job # Idle, backlog' = backlog, NEW conn, conn = job.request.conn,
         \/ job' = Idle /\ \E a : Deliver(conn, a)
         \/ job'.request = job.request /\ answers' = answers
  PROVE  OrderInv'
<1>0. DOMAIN answers = Conns /\ server \in Procs
  BY DEF RuleInv, RuleTypes, CallInv
<1>1. Late' => Late
  BY DEF Late
<1>2. ASSUME calls[server].stage = "reading" PROVE ReadIsLast' /\ answers'[server] = answers[server]
  <2>1. "reading" # "setting"
    OBVIOUS
  <2>2. conn # server
    BY <1>0, <1>2, <2>1 DEF ExchangeInv
  <2>3. answers'[server] = answers[server]
    <3>1. CASE answers' = answers
      BY <3>1
    <3>2. ASSUME NEW a, Deliver(conn, a) PROVE answers'[server] = answers[server]
      <4>1. PICK q \in Procs : q = server
        BY <1>0
      <4>2. answers'[q] = answers[q] \/ q = conn
        BY <1>0, <3>2, ProviderAssumption DEF Deliver
      <4>3. q # conn
        BY <2>2, <4>1
      <4> QED BY <4>1, <4>2, <4>3
    <3> QED BY <3>1, <3>2
  <2> QED BY <1>2, <2>3 DEF OrderInv, ReadIsLast
<1> QED BY <1>1, <1>2, OrderKept

\* The process ends, and the requests with it.
LEMMA ExitOrder ==
  ASSUME OrderInv, UNCHANGED <<calls, server, reply>>, Exit
  PROVE  OrderInv'
<1>1. backlog' = <<>> /\ job' = Idle
  BY DEF Exit
<1>2. DOMAIN backlog' = {}
  BY <1>1, SMT
<1>3. ~Late' /\ ReadIsLast'
  BY <1>1, <1>2 DEF Late, ReadIsLast
<1> QED BY <1>3, OrderKept

\* Every step of the scheduler.
LEMMA SchedulerOrder ==
  ASSUME ProviderInv, OrderInv, SchedulerStep
  PROVE  OrderInv'
<1>0. /\ RuleInv /\ CallInv /\ ExchangeInv /\ UNCHANGED <<calls, server, reply>>
      /\ Scheduler \/ Crash \/ Start
  BY DEF ProviderInv, SchedulerStep
<1>1. CASE DropConnection \/ ServeRead \/ RefuseSet \/ ServeNoop \/ ServeSet
  <2>0. BacklogTypes /\ job = Idle /\ backlog # <<>>
    BY <1>0, <1>1 DEF RuleInv, DropConnection, ServeRead, RefuseSet, ServeNoop, ServeSet
  <2>1. PICK r \in SocketRequests : r = Head(backlog)
    BY <2>0, OldestRequest
  <2>2. \/ backlog' = Tail(backlog) /\ job' = Idle /\ \E a : Deliver(r.conn, a)
        \/ /\ backlog' = Tail(backlog) /\ answers' = answers /\ r.op = "cas"
           /\ \E stage : job' = [stage |-> stage, request |-> r]
        \/ Die(r.conn)
    <3>1. CASE DropConnection \/ ServeRead
      BY <2>0, <2>1, <3>1 DEF DropConnection, ServeRead, Finish
    <3>2. CASE RefuseSet
      BY <2>1, <3>2 DEF RefuseSet, Finish
    <3>3. CASE ServeNoop
      BY <2>1, <3>3 DEF ServeNoop
    <3>4. CASE ServeSet
      BY <2>1, <3>4 DEF ServeSet, Finish
    <3> QED BY <1>1, <3>1, <3>2, <3>3, <3>4
  <2>3. CASE backlog' = Tail(backlog) /\ job' = Idle /\ \E a : Deliver(r.conn, a)
    BY <1>0, <2>0, <2>1, <2>3, ServeOrder
  <2>4. CASE /\ backlog' = Tail(backlog) /\ answers' = answers /\ r.op = "cas"
             /\ \E stage : job' = [stage |-> stage, request |-> r]
    <3>1. job'.request = r
      BY <2>4, SMT
    <3> QED BY <1>0, <2>0, <2>1, <2>4, <3>1, ServeOrder
  <2>5. CASE Die(r.conn)
    BY <1>0, <2>5, ExitOrder DEF Die
  <2> QED BY <2>2, <2>3, <2>4, <2>5
<1>2. CASE Publish \/ Undo \/ Republish \/ Reconcile
  <2>1. job.stage \in {"publish", "undo", "republish", "reconcile"}
    BY <1>2 DEF Publish, Undo, Republish, Reconcile
  <2>2. job.stage # "idle"
    BY <2>1
  <2>3. job # Idle
    BY <2>2, SMT DEF Idle
  <2>4. PICK conn : conn = job.request.conn
    OBVIOUS
  <2>5. \/ Die(conn)
        \/ job' = Idle /\ backlog' = backlog /\ \E a : Deliver(conn, a)
        \/ /\ backlog' = backlog /\ answers' = answers
           /\ \E stage \in {"undo", "republish"} : job' = [job EXCEPT !.stage = stage]
    BY <1>2, <2>4 DEF Publish, Undo, Republish, Reconcile
  <2>6. CASE Die(conn)
    BY <1>0, <2>6, ExitOrder DEF Die
  <2>7. CASE job' = Idle /\ backlog' = backlog /\ \E a : Deliver(conn, a)
    BY <1>0, <2>3, <2>4, <2>7, JobOrder
  <2>8. CASE /\ backlog' = backlog /\ answers' = answers
             /\ \E stage \in {"undo", "republish"} : job' = [job EXCEPT !.stage = stage]
    <3>1. job'.request = job.request
      BY <1>0, <2>2, <2>8, NextStage
    <3> QED BY <1>0, <2>3, <2>4, <2>8, <3>1, JobOrder
  <2> QED BY <2>5, <2>6, <2>7, <2>8
<1>3. CASE Crash
  BY <1>0, <1>3, ExitOrder DEF Crash
<1>4. CASE Start
  <2>1. UNCHANGED <<backlog, job, answers>>
    BY <1>4 DEF Start
  <2>2. (Late' => Late) /\ (ReadIsLast => ReadIsLast')
    BY <1>0, <2>1 DEF Late, ReadIsLast
  <2> QED BY <1>0, <2>1, <2>2, OrderKept DEF OrderInv
<1> QED BY <1>0, <1>1, <1>2, <1>3, <1>4 DEF Scheduler

\* The call of a process goes on, or returns: with a failure, or when nothing is late.
LEMMA MoveOrder ==
  ASSUME CallInv, OrderInv, NEW p \in Procs, calls[p].stage # "idle", server' = server,
         \A q \in Procs : q # p => calls'[q] = calls[q], calls'[p].stage # "reading",
         \/ calls'[p].stage # "complete" /\ (reply' = reply \/ reply'.state \in {"error", "unknown"})
         \/ ~Late /\ UNCHANGED <<backlog, job>>
  PROVE  OrderInv'
<1>1. p = server /\ reply = None
  BY DEF OrderInv, CallInv
<1>2. \A q \in Procs : q # server' => calls'[q].stage = "idle"
  BY <1>1 DEF OrderInv
<1>3. CASE ~Late /\ UNCHANGED <<backlog, job>>
  <2>1. ~Late'
    BY <1>3 DEF Late
  <2> QED BY <1>1, <1>2, <2>1 DEF OrderInv
<1>4. CASE calls'[p].stage # "complete" /\ (reply' = reply \/ reply'.state \in {"error", "unknown"})
  BY <1>1, <1>2, <1>4 DEF OrderInv
<1> QED BY <1>3, <1>4

\* It returns.
LEMMA ReturnOrder ==
  ASSUME CallInv, OrderInv, NEW p \in Procs, calls[p].stage # "idle", server' = server, NEW state, Return(p, state),
         state \in {"error", "unknown"} \/ (~Late /\ UNCHANGED <<backlog, job>>)
  PROVE  OrderInv'
<1>1. calls' = [calls EXCEPT ![p] = Quiet] /\ DOMAIN calls = Procs
  BY DEF Return, CallInv
<1>2. calls'[p].stage = "idle" /\ \A q \in Procs : q # p => calls'[q] = calls[q]
  BY <1>1, QuietTypes
<1>3. reply' = reply \/ reply'.state = state
  BY DEF Return
<1>4. "idle" # "reading" /\ "idle" # "complete"
  OBVIOUS
<1> QED BY <1>2, <1>3, <1>4, MoveOrder

\* It goes on to a stage without a read.
LEMMA StageOrder ==
  ASSUME CallInv, OrderInv, NEW p \in Procs, calls[p].stage # "idle", server' = server, reply' = reply,
         NEW stage \in {"ask", "set", "setting", "complete"}, NEW c, c.stage = stage, calls' = [calls EXCEPT ![p] = c],
         stage # "complete" \/ (~Late /\ UNCHANGED <<backlog, job>>)
  PROVE  OrderInv'
<1>1. calls'[p].stage = stage /\ \A q \in Procs : q # p => calls'[q] = calls[q]
  BY DEF CallInv
<1>2. stage # "reading"
  OBVIOUS
<1> QED BY <1>1, <1>2, MoveOrder

\* In particular with Go, ...
LEMMA GoOrder ==
  ASSUME CallInv, OrderInv, NEW p \in Procs, calls[p].stage # "idle", server' = server,
         NEW stage \in {"ask", "set", "setting"}, Go(p, stage)
  PROVE  OrderInv'
<1>1. PICK c : c = At(calls[p], stage, calls[p].purpose, calls[p].input, calls[p].result)
  OBVIOUS
<1>2. calls' = [calls EXCEPT ![p] = c] /\ reply' = reply /\ c.stage = stage
  BY <1>1, StageUpdate DEF Go, At
<1>3. stage \in {"ask", "set", "setting", "complete"} /\ stage # "complete"
  OBVIOUS
<1> QED BY <1>2, <1>3, StageOrder

\* ... or to ask with another purpose.
LEMMA AgainOrder ==
  ASSUME CallInv, OrderInv, NEW p \in Procs, calls[p].stage # "idle", server' = server, reply' = reply, NEW purpose,
         calls' = [calls EXCEPT ![p].stage = "ask", ![p].purpose = purpose]
  PROVE  OrderInv'
<1>1. PICK c : c = At(calls[p], "ask", purpose, calls[p].input, calls[p].result)
  OBVIOUS
<1>2. calls' = [calls EXCEPT ![p] = c] /\ c.stage = "ask"
  BY <1>1, PurposeUpdate DEF At
<1>3. "ask" \in {"ask", "set", "setting", "complete"} /\ "ask" # "complete"
  OBVIOUS
<1> QED BY <1>2, <1>3, StageOrder

\* The journal is asked before the scheduler.
LEMMA BeginOrder ==
  ASSUME CallInv, OrderInv, NEW p \in Procs, Begin(p) \/ Lookup(p)
  PROVE  OrderInv'
<1>1. /\ calls[p].stage \in {"begin", "lookup"} /\ server' = server
      /\ \/ Return(p, "error") \/ Return(p, "unknown")
         \/ Go(p, "ask")
         \/ /\ reply' = reply
            /\ \E purpose : calls' = [calls EXCEPT ![p].stage = "ask", ![p].purpose = purpose]
  BY DEF Begin, Lookup
<1>2. calls[p].stage # "idle" /\ "ask" \in {"ask", "set", "setting"}
  BY <1>1
<1>3. CASE Return(p, "error") \/ Return(p, "unknown")
  BY <1>1, <1>2, <1>3, ReturnOrder
<1>4. CASE Go(p, "ask")
  BY <1>1, <1>2, <1>4, GoOrder
<1>5. ASSUME NEW purpose, reply' = reply, calls' = [calls EXCEPT ![p].stage = "ask", ![p].purpose = purpose]
      PROVE  OrderInv'
  BY <1>1, <1>2, <1>5, AgainOrder
<1> QED BY <1>1, <1>3, <1>4, <1>5

\* A call completes when nothing is late.
LEMMA CompleteOrder ==
  ASSUME CallInv, OrderInv, NEW p \in Procs, Complete(p)
  PROVE  OrderInv'
<1>1. /\ calls[p].stage = "complete" /\ UNCHANGED ruleVars /\ server' = server
      /\ Return(p, "error") \/ Return(p, calls[p].result)
  BY DEF Complete
<1>2. calls[p].stage # "idle"
  BY <1>1
<1>3. ~Late /\ UNCHANGED <<backlog, job>>
  BY <1>1, <1>2 DEF OrderInv, ruleVars
<1>4. PICK state : Return(p, state)
  BY <1>1
<1> QED BY <1>1, <1>2, <1>3, <1>4, ReturnOrder

\* A read goes out behind every change that was asked for before.
LEMMA ReadOrder ==
  ASSUME RuleInv, CallInv, OrderInv, NEW p \in Procs, calls[p].stage # "idle", server' = server, reply' = reply,
         NEW r, r.op = "get", r.conn = p, Send(r), \A q \in Procs : q # p => calls'[q] = calls[q],
         calls'[p].stage = "reading"
  PROVE  OrderInv'
<1>1. p = server /\ reply = None
  BY DEF OrderInv, CallInv
<1>2. /\ backlog' = Append(backlog, r) /\ answers' = answers /\ answers[p] = None /\ ~Waiting(p)
  BY DEF Send
<1>3. backlog \in Seq(SocketRequests)
  BY DEF RuleInv, BacklogTypes
<1>4. /\ \A i \in DOMAIN backlog' : (i \in DOMAIN backlog /\ backlog'[i] = backlog[i])
                                      \/ (i = Len(backlog) + 1 /\ backlog'[i] = r)
      /\ \A j \in DOMAIN backlog : j < Len(backlog) + 1
  BY <1>2, <1>3, SMT
<1>5. ReadIsLast'
  <2>1. ASSUME NEW i \in DOMAIN backlog', NEW j \in DOMAIN backlog',
               backlog'[i].conn = server, backlog'[j].op = "cas"
        PROVE  j < i
    <3>1. i = Len(backlog) + 1
      BY <1>1, <1>2, <1>4, <2>1 DEF Waiting
    <3>2. "get" # "cas"
      OBVIOUS
    <3>3. j \in DOMAIN backlog
      BY <1>4, <2>1, <3>2
    <3> QED BY <1>4, <3>1, <3>3
  <2> QED BY <2>1 DEF ReadIsLast
<1>6. "reading" # "complete"
  OBVIOUS
<1>7. \A q \in Procs : q # server' => calls'[q].stage = "idle"
  BY <1>1 DEF OrderInv
<1> QED BY <1>1, <1>2, <1>5, <1>6, <1>7 DEF OrderInv

\* Every request.
LEMMA AskOrder ==
  ASSUME RuleInv, CallInv, OrderInv, NEW p \in Procs, Ask(p)
  PROVE  OrderInv'
<1>1. /\ calls[p].stage \in {"ask", "set"} /\ server' = server
      /\ \/ Return(p, "error")
         \/ Send(Request(p, "get", Comm, None, None)) /\ Go(p, "reading")
         \/ Go(p, "setting")
  BY DEF Ask
<1>2. calls[p].stage # "idle" /\ "setting" \in {"ask", "set", "setting"}
  BY <1>1
<1>3. CASE Return(p, "error")
  BY <1>1, <1>2, <1>3, ReturnOrder
<1>4. CASE Send(Request(p, "get", Comm, None, None)) /\ Go(p, "reading")
  <2>1. PICK c : c = At(calls[p], "reading", calls[p].purpose, calls[p].input, calls[p].result)
    OBVIOUS
  <2>2. calls' = [calls EXCEPT ![p] = c] /\ reply' = reply /\ c.stage = "reading"
    BY <1>4, <2>1, StageUpdate DEF Go, At
  <2>3. calls'[p].stage = "reading" /\ \A q \in Procs : q # p => calls'[q] = calls[q]
    BY <2>2 DEF CallInv
  <2>4. PICK r : r = Request(p, "get", Comm, None, None)
    OBVIOUS
  <2>5. r.op = "get" /\ r.conn = p /\ Send(r)
    BY <1>4, <2>4 DEF Request
  <2> QED BY <1>1, <1>2, <2>2, <2>3, <2>5, ReadOrder
<1>5. CASE Go(p, "setting")
  BY <1>1, <1>2, <1>5, GoOrder
<1> QED BY <1>1, <1>3, <1>4, <1>5

\* A failure is no state; after the compare-and-set the rule is read once more.
LEMMA HearSetOrder ==
  ASSUME CallInv, OrderInv, NEW p \in Procs, TimeOut(p) \/ HearFailure(p) \/ HearSet(p)
  PROVE  OrderInv'
<1>1. /\ calls[p].stage \in {"reading", "setting"} /\ server' = server
      /\ \/ Return(p, "error")
         \/ /\ calls' = [calls EXCEPT ![p].stage = "ask", ![p].purpose = "readback"] /\ reply' = reply
  BY DEF TimeOut, HearFailure, HearSet, Answered
<1>2. calls[p].stage # "idle" /\ "ask" \in {"ask", "set", "setting"}
  BY <1>1
<1>3. CASE Return(p, "error")
  BY <1>1, <1>2, <1>3, ReturnOrder
<1>4. CASE calls' = [calls EXCEPT ![p].stage = "ask", ![p].purpose = "readback"] /\ reply' = reply
  BY <1>1, <1>2, <1>4, AgainOrder
<1> QED BY <1>1, <1>3, <1>4

\* What a read has heard is not late any more.
LEMMA HearOrder ==
  ASSUME CallInv, OrderInv, NEW p \in Procs, HearPlain(p) \/ HearStatus(p) \/ HearOperation(p)
  PROVE  OrderInv'
<1>1. /\ calls[p].stage = "reading" /\ answers[p] # None /\ ~Failed(answers[p])
      /\ server' = server /\ UNCHANGED <<backlog, job>>
  BY DEF HearPlain, HearStatus, HearOperation, Answered, Receive
<1>2. calls[p].stage # "idle"
  BY <1>1
<1>3. ~Late
  BY <1>1, <1>2 DEF OrderInv
<1>4. \/ calls' = [calls EXCEPT ![p] = Quiet]
      \/ Go(p, "set")
      \/ \E result : Finished(p, result)
      \/ \E result, input :
           calls' = [calls EXCEPT ![p].stage = "complete", ![p].result = result, ![p].input = input] /\ reply' = reply
  <2>1. CASE HearPlain(p)
    BY <2>1 DEF HearPlain, Return
  <2>2. CASE HearStatus(p)
    <3>1. PICK record, state : record = journal[calls[p].kind] /\ state = InferState(record, answers[p])
      OBVIOUS
    <3>2. \/ calls' = [calls EXCEPT ![p].stage = "complete", ![p].result = state, ![p].input = record.input] /\ reply' = reply
          \/ calls' = [calls EXCEPT ![p] = Quiet]
      BY <2>2, <3>1 DEF HearStatus
    <3>3. PICK input : input = record.input
      OBVIOUS
    <3> QED BY <3>2, <3>3
  <2>3. CASE HearOperation(p)
    BY <2>3 DEF HearOperation, Return
  <2> QED BY <2>1, <2>2, <2>3
<1>5. CASE calls' = [calls EXCEPT ![p] = Quiet]
  <2>1. calls'[p].stage = "idle" /\ \A q \in Procs : q # p => calls'[q] = calls[q]
    BY <1>5, QuietTypes DEF CallInv
  <2>2. "idle" # "reading"
    OBVIOUS
  <2> QED BY <1>1, <1>2, <1>3, <2>1, <2>2, MoveOrder
<1>6. CASE Go(p, "set")
  <2>1. "set" \in {"ask", "set", "setting"}
    OBVIOUS
  <2> QED BY <1>1, <1>2, <1>6, <2>1, GoOrder
<1>7. "complete" \in {"ask", "set", "setting", "complete"}
  OBVIOUS
<1>8. ASSUME NEW result, Finished(p, result) PROVE OrderInv'
  <2>1. PICK c : c = At(calls[p], "complete", calls[p].purpose, calls[p].input, result)
    OBVIOUS
  <2>2. calls' = [calls EXCEPT ![p] = c] /\ reply' = reply /\ c.stage = "complete"
    <3>1. c.stage = "complete"
      BY <2>1 DEF At
    <3>2. calls' = [calls EXCEPT ![p] = At(calls[p], "complete", calls[p].purpose, calls[p].input, result)]
      BY <1>8, FinishedAt
    <3>3. reply' = reply
      BY <1>8 DEF Finished
    <3> QED BY <2>1, <3>1, <3>2, <3>3
  <2> QED BY <1>1, <1>2, <1>3, <1>7, <2>2, StageOrder
<1>9. ASSUME NEW result, NEW input, reply' = reply,
             calls' = [calls EXCEPT ![p].stage = "complete", ![p].result = result, ![p].input = input]
      PROVE  OrderInv'
  <2>1. PICK c : c = At(calls[p], "complete", calls[p].purpose, input, result)
    OBVIOUS
  <2>2. calls' = [calls EXCEPT ![p] = c] /\ c.stage = "complete"
    <3>1. c.stage = "complete"
      BY <2>1 DEF At
    <3>2. calls' = [calls EXCEPT ![p] = At(calls[p], "complete", calls[p].purpose, input, result)]
      BY <1>9, FoundDoneAt
    <3> QED BY <2>1, <3>1, <3>2
  <2> QED BY <1>1, <1>2, <1>3, <1>7, <1>9, <2>2, StageOrder
<1> QED BY <1>4, <1>5, <1>6, <1>8, <1>9

\* A call of the agent, and what it keeps of the answer.
LEMMA AgentOrder ==
  ASSUME CallInv, OrderInv, AgentCalls \/ AgentPrepares
  PROVE  OrderInv'
<1>0. PICK p \in Procs : p = server
  BY DEF CallInv
<1>1. ASSUME NEW kind, NEW purpose, NEW input, Call(kind, purpose, input) PROVE OrderInv'
  <2>1. PICK c : c = [stage |-> IF kind \in Operations /\ purpose # "status" THEN "begin"
                                ELSE IF purpose = "status" THEN "lookup" ELSE "ask",
                      kind |-> kind, purpose |-> purpose, input |-> input, result |-> None]
    OBVIOUS
  <2>2. c.stage \in {"begin", "lookup", "ask"}
    BY <2>1
  <2>3. calls' = [calls EXCEPT ![p] = c] /\ reply' = None /\ server' = server
    BY <1>0, <1>1, <2>1 DEF Call
  <2>4. calls'[p] = c /\ \A q \in Procs : q # p => calls'[q] = calls[q]
    BY <2>3 DEF CallInv
  <2>5. c.stage # "reading" /\ c.stage # "complete"
    BY <2>2
  <2> QED BY <1>0, <2>3, <2>4, <2>5 DEF OrderInv
<1>2. CASE AgentPrepares
  <2>1. /\ calls' = calls /\ server' = server /\ UNCHANGED <<backlog, job, answers>>
        /\ reply' = None \/ reply' = reply
    BY <1>2 DEF AgentPrepares, ruleVars
  <2>2. (Late' <=> Late) /\ (ReadIsLast' <=> ReadIsLast)
    BY <2>1 DEF Late, ReadIsLast
  <2> QED BY <2>1, <2>2 DEF OrderInv
<1>3. CASE AgentCalls
  BY <1>1, <1>3 DEF AgentCalls
<1> QED BY <1>2, <1>3

\* A server that dies with its agent leaves no call.
LEMMA RestartOrder ==
  ASSUME CallInv, OrderInv, AgentRestarts, ~Orphans
  PROVE  OrderInv'
<1>1. PICK old \in Procs : old = server
  BY DEF CallInv
<1>2. calls' = [calls EXCEPT ![old] = Quiet] /\ reply' = None /\ server' \in Procs
  BY <1>1 DEF AgentRestarts
<1>3. \A q \in Procs : calls'[q].stage = "idle"
  BY <1>1, <1>2, QuietTypes DEF CallInv, OrderInv
<1>4. calls'[server'].stage # "reading" /\ calls'[server'].stage # "complete"
  BY <1>2, <1>3
<1> QED BY <1>2, <1>3, <1>4 DEF OrderInv

\* The other client sends and receives on a connection of its own.
LEMMA ExternalOrder ==
  ASSUME RuleInv, CallInv, OrderInv, ExternalStep
  PROVE  OrderInv'
<1>0. UNCHANGED <<calls, server, reply>> /\ server # External
  BY ProviderAssumption DEF ExternalStep, CallInv
<1>1. ASSUME NEW expected, NEW desired, Send(Request(External, "cas", Comm, expected, desired)) PROVE OrderInv'
  <2>1. PICK r : r = Request(External, "cas", Comm, expected, desired)
    OBVIOUS
  <2>2. r.conn = External /\ Send(r)
    BY <1>1, <2>1 DEF Request
  <2>3. backlog' = Append(backlog, r) /\ answers' = answers /\ job' = job
    BY <2>2 DEF Send
  <2>4. backlog \in Seq(SocketRequests)
    BY DEF RuleInv, BacklogTypes
  <2>5. \A i \in DOMAIN backlog' : (i \in DOMAIN backlog /\ backlog'[i] = backlog[i]) \/ backlog'[i] = r
    BY <2>3, <2>4, SMT
  <2>6. Late' => Late
    BY <2>2, <2>3, <2>5 DEF Late
  <2>7. ReadIsLast => ReadIsLast'
    BY <1>0, <2>2, <2>5 DEF ReadIsLast
  <2> QED BY <1>0, <2>3, <2>6, <2>7, OrderKept DEF OrderInv
<1>2. CASE Receive(External)
  <2>1. answers' = [answers EXCEPT ![External] = None] /\ backlog' = backlog /\ job' = job
    BY <1>2 DEF Receive
  <2>2. answers'[server] = answers[server]
    BY <1>0, <2>1, ProviderAssumption DEF RuleInv, RuleTypes, CallInv
  <2>3. (Late' => Late) /\ (ReadIsLast => ReadIsLast')
    BY <1>0, <2>1 DEF Late, ReadIsLast
  <2> QED BY <1>0, <2>2, <2>3, OrderKept DEF OrderInv
<1> QED BY <1>1, <1>2 DEF ExternalStep

\* Every step, when a server does not outlive its agent.
LEMMA OrderStepKeeps ==
  ProviderInv /\ (~Orphans => OrderInv) /\ [ProviderNext]_allVars => (~Orphans => OrderInv)'
<1> SUFFICES ASSUME ProviderInv, OrderInv, ~Orphans, [ProviderNext]_allVars PROVE OrderInv'
  OBVIOUS
<1>0. RuleInv /\ CallInv
  BY DEF ProviderInv
<1>1. CASE ProviderNext
  <2>1. CASE AgentCalls \/ AgentPrepares \/ AgentRestarts
    BY <1>0, <2>1, AgentOrder, RestartOrder
  <2>2. CASE ExternalStep \/ SchedulerStep
    BY <1>0, <2>2, ExternalOrder, SchedulerOrder
  <2>3. ASSUME NEW p \in Procs, ProcStep(p) PROVE OrderInv'
    BY <1>0, <2>3, BeginOrder, CompleteOrder, AskOrder, HearSetOrder, HearOrder DEF ProcStep
  <2> QED BY <1>1, <2>1, <2>2, <2>3 DEF ProviderNext
<1>2. CASE UNCHANGED allVars
  <2>1. UNCHANGED <<calls, server, reply, backlog, job, answers>>
    BY <1>2 DEF allVars, providerVars, ruleVars
  <2>2. (Late' => Late) /\ (ReadIsLast => ReadIsLast')
    BY <2>1 DEF Late, ReadIsLast
  <2> QED BY <2>1, <2>2, OrderKept DEF OrderInv
<1> QED BY <1>1, <1>2

\* When the server ends with its agent, an answer that names a state stands: no request
\* of the server is left on the socket that could still change the rule, not even
\* one whose exchange timed out, and no process is about to send one.
THEOREM AnswersStand == ProviderSpec => [](~Orphans => NothingOutstanding)
<1>1. ProviderInit => OrderInv
  <2> SUFFICES ASSUME ProviderInit PROVE OrderInv
    OBVIOUS
  <2>1. calls = [p \in Procs |-> Quiet] /\ reply = None /\ server \in Procs
    BY DEF ProviderInit
  <2>2. \A p \in Procs : calls[p].stage = "idle"
    BY <2>1, QuietTypes
  <2>3. calls[server].stage # "reading" /\ calls[server].stage # "complete"
    BY <2>1, <2>2
  <2> QED BY <2>1, <2>2, <2>3 DEF OrderInv
<1>2. ProviderInv /\ (~Orphans => OrderInv) => (~Orphans => NothingOutstanding)
  <2> SUFFICES ASSUME CallInv, OrderInv, reply # None, reply.state \notin {"error", "unknown"} PROVE ~Outstanding
    BY DEF ProviderInv, NothingOutstanding
  <2>1. ~Late /\ \A p \in Procs : calls[p].stage = "idle"
    BY DEF OrderInv, CallInv
  <2>2. \A p \in Procs : calls[p].stage \notin {"begin", "set"} /\ calls[p].stage \notin {"ask", "reading"}
    BY <2>1
  <2> QED BY <2>1, <2>2 DEF Outstanding, Late
<1> QED BY <1>1, <1>2, ProviderStarts, ProviderStepKeeps, OrderStepKeeps, PTL DEF ProviderSpec
=============================================================================
