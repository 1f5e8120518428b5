---------------------------- MODULE EpisodeProofs ----------------------------
(***************************************************************************)
(* The proofs about an episode, about the daemon around it and about the   *)
(* evaluation an episode may end with, for every limit of rounds and calls *)
(* and every plan, timeout and budget: an episode is sound whatever the    *)
(* agent asks for and whichever audit records are lost; the daemon leaves  *)
(* the kernel settled; and an evaluation closes what it opened, stays      *)
(* within its budget and authorizes a commit only on its own evidence.     *)
(***************************************************************************)
EXTENDS Daemon, AbEvaluation, TLAPS

\* The provers: a leaf that cites none is left to Zenon.
USE Zenon

Machine ==
  [phase : Phase, lifecycle : Lifecycle, intent : BOOLEAN,
   transactionId : BOOLEAN, candidate : BOOLEAN]

\* What a session keeps between two calls: its handle, the phase and the log agree
\* until the episode is settled; Committed is the phase of a committed log; and an
\* active episode has started no evaluation, in the Clean phase no transaction.
SessionIs(m, t, d, v, o, e) ==
  /\ m \in Machine /\ t \in BOOLEAN /\ d \in Durable /\ v \in Verdict \cup {"None"}
  /\ o \in 0 .. 1 /\ e \in 0 .. 1
  /\ m.phase # "CommitPending"
  /\ m.phase \in {"Committed", "RecoveryRequired"} \/
       /\ t = (m.phase \in {"Experimenting", "RollingBack"})
       /\ t = m.transactionId
       /\ t = (d = "Open")
       /\ t => m.intent
       /\ ~m.candidate
  /\ (m.phase = "Committed") = (d = "Committed")
  /\ d = "Unknown" => m.phase = "RecoveryRequired"
  /\ m.lifecycle = "Active" =>
       /\ m.phase \in {"Clean", "Experimenting"}
       /\ e = 0
       /\ m.phase = "Clean" => o = 0

SessionInv == SessionIs(machine, transaction, durable, decision, opened, evaluated)

\* How far run is: nothing was done before the first turn, and an outcome is the phase
\* in which the episode ended.
RunInv ==
  /\ at \in {"start", "turn", "call", "finish", "done"}
  /\ calls \in Seq(Command)
  /\ round \in {"action", "mixed", "context"}
  /\ actionRounds \in 0 .. MaxRounds /\ skillRounds \in 0 .. MaxSkillRounds
  /\ outcome \in Phase \cup {"None", "Error"}
  /\ auditFailed \in BOOLEAN
  /\ at = "start" => durable = "None"
  /\ at = "done" => outcome # "None"
  /\ outcome \in Phase =>
       /\ at = "done" /\ outcome = machine.phase
       /\ outcome \in {"Clean", "Committed", "RecoveryRequired"}
  /\ outcome = "Error" => at = "done" /\ (auditFailed \/ durable = "None")

EpisodeInv == SessionInv /\ RunInv

\* The invariant is stronger than the property.
LEMMA EpisodeInvSuffices == EpisodeInv => EpisodeIsSound
<1> SUFFICES ASSUME EpisodeInv PROVE EpisodeIsSound
  OBVIOUS
<1>1. EpisodeTypeOK
  BY SMT DEF EpisodeInv, SessionInv, SessionIs, RunInv, EpisodeTypeOK, Machine
<1>2. HandleMatchesPhase
  BY DEF EpisodeInv, SessionInv, SessionIs, HandleMatchesPhase, Settled
<1>3. OneTransaction
  BY SMT DEF EpisodeInv, SessionInv, SessionIs, OneTransaction
<1>4. OutcomeIsTrue
  BY DEF EpisodeInv, SessionInv, SessionIs, RunInv, OutcomeIsTrue, Phase, Durable
<1> QED BY <1>1, <1>2, <1>3, <1>4 DEF EpisodeIsSound

\* The reasoning is stopped: nothing else of the session changes (stop_reasoning).
LEMMA StoppedIsSound ==
  ASSUME NEW m, NEW t, NEW d, NEW v, NEW o, NEW e, SessionIs(m, t, d, v, o, e)
  PROVE  SessionIs(StopReasoning(m), t, d, v, o, e)
  BY SMT DEF SessionIs, StopReasoning, Machine, Phase, Lifecycle

\* A rollback that is done ends a session with a rolled back log, one that is not done
\* leaves the transaction open and asks for recovery (rollback_open_transaction after
\* a failed operation).
LEMMA RollbackIsSound ==
  ASSUME NEW m \in Machine, NEW v \in Verdict \cup {"None"}, NEW o \in 0 .. 1, NEW e \in 0 .. 1,
         m.transactionId, NEW s \in RollbackOrRecover(m, v, o, e)
  PROVE  /\ s = State(s[1], s[2], s[3], s[4], s[5], s[6])
         /\ SessionIs(s[1], s[2], s[3], s[4], s[5], s[6])
         /\ s[1].lifecycle = "Finished" /\ s[1].intent = m.intent
         /\ s[3] \in {"Open", "RolledBack"}
<1> DEFINE done == RollbackCompleted(BeginRollback(m))
           lost == RequireRecovery(BeginRollback(m))
<1>1. done \in Machine /\ lost \in Machine
  BY DEF Machine, RollbackCompleted, BeginRollback, RequireRecovery, Phase, Lifecycle
<1>2. /\ done.phase = "Clean" /\ done.lifecycle = "Finished" /\ done.intent = m.intent
      /\ done.transactionId = FALSE /\ done.candidate = FALSE
      /\ lost.phase = "RecoveryRequired" /\ lost.lifecycle = "Finished" /\ lost.intent = m.intent
  BY DEF Machine, RollbackCompleted, BeginRollback, RequireRecovery
<1> HIDE DEF done, lost
<1>3. s = State(done, FALSE, "RolledBack", v, o, e) \/ s = State(lost, TRUE, "Open", v, o, e)
  BY DEF RollbackOrRecover, RollbackOk, RollbackErr, done, lost
<1>4. SessionIs(done, FALSE, "RolledBack", v, o, e)
  BY <1>1, <1>2, SMT DEF SessionIs, Durable
<1>5. SessionIs(lost, TRUE, "Open", v, o, e)
  BY <1>1, <1>2 DEF SessionIs, Durable
<1>6. CASE s = State(done, FALSE, "RolledBack", v, o, e)
  BY <1>2, <1>4, <1>6 DEF State
<1>7. CASE s = State(lost, TRUE, "Open", v, o, e)
  BY <1>2, <1>5, <1>7 DEF State
<1> QED BY <1>3, <1>6, <1>7

\* A state written with State has the components it was made from.
LEMMA SameIsSound ==
  ASSUME SessionInv
  PROVE  SessionIs(Same[1], Same[2], Same[3], Same[4], Same[5], Same[6])
  BY DEF SessionInv, Same, State

\* begin_experiment installs an intent in a clean episode.
LEMMA BeginIsSound ==
  ASSUME SessionInv, IsAllowed(machine, "BeginExperiment"), NEW s \in BeginExperiment
  PROVE  SessionIs(s[1], s[2], s[3], s[4], s[5], s[6])
<1> DEFINE m == [machine EXCEPT !.intent = TRUE]
<1>1. m \in Machine /\ m.phase = machine.phase /\ m.lifecycle = machine.lifecycle
      /\ m.transactionId = machine.transactionId /\ m.candidate = machine.candidate
      /\ m.intent = TRUE
  BY DEF SessionInv, SessionIs, Machine
<1> HIDE DEF m
<1>2. SessionIs(m, transaction, durable, decision, opened, evaluated)
  BY <1>1 DEF SessionInv, SessionIs
<1>3. CASE s = State(m, transaction, durable, decision, opened, evaluated)
  BY <1>2, <1>3 DEF State
<1> QED BY <1>3, SameIsSound DEF BeginExperiment, m

\* mutate opens the one transaction of the episode or goes on with it; a failed
\* experiment is rolled back or asks for recovery.
LEMMA MutateIsSound ==
  ASSUME SessionInv, IsAllowed(machine, "Mutation"), NEW s \in Mutate
  PROVE  SessionIs(s[1], s[2], s[3], s[4], s[5], s[6])
<1> DEFINE m == IF transaction THEN machine ELSE BeginTransaction(machine)
           o == IF transaction THEN opened ELSE opened + 1
           lost == RequireRecovery(machine)
<1>1. /\ machine \in Machine /\ machine.intent /\ machine.lifecycle = "Active"
      /\ machine.phase \in {"Clean", "Experimenting"} /\ machine.candidate = FALSE
      /\ transaction \in BOOLEAN /\ transaction = machine.transactionId
      /\ transaction = (machine.phase = "Experimenting")
      /\ ~transaction => opened = 0
      /\ opened \in 0 .. 1 /\ evaluated = 0 /\ durable \notin {"Committed", "Unknown"}
      /\ decision \in Verdict \cup {"None"}
  BY DEF SessionInv, SessionIs, Machine, IsAllowed, AllowedInPhase
<1>2. /\ m \in Machine /\ m.phase = "Experimenting" /\ m.lifecycle = "Active"
      /\ m.intent = TRUE /\ m.transactionId = TRUE /\ m.candidate = FALSE
  BY <1>1 DEF Machine, BeginTransaction, Phase
<1>3. o \in 0 .. 1
  BY <1>1, SMT
<1>4. /\ lost \in Machine /\ lost.phase = "RecoveryRequired" /\ lost.lifecycle = "Finished"
  BY <1>1 DEF Machine, RequireRecovery, Phase, Lifecycle
<1>5. SessionIs(m, TRUE, "Open", decision, o, evaluated)
  BY <1>1, <1>2, <1>3, SMT DEF SessionIs, Durable
<1>6. SessionIs(lost, FALSE, "Unknown", decision, o, evaluated)
  BY <1>1, <1>3, <1>4, SMT DEF SessionIs, Durable
<1>7. CASE s = State(m, TRUE, "Open", decision, o, evaluated)
  BY <1>5, <1>7 DEF State
<1>8. CASE s = State(lost, FALSE, "Unknown", decision, o, evaluated)
  BY <1>6, <1>8 DEF State
<1>9. CASE s \in RollbackOrRecover(m, decision, o, evaluated)
  BY <1>1, <1>2, <1>3, <1>9, RollbackIsSound, SMT
<1>10. \/ s = Same
       \/ s = State(m, TRUE, "Open", decision, o, evaluated)
       \/ s = State(lost, FALSE, "Unknown", decision, o, evaluated)
       \/ s \in RollbackOrRecover(m, decision, o, evaluated)
  BY DEF Mutate
<1> QED BY <1>7, <1>8, <1>9, <1>10, SameIsSound

\* request_commit ends the reasoning: the candidate is committed on an Improved
\* verdict, and otherwise rolled back or left to recovery.
LEMMA CommitIsSound ==
  ASSUME SessionInv, IsAllowed(machine, "RequestCommit"), NEW s \in RequestCommit
  PROVE  SessionIs(s[1], s[2], s[3], s[4], s[5], s[6])
<1> DEFINE m == CommitRequested(machine)
           done == CommitCompleted(m)
           lost == RequireRecovery(m)
<1>1. /\ machine \in Machine /\ machine.intent /\ machine.transactionId
      /\ opened \in 0 .. 1 /\ evaluated = 0 /\ decision \in Verdict \cup {"None"}
  BY DEF SessionInv, SessionIs, Machine, IsAllowed, AllowedInPhase
<1>2. m \in Machine /\ m.intent = TRUE /\ m.transactionId = TRUE
  BY <1>1 DEF Machine, CommitRequested, Phase, Lifecycle
<1> HIDE DEF m
<1>3. /\ done \in Machine /\ done.phase = "Committed" /\ done.lifecycle = "Finished"
      /\ done.intent = TRUE
      /\ lost \in Machine /\ lost.phase = "RecoveryRequired" /\ lost.lifecycle = "Finished"
  BY <1>2 DEF Machine, CommitCompleted, RequireRecovery, Phase, Lifecycle
<1> HIDE DEF done, lost
<1>4. "Improved" \in Verdict /\ "NotImproved" \in Verdict /\ evaluated + 1 = 1 /\ 1 \in 0 .. 1
  BY <1>1, SMT DEF Verdict
<1>5. SessionIs(done, TRUE, "Committed", "Improved", opened, 1)
  BY <1>1, <1>3, <1>4 DEF SessionIs, Durable
<1>6. SessionIs(lost, TRUE, "Unknown", "Improved", opened, 1)
  BY <1>1, <1>3, <1>4 DEF SessionIs, Durable
<1>7. CASE s = State(done, TRUE, "Committed", "Improved", opened, 1)
  BY <1>5, <1>7 DEF State
<1>8. CASE s = State(lost, TRUE, "Unknown", "Improved", opened, 1)
  BY <1>6, <1>8 DEF State
<1>9. ASSUME NEW v \in Verdict \cup {"None"}, s \in RollbackOrRecover(m, v, opened, 1)
      PROVE  SessionIs(s[1], s[2], s[3], s[4], s[5], s[6])
  BY <1>1, <1>2, <1>4, <1>9, RollbackIsSound
<1>10. ASSUME NEW r \in RollbackOrRecover(m, decision, opened, 1),
              s = State(RequireRecovery(r[1]), r[2], r[3], r[4], r[5], r[6])
       PROVE  SessionIs(s[1], s[2], s[3], s[4], s[5], s[6])
  <2> DEFINE n == RequireRecovery(r[1])
  <2>1. /\ SessionIs(r[1], r[2], r[3], r[4], r[5], r[6])
        /\ r[3] \in {"Open", "RolledBack"}
    BY <1>1, <1>2, <1>4, <1>10, RollbackIsSound, SMT
  <2>2. n \in Machine /\ n.phase = "RecoveryRequired" /\ n.lifecycle = "Finished"
    BY <2>1 DEF SessionIs, Machine, RequireRecovery, Phase, Lifecycle
  <2> HIDE DEF n
  <2>3. SessionIs(n, r[2], r[3], r[4], r[5], r[6])
    BY <2>1, <2>2 DEF SessionIs
  <2> QED BY <1>10, <2>3 DEF State, n
<1>11. \/ s = Same
       \/ s = State(done, TRUE, "Committed", "Improved", opened, 1)
       \/ s = State(lost, TRUE, "Unknown", "Improved", opened, 1)
       \/ \E v \in Verdict \cup {"None"} : s \in RollbackOrRecover(m, v, opened, 1)
       \/ \E r \in RollbackOrRecover(m, decision, opened, 1) :
            s = State(RequireRecovery(r[1]), r[2], r[3], r[4], r[5], r[6])
  BY <1>1, <1>4 DEF RequestCommit, EvaluationFailed, FinalizeImproved, m, done, lost
<1> QED BY <1>7, <1>8, <1>9, <1>10, <1>11, SameIsSound

\* A rollback from a session that is not settled: done, it leaves a clean episode
\* without a transaction, with the log rolled back if there was one.
LEMMA RolledBackIsSound ==
  ASSUME SessionInv, machine.phase \notin {"Committed", "RecoveryRequired"},
         NEW m \in {machine, StopReasoning(machine)}
  PROVE  /\ SessionIs(FinishClean(RollbackOk(m, durable).machine), FALSE,
                      RollbackOk(m, durable).durable, decision, opened, evaluated)
         /\ FinishClean(RollbackOk(m, durable).machine).phase = "Clean"
<1> DEFINE done == RollbackOk(m, durable)
           n == FinishClean(done.machine)
<1>1. /\ m \in Machine /\ m.phase = machine.phase /\ m.transactionId = machine.transactionId
      /\ m.candidate = machine.candidate /\ m.intent = machine.intent
  BY SMT DEF SessionInv, SessionIs, Machine, StopReasoning, Phase, Lifecycle
<1>2. /\ machine.candidate = FALSE /\ transaction = machine.transactionId
      /\ transaction \in BOOLEAN /\ machine.phase # "CommitPending"
      /\ transaction = (durable = "Open")
      /\ transaction = (machine.phase \in {"Experimenting", "RollingBack"})
  BY DEF SessionInv, SessionIs, Machine
<1>3. CASE transaction
  <2>1. done = [machine |-> RollbackCompleted(BeginRollback(m)), durable |-> "RolledBack"]
    BY <1>3 DEF RollbackOk
  <2>2. BeginRollback(m) \in Machine
    BY <1>1 DEF Machine, BeginRollback, Phase, Lifecycle
  <2>3. n = [RollbackCompleted(BeginRollback(m)) EXCEPT !.lifecycle = "Finished"]
    BY <2>1, SMT DEF FinishClean
  <2>4. /\ n \in Machine /\ n.phase = "Clean" /\ n.lifecycle = "Finished"
        /\ n.transactionId = FALSE /\ n.candidate = FALSE
    BY <2>2, <2>3 DEF Machine, RollbackCompleted, Phase, Lifecycle
  <2>5. done.durable = "RolledBack"
    BY <2>1, SMT
  <2> HIDE DEF n, done
  <2>6. SessionIs(n, FALSE, done.durable, decision, opened, evaluated)
    BY <2>4, <2>5, SMT DEF SessionInv, SessionIs, Durable
  <2> QED BY <2>4, <2>6 DEF n, done
<1>4. CASE ~transaction
  <2>1. done = [machine |-> m, durable |-> durable]
    BY <1>1, <1>2, <1>4 DEF RollbackOk
  <2>2. m.phase = "Clean"
    BY <1>1, <1>2, <1>4 DEF Machine, Phase, SessionInv, SessionIs
  <2>3. /\ n \in Machine /\ n.phase = "Clean" /\ n.lifecycle = "Finished"
        /\ n.transactionId = FALSE /\ n.candidate = FALSE /\ n.intent = machine.intent
    BY <1>1, <1>2, <1>4, <2>1, <2>2, SMT DEF Machine, FinishClean, Phase, Lifecycle
  <2>4. done.durable = durable
    BY <2>1, SMT
  <2>5. machine.phase = "Clean"
    BY <1>1, <2>2
  <2> HIDE DEF n, done
  <2>6. SessionIs(n, FALSE, done.durable, decision, opened, evaluated)
    BY <1>2, <1>4, <2>3, <2>4, <2>5 DEF SessionInv, SessionIs
  <2> QED BY <2>3, <2>6 DEF n, done
<1> QED BY <1>2, <1>3, <1>4

\* abort rolls back; a rollback that fails is left to the end of the session.
LEMMA AbortIsSound ==
  ASSUME SessionInv, IsAllowed(machine, "Abort"), NEW s \in Abort
  PROVE  SessionIs(s[1], s[2], s[3], s[4], s[5], s[6])
<1> DEFINE m == StopReasoning(machine)
           done == RollbackOk(m, durable)
           n == FinishClean(done.machine)
           back == RollbackErr(m)
<1>1. /\ machine \in Machine /\ machine.lifecycle = "Active"
      /\ machine.phase \in {"Clean", "Experimenting"} /\ machine.candidate = FALSE
      /\ transaction = machine.transactionId /\ transaction \in BOOLEAN
      /\ transaction = (machine.phase = "Experimenting")
      /\ transaction => machine.intent
  BY DEF SessionInv, SessionIs, Machine, IsAllowed, AllowedInPhase
<1>2. SessionIs(n, FALSE, done.durable, decision, opened, evaluated)
  BY <1>1, RolledBackIsSound
<1>3. transaction =>
        /\ back \in Machine /\ back.phase = "RollingBack" /\ back.lifecycle = "Finishing"
        /\ back.transactionId = TRUE /\ back.candidate = FALSE /\ back.intent = machine.intent
  BY <1>1 DEF Machine, StopReasoning, RollbackErr, BeginRollback, Phase, Lifecycle
<1> HIDE DEF n, done, back
<1>4. transaction => SessionIs(back, TRUE, "Open", decision, opened, evaluated)
  BY <1>1, <1>3 DEF SessionInv, SessionIs, Durable
<1>5. CASE s = State(n, FALSE, done.durable, decision, opened, evaluated)
  BY <1>2, <1>5 DEF State
<1>6. CASE transaction /\ s = State(back, TRUE, "Open", decision, opened, evaluated)
  BY <1>4, <1>6 DEF State
<1> QED BY <1>5, <1>6 DEF Abort, n, done, back

\* Whatever a call decodes to, it leaves the session sound (execute).
LEMMA HandledIsSound ==
  ASSUME SessionInv, NEW command, NEW s \in Handled(command)
  PROVE  SessionIs(s[1], s[2], s[3], s[4], s[5], s[6])
<1>1. CASE s = Same
  BY <1>1, SameIsSound
<1>2. CASE command \in Action /\ IsAllowed(machine, command) /\ s \in Execute(command)
  BY <1>1, <1>2, BeginIsSound, MutateIsSound, CommitIsSound, AbortIsSound DEF Execute, Action
<1> QED BY <1>1, <1>2 DEF Handled, Execute

\* The end of a session is in a phase that can be reported, and sound (finish_session).
LEMMA CleanedIsSound ==
  ASSUME SessionInv, NEW s \in Cleaned
  PROVE  /\ SessionIs(s[1], s[2], s[3], s[4], s[5], s[6])
         /\ s[1].phase \in {"Clean", "Committed", "RecoveryRequired"}
<1>1. CASE machine.phase \in {"Committed", "RecoveryRequired"}
  <2>1. s = Same /\ Same[1] = machine
    BY <1>1 DEF Cleaned, Same, State
  <2> QED BY <1>1, <2>1, SameIsSound
<1>2. CASE machine.phase \notin {"Committed", "RecoveryRequired"}
  <2> DEFINE done == RollbackOk(machine, durable)
             n == FinishClean(done.machine)
             lost == CleanupFailed
  <2>1. SessionIs(n, FALSE, done.durable, decision, opened, evaluated) /\ n.phase = "Clean"
    BY <1>2, RolledBackIsSound
  <2>2. /\ lost \in Machine /\ lost.phase = "RecoveryRequired" /\ lost.lifecycle = "Finished"
    BY DEF SessionInv, SessionIs, CleanupFailed, RollbackErr, BeginRollback, RequireRecovery,
           Machine, Phase, Lifecycle
  <2> HIDE DEF n, done, lost
  <2>3. SessionIs(lost, TRUE, "Open", decision, opened, evaluated)
    BY <2>2 DEF SessionInv, SessionIs, Durable
  <2>4. CASE s = State(n, FALSE, done.durable, decision, opened, evaluated)
    BY <2>1, <2>4 DEF State
  <2>5. CASE s = State(lost, TRUE, "Open", decision, opened, evaluated)
    BY <2>2, <2>3, <2>5 DEF State
  <2> QED BY <1>2, <2>4, <2>5 DEF Cleaned, n, done, lost
<1> QED BY <1>1, <1>2

\* A session that becomes a sound state is sound.
LEMMA BecomesSound ==
  ASSUME NEW s, Becomes(s), SessionIs(s[1], s[2], s[3], s[4], s[5], s[6])
  PROVE  SessionInv'
  BY DEF Becomes, SessionInv

LEMMA SessionKept ==
  ASSUME SessionInv, UNCHANGED session
  PROVE  SessionInv'
  BY DEF session, SessionInv

LEMMA FailClosedIsSound ==
  ASSUME SessionInv, FailClosed
  PROVE  SessionInv'
<1> DEFINE s == State(StopReasoning(machine), transaction, durable, decision, opened, evaluated)
<1>1. SessionIs(StopReasoning(machine), transaction, durable, decision, opened, evaluated)
  BY StoppedIsSound DEF SessionInv
<1>2. /\ s[1] = StopReasoning(machine) /\ s[2] = transaction /\ s[3] = durable
      /\ s[4] = decision /\ s[5] = opened /\ s[6] = evaluated
  BY DEF State
<1>3. Becomes(s)
  BY DEF FailClosed
<1> HIDE DEF s
<1> QED BY <1>1, <1>2, <1>3, BecomesSound

\* Between two actions of run nothing is reported yet.
LEMMA NothingReported ==
  ASSUME RunInv, at # "done"
  PROVE  outcome = "None"
  BY DEF RunInv

\* A step of run that reports nothing and keeps the counters in their limits.
LEMMA RunGoesOn ==
  ASSUME RunInv, at # "done", outcome' = outcome, at' \in {"turn", "call", "finish"},
         calls' \in Seq(Command), round' \in {"action", "mixed", "context"},
         actionRounds' \in 0 .. MaxRounds, skillRounds' \in 0 .. MaxSkillRounds,
         auditFailed' \in BOOLEAN
  PROVE  RunInv'
  BY NothingReported DEF RunInv, Phase

LEMMA StartKeeps ==
  ASSUME EpisodeInv, Start
  PROVE  EpisodeInv'
<1>1. SessionInv'
  BY SessionKept, FailClosedIsSound DEF EpisodeInv, Start, FailClosed
<1>2. /\ at = "start" /\ durable = "None"
      /\ calls' = calls /\ round' = round
      /\ actionRounds' = actionRounds /\ skillRounds' = skillRounds
  BY DEF EpisodeInv, RunInv, Start, rounds
<1>3. CASE at' \in {"turn", "finish"}
  <2>1. outcome' = outcome /\ auditFailed' \in BOOLEAN
    BY <1>3 DEF EpisodeInv, RunInv, Start, Recorded, NotRecorded
  <2> QED BY <1>1, <1>2, <1>3, <2>1, RunGoesOn DEF EpisodeInv, RunInv
<1>4. CASE at' = "done"
  <2>1. outcome' = "Error" /\ durable' = "None" /\ auditFailed' \in BOOLEAN
    BY <1>2, <1>4 DEF EpisodeInv, RunInv, Start, session, Recorded, NotRecorded
  <2>2. outcome' \notin Phase
    BY <2>1 DEF Phase
  <2> QED BY <1>1, <1>2, <1>4, <2>1, <2>2 DEF EpisodeInv, RunInv
<1>5. at' \in {"turn", "finish", "done"}
  BY DEF Start
<1> QED BY <1>1, <1>3, <1>4, <1>5 DEF EpisodeInv

LEMMA FinalTurnKeeps ==
  ASSUME EpisodeInv, FinalTurn
  PROVE  EpisodeInv'
<1>1. SessionInv'
  BY SessionKept, FailClosedIsSound DEF EpisodeInv, FinalTurn
<1>2. actionRounds' \in 0 .. MaxRounds
  BY RoundsAssumption, SMT DEF EpisodeInv, RunInv, FinalTurn
<1>3. auditFailed' \in BOOLEAN
  BY DEF EpisodeInv, RunInv, FinalTurn, Recorded, NotRecorded
<1>4. RunInv'
  BY <1>2, <1>3, RunGoesOn DEF EpisodeInv, RunInv, FinalTurn
<1> QED BY <1>1, <1>4 DEF EpisodeInv

LEMMA ToolCallsKeeps ==
  ASSUME EpisodeInv, NEW batch \in Batch, ToolCalls(batch)
  PROVE  EpisodeInv'
<1>1. batch \in Seq(Command) /\ <<>> \in Seq(Command)
  BY RoundsAssumption, SMT DEF Batch
<1>2. Kind(batch) \in {"action", "mixed", "context"}
  BY DEF Kind
<1>3. at = "turn" /\ at' \in {"finish", "call"} /\ round' = Kind(batch)
      /\ UNCHANGED <<session, outcome, auditFailed>>
      /\ calls' \in {batch, <<>>}
  BY DEF ToolCalls, TakeRound
<1>4. actionRounds' \in 0 .. MaxRounds /\ skillRounds' \in 0 .. MaxSkillRounds
  BY RoundsAssumption, SMT DEF EpisodeInv, RunInv, ToolCalls, TakeRound
<1>5. RunInv'
  BY <1>1, <1>2, <1>3, <1>4, RunGoesOn DEF EpisodeInv, RunInv
<1> QED BY <1>3, <1>5, SessionKept DEF EpisodeInv

LEMMA CallKeeps ==
  ASSUME EpisodeInv, Call
  PROVE  EpisodeInv'
<1>1. at = "call" /\ calls # <<>> /\ UNCHANGED <<round, actionRounds, skillRounds, outcome>>
  BY DEF Call
<1>2. calls \in Seq(Command) /\ Tail(calls) \in Seq(Command) /\ <<>> \in Seq(Command)
  BY <1>1, SMT DEF EpisodeInv, RunInv
<1>3. at' \in {"finish", "call"} /\ calls' \in {<<>>, Tail(calls)} /\ auditFailed' \in BOOLEAN
  BY DEF EpisodeInv, RunInv, Call, Recorded, NotRecorded
<1>4. RunInv'
  BY <1>1, <1>2, <1>3, RunGoesOn DEF EpisodeInv, RunInv
<1>5. SessionInv'
  <2>1. ASSUME NEW s \in Handled(Head(calls)), Becomes(s)
        PROVE  SessionInv'
    BY <2>1, HandledIsSound, BecomesSound DEF EpisodeInv
  <2>2. ASSUME NEW s \in Handled(Head(calls)),
               Becomes(State(StopReasoning(s[1]), s[2], s[3], s[4], s[5], s[6]))
        PROVE  SessionInv'
    <3> DEFINE r == State(StopReasoning(s[1]), s[2], s[3], s[4], s[5], s[6])
    <3>1. SessionIs(StopReasoning(s[1]), s[2], s[3], s[4], s[5], s[6])
      BY HandledIsSound, StoppedIsSound DEF EpisodeInv
    <3>2. /\ r[1] = StopReasoning(s[1]) /\ r[2] = s[2] /\ r[3] = s[3]
          /\ r[4] = s[4] /\ r[5] = s[5] /\ r[6] = s[6]
      BY DEF State
    <3> HIDE DEF r
    <3> QED BY <2>2, <3>1, <3>2, BecomesSound DEF r
  <2> QED BY <2>1, <2>2, FailClosedIsSound DEF EpisodeInv, Call
<1> QED BY <1>4, <1>5 DEF EpisodeInv

LEMMA ResumeKeeps ==
  ASSUME EpisodeInv, Resume
  PROVE  EpisodeInv'
<1>1. SessionInv'
  BY SessionKept, FailClosedIsSound DEF EpisodeInv, Resume
<1>2. RunInv'
  BY RunGoesOn DEF EpisodeInv, RunInv, Resume, rounds
<1> QED BY <1>1, <1>2 DEF EpisodeInv

LEMMA FinishKeeps ==
  ASSUME EpisodeInv, FinishSession
  PROVE  EpisodeInv'
<1>1. PICK s \in Cleaned :
        /\ Becomes(s)
        /\ \/ Recorded /\ outcome' = s[1].phase
           \/ NotRecorded /\ outcome' = "Error"
  BY DEF FinishSession
<1>2. /\ SessionIs(s[1], s[2], s[3], s[4], s[5], s[6])
      /\ s[1].phase \in {"Clean", "Committed", "RecoveryRequired"}
  BY CleanedIsSound DEF EpisodeInv
<1>3. SessionInv'
  BY <1>1, <1>2, BecomesSound
<1>4. machine' = s[1] /\ at' = "done" /\ UNCHANGED rounds
  BY <1>1 DEF Becomes, FinishSession
<1>5. RunInv'
  BY <1>1, <1>2, <1>4 DEF EpisodeInv, RunInv, Phase, Recorded, NotRecorded, rounds
<1> QED BY <1>3, <1>5 DEF EpisodeInv

LEMMA NewIsSound == SessionIs(NewMachine, FALSE, "None", "None", 0, 0)
<1>1. NewMachine \in Machine
  BY DEF NewMachine, Machine, Phase, Lifecycle
<1>2. PICK t \in BOOLEAN : t = FALSE
  OBVIOUS
<1>3. /\ NewMachine.phase = "Clean" /\ NewMachine.transactionId = t
      /\ NewMachine.candidate = t
  BY <1>2 DEF NewMachine
<1>4. 0 \in 0 .. 1 /\ "None" \in Durable
  BY SMT DEF Durable
<1> QED BY <1>1, <1>2, <1>3, <1>4, SMT DEF SessionIs

LEMMA EpisodeStarts == EpisodeInit => EpisodeInv
<1> SUFFICES ASSUME EpisodeInit PROVE EpisodeInv
  OBVIOUS
<1>3. SessionInv
  BY NewIsSound DEF EpisodeInit, SessionInv
<1>4. 0 \in 0 .. MaxRounds /\ 0 \in 0 .. MaxSkillRounds /\ <<>> \in Seq(Command)
  BY RoundsAssumption, SMT
<1>5. outcome \notin Phase /\ outcome # "Error" /\ auditFailed \in BOOLEAN
  BY DEF EpisodeInit, Phase
<1>6. RunInv
  BY <1>4, <1>5 DEF EpisodeInit, RunInv
<1> QED BY <1>3, <1>6 DEF EpisodeInv

LEMMA EpisodeStepKeeps == EpisodeInv /\ [EpisodeNext]_episodeVars => EpisodeInv'
<1> SUFFICES ASSUME EpisodeInv, [EpisodeNext]_episodeVars PROVE EpisodeInv'
  OBVIOUS
<1>1. CASE UNCHANGED episodeVars
  BY <1>1 DEF EpisodeInv, RunInv, SessionInv, episodeVars, session, rounds
<1> QED BY <1>1, StartKeeps, FinalTurnKeeps, ToolCallsKeeps, CallKeeps, ResumeKeeps, FinishKeeps
         DEF EpisodeNext

\* An episode is sound whatever turns and batches the agent makes, however many of
\* them there may be, and whichever audit records are lost: EpisodeCoordinator::run
\* reports what the log proves, and never loses hold of its one transaction.
THEOREM EpisodeSafety == EpisodeSpec => []EpisodeIsSound
  BY EpisodeStarts, EpisodeStepKeeps, EpisodeInvSuffices, PTL DEF EpisodeSpec

---------------------------------------------------------------------------
(* The daemon *)

Kernel == [state : ActivationState, until : SUBSET Nat,
           lastType : EventType \cup {"timer", "none"}, lastWake : SUBSET Nat]

\* The cooldown of the last finished episode is the kernel's deadline until it is over.
CoolsDown(k, c, n) ==
  \A t \in c :
    /\ k.state = "Cooldown" => k.until = {t + Cooldown}
    /\ k.state \in {"Sleeping", "Active"} => n >= t + Cooldown

CooldownInv == loop # "down" => CoolsDown(kernel, cooled, clock)

\* Outside an episode run has not started; in an episode there is a request to
\* answer.
LoopInv ==
  /\ loop # "episode" => at = "start" /\ outcome = "None"
  /\ loop = "episode" => queue # <<>>

DaemonInv ==
  /\ EpisodeInv
  /\ clock \in 0 .. MaxTime
  /\ kernel \in Kernel
  /\ loop \in {"unix", "unix requests", "timer requests", "episode", "down"}
  /\ queue \in Seq(Request)
  /\ nextTick \in Nat
  /\ unproven \in BOOLEAN
  /\ cooled \in SUBSET Nat
  /\ cause \in {"none", "listener", "audit", "client", "killed"}
  /\ LoopInv /\ ActiveInEpisodeOnly /\ FrozenUnlessAuditLost /\ CooldownInv

LEMMA DaemonInvSuffices == DaemonInv => KernelIsSettled
<1> SUFFICES ASSUME DaemonInv PROVE KernelIsSettled
  OBVIOUS
<1>1. EpisodeTypeOK
  BY EpisodeInvSuffices DEF DaemonInv, EpisodeIsSound
<1>2. DaemonTypeOK
  BY <1>1 DEF DaemonInv, DaemonTypeOK, Kernel
<1>3. CooldownHonoured
  BY DEF DaemonInv, CooldownInv, CoolsDown, CooldownHonoured, ActiveInEpisodeOnly
<1> QED BY <1>2, <1>3 DEF DaemonInv, KernelIsSettled

\* The kernel's own operations.
LEMMA NewKernelType == NewKernel \in Kernel /\ NewKernel.state = "Sleeping"
  BY DEF NewKernel, Kernel, ActivationState

LEMMA ElapsedKernel ==
  ASSUME NEW k \in Kernel
  PROVE  /\ Elapsed(k) \in Kernel
         /\ Elapsed(k) = k \/ (k.state = "Cooldown" /\ Elapsed(k).state = "Sleeping"
                               /\ \E u \in k.until : clock >= u)
         /\ k.state = "Cooldown" /\ (\E u \in k.until : clock >= u) => Elapsed(k).state = "Sleeping"
  BY DEF Elapsed, Kernel, ActivationState

LEMMA AcceptedKernel ==
  ASSUME NEW event \in Event, clock \in Nat
  PROVE  Accepted(event) \in Kernel /\ Accepted(event).state = "Active"
  BY DEF Accepted, Event, Kernel, ActivationState

LEMMA SleepKernel ==
  ASSUME NEW k \in Kernel
  PROVE  Sleep(k) \in Kernel /\ Sleep(k).state = "Sleeping"
  BY DEF Sleep, Kernel, ActivationState

LEMMA FreezeKernel ==
  ASSUME NEW k \in Kernel
  PROVE  Freeze(k) \in Kernel /\ Freeze(k).state = "Frozen"
  BY DEF Freeze, Kernel, ActivationState

LEMMA CooledKernel ==
  ASSUME NEW k \in Kernel, clock \in Nat
  PROVE  /\ CooledDown(k) \in Kernel /\ CooledDown(k).state = "Cooldown"
         /\ CooledDown(k).until = {clock + Cooldown}
<1>1. {clock + Cooldown} \in SUBSET Nat
  BY TimeAssumption, SMT
<1> QED BY <1>1 DEF CooledDown, Kernel, ActivationState

\* A kernel whose cooldown elapses is past it.
LEMMA ElapsedCoolsDown ==
  ASSUME NEW k \in Kernel, NEW c \in SUBSET Nat, CoolsDown(k, c, clock)
  PROVE  CoolsDown(Elapsed(k), c, clock)
<1>1. PICK e : e = Elapsed(k)
  OBVIOUS
<1>2. e = k \/ (k.state = "Cooldown" /\ e.state = "Sleeping" /\ \E u \in k.until : clock >= u)
  BY <1>1, ElapsedKernel
<1>3. CASE e = k
  BY <1>1, <1>3
<1>4. CASE k.state = "Cooldown" /\ e.state = "Sleeping" /\ \E u \in k.until : clock >= u
  <2>1. "Sleeping" # "Cooldown"
    OBVIOUS
  <2> QED BY <1>1, <1>4, <2>1 DEF CoolsDown
<1> QED BY <1>2, <1>3, <1>4

\* What accepts an event is awake, and past the cooldown.
LEMMA AcceptsIsPast ==
  ASSUME NEW k \in Kernel, NEW c \in SUBSET Nat, CoolsDown(k, c, clock), NEW event, Accepts(k, event)
  PROVE  k.state # "Frozen" /\ \A t \in c : clock >= t + Cooldown
  BY ElapsedKernel, ElapsedCoolsDown DEF CoolsDown, Accepts, Kernel, ActivationState

\* The kernel of an accepted event, Active or put to sleep again, is past the cooldown.
LEMMA PastCoolsDown ==
  ASSUME NEW k, NEW c, k.state \in {"Sleeping", "Active"}, \A t \in c : clock >= t + Cooldown
  PROVE  CoolsDown(k, c, clock)
  BY DEF CoolsDown

\* The answer to a request takes it off the queue, or brings the process down.
LEMMA ResponseKeeps ==
  ASSUME NEW k \in Kernel, k.state # "Active", queue \in Seq(Request), queue # <<>>,
         cause \in {"none", "listener", "audit", "client", "killed"},
         Respond(k) \/ Exit("audit")
  PROVE  /\ kernel' \in Kernel /\ kernel'.state # "Active"
         /\ loop' \in {"unix requests", "timer requests", "down"}
         /\ loop' # "down" => kernel' = k
         /\ queue' \in Seq(Request)
         /\ cause' \in {"none", "listener", "audit", "client", "killed"}
<1>1. Tail(queue) \in Seq(Request) /\ <<>> \in Seq(Request)
  BY SMT
<1>2. CASE \E why \in {"client", "audit"} : Exit(why)
  BY <1>1, <1>2, NewKernelType DEF Exit
<1>3. CASE /\ queue' = Tail(queue) /\ kernel' = k /\ UNCHANGED cause
           /\ loop' = IF Head(queue).source = "timer" THEN "timer requests" ELSE "unix requests"
  BY <1>1, <1>3
<1> QED BY <1>2, <1>3 DEF Respond

\* The rest of the session is fresh, or untouched.
LEMMA FreshIsSound ==
  ASSUME FreshEpisode, auditFailed' \in BOOLEAN
  PROVE  EpisodeInv' /\ at' = "start" /\ outcome' = "None"
<1> DEFINE s == State(NewMachine, FALSE, "None", "None", 0, 0)
<1>1. PICK f \in BOOLEAN : f = FALSE
  OBVIOUS
<1>2. s[1] = NewMachine /\ s[2] = f /\ s[3] = "None" /\ s[4] = "None" /\ s[5] = 0 /\ s[6] = 0
  BY <1>1 DEF State
<1>3. Becomes(s)
  BY DEF FreshEpisode
<1>4. SessionIs(NewMachine, f, "None", "None", 0, 0)
  BY <1>1, NewIsSound
<1>5. durable' = "None"
  BY <1>2, <1>3 DEF Becomes
<1> HIDE DEF s
<1>6. SessionInv'
  BY <1>2, <1>3, <1>4, BecomesSound
<1>7. 0 \in 0 .. MaxRounds /\ 0 \in 0 .. MaxSkillRounds /\ <<>> \in Seq(Command)
  BY RoundsAssumption, SMT
<1>8. "None" \notin Phase
  BY DEF Phase
<1>9. RunInv'
  BY <1>5, <1>7, <1>8 DEF FreshEpisode, RunInv
<1> QED BY <1>6, <1>9 DEF EpisodeInv, FreshEpisode

LEMMA UntouchedIsSound ==
  ASSUME EpisodeInv, outcome = "None", UNCHANGED <<session, rounds, at, outcome>>,
         auditFailed' \in BOOLEAN
  PROVE  EpisodeInv'
<1>1. SessionInv'
  BY SessionKept DEF EpisodeInv
<1>2. RunInv'
  BY DEF EpisodeInv, RunInv, session, rounds, Phase
<1> QED BY <1>1, <1>2 DEF EpisodeInv

\* The loop's steps, one by one.
LEMMA EpisodeUnchanged ==
  ASSUME DaemonInv, UNCHANGED episodeVars
  PROVE  EpisodeInv' /\ at' = at /\ outcome' = outcome /\ auditFailed' = auditFailed
  BY EpisodeStepKeeps DEF DaemonInv, episodeVars

LEMMA TickKeeps ==
  ASSUME DaemonInv, Tick
  PROVE  DaemonInv'
<1>1. clock \in Nat /\ clock' = clock + 1 /\ clock' \in 0 .. MaxTime
  <2>1. clock \in 0 .. MaxTime /\ clock < MaxTime /\ clock' = clock + 1
    BY DEF DaemonInv, Tick
  <2> QED BY <2>1, TimeAssumption, SMT
<1>2. UNCHANGED <<kernel, loop, queue, nextTick, unproven, cooled, cause>>
  BY DEF Tick
<1>3. CooldownInv'
  <2>1. CooldownInv /\ cooled \in SUBSET Nat
    BY DEF DaemonInv
  <2>2. \A t \in cooled : clock >= t + Cooldown => clock' >= t + Cooldown
    BY <1>1, <2>1, TimeAssumption, SMT
  <2> QED BY <1>2, <2>1, <2>2 DEF CooldownInv, CoolsDown
<1>4. EpisodeInv' /\ at' = at /\ outcome' = outcome /\ auditFailed' = auditFailed
  BY EpisodeUnchanged DEF Tick
<1> QED BY <1>1, <1>2, <1>3, <1>4
        DEF DaemonInv, LoopInv, ActiveInEpisodeOnly, FrozenUnlessAuditLost

LEMMA PollUnixKeeps ==
  ASSUME DaemonInv, PollUnix
  PROVE  DaemonInv'
<1>1. EpisodeInv' /\ at' = at /\ outcome' = outcome /\ auditFailed' = auditFailed
  BY EpisodeUnchanged DEF PollUnix
<1>2. loop = "unix" /\ UNCHANGED <<clock, nextTick, unproven, cooled>>
  BY DEF PollUnix
<1>3. CASE Exit("listener")
  BY <1>1, <1>2, <1>3, NewKernelType, SMT
     DEF Exit, DaemonInv, LoopInv, ActiveInEpisodeOnly, FrozenUnlessAuditLost, CooldownInv
<1>4. CASE /\ \E n \in 0 .. MaxConnections : queue' \in [1 .. n -> ClientRequest]
           /\ loop' = "unix requests" /\ UNCHANGED <<kernel, cause>>
  <2>1. queue' \in Seq(Request)
    <3>1. PICK n \in 0 .. MaxConnections : queue' \in [1 .. n -> ClientRequest]
      BY <1>4
    <3>2. n \in Nat
      BY TimeAssumption, SMT
    <3>3. ClientRequest \subseteq Request
      BY DEF ClientRequest
    <3>4. queue' \in [1 .. n -> Request]
      BY <3>1, <3>3
    <3> QED BY <3>2, <3>4, SMT
  <2> QED BY <1>1, <1>2, <1>4, <2>1
          DEF DaemonInv, LoopInv, ActiveInEpisodeOnly, FrozenUnlessAuditLost, CooldownInv
<1> QED BY <1>3, <1>4 DEF PollUnix

LEMMA PollTimerKeeps ==
  ASSUME DaemonInv, PollTimer
  PROVE  DaemonInv'
<1>1. EpisodeInv' /\ at' = at /\ outcome' = outcome /\ auditFailed' = auditFailed
  BY EpisodeUnchanged DEF PollTimer
<1>2. /\ loop = "unix requests" /\ loop' = "timer requests"
      /\ UNCHANGED <<clock, kernel, unproven, cooled, cause>>
  BY DEF PollTimer
<1>3. TimerRequest \in Request
  BY DEF TimerRequest, Request, Event
<1>4. queue' \in Seq(Request) /\ nextTick' \in Nat
  <2>1. queue \in Seq(Request) /\ nextTick \in Nat /\ clock \in 0 .. MaxTime
    BY DEF DaemonInv
  <2>2. \/ queue' = <<TimerRequest>> /\ nextTick' = clock + TimerInterval
        \/ queue' = queue /\ nextTick' = nextTick
    BY DEF PollTimer
  <2>3. <<TimerRequest>> \in Seq(Request)
    BY <1>3, SMT
  <2>4. clock + TimerInterval \in Nat
    BY <2>1, TimeAssumption, SMT
  <2> QED BY <2>1, <2>2, <2>3, <2>4
<1> QED BY <1>1, <1>2, <1>4
        DEF DaemonInv, LoopInv, ActiveInEpisodeOnly, FrozenUnlessAuditLost, CooldownInv

LEMMA NextIterationKeeps ==
  ASSUME DaemonInv, NextIteration
  PROVE  DaemonInv'
<1>1. EpisodeInv' /\ at' = at /\ outcome' = outcome /\ auditFailed' = auditFailed
  BY EpisodeUnchanged DEF NextIteration
<1> QED BY <1>1 DEF NextIteration, DaemonInv, LoopInv, ActiveInEpisodeOnly,
                    FrozenUnlessAuditLost, CooldownInv

\* A request that starts no episode leaves a kernel that is not Active, frozen if it was,
\* and past its cooldown as it should be.
LEMMA AnswerKeeps ==
  ASSUME DaemonInv, Processing, NEW k \in Kernel, k.state # "Active",
         kernel.state = "Frozen" => k.state = "Frozen", CoolsDown(k, cooled, clock),
         RecordAndRespond(k),
         UNCHANGED <<session, rounds, at, outcome, clock, nextTick, unproven, cooled>>
  PROVE  DaemonInv'
<1>1. at = "start" /\ outcome = "None" /\ loop # "down"
  BY DEF DaemonInv, LoopInv, Processing
<1>2. /\ kernel' \in Kernel /\ kernel'.state # "Active"
      /\ loop' \in {"unix requests", "timer requests", "down"}
      /\ loop' # "down" => kernel' = k
      /\ queue' \in Seq(Request)
      /\ cause' \in {"none", "listener", "audit", "client", "killed"}
  BY ResponseKeeps DEF DaemonInv, Processing, RecordAndRespond
<1>3. auditFailed' \in BOOLEAN /\ (auditFailed => auditFailed')
  <2>1. auditFailed \in BOOLEAN
    BY DEF DaemonInv, EpisodeInv, RunInv
  <2>2. auditFailed' = auditFailed \/ auditFailed' = TRUE
    BY DEF RecordAndRespond, Recorded, NotRecorded
  <2> QED BY <2>1, <2>2
<1>4. EpisodeInv'
  <2>1. EpisodeInv /\ UNCHANGED <<session, rounds, at, outcome>>
    BY DEF DaemonInv
  <2> QED BY <1>1, <1>3, <2>1, UntouchedIsSound
<1>5. FrozenUnlessAuditLost'
  BY <1>1, <1>2, <1>3 DEF DaemonInv, FrozenUnlessAuditLost
<1> QED BY <1>1, <1>2, <1>4, <1>5 DEF DaemonInv, LoopInv, ActiveInEpisodeOnly, CooldownInv

LEMMA HeadIsEvent ==
  ASSUME DaemonInv, Processing
  PROVE  Head(queue).event \in Event /\ clock \in Nat /\ kernel \in Kernel /\ cooled \in SUBSET Nat
         /\ CoolsDown(kernel, cooled, clock)
<1>1. queue \in Seq(Request) /\ queue # <<>> /\ clock \in 0 .. MaxTime /\ loop # "down"
  BY DEF DaemonInv, Processing
<1>2. Head(queue) \in Request
  BY <1>1, SMT
<1>3. Head(queue).event \in Event
  BY <1>2 DEF Request
<1>4. clock \in Nat
  BY <1>1, TimeAssumption, SMT
<1> QED BY <1>1, <1>3, <1>4 DEF DaemonInv, CooldownInv

LEMMA RejectKeeps ==
  ASSUME DaemonInv, Reject
  PROVE  DaemonInv'
<1>1. Processing
  BY DEF Reject
<1>2. kernel \in Kernel /\ CoolsDown(kernel, cooled, clock) /\ cooled \in SUBSET Nat
  BY <1>1, HeadIsEvent
<1>3. CoolsDown(Elapsed(kernel), cooled, clock)
  BY <1>2, ElapsedCoolsDown
<1>4. kernel.state # "Active"
  BY <1>1 DEF DaemonInv, ActiveInEpisodeOnly, Processing
<1>5. /\ Elapsed(kernel) \in Kernel /\ Elapsed(kernel).state # "Active"
      /\ kernel.state = "Frozen" => Elapsed(kernel).state = "Frozen"
  BY <1>2, <1>4, ElapsedKernel
<1> QED BY <1>1, <1>3, <1>5, AnswerKeeps DEF Reject

LEMMA NoReasonerKeeps ==
  ASSUME DaemonInv, NoReasoner
  PROVE  DaemonInv'
<1>1. Processing /\ Accepts(kernel, Head(queue).event)
  BY DEF NoReasoner
<1>2. /\ kernel \in Kernel /\ CoolsDown(kernel, cooled, clock) /\ cooled \in SUBSET Nat
      /\ Head(queue).event \in Event /\ clock \in Nat
  BY <1>1, HeadIsEvent
<1>3. kernel.state # "Frozen" /\ \A t \in cooled : clock >= t + Cooldown
  BY <1>1, <1>2, AcceptsIsPast
<1> DEFINE k == Sleep(Accepted(Head(queue).event))
<1>4. k \in Kernel /\ k.state = "Sleeping"
  BY <1>2, AcceptedKernel, SleepKernel
<1>5. RecordAndRespond(k)
  BY DEF NoReasoner
<1> HIDE DEF k
<1>6. CoolsDown(k, cooled, clock)
  BY <1>3, <1>4, PastCoolsDown, SMT
<1> QED BY <1>1, <1>3, <1>4, <1>5, <1>6, AnswerKeeps DEF NoReasoner

LEMMA StartEpisodeKeeps ==
  ASSUME DaemonInv, StartEpisode
  PROVE  DaemonInv'
<1>1. Processing /\ Accepts(kernel, Head(queue).event)
  BY DEF StartEpisode
<1>2. /\ kernel \in Kernel /\ CoolsDown(kernel, cooled, clock) /\ cooled \in SUBSET Nat
      /\ Head(queue).event \in Event /\ clock \in Nat
  BY <1>1, HeadIsEvent
<1>3. kernel.state # "Frozen" /\ \A t \in cooled : clock >= t + Cooldown
  BY <1>1, <1>2, AcceptsIsPast
<1>4. kernel' \in Kernel /\ kernel'.state = "Active"
  BY <1>2, AcceptedKernel DEF StartEpisode
<1>5. CoolsDown(kernel', cooled, clock)
  BY <1>3, <1>4, PastCoolsDown, SMT
<1>6. EpisodeInv' /\ at' = at /\ outcome' = outcome /\ auditFailed' = auditFailed
  BY EpisodeUnchanged DEF StartEpisode
<1>7. loop' = "episode" /\ UNCHANGED <<clock, queue, nextTick, unproven, cooled, cause>>
  BY DEF StartEpisode
<1>8. FrozenUnlessAuditLost'
  BY <1>1, <1>3, <1>6, <1>7 DEF DaemonInv, FrozenUnlessAuditLost, Processing
<1>9. CooldownInv'
  BY <1>5, <1>7 DEF CooldownInv, CoolsDown
<1> QED BY <1>1, <1>4, <1>6, <1>7, <1>8, <1>9
        DEF DaemonInv, LoopInv, ActiveInEpisodeOnly, Processing

LEMMA EpisodeStepOfDaemon ==
  ASSUME DaemonInv, EpisodeStep
  PROVE  DaemonInv'
<1>1. EpisodeInv'
  BY EpisodeStepKeeps DEF DaemonInv, EpisodeStep
<1>2. loop = "episode" /\ UNCHANGED <<clock, kernel, loop, queue, nextTick, unproven, cooled, cause>>
  BY DEF EpisodeStep
<1>3. auditFailed => auditFailed'
  <2>1. auditFailed' = auditFailed \/ auditFailed' = TRUE
    BY DEF EpisodeStep, EpisodeNext, Start, FinalTurn, ToolCalls, TakeRound, Call, Resume,
           FinishSession, Recorded, NotRecorded
  <2> QED BY <2>1
<1>4. kernel.state = "Active" /\ (unproven => auditFailed)
  BY <1>2 DEF DaemonInv, ActiveInEpisodeOnly, FrozenUnlessAuditLost
<1>5. FrozenUnlessAuditLost'
  BY <1>2, <1>3, <1>4 DEF FrozenUnlessAuditLost
<1> QED BY <1>1, <1>2, <1>5 DEF DaemonInv, LoopInv, ActiveInEpisodeOnly, CooldownInv

\* A finished episode that reports no error left a proven log, or asks for recovery; one
\* that reports an error while every record was written left no log at all.
LEMMA DoneIsProven ==
  ASSUME EpisodeInv, Unproven
  PROVE  /\ outcome = "Error" => auditFailed
         /\ outcome \in {"None", "Error", "RecoveryRequired"}
  BY DEF EpisodeInv, SessionInv, SessionIs, RunInv, Unproven, Durable, Phase

LEMMA EpisodeDoneKeeps ==
  ASSUME DaemonInv, EpisodeDone
  PROVE  DaemonInv'
<1>1. /\ loop = "episode" /\ at = "done" /\ kernel \in Kernel /\ kernel.state = "Active"
      /\ queue \in Seq(Request) /\ queue # <<>> /\ cooled \in SUBSET Nat
      /\ clock \in 0 .. MaxTime /\ auditFailed \in BOOLEAN /\ unproven \in BOOLEAN
  BY DEF EpisodeDone, DaemonInv, LoopInv, ActiveInEpisodeOnly, EpisodeInv, RunInv
<1>2. clock \in Nat
  BY <1>1, TimeAssumption, SMT
<1>3. /\ FreshEpisode /\ UNCHANGED <<clock, nextTick>>
      /\ unproven' = (unproven \/ Unproven)
  BY DEF EpisodeDone
<1>4. unproven => auditFailed
  BY <1>1 DEF DaemonInv, FrozenUnlessAuditLost
<1>5. auditFailed' = auditFailed \/ auditFailed' = TRUE
  BY DEF EpisodeDone, RecordAndRespond, Recorded, NotRecorded
<1>6. EpisodeInv' /\ at' = "start" /\ outcome' = "None"
  BY <1>1, <1>3, <1>5, FreshIsSound
<1>7. ASSUME NEW k \in Kernel, k.state # "Active", Respond(k) \/ Exit("audit"),
             cooled' \in SUBSET Nat, CoolsDown(k, cooled', clock),
             unproven' /\ ~auditFailed' => k.state = "Frozen"
      PROVE  DaemonInv'
  <2>1. /\ kernel' \in Kernel /\ kernel'.state # "Active"
        /\ loop' \in {"unix requests", "timer requests", "down"}
        /\ loop' # "down" => kernel' = k
        /\ queue' \in Seq(Request)
        /\ cause' \in {"none", "listener", "audit", "client", "killed"}
    BY <1>1, <1>7, ResponseKeeps DEF DaemonInv
  <2>2. unproven' \in BOOLEAN
    BY <1>3
  <2>3. CooldownInv'
    BY <1>3, <1>7, <2>1 DEF CooldownInv, CoolsDown
  <2>4. FrozenUnlessAuditLost'
    BY <1>7, <2>1 DEF FrozenUnlessAuditLost
  <2>5. LoopInv' /\ ActiveInEpisodeOnly'
    BY <1>6, <2>1 DEF LoopInv, ActiveInEpisodeOnly
  <2> QED BY <1>1, <1>3, <1>6, <1>7, <2>1, <2>2, <2>3, <2>4, <2>5 DEF DaemonInv
<1>8. CASE outcome = "Error"
  <2>1. Respond(Sleep(kernel)) \/ Exit("audit")
    BY <1>8 DEF EpisodeDone, RecordAndRespond
  <2>2. cooled' = cooled
    BY <1>8 DEF EpisodeDone
  <2>3. Sleep(kernel) \in Kernel /\ Sleep(kernel).state = "Sleeping"
    BY <1>1, SleepKernel
  <2>4. CoolsDown(Sleep(kernel), cooled', clock)
    BY <1>1, <2>2, <2>3 DEF DaemonInv, CooldownInv, CoolsDown
  <2>5. unproven' => auditFailed'
    <3>1. Unproven => auditFailed
      BY <1>8, DoneIsProven DEF DaemonInv
    <3>2. auditFailed => auditFailed'
      BY <1>5
    <3> QED BY <1>3, <1>4, <3>1, <3>2
  <2> QED BY <1>1, <1>7, <2>1, <2>2, <2>3, <2>4, <2>5
<1>9. CASE outcome # "Error"
  <2>1. Respond(SettledKernel(kernel)) /\ cooled' = {clock} /\ auditFailed' = auditFailed
    BY <1>9 DEF EpisodeDone, Recorded
  <2>2. CASE outcome = "RecoveryRequired"
    <3>1. SettledKernel(kernel) \in Kernel /\ SettledKernel(kernel).state = "Frozen"
      BY <1>1, <2>2, FreezeKernel DEF SettledKernel
    <3>2. CoolsDown(SettledKernel(kernel), cooled', clock)
      BY <3>1 DEF CoolsDown
    <3> QED BY <1>2, <1>7, <2>1, <3>1, <3>2
  <2>3. CASE outcome # "RecoveryRequired"
    <3>1. /\ SettledKernel(kernel) \in Kernel /\ SettledKernel(kernel).state = "Cooldown"
          /\ SettledKernel(kernel).until = {clock + Cooldown}
      BY <1>1, <1>2, <2>3, CooledKernel DEF SettledKernel
    <3>2. CoolsDown(SettledKernel(kernel), cooled', clock)
      BY <2>1, <3>1 DEF CoolsDown
    <3>3. outcome # "None"
      BY <1>1 DEF DaemonInv, EpisodeInv, RunInv
    <3>4. unproven' => auditFailed'
      BY <1>3, <1>4, <1>9, <2>1, <2>3, <3>3, DoneIsProven DEF DaemonInv
    <3> QED BY <1>2, <1>7, <2>1, <3>1, <3>2, <3>4
  <2> QED BY <2>2, <2>3
<1> QED BY <1>8, <1>9

LEMMA KillKeeps ==
  ASSUME DaemonInv, Kill
  PROVE  DaemonInv'
<1>1. /\ Exit("killed") /\ FreshEpisode /\ UNCHANGED <<auditFailed, clock, nextTick, cooled>>
      /\ unproven' \in BOOLEAN
  BY DEF Kill
<1>2. EpisodeInv' /\ at' = "start" /\ outcome' = "None"
  BY <1>1, FreshIsSound DEF DaemonInv, EpisodeInv, RunInv
<1>3. loop' = "down" /\ queue' = <<>> /\ cause' = "killed" /\ kernel' = NewKernel
  BY <1>1 DEF Exit
<1>4. <<>> \in Seq(Request)
  BY SMT
<1> QED BY <1>1, <1>2, <1>3, <1>4, NewKernelType
        DEF DaemonInv, LoopInv, ActiveInEpisodeOnly, FrozenUnlessAuditLost, CooldownInv

LEMMA RestartKeeps ==
  ASSUME DaemonInv, Restart
  PROVE  DaemonInv'
<1>1. /\ loop = "down" /\ unproven' = FALSE
      /\ UNCHANGED <<session, rounds, at, outcome, clock, kernel, queue>>
      /\ loop' \in {"unix", "down"} /\ cooled' \in {{}, cooled} /\ nextTick' \in {clock, nextTick}
      /\ cause' \in {"none", cause} /\ (loop' = "unix" => cooled' = {})
  BY DEF Restart
<1>2. auditFailed' \in BOOLEAN
  BY DEF Restart, DaemonInv, EpisodeInv, RunInv
<1>3. EpisodeInv'
  BY <1>1, <1>2, UntouchedIsSound DEF DaemonInv, LoopInv
<1>4. clock \in Nat
  <2>1. clock \in 0 .. MaxTime
    BY DEF DaemonInv
  <2> QED BY <2>1, TimeAssumption, SMT
<1>5. unproven' \in BOOLEAN /\ FrozenUnlessAuditLost'
  BY <1>1 DEF FrozenUnlessAuditLost
<1>6. CooldownInv'
  BY <1>1 DEF CooldownInv, CoolsDown
<1> QED BY <1>1, <1>3, <1>4, <1>5, <1>6 DEF DaemonInv, LoopInv, ActiveInEpisodeOnly

LEMMA DaemonStarts == DaemonInit => DaemonInv
<1> SUFFICES ASSUME DaemonInit PROVE DaemonInv
  OBVIOUS
<1>1. EpisodeInv /\ at = "start" /\ outcome = "None"
  BY EpisodeStarts DEF DaemonInit, EpisodeInit
<1>2. 0 \in 0 .. MaxTime /\ 0 \in Nat /\ <<>> \in Seq(Request)
  BY TimeAssumption, SMT
<1>3. FrozenUnlessAuditLost /\ CooldownInv
  BY DEF DaemonInit, FrozenUnlessAuditLost, CooldownInv, CoolsDown
<1>4. unproven \in BOOLEAN
  BY DEF DaemonInit
<1> QED BY <1>1, <1>2, <1>3, <1>4, NewKernelType DEF DaemonInit, DaemonInv, LoopInv, ActiveInEpisodeOnly

LEMMA DaemonStepKeeps == DaemonInv /\ [DaemonNext]_daemonVars => DaemonInv'
<1> SUFFICES ASSUME DaemonInv, [DaemonNext]_daemonVars PROVE DaemonInv'
  OBVIOUS
<1>1. CASE UNCHANGED daemonVars
  <2>1. /\ UNCHANGED episodeVars
        /\ UNCHANGED <<clock, kernel, loop, queue, nextTick, unproven, cooled, cause>>
    BY <1>1 DEF daemonVars
  <2>2. EpisodeInv' /\ at' = at /\ outcome' = outcome /\ auditFailed' = auditFailed
    BY <2>1, EpisodeUnchanged
  <2> QED BY <2>1, <2>2 DEF DaemonInv, LoopInv, ActiveInEpisodeOnly, FrozenUnlessAuditLost,
                            CooldownInv, CoolsDown
<1> QED BY <1>1, TickKeeps, PollUnixKeeps, PollTimerKeeps, NextIterationKeeps, RejectKeeps,
           NoReasonerKeeps, StartEpisodeKeeps, EpisodeStepOfDaemon, EpisodeDoneKeeps,
           KillKeeps, RestartKeeps DEF DaemonNext, LoopStep

\* The activation kernel of run_daemon is settled for every cooldown, dedupe window, timer
\* interval, number of connections and set of event types, and for episodes of any length:
\* Active in an episode only, frozen over an unproven transaction unless an audit record
\* was lost, and not awake before its cooldown is over.
THEOREM KernelSafety == DaemonSpec => []KernelIsSettled
  BY DaemonStarts, DaemonStepKeeps, DaemonInvSuffices, PTL DEF DaemonSpec

----------------------------------------------------------------------------
(* The evaluation of a candidate against the baseline.                     *)

Collections == Side \X Collection

\* The collections that are finished when the given one is next: baseline before
\* candidate, guardrail before domain.
Before(s, k) ==
  {c \in Collections : \/ c[1] = "baseline" /\ s = "candidate"
                       \/ c[1] = s /\ c[2] = "guardrail" /\ k = "domain"}

Concluding == {"compare", "comparisons", "verdict"}

Finished == IF step \in Concluding THEN Collections ELSE Before(side, kind)

\* The types, and which collection belongs to which step.
ProtocolInv ==
  /\ AbTypeOK
  /\ closeCalls \in [Collections -> 0 .. 1]
  /\ movedAt \in Nat
  /\ step \in {"begin", "validate", "validateComparison"} => side = "baseline"
  /\ step \in {"begin", "validate", "validateComparison", "move", "settle"} => kind = "guardrail"
  /\ step \in Concluding => side = "candidate" /\ kind = "domain"
  /\ step = "sample" => sampling \in {"Ok", "BudgetExceeded", "Measurement"}

\* Finished collections are closed, later ones untouched, and the current one is open
\* while it is sampled.
CollectionInv ==
  IF step = "returned"
    THEN /\ \A c \in Collections :
              /\ sessions[c] # "open"
              /\ closeCalls[c] = 1 => sessions[c] \in {"closed", "lost"}
         /\ LostSessionIsReported
    ELSE \A c \in Collections :
           /\ closeCalls[c] = IF c \in Finished THEN 1 ELSE 0
           /\ sessions[c] = IF c \in Finished THEN "closed"
                            ELSE IF step = "sample" /\ c = Session THEN "open" ELSE "none"

\* The deadline is checked after every step but the sampling, and the time a session
\* takes before it is closed exceeds the budget by one overrun at most.
ClockInv ==
  /\ step \notin {"sample", "returned"} \/ (step = "sample" /\ sampling = "Ok") => now < Timeout
  /\ step = "sample" => now <= Timeout + Overrun
  /\ BudgetBoundsEvaluation

\* What is measured is the side's own position, and it has settled.
PositionInv ==
  /\ step \in {"settle", "open", "sample"} \cup Concluding => position = side
  /\ step = "settle" => now >= movedAt
  /\ step \in {"open", "sample"} => now - movedAt >= plan.settle

EvidenceOf(c) ==
  [side |-> c[1], kind |-> c[2], position |-> c[1], settled |-> TRUE, samples |-> plan.count]

EvidenceInv == step # "returned" => \A c \in Finished : EvidenceOf(c) \in evidence

\* Each group that was compared has one conclusion; the verdict is drawn from all of
\* them unless the schemas differ.
VerdictInv ==
  /\ comparable \in {"yes", "incomplete", "schema", "workload"}
  /\ groups \in [Group -> {<<>>} \cup {<<c>> : c \in {"Improved", "NotImproved", "Inconclusive"}}]
  /\ step = "verdict" /\ comparable # "schema" => \A g \in Group : groups[g] # <<>>
  /\ authorized \in BOOLEAN
  /\ authorized => result = "Improved"
  /\ result = "Improved" => comparable = "yes" /\ \A g \in Group : groups[g] = <<"Improved">>

AbInv ==
  /\ ProtocolInv /\ CollectionInv /\ ClockInv /\ PositionInv /\ EvidenceInv /\ VerdictInv
  /\ VerdictFromPairedEvidence

\* The inductive invariant says what the evaluation promises.
LEMMA AbInvSuffices ==
  AbInv => SessionsAreSettled /\ BudgetBoundsEvaluation /\ CommitIsWarranted
<1> SUFFICES ASSUME AbInv PROVE SessionsAreSettled /\ BudgetBoundsEvaluation /\ CommitIsWarranted
  OBVIOUS
<1>1. AbTypeOK /\ closeCalls \in [Collections -> 0 .. 1]
  BY DEF AbInv, ProtocolInv
<1>2. CASE step = "returned"
  <2>1. ClosedExactlyOnce
    BY <1>1, <1>2, SMT DEF AbInv, CollectionInv, ClosedExactlyOnce, Collections
  <2>2. LostSessionIsReported
    BY <1>2 DEF AbInv, CollectionInv
  <2>3. AuthorizedIsImproved
    BY DEF AbInv, VerdictInv, VerdictFromPairedEvidence, AuthorizedIsImproved, EvaluationVerdict
  <2> QED BY <1>1, <2>1, <2>2, <2>3 DEF AbInv, SessionsAreSettled, CommitIsWarranted, ClockInv
<1>3. CASE step # "returned"
  <2>1. result = "None"
    BY <1>1, <1>3 DEF AbTypeOK
  <2>2. ClosedExactlyOnce
    BY <1>1, <1>3, <2>1, SMT DEF AbInv, CollectionInv, ClosedExactlyOnce, Collections
  <2>3. LostSessionIsReported
    BY <1>3 DEF LostSessionIsReported
  <2>4. AuthorizedIsImproved
    BY <2>1 DEF AbInv, VerdictInv, AuthorizedIsImproved
  <2> QED BY <1>1, <2>2, <2>3, <2>4 DEF AbInv, SessionsAreSettled, CommitIsWarranted, ClockInv
<1> QED BY <1>2, <1>3

\* The constants of time are numbers.
LEMMA Ticks ==
  /\ Timeout \in Nat /\ Timeout > 0 /\ StepTicks \in Nat /\ Overrun \in Nat
  /\ CallTimeout.measurement \in Nat /\ CallTimeout.comparison \in Nat
  BY TicksAssumption, SMT

\* So are those of a plan.
LEMMA PlanTicks ==
  ASSUME NEW p \in Plans
  PROVE  p.settle \in Nat /\ p.count \in Nat /\ p.count > 0 /\ p.interval \in Nat
  BY TicksAssumption, SMT

\* The larger of two numbers.
LEMMA MaxOfTwo ==
  ASSUME NEW a \in Nat, NEW b \in Nat
  PROVE  Max({a, b}) \in Nat /\ Max({a, b}) >= a /\ Max({a, b}) >= b
<1>1. \E x \in {a, b} : \A y \in {a, b} : x >= y
  BY SMT
<1>2. Max({a, b}) \in {a, b} /\ \A y \in {a, b} : Max({a, b}) >= y
  BY <1>1 DEF Max
<1> QED BY <1>2

\* A transaction step over the budget, or a call over it and a close, is within the bound.
LEMMA BoundIsKept ==
  ASSUME NEW t \in Nat,
         t <= Timeout + StepTicks \/ t <= Timeout + 2 * Overrun + CallTimeout.measurement
  PROVE  t <= Timeout + Max({StepTicks, 2 * Overrun + CallTimeout.measurement})
<1>1. 2 * Overrun + CallTimeout.measurement \in Nat
  BY Ticks, SMT
<1>2. /\ Max({StepTicks, 2 * Overrun + CallTimeout.measurement}) \in Nat
      /\ Max({StepTicks, 2 * Overrun + CallTimeout.measurement}) >= StepTicks
      /\ Max({StepTicks, 2 * Overrun + CallTimeout.measurement})
           >= 2 * Overrun + CallTimeout.measurement
  BY <1>1, MaxOfTwo, Ticks
<1> DEFINE m == Max({StepTicks, 2 * Overrun + CallTimeout.measurement})
<1> HIDE DEF m
<1>3. m \in Nat /\ m >= StepTicks /\ m >= 2 * Overrun + CallTimeout.measurement
  BY <1>2 DEF m
<1> QED BY <1>1, <1>3, Ticks, SMT DEF m

\* A call that was admitted ends at most one overrun after the budget.
LEMMA AdmittedCall ==
  ASSUME now \in Nat, NEW timeout \in Nat, Admits(timeout), NEW d \in CallTicks(timeout)
  PROVE  now + d \in Nat /\ now + d <= Timeout + Overrun /\ d \in Nat
<1>1. now + timeout <= Timeout
  BY Ticks, SMT DEF Admits
<1>2. d \in 0 .. (timeout + Overrun)
  BY DEF CallTicks
<1> QED BY <1>1, <1>2, Ticks, SMT

Conclusion == {<<>>} \cup {<<c>> : c \in {"Improved", "NotImproved", "Inconclusive"}}

\* There is no result before the evaluation returns.
LEMMA NoResultYet ==
  ASSUME AbInv, step # "returned"
  PROVE  result = "None" /\ authorized = FALSE
<1>1. result = "None"
  BY DEF AbInv, ProtocolInv, AbTypeOK
<1> QED BY <1>1 DEF AbInv, VerdictInv

\* evaluate may return an error at any time, once no session is open.
LEMMA ReturnKeeps ==
  ASSUME AbInv, step # "returned", NEW r \in EvaluationErrorKind, Return(r),
         UNCHANGED <<plan, side, kind, authorized>>,
         now' \in Nat,
         now' <= Timeout + StepTicks \/ now' <= Timeout + 2 * Overrun + CallTimeout.measurement,
         position' \in Side \cup {"unknown"}, movedAt' \in Nat,
         sessions' \in [Side \X Collection -> {"none", "open", "closed", "lost"}],
         closeCalls' \in [Collections -> 0 .. 1],
         taken' \in 0 .. plan.count, sampling' \in EvaluationErrorKind \cup {"Ok"},
         comparable' \in {"yes", "incomplete", "schema", "workload"},
         groups' \in [Group -> Conclusion],
         CollectionInv'
  PROVE  AbInv'
<1>1. /\ step' = "returned" /\ result' = r /\ r # "None" /\ r \notin EvaluationVerdict
      /\ authorized' = FALSE
  BY NoResultYet DEF Return, EvaluationErrorKind, EvaluationVerdict
<1>2. ProtocolInv'
  BY <1>1 DEF AbInv, ProtocolInv, AbTypeOK, Concluding
<1>3. ClockInv'
  BY <1>1, BoundIsKept DEF ClockInv, BudgetBoundsEvaluation
<1>4. PositionInv' /\ EvidenceInv' /\ VerdictFromPairedEvidence'
  BY <1>1 DEF PositionInv, EvidenceInv, VerdictFromPairedEvidence, Concluding
<1>5. VerdictInv'
  BY <1>1 DEF VerdictInv, Conclusion, EvaluationVerdict
<1> QED BY <1>2, <1>3, <1>4, <1>5 DEF AbInv

\* The types that the steps need.
LEMMA InvTypes ==
  ASSUME AbInv
  PROVE  /\ now \in Nat /\ plan \in Plans /\ side \in Side /\ kind \in Collection
         /\ position \in Side \cup {"unknown"} /\ movedAt \in Nat
         /\ sessions \in [Side \X Collection -> {"none", "open", "closed", "lost"}]
         /\ closeCalls \in [Collections -> 0 .. 1]
         /\ taken \in 0 .. plan.count /\ sampling \in EvaluationErrorKind \cup {"Ok"}
         /\ comparable \in {"yes", "incomplete", "schema", "workload"}
         /\ groups \in [Group -> Conclusion]
         /\ authorized \in BOOLEAN
         /\ (step \notin {"sample", "returned"} => now < Timeout)
  BY DEF AbInv, ProtocolInv, AbTypeOK, VerdictInv, Conclusion, ClockInv

\* It does so without touching a session outside of the sampling.
LEMMA QuietReturnKeeps ==
  ASSUME AbInv, step \notin {"sample", "returned"}, NEW r \in EvaluationErrorKind, Return(r),
         UNCHANGED <<plan, side, kind, authorized, sessions, closeCalls>>,
         now' \in Nat,
         now' <= Timeout + StepTicks \/ now' <= Timeout + 2 * Overrun + CallTimeout.measurement,
         position' \in Side \cup {"unknown"}, movedAt' \in Nat,
         taken' \in 0 .. plan.count, sampling' \in EvaluationErrorKind \cup {"Ok"},
         comparable' \in {"yes", "incomplete", "schema", "workload"},
         groups' \in [Group -> Conclusion]
  PROVE  AbInv'
<1>1. step' = "returned"
  BY DEF Return
<1>2. \A c \in Collections : sessions[c] \in {"none", "closed"}
                             /\ (closeCalls[c] = 1 => sessions[c] = "closed")
  BY SMT DEF AbInv, CollectionInv
<1>3. CollectionInv'
  BY <1>1, <1>2 DEF CollectionInv, LostSessionIsReported, Collections
<1> QED BY <1>3, ReturnKeeps, InvTypes

\* A refused call leaves everything else as it is.
LEMMA RefuseKeeps ==
  ASSUME AbInv, step \notin {"sample", "returned"}, Refuse,
         UNCHANGED <<plan, side, kind, authorized, sessions, closeCalls, position, movedAt,
                     comparable, groups>>,
         taken' \in 0 .. plan.count, sampling' \in EvaluationErrorKind \cup {"Ok"}
  PROVE  AbInv'
<1>1. /\ Return("BudgetExceeded") /\ now' = now /\ now \in Nat /\ now < Timeout
      /\ "BudgetExceeded" \in EvaluationErrorKind
  BY InvTypes DEF Refuse, EvaluationErrorKind
<1>2. now' \in Nat /\ now' <= Timeout + StepTicks
  BY <1>1, Ticks, SMT
<1> QED BY <1>1, <1>2, QuietReturnKeeps, InvTypes

\* A step of the protocol before its comparisons that goes on in time, and touches no
\* session, keeps the invariant if the position is right.
LEMMA GoOnKeeps ==
  ASSUME AbInv, step \notin {"sample", "returned"} \cup Concluding,
         step' \in {"validate", "validateComparison", "move", "settle", "open"},
         Unmeasured, UNCHANGED <<plan, side, kind, result>>,
         now' \in Nat, now' < Timeout,
         position' \in Side \cup {"unknown"}, movedAt' \in Nat,
         step' \in {"validate", "validateComparison"} => side = "baseline",
         step' \in {"validate", "validateComparison", "move", "settle"} => kind = "guardrail",
         PositionInv'
  PROVE  AbInv'
<1>1. UNCHANGED <<sessions, closeCalls, taken, sampling, evidence, groups, comparable, authorized>>
  BY DEF Unmeasured, collection
<1>2. result = "None" /\ result' = "None"
  BY NoResultYet
<1>3. ProtocolInv'
  BY <1>1, <1>2 DEF AbInv, ProtocolInv, AbTypeOK, Concluding
<1>4. Finished' = Finished
  BY DEF Finished, Concluding
<1>5. CollectionInv'
  BY <1>1, <1>4 DEF AbInv, CollectionInv, Session
<1>6. now' <= Timeout + StepTicks
  BY Ticks, SMT
<1>7. ClockInv'
  BY <1>6, BoundIsKept DEF ClockInv, BudgetBoundsEvaluation
<1>8. EvidenceInv'
  BY <1>1, <1>4 DEF AbInv, EvidenceInv, EvidenceOf
<1>9. VerdictInv' /\ VerdictFromPairedEvidence'
  BY <1>1, <1>2 DEF AbInv, VerdictInv, VerdictFromPairedEvidence, EvaluationVerdict
<1> QED BY <1>3, <1>5, <1>7, <1>8, <1>9 DEF AbInv

\* The evaluation begins: the deadline is set, the plans are looked up.
LEMMA BeginKeeps ==
  ASSUME AbInv, Begin
  PROVE  AbInv'
<1>1. /\ step = "begin" /\ Unmeasured /\ UNCHANGED <<plan, side, kind, position, movedAt>>
      /\ UNCHANGED <<sessions, closeCalls, taken, sampling, evidence, groups, comparable, authorized>>
  BY DEF Begin, Unmeasured, collection
<1>2. CASE Refuse
  BY <1>1, <1>2, RefuseKeeps, InvTypes
<1>3. CASE step' = "validate" /\ UNCHANGED <<now, result>>
  <2>1. PositionInv'
    BY <1>3 DEF PositionInv, Concluding
  <2>2. side = "baseline" /\ kind = "guardrail"
    BY <1>1 DEF AbInv, ProtocolInv
  <2>3. now' \in Nat /\ now' < Timeout
    BY <1>1, <1>3, InvTypes
  <2> QED BY <1>1, <1>3, <2>1, <2>2, <2>3, GoOnKeeps, InvTypes DEF Concluding
<1> QED BY <1>2, <1>3 DEF Begin

\* The plan, and then the comparison, is checked.
LEMMA ValidateKeeps ==
  ASSUME AbInv, Validate
  PROVE  AbInv'
<1> DEFINE timeout == IF step = "validate" THEN CallTimeout.measurement ELSE CallTimeout.comparison
           onwards == IF step = "validate" THEN "validateComparison" ELSE "move"
<1>1. /\ step \in {"validate", "validateComparison"} /\ Unmeasured
      /\ UNCHANGED <<plan, side, kind, position, movedAt>>
      /\ UNCHANGED <<sessions, closeCalls, taken, sampling, evidence, groups, comparable, authorized>>
  BY DEF Validate, Unmeasured, collection
<1>2. timeout \in Nat /\ onwards \in {"validateComparison", "move"}
  BY Ticks
<1>3. \/ Refuse
      \/ /\ Admits(timeout)
         /\ \E d \in CallTicks(timeout), r \in {"Ok", "InvalidContract"} :
              AfterCall(d, r, step' = onwards /\ UNCHANGED result)
  BY DEF Validate
<1> HIDE DEF timeout, onwards
<1>4. CASE Refuse
  BY <1>1, <1>4, RefuseKeeps, InvTypes
<1>5. ASSUME Admits(timeout), NEW d \in CallTicks(timeout), NEW r \in {"Ok", "InvalidContract"},
             AfterCall(d, r, step' = onwards /\ UNCHANGED result)
      PROVE  AbInv'
  <2>1. /\ now' = now + d /\ now' \in Nat /\ now' <= Timeout + Overrun
    BY <1>2, <1>5, AdmittedCall, InvTypes DEF AfterCall
  <2>2. now' <= Timeout + 2 * Overrun + CallTimeout.measurement
    BY <2>1, Ticks, SMT
  <2>3. CASE \E e \in EvaluationErrorKind : Return(e)
    BY <1>1, <2>1, <2>2, <2>3, QuietReturnKeeps, InvTypes
  <2>4. CASE InTime(now + d) /\ step' = onwards /\ UNCHANGED result
    <3>1. now' < Timeout
      BY <2>1, <2>4 DEF InTime
    <3>2. PositionInv'
      BY <1>2, <2>4 DEF PositionInv, Concluding
    <3>3. side = "baseline" /\ kind = "guardrail"
      BY <1>1 DEF AbInv, ProtocolInv
    <3> QED BY <1>1, <1>2, <2>1, <2>4, <3>1, <3>2, <3>3, GoOnKeeps, InvTypes DEF Concluding
  <2>5. "BudgetExceeded" \in EvaluationErrorKind /\ "InvalidContract" \in EvaluationErrorKind
    BY DEF EvaluationErrorKind
  <2> QED BY <1>5, <2>3, <2>4, <2>5 DEF AfterCall
<1> QED BY <1>3, <1>4, <1>5

\* The transaction moves to a side's position.
LEMMA MoveKeeps ==
  ASSUME AbInv, Move
  PROVE  AbInv'
<1>1. /\ step = "move" /\ Unmeasured /\ UNCHANGED <<plan, side, kind>>
      /\ UNCHANGED <<sessions, closeCalls, taken, sampling, evidence, groups, comparable, authorized>>
  BY DEF Move, Unmeasured, collection
<1>2. CASE Refuse /\ UNCHANGED <<position, movedAt>>
  BY <1>1, <1>2, RefuseKeeps, InvTypes
<1>3. ASSUME NEW d \in 0 .. StepTicks, NEW r \in {"Ok", "Transaction"},
             AfterCall(d, r, step' = "settle" /\ UNCHANGED result),
             position' = IF r = "Ok" THEN side ELSE "unknown", movedAt' = now + d
      PROVE  AbInv'
  <2>1. now \in Nat /\ now < Timeout /\ side \in Side
    BY <1>1, InvTypes
  <2>2. /\ now' = now + d /\ now' \in Nat /\ now' <= Timeout + StepTicks /\ movedAt' \in Nat
    BY <1>3, <2>1, Ticks, SMT DEF AfterCall
  <2>3. position' \in Side \cup {"unknown"}
    BY <1>3, <2>1
  <2>4. CASE \E e \in EvaluationErrorKind : Return(e)
    BY <1>1, <2>2, <2>3, <2>4, QuietReturnKeeps, InvTypes
  <2>5. CASE InTime(now + d) /\ r = "Ok" /\ step' = "settle" /\ UNCHANGED result
    <3>1. now' < Timeout
      BY <2>2, <2>5 DEF InTime
    <3>2. position' = side
      BY <1>3, <2>5
    <3>3. now' >= movedAt'
      BY <1>3, <2>2, SMT
    <3>4. PositionInv'
      BY <1>1, <2>5, <3>2, <3>3 DEF PositionInv, Concluding
    <3>5. kind = "guardrail"
      BY <1>1 DEF AbInv, ProtocolInv
    <3> QED BY <1>1, <2>2, <2>3, <2>5, <3>1, <3>4, <3>5, GoOnKeeps DEF Concluding
  <2>6. "BudgetExceeded" \in EvaluationErrorKind /\ "Transaction" \in EvaluationErrorKind
    BY DEF EvaluationErrorKind
  <2> QED BY <1>3, <2>4, <2>5, <2>6 DEF AfterCall
<1> QED BY <1>2, <1>3 DEF Move

\* The position settles.
LEMMA SettleKeeps ==
  ASSUME AbInv, Settle
  PROVE  AbInv'
<1>1. /\ step = "settle" /\ Unmeasured /\ UNCHANGED <<plan, side, kind, position, movedAt>>
      /\ UNCHANGED <<sessions, closeCalls, taken, sampling, evidence, groups, comparable, authorized>>
  BY DEF Settle, Unmeasured, collection
<1>2. plan.settle \in Nat
  BY InvTypes, PlanTicks
<1>3. CASE Refuse
  BY <1>1, <1>3, RefuseKeeps, InvTypes
<1>4. ASSUME Admits(plan.settle), NEW late \in 0 .. Overrun,
             AfterCall(IF plan.settle = 0 THEN 0 ELSE plan.settle + late, "Ok",
                       step' = "open" /\ UNCHANGED result)
      PROVE  AbInv'
  <2> DEFINE d == IF plan.settle = 0 THEN 0 ELSE plan.settle + late
  <2>1. d \in CallTicks(plan.settle) /\ d >= plan.settle
    BY <1>2, Ticks, SMT DEF CallTicks
  <2>2. now' = now + d /\ (Return("BudgetExceeded") \/ (InTime(now + d) /\ step' = "open" /\ UNCHANGED result))
    BY <1>4 DEF AfterCall
  <2> HIDE DEF d
  <2>3. /\ now' = now + d /\ now' \in Nat /\ now' <= Timeout + Overrun /\ d \in Nat /\ now \in Nat
    BY <1>2, <1>4, <2>1, <2>2, AdmittedCall, InvTypes
  <2>4. now' <= Timeout + 2 * Overrun + CallTimeout.measurement
    BY <2>3, Ticks, SMT
  <2>5. CASE Return("BudgetExceeded")
    <3>1. "BudgetExceeded" \in EvaluationErrorKind
      BY DEF EvaluationErrorKind
    <3> QED BY <1>1, <2>3, <2>4, <2>5, <3>1, QuietReturnKeeps, InvTypes
  <2>6. CASE InTime(now + d) /\ step' = "open" /\ UNCHANGED result
    <3>1. now' < Timeout
      BY <2>3, <2>6 DEF InTime
    <3>2. position = side /\ now >= movedAt /\ movedAt \in Nat
      BY <1>1, InvTypes DEF AbInv, PositionInv
    <3>3. now' - movedAt' >= plan'.settle
      BY <1>1, <1>2, <2>1, <2>3, <3>2, SMT
    <3>4. PositionInv'
      BY <1>1, <2>6, <3>2, <3>3 DEF PositionInv, Concluding
    <3> QED BY <1>1, <2>3, <2>6, <3>1, <3>4, GoOnKeeps, InvTypes DEF Concluding
  <2> QED BY <2>2, <2>5, <2>6
<1> QED BY <1>3, <1>4 DEF Settle, SettleFor

\* The session at hand is not one of the finished ones.
LEMMA SessionIsNext ==
  ASSUME AbInv, step \notin Concluding
  PROVE  Session \in Collections /\ Session \notin Finished /\ Session \in Side \X Collection
  BY InvTypes DEF Session, Collections, Finished, Before, Side, Collection

LEMMA ZeroIsNotOne == 0 # 1
BY SMT

\* A session is opened.
LEMMA OpenKeeps ==
  ASSUME AbInv, Open
  PROVE  AbInv'
<1>1. /\ step = "open" /\ taken' = 0
      /\ UNCHANGED <<plan, side, kind, position, movedAt, closeCalls, evidence, groups,
                     comparable, authorized>>
  BY DEF Open
<1>2. /\ plan \in Plans /\ plan.count \in Nat /\ taken' \in 0 .. plan.count
      /\ now \in Nat /\ now < Timeout /\ "Ok" \in EvaluationErrorKind \cup {"Ok"}
      /\ result = "None" /\ Session' = Session
  BY <1>1, InvTypes, PlanTicks, NoResultYet, SMT DEF Session
<1>3. CASE Refuse /\ sampling' = "Ok" /\ UNCHANGED sessions
  BY <1>1, <1>2, <1>3, RefuseKeeps
<1>4. ASSUME Admits(CallTimeout.measurement), NEW d \in CallTicks(CallTimeout.measurement),
             now' = now + d
      PROVE  now' \in Nat /\ now' <= Timeout + Overrun /\ now' >= now
             /\ now' <= Timeout + 2 * Overrun + CallTimeout.measurement
  <2>1. now + d \in Nat /\ now + d <= Timeout + Overrun /\ d \in Nat
    BY <1>2, <1>4, Ticks, AdmittedCall
  <2> QED BY <1>2, <1>4, <2>1, Ticks, SMT
<1>5. Session \in Side \X Collection /\ Session \in Collections /\ Session \notin Finished
  BY <1>1, SessionIsNext DEF Concluding
<1>6. \A c \in Collections :
         /\ closeCalls[c] = IF c \in Finished THEN 1 ELSE 0
         /\ sessions[c] = IF c \in Finished THEN "closed" ELSE "none"
  BY <1>1 DEF AbInv, CollectionInv
<1>7. ASSUME Admits(CallTimeout.measurement), NEW d \in CallTicks(CallTimeout.measurement),
             now' = now + d, step' = "sample",
             sampling' = IF InTime(now + d) THEN "Ok" ELSE "BudgetExceeded",
             sessions' = [sessions EXCEPT ![Session] = "open"], UNCHANGED result
      PROVE  AbInv'
  <2>1. now' \in Nat /\ now' <= Timeout + Overrun /\ now' >= now
        /\ now' <= Timeout + 2 * Overrun + CallTimeout.measurement
    BY <1>4, <1>7
  <2>2. /\ sampling' \in {"Ok", "BudgetExceeded"} /\ sampling' \in EvaluationErrorKind \cup {"Ok"}
        /\ sampling' = "Ok" => now' < Timeout
    BY <1>7 DEF InTime, EvaluationErrorKind
  <2>3. sessions' \in [Side \X Collection -> {"none", "open", "closed", "lost"}]
    BY <1>7, InvTypes
  <2>4. ProtocolInv'
    BY <1>1, <1>2, <1>7, <2>1, <2>2, <2>3 DEF AbInv, ProtocolInv, AbTypeOK, Concluding
  <2>5. Finished' = Finished
    BY <1>1, <1>7 DEF Finished, Concluding
  <2>6. CollectionInv'
    BY <1>1, <1>2, <1>5, <1>6, <1>7, <2>5, InvTypes DEF CollectionInv, Collections
  <2>7. ClockInv'
    BY <1>7, <2>1, <2>2, BoundIsKept DEF ClockInv, BudgetBoundsEvaluation
  <2>8. PositionInv'
    <3>1. position = side /\ now - movedAt >= plan.settle /\ movedAt \in Nat
      BY <1>1, InvTypes DEF AbInv, PositionInv
    <3>2. now' - movedAt >= plan.settle
      BY <1>2, <2>1, <3>1, PlanTicks, SMT
    <3> QED BY <1>1, <1>7, <3>1, <3>2 DEF PositionInv, Concluding
  <2>9. EvidenceInv'
    BY <1>1, <2>5 DEF AbInv, EvidenceInv, EvidenceOf
  <2>10. VerdictInv' /\ VerdictFromPairedEvidence'
    BY <1>1, <1>2, <1>7 DEF AbInv, VerdictInv, VerdictFromPairedEvidence, EvaluationVerdict
  <2> QED BY <2>4, <2>6, <2>7, <2>8, <2>9, <2>10 DEF AbInv
<1>8. ASSUME Admits(CallTimeout.measurement), NEW d \in CallTicks(CallTimeout.measurement),
             AfterCall(d, "Measurement", FALSE), sampling' = "Ok",
             sessions' = [sessions EXCEPT ![Session] = "lost"] \/ sessions' = sessions
      PROVE  AbInv'
  <2>1. now' \in Nat /\ now' <= Timeout + 2 * Overrun + CallTimeout.measurement
    BY <1>4, <1>8 DEF AfterCall
  <2>2. PICK r \in {"BudgetExceeded", "Measurement"} : Return(r)
    BY <1>8 DEF AfterCall
  <2>3. r \in EvaluationErrorKind
    BY <2>2 DEF EvaluationErrorKind
  <2>4. sessions' \in [Side \X Collection -> {"none", "open", "closed", "lost"}]
    BY <1>8, InvTypes
  <2>5. closeCalls[Session] = 0
    BY <1>5, <1>6
  <2>6. /\ step' = "returned" /\ result' = r
        /\ \A c \in Collections :
             /\ sessions'[c] # "open"
             /\ closeCalls[c] = 1 => sessions'[c] = "closed"
    <3>1. ASSUME NEW c \in Collections
          PROVE  /\ sessions'[c] # "open"
                 /\ closeCalls[c] = 1 => sessions'[c] = "closed"
      <4>1. CASE c \in Finished
        <5>1. c # Session /\ sessions[c] = "closed"
          BY <1>5, <1>6, <4>1
        <5>2. sessions'[c] = "closed"
          BY <1>8, <5>1, InvTypes DEF Collections
        <5> QED BY <5>2
      <4>2. CASE c \notin Finished
        <5>1. closeCalls[c] # 1
          BY <1>6, <4>2, ZeroIsNotOne
        <5>2. sessions'[c] \in {"none", "lost"}
          BY <1>5, <1>6, <1>8, <4>2, InvTypes DEF Collections
        <5> QED BY <5>1, <5>2
      <4> QED BY <4>1, <4>2
    <3> QED BY <2>2, <3>1 DEF Return
  <2>7. CollectionInv'
    BY <1>1, <2>2, <2>6 DEF CollectionInv, LostSessionIsReported, Collections
  <2> QED BY <1>1, <1>2, <1>8, <2>1, <2>2, <2>3, <2>4, <2>7, ReturnKeeps, InvTypes
<1> QED BY <1>3, <1>7, <1>8 DEF Open

\* A round of sampling moves the clock, the number of samples and the error only.
LEMMA SampledKeeps ==
  ASSUME AbInv, step = "sample",
         UNCHANGED <<step, plan, side, kind, position, movedAt, sessions, closeCalls, evidence,
                     groups, comparable, result, authorized>>,
         now' \in Nat, now' >= now, now' <= Timeout + Overrun,
         sampling' \in {"Ok", "BudgetExceeded", "Measurement"},
         sampling' = "Ok" => now' < Timeout, taken' \in 0 .. plan.count
  PROVE  AbInv'
<1>1. now' <= Timeout + 2 * Overrun + CallTimeout.measurement
  BY Ticks, SMT
<1>2. sampling' \in EvaluationErrorKind \cup {"Ok"}
  BY DEF EvaluationErrorKind
<1>3. ProtocolInv'
  BY <1>2 DEF AbInv, ProtocolInv, AbTypeOK, Concluding
<1>4. Finished' = Finished
  BY DEF Finished, Concluding
<1>5. CollectionInv'
  BY <1>4 DEF AbInv, CollectionInv, Session
<1>6. ClockInv'
  BY <1>1, BoundIsKept DEF ClockInv, BudgetBoundsEvaluation
<1>7. PositionInv'
  <2>1. position = side /\ now - movedAt >= plan.settle /\ movedAt \in Nat /\ now \in Nat
        /\ plan.settle \in Nat
    BY InvTypes, PlanTicks DEF AbInv, PositionInv
  <2>2. now' - movedAt >= plan.settle
    BY <2>1, SMT
  <2> QED BY <2>1, <2>2 DEF PositionInv, Concluding
<1>8. EvidenceInv'
  BY <1>4 DEF AbInv, EvidenceInv, EvidenceOf
<1>9. VerdictInv' /\ VerdictFromPairedEvidence'
  BY NoResultYet DEF AbInv, VerdictInv, VerdictFromPairedEvidence, EvaluationVerdict
<1> QED BY <1>3, <1>5, <1>6, <1>7, <1>8, <1>9 DEF AbInv

\* A sample is taken, or the sampling ends.
LEMMA SampleKeeps ==
  ASSUME AbInv, Sample
  PROVE  AbInv'
<1>1. /\ step = "sample" /\ sampling = "Ok" /\ taken < plan.count
      /\ UNCHANGED <<step, plan, side, kind, position, movedAt, sessions, closeCalls, evidence,
                     groups, comparable, result, authorized>>
  BY DEF Sample
<1>2. /\ now \in Nat /\ now < Timeout /\ now <= Timeout + Overrun
      /\ plan.count \in Nat /\ plan.interval \in Nat /\ taken \in 0 .. plan.count
  BY <1>1, InvTypes, PlanTicks DEF AbInv, ClockInv
<1>3. ASSUME NEW t \in Nat, NEW s \in {"BudgetExceeded", "Measurement"}, Sampled(t, s),
             t >= now, t <= Timeout + Overrun
      PROVE  AbInv'
  BY <1>1, <1>2, <1>3, SampledKeeps DEF Sampled
<1>4. CASE Sampled(now, "BudgetExceeded")
  BY <1>2, <1>3, <1>4, SMT
<1>5. ASSUME Admits(CallTimeout.measurement), NEW d \in CallTicks(CallTimeout.measurement),
             Sampled(now + d, "BudgetExceeded") \/ Sampled(now + d, "Measurement")
      PROVE  AbInv'
  <2>1. now + d \in Nat /\ now + d <= Timeout + Overrun /\ d \in Nat
    BY <1>2, <1>5, Ticks, AdmittedCall
  <2>2. now + d >= now
    BY <1>2, <2>1, SMT
  <2> QED BY <1>3, <1>5, <2>1, <2>2
<1>6. ASSUME Admits(CallTimeout.measurement), NEW d \in CallTicks(CallTimeout.measurement),
             InTime(now + d), taken' = taken + 1,
             IF taken' = plan.count \/ plan.interval = 0
               THEN now' = now + d /\ sampling' = "Ok"
               ELSE IF plan.interval > Timeout - (now + d)
               THEN now' = now + d /\ sampling' = "BudgetExceeded"
               ELSE \E late \in 0 .. Overrun :
                      /\ now' = now + d + plan.interval + late
                      /\ sampling' = IF InTime(now') THEN "Ok" ELSE "BudgetExceeded"
      PROVE  AbInv'
  <2>1. now + d \in Nat /\ now + d <= Timeout + Overrun /\ d \in Nat /\ now + d < Timeout
    BY <1>2, <1>6, Ticks, AdmittedCall DEF InTime
  <2>2. taken' \in 0 .. plan.count
    BY <1>1, <1>2, <1>6, SMT
  <2>3. CASE now' = now + d /\ sampling' \in {"Ok", "BudgetExceeded"}
    <3>1. now' >= now
      BY <1>2, <2>1, <2>3, SMT
    <3> QED BY <1>1, <2>1, <2>2, <2>3, <3>1, SampledKeeps
  <2>4. ASSUME NEW late \in 0 .. Overrun, ~(plan.interval > Timeout - (now + d)),
               now' = now + d + plan.interval + late,
               sampling' = IF InTime(now') THEN "Ok" ELSE "BudgetExceeded"
        PROVE  AbInv'
    <3>1. now' \in Nat /\ now' >= now /\ now' <= Timeout + Overrun
      BY <1>2, <2>1, <2>4, Ticks, SMT
    <3>2. sampling' \in {"Ok", "BudgetExceeded"} /\ (sampling' = "Ok" => now' < Timeout)
      BY <2>4 DEF InTime
    <3> QED BY <1>1, <2>2, <3>1, <3>2, SampledKeeps
  <2> QED BY <1>6, <2>3, <2>4
<1> QED BY <1>4, <1>5, <1>6 DEF Sample

\* A session is closed, whichever way its sampling ended.
LEMMA CloseKeeps ==
  ASSUME AbInv, Close
  PROVE  AbInv'
<1>1. /\ step = "sample" /\ (sampling # "Ok" \/ taken = plan.count)
      /\ closeCalls' = [closeCalls EXCEPT ![Session] = @ + 1]
      /\ UNCHANGED <<plan, position, movedAt, taken, sampling, groups, comparable, authorized>>
  BY DEF Close
<1>2. /\ now \in Nat /\ now <= Timeout + Overrun /\ plan.count \in Nat /\ plan.settle \in Nat
      /\ result = "None" /\ side \in Side /\ kind \in Collection /\ movedAt \in Nat
      /\ position = side /\ now - movedAt >= plan.settle
      /\ sampling \in {"Ok", "BudgetExceeded", "Measurement"}
  BY <1>1, InvTypes, PlanTicks, NoResultYet DEF AbInv, ClockInv, PositionInv, ProtocolInv
<1>3. Session \in Side \X Collection /\ Session \in Collections /\ Session \notin Finished
  BY <1>1, SessionIsNext DEF Concluding
<1>4. \A c \in Collections :
         /\ closeCalls[c] = IF c \in Finished THEN 1 ELSE 0
         /\ sessions[c] = IF c \in Finished THEN "closed" ELSE IF c = Session THEN "open" ELSE "none"
  BY <1>1 DEF AbInv, CollectionInv
<1>5. closeCalls' \in [Collections -> 0 .. 1]
  BY <1>1, <1>3, <1>4, InvTypes, SMT
<1>6. \A c \in Collections : closeCalls'[c] = IF c \in Finished \cup {Session} THEN 1 ELSE 0
  BY <1>1, <1>3, <1>4, InvTypes, SMT
<1>7. ASSUME NEW d \in CallTicks(CallTimeout.measurement)
      PROVE  now + d \in Nat /\ now + d <= Timeout + 2 * Overrun + CallTimeout.measurement
             /\ d \in Nat
  <2>1. d \in 0 .. (CallTimeout.measurement + Overrun)
    BY <1>7 DEF CallTicks
  <2> QED BY <1>2, <2>1, Ticks, SMT
<1>8. ASSUME NEW d \in CallTicks(CallTimeout.measurement), now' = now + d,
             NEW a \in {"closed", "lost"}, sessions' = [sessions EXCEPT ![Session] = a],
             NEW r \in EvaluationErrorKind, Return(r), a = "lost" => r = "Cleanup",
             UNCHANGED <<kind, side, evidence>>
      PROVE  AbInv'
  <2>1. sessions' \in [Side \X Collection -> {"none", "open", "closed", "lost"}]
    BY <1>8, InvTypes
  <2>2. \A c \in Collections :
          sessions'[c] = IF c \in Finished THEN "closed" ELSE IF c = Session THEN a ELSE "none"
    BY <1>3, <1>4, <1>8, InvTypes DEF Collections
  <2>3. CollectionInv'
    <3>1. step' = "returned" /\ result' = r
      BY <1>8 DEF Return
    <3>2. ASSUME NEW c \in Collections
          PROVE  /\ sessions'[c] # "open"
                 /\ closeCalls'[c] = 1 => sessions'[c] \in {"closed", "lost"}
      <4>1. sessions'[c] \in {"closed", "lost", "none"}
        BY <1>8, <2>2
      <4>2. sessions'[c] # "open"
        BY <4>1
      <4>3. c \in Finished \cup {Session} => sessions'[c] \in {"closed", "lost"}
        BY <1>8, <2>2
      <4>4. closeCalls'[c] = 1 => c \in Finished \cup {Session}
        BY <1>6, ZeroIsNotOne
      <4> QED BY <4>2, <4>3, <4>4
    <3>3. ASSUME NEW c \in Collections, sessions'[c] = "lost"
          PROVE  closeCalls'[c] = 1 /\ result' = "Cleanup"
      <4>1. c = Session /\ a = "lost"
        BY <2>2, <3>3
      <4> QED BY <1>6, <1>8, <3>1, <4>1
    <3> QED BY <3>1, <3>2, <3>3 DEF CollectionInv, LostSessionIsReported, Collections
  <2>4. now' \in Nat /\ now' <= Timeout + 2 * Overrun + CallTimeout.measurement
    BY <1>7, <1>8
  <2> QED BY <1>1, <1>5, <1>8, <2>1, <2>3, <2>4, ReturnKeeps, InvTypes
<1>9. ASSUME NEW d \in CallTicks(CallTimeout.measurement), now' = now + d, InTime(now + d),
             sessions' = [sessions EXCEPT ![Session] = "closed"], sampling = "Ok",
             evidence' = evidence \cup
               {[side |-> side, kind |-> kind, position |-> position,
                 settled |-> now - movedAt >= plan.settle, samples |-> taken]},
             NextStep, UNCHANGED result
      PROVE  AbInv'
  <2>1. now' \in Nat /\ now' < Timeout /\ now' >= now /\ now' <= Timeout + 2 * Overrun + CallTimeout.measurement
    BY <1>2, <1>7, <1>9, Ticks, SMT DEF InTime
  <2>2. sessions' \in [Side \X Collection -> {"none", "open", "closed", "lost"}]
    BY <1>9, InvTypes
  <2>3. \/ kind = "guardrail" /\ step' = "open" /\ kind' = "domain" /\ side' = side
        \/ /\ kind = "domain" /\ side = "baseline"
           /\ step' = "move" /\ kind' = "guardrail" /\ side' = "candidate"
        \/ /\ kind = "domain" /\ side = "candidate"
           /\ step' = "compare" /\ kind' = kind /\ side' = side
    BY <1>2, <1>9 DEF NextStep, Collection, Side
  <2>4. Finished' = Finished \cup {Session}
    BY <1>1, <1>2, <2>3, SMT DEF Finished, Before, Session, Collections, Side, Collection, Concluding
  <2>5. ProtocolInv'
    BY <1>1, <1>2, <1>5, <1>9, <2>1, <2>2, <2>3
       DEF AbInv, ProtocolInv, AbTypeOK, Concluding, Side, Collection
  <2>6. CollectionInv'
    BY <1>3, <1>4, <1>6, <1>9, <2>3, <2>4, InvTypes DEF CollectionInv, Collections
  <2>7. ClockInv'
    BY <2>1, <2>3, BoundIsKept DEF ClockInv, BudgetBoundsEvaluation
  <2>8. PositionInv'
    <3>1. now' - movedAt >= plan.settle
      BY <1>2, <2>1, SMT
    <3> QED BY <1>1, <1>2, <2>3, <3>1 DEF PositionInv, Concluding
  <2>9. EvidenceInv'
    <3>1. EvidenceOf(Session) \in evidence'
      BY <1>1, <1>2, <1>9 DEF EvidenceOf, Session
    <3>2. \A c \in Finished : EvidenceOf(c) \in evidence'
      BY <1>1, <1>9 DEF AbInv, EvidenceInv
    <3>3. \A c \in Collections : EvidenceOf(c)' = EvidenceOf(c)
      BY <1>1 DEF EvidenceOf
    <3> QED BY <1>1, <2>4, <3>1, <3>2 DEF EvidenceInv, EvidenceOf
  <2>10. VerdictInv' /\ VerdictFromPairedEvidence'
    BY <1>1, <1>2, <1>9, <2>3 DEF AbInv, VerdictInv, VerdictFromPairedEvidence, EvaluationVerdict
  <2> QED BY <2>5, <2>6, <2>7, <2>8, <2>9, <2>10 DEF AbInv
<1>10. PICK d \in CallTicks(CallTimeout.measurement),
            r \in {"Ok", "OkTooLarge", "WrongReceipt", "NotCleaned", "Error"} :
         /\ now' = now + d
         /\ sessions' = [sessions EXCEPT ![Session] =
                           IF r \in {"Ok", "OkTooLarge"} THEN "closed" ELSE "lost"]
         /\ LET refusal == IF r \in {"WrongReceipt", "NotCleaned", "Error"} THEN "Cleanup"
                           ELSE IF r = "OkTooLarge" THEN "Measurement"
                           ELSE IF ~Admits(CallTimeout.measurement) \/ ~InTime(now + d)
                                THEN "BudgetExceeded"
                           ELSE sampling
            IN IF refusal # "Ok" THEN Return(refusal) /\ UNCHANGED <<kind, side, evidence>>
               ELSE
                   /\ evidence' = evidence \cup
                        {[side |-> side, kind |-> kind, position |-> position,
                          settled |-> now - movedAt >= plan.settle, samples |-> taken]}
                   /\ NextStep /\ UNCHANGED result
  BY DEF Close
<1>11. "Cleanup" \in EvaluationErrorKind /\ "Measurement" \in EvaluationErrorKind
       /\ "BudgetExceeded" \in EvaluationErrorKind
  BY DEF EvaluationErrorKind
<1>12. CASE r \in {"WrongReceipt", "NotCleaned", "Error"}
  BY <1>8, <1>10, <1>11, <1>12
<1>13. CASE r = "OkTooLarge"
  BY <1>8, <1>10, <1>11, <1>13
<1>14. CASE r = "Ok" /\ (~Admits(CallTimeout.measurement) \/ ~InTime(now + d))
  BY <1>8, <1>10, <1>11, <1>14
<1>15. CASE r = "Ok" /\ Admits(CallTimeout.measurement) /\ InTime(now + d) /\ sampling # "Ok"
  BY <1>2, <1>8, <1>10, <1>11, <1>15
<1>16. CASE r = "Ok" /\ Admits(CallTimeout.measurement) /\ InTime(now + d) /\ sampling = "Ok"
  BY <1>9, <1>10, <1>16
<1> QED BY <1>12, <1>13, <1>14, <1>15, <1>16

\* After the collections nothing is measured any more.
LEMMA ConcludingKeeps ==
  ASSUME AbInv, step \in Concluding, step' \in Concluding,
         UNCHANGED <<plan, side, kind, position, movedAt, collection, evidence, authorized, result>>,
         now' \in Nat, now' < Timeout, VerdictInv'
  PROVE  AbInv'
<1>1. UNCHANGED <<sessions, closeCalls, taken, sampling>>
  BY DEF collection
<1>2. result' = "None" /\ step \notin {"returned", "sample"} /\ step' \notin {"returned", "sample", "open", "settle"}
  BY NoResultYet DEF Concluding
<1>3. ProtocolInv'
  BY <1>1, <1>2 DEF AbInv, ProtocolInv, AbTypeOK, Concluding
<1>4. Finished' = Finished
  BY DEF Finished
<1>5. CollectionInv' /\ EvidenceInv'
  BY <1>1, <1>2, <1>4 DEF AbInv, CollectionInv, EvidenceInv, EvidenceOf
<1>6. now' <= Timeout + StepTicks
  BY Ticks, SMT
<1>7. ClockInv'
  BY <1>2, <1>6, BoundIsKept DEF ClockInv, BudgetBoundsEvaluation
<1>8. PositionInv' /\ VerdictFromPairedEvidence'
  BY <1>2 DEF AbInv, PositionInv, VerdictFromPairedEvidence, EvaluationVerdict
<1> QED BY <1>3, <1>5, <1>7, <1>8 DEF AbInv

\* The four collections are checked to be comparable.
LEMMA ComparabilityKeeps ==
  ASSUME AbInv, Comparability
  PROVE  AbInv'
<1>1. /\ step = "compare"
      /\ UNCHANGED <<plan, side, kind, position, movedAt, collection, evidence, groups, authorized>>
      /\ UNCHANGED <<sessions, closeCalls, taken, sampling>>
  BY DEF Comparability, collection
<1>2. CASE Refuse /\ UNCHANGED comparable
  BY <1>1, <1>2, RefuseKeeps, InvTypes
<1>3. CASE /\ comparable' \in {"yes", "incomplete", "schema", "workload"}
           /\ step' = IF comparable' = "schema" THEN "verdict" ELSE "comparisons"
           /\ UNCHANGED <<now, result>>
  <2>1. result = "None"
    BY <1>1, NoResultYet
  <2>2. VerdictInv'
    BY <1>1, <1>3, <2>1 DEF AbInv, VerdictInv
  <2> QED BY <1>1, <1>3, <2>2, ConcludingKeeps, InvTypes DEF Concluding
<1> QED BY <1>2, <1>3 DEF Comparability

\* One group is compared.
LEMMA CompareOneKeeps ==
  ASSUME AbInv, CompareOne
  PROVE  AbInv'
<1>1. /\ step = "comparisons"
      /\ UNCHANGED <<plan, side, kind, position, movedAt, collection, evidence, comparable, authorized>>
      /\ UNCHANGED <<sessions, closeCalls, taken, sampling>>
  BY DEF CompareOne, collection
<1>2. PICK g \in NextGroup :
        IF ~Admits(CallTimeout.comparison) THEN Refuse /\ UNCHANGED groups
        ELSE \E d \in CallTicks(CallTimeout.comparison), r \in {"Ok", "Comparison"},
                c \in {"Improved", "NotImproved", "Inconclusive"} :
               /\ AfterCall(d, r, /\ step' = IF g = "workload" THEN "verdict" ELSE "comparisons"
                                  /\ UNCHANGED result)
               /\ groups' = [groups EXCEPT ![g] = <<c>>]
  BY DEF CompareOne
<1>3. g \in Group
  BY DEF NextGroup
<1>4. CASE Refuse /\ UNCHANGED groups
  BY <1>1, <1>4, RefuseKeeps, InvTypes
<1>5. ASSUME Admits(CallTimeout.comparison), NEW d \in CallTicks(CallTimeout.comparison),
             NEW r \in {"Ok", "Comparison"}, NEW c \in {"Improved", "NotImproved", "Inconclusive"},
             AfterCall(d, r, /\ step' = IF g = "workload" THEN "verdict" ELSE "comparisons"
                             /\ UNCHANGED result),
             groups' = [groups EXCEPT ![g] = <<c>>]
      PROVE  AbInv'
  <2>1. /\ now' = now + d /\ now' \in Nat /\ now' <= Timeout + Overrun
    BY <1>5, Ticks, AdmittedCall, InvTypes DEF AfterCall
  <2>2. now' <= Timeout + 2 * Overrun + CallTimeout.measurement
    BY <2>1, Ticks, SMT
  <2>3. groups \in [Group -> Conclusion] /\ <<c>> \in Conclusion
    BY InvTypes DEF Conclusion
  <2>4. groups' \in [Group -> Conclusion]
    BY <1>3, <1>5, <2>3
  <2>5. CASE \E e \in EvaluationErrorKind : Return(e)
    BY <1>1, <2>1, <2>2, <2>4, <2>5, QuietReturnKeeps, InvTypes
  <2>6. CASE /\ InTime(now + d) /\ UNCHANGED result
             /\ step' = IF g = "workload" THEN "verdict" ELSE "comparisons"
    <3>1. now' < Timeout
      BY <2>1, <2>6 DEF InTime
    <3>2. result = "None"
      BY <1>1, NoResultYet
    <3>3. g = "workload" => groups["primary"] # <<>> /\ groups["regression"] # <<>>
      <4>1. Order[1] = "primary" /\ Order[2] = "regression" /\ Order[3] = "workload"
        BY DEF Order
      <4>2. \A i, j \in 1 .. 3 : Order[j] = g /\ i < j => groups[Order[i]] # <<>>
        BY DEF NextGroup
      <4> QED BY <4>1, <4>2, SMT
    <3>4. step' = "verdict" => \A h \in Group : groups'[h] # <<>>
      BY <1>3, <1>5, <2>3, <2>6, <3>3 DEF Group
    <3>5. VerdictInv'
      BY <1>1, <2>4, <2>6, <3>2, <3>4 DEF AbInv, VerdictInv, Conclusion
    <3> QED BY <1>1, <2>1, <2>6, <3>1, <3>5, ConcludingKeeps DEF Concluding
  <2>7. "BudgetExceeded" \in EvaluationErrorKind /\ "Comparison" \in EvaluationErrorKind
    BY DEF EvaluationErrorKind
  <2> QED BY <1>5, <2>5, <2>6, <2>7 DEF AfterCall
<1> QED BY <1>2, <1>4, <1>5

\* The verdict on one conclusion of each group is a verdict, and Improved only for
\* batches that can be compared and three that say so.
LEMMA ImprovedNeedsAll ==
  ASSUME NEW p \in {"Improved", "NotImproved", "Inconclusive"},
         NEW r \in {"Improved", "NotImproved", "Inconclusive"},
         NEW w \in {"Improved", "NotImproved", "Inconclusive"}, NEW g,
         g.primary = <<p>>, g.regression = <<r>>, g.workload = <<w>>,
         NEW a \in BOOLEAN, NEW b \in BOOLEAN, NEW c \in BOOLEAN,
         DecideFrom({}, a, b, c, g) = "Improved"
  PROVE  a /\ b /\ c /\ p = "Improved" /\ r = "Improved" /\ w = "Improved"
<1>1. /\ "NotImproved" \notin Range(<<r>>) /\ "NotImproved" \notin Range(<<w>>) /\ a /\ b /\ c
      /\ "Inconclusive" \notin Range(<<r>>) /\ "Inconclusive" \notin Range(<<w>>)
      /\ \A i \in DOMAIN <<p>> : <<p>>[i] = "Improved"
  BY DEF DecideFrom
<1>2. ASSUME NEW x PROVE Len(<<x>>) = 1 /\ <<x>>[1] = x /\ 1 \in 1 .. Len(<<x>>) /\ 1 \in DOMAIN <<x>>
  BY SMT
<1>3. \A x, y : y \notin Range(<<x>>) => x # y
  BY <1>2 DEF Range
<1> QED BY <1>1, <1>2, <1>3

\* Incomplete evidence is no improvement.
LEMMA NoEvidenceNotImproved ==
  ASSUME NEW a \in BOOLEAN, NEW c \in BOOLEAN, NEW g
  PROVE  DecideFrom({}, a, FALSE, c, g) # "Improved"
  BY DEF DecideFrom

\* A decision is a verdict.
LEMMA VerdictType ==
  ASSUME NEW a, NEW b, NEW c, NEW g
  PROVE  DecideFrom({}, a, b, c, g) \in EvaluationVerdict
  BY DEF DecideFrom, EvaluationVerdict

\* A conclusion that is there is one of the three.
LEMMA OneConclusion ==
  ASSUME NEW q \in Conclusion, q # <<>>
  PROVE  \E c \in {"Improved", "NotImproved", "Inconclusive"} : q = <<c>>
  BY DEF Conclusion

\* The verdict is drawn from the comparisons.
LEMMA CentralVerdictKeeps ==
  ASSUME AbInv, CentralVerdict
  PROVE  AbInv'
<1>1. /\ step = "verdict" /\ UNCHANGED <<plan, side, kind, position, movedAt, evidence, groups,
                                        comparable, authorized>>
      /\ UNCHANGED <<sessions, closeCalls, taken, sampling>>
  BY DEF CentralVerdict, collection
<1>2. CASE Refuse
  BY <1>1, <1>2, RefuseKeeps, InvTypes
<1>3. ASSUME InTime(now), now' = now,
             Return(DecideFrom({}, comparable # "incomplete", comparable # "schema",
                               comparable # "workload", groups))
      PROVE  AbInv'
  <2> DEFINE v == DecideFrom({}, comparable # "incomplete", comparable # "schema",
                             comparable # "workload", groups)
  <2>1. v \in EvaluationVerdict
    BY VerdictType
  <2> HIDE DEF v
  <2>2. v = "Improved" => comparable = "yes" /\ \A g \in Group : groups[g] = <<"Improved">>
    <3> SUFFICES ASSUME v = "Improved"
                 PROVE  comparable = "yes" /\ \A g \in Group : groups[g] = <<"Improved">>
      OBVIOUS
    <3>1. comparable # "schema"
      <4> SUFFICES ASSUME comparable = "schema" PROVE FALSE
        OBVIOUS
      <4>1. (comparable # "schema") = FALSE
        OBVIOUS
      <4> QED BY <4>1, NoEvidenceNotImproved DEF v
    <3>2. \A g \in Group : groups[g] # <<>> /\ groups[g] \in Conclusion
      BY <1>1, <3>1, InvTypes DEF AbInv, VerdictInv
    <3>3. PICK p \in {"Improved", "NotImproved", "Inconclusive"} : groups["primary"] = <<p>>
      BY <3>2, OneConclusion DEF Group
    <3>4. PICK r \in {"Improved", "NotImproved", "Inconclusive"} : groups["regression"] = <<r>>
      BY <3>2, OneConclusion DEF Group
    <3>5. PICK w \in {"Improved", "NotImproved", "Inconclusive"} : groups["workload"] = <<w>>
      BY <3>2, OneConclusion DEF Group
    <3>6. /\ comparable # "incomplete" /\ comparable # "workload"
          /\ p = "Improved" /\ r = "Improved" /\ w = "Improved"
      <4>1. groups.primary = <<p>> /\ groups.regression = <<r>> /\ groups.workload = <<w>>
        BY <3>3, <3>4, <3>5
      <4>2. PICK a \in BOOLEAN, b \in BOOLEAN, c \in BOOLEAN :
              /\ a = (comparable # "incomplete") /\ b = (comparable # "schema")
              /\ c = (comparable # "workload")
        OBVIOUS
      <4>3. DecideFrom({}, a, b, c, groups) = "Improved"
        BY <4>2 DEF v
      <4>4. a /\ c /\ p = "Improved" /\ r = "Improved" /\ w = "Improved"
        BY <4>1, <4>3, ImprovedNeedsAll, SMT
      <4> QED BY <4>2, <4>4
    <3> QED BY <3>1, <3>3, <3>4, <3>5, <3>6, InvTypes DEF Group
  <2> HIDE DEF v
  <2>3. step' = "returned" /\ result' = v
    BY <1>3 DEF Return, v
  <2>4. /\ result = "None" /\ authorized = FALSE
    BY <1>1, NoResultYet
  <2>5. v # "None" /\ v \notin EvaluationErrorKind
    BY <2>1 DEF EvaluationVerdict, EvaluationErrorKind
  <2>6. ProtocolInv'
    BY <1>1, <1>3, <2>1, <2>3, <2>5 DEF AbInv, ProtocolInv, AbTypeOK, Concluding
  <2>7. Finished = Collections /\ step # "returned" /\ position = "candidate"
    BY <1>1 DEF Finished, Concluding, AbInv, PositionInv, ProtocolInv
  <2>8. \A c \in Collections : sessions[c] = "closed" /\ EvidenceOf(c) \in evidence
    BY <2>7 DEF AbInv, CollectionInv, EvidenceInv
  <2>9. CollectionInv'
    BY <1>1, <2>3, <2>8 DEF CollectionInv, LostSessionIsReported, Collections
  <2>10. ClockInv'
    BY <1>3, <2>3 DEF AbInv, ClockInv, BudgetBoundsEvaluation
  <2>11. PositionInv' /\ EvidenceInv'
    BY <2>3 DEF PositionInv, EvidenceInv, Concluding
  <2>12. VerdictInv'
    BY <1>1, <2>2, <2>3, <2>4 DEF AbInv, VerdictInv
  <2>13. VerdictFromPairedEvidence'
    <3>1. ASSUME NEW s \in Side, NEW k \in Collection
          PROVE  /\ [side |-> s, kind |-> k, position |-> s, settled |-> TRUE, samples |-> plan.count]
                      \in evidence
      <4>1. <<s, k>> \in Collections
        BY DEF Collections
      <4> QED BY <2>8, <4>1 DEF EvidenceOf
    <3>2. \A c \in Side \X Collection : sessions[c] = "closed"
      BY <2>8 DEF Collections
    <3> QED BY <1>1, <1>3, <2>7, <3>1, <3>2 DEF VerdictFromPairedEvidence, InTime
  <2> QED BY <2>6, <2>9, <2>10, <2>11, <2>12, <2>13 DEF AbInv
<1> QED BY <1>2, <1>3 DEF CentralVerdict

\* The commit is authorized, or refused.
LEMMA CommitAuthorizationKeeps ==
  ASSUME AbInv, CommitAuthorization
  PROVE  AbInv'
<1>1. /\ UNCHANGED <<now, step, plan, side, kind, position, movedAt, evidence, groups,
                     comparable, result>>
      /\ UNCHANGED <<sessions, closeCalls, taken, sampling>>
      /\ result = "Improved" /\ authorized' = TRUE
  BY DEF CommitAuthorization, collection
<1>2. ProtocolInv'
  BY <1>1, ZenonT(30) DEF AbInv, ProtocolInv, AbTypeOK
<1>3. CollectionInv'
  BY <1>1 DEF AbInv, CollectionInv, LostSessionIsReported, Finished, Session
<1>4. ClockInv' /\ PositionInv' /\ EvidenceInv' /\ VerdictFromPairedEvidence'
  BY <1>1 DEF AbInv, ClockInv, PositionInv, EvidenceInv, Finished, EvidenceOf,
       VerdictFromPairedEvidence, BudgetBoundsEvaluation, InTime
<1>5. VerdictInv'
  BY <1>1 DEF AbInv, VerdictInv
<1> QED BY <1>2, <1>3, <1>4, <1>5 DEF AbInv

\* Nothing happens.
LEMMA AbStutters ==
  ASSUME AbInv, UNCHANGED abVars
  PROVE  AbInv'
<1>1. /\ UNCHANGED <<now, step, plan, side, kind, position, movedAt, evidence, groups,
                     comparable, result, authorized>>
      /\ UNCHANGED <<sessions, closeCalls, taken, sampling>>
  BY DEF abVars, collection
<1>2. ProtocolInv'
  BY <1>1, ZenonT(30) DEF AbInv, ProtocolInv, AbTypeOK
<1>3. CollectionInv'
  BY <1>1 DEF AbInv, CollectionInv, LostSessionIsReported, Finished, Session
<1>4. ClockInv' /\ PositionInv' /\ EvidenceInv' /\ VerdictFromPairedEvidence'
  BY <1>1 DEF AbInv, ClockInv, PositionInv, EvidenceInv, Finished, EvidenceOf,
       VerdictFromPairedEvidence, BudgetBoundsEvaluation, InTime
<1>5. VerdictInv'
  BY <1>1 DEF AbInv, VerdictInv
<1> QED BY <1>2, <1>3, <1>4, <1>5 DEF AbInv

\* An evaluation starts with nothing open.
LEMMA AbStarts ==
  AbInit => AbInv
<1> SUFFICES ASSUME AbInit PROVE AbInv
  OBVIOUS
<1>1. step = "begin" /\ side = "baseline" /\ kind = "guardrail" /\ result = "None"
      /\ now = 0 /\ movedAt = 0 /\ taken = 0 /\ plan \in Plans /\ sampling = "Ok"
  BY DEF AbInit
<1>2. AbTypeOK
  <2>1. plan.count \in Nat /\ taken \in 0 .. plan.count
    BY <1>1, PlanTicks, SMT
  <2>2. sessions \in [Side \X Collection -> {"none", "open", "closed", "lost"}]
    BY DEF AbInit
  <2>3. position \in Side
    BY DEF AbInit, Side
  <2> QED BY <1>1, <2>1, <2>2, <2>3 DEF AbTypeOK, Side, Collection
<1>3. ProtocolInv
  BY <1>1, <1>2, SMT DEF AbInit, ProtocolInv, Collections, Concluding
<1>4. Finished = {}
  BY <1>1 DEF Finished, Concluding, Before
<1>5. CollectionInv
  BY <1>1, <1>4 DEF AbInit, CollectionInv, Collections
<1>6. ClockInv
  <2>1. now \in Nat /\ now <= Timeout + StepTicks /\ now < Timeout
    BY <1>1, Ticks, SMT
  <2> QED BY <1>1, <2>1, BoundIsKept DEF ClockInv, BudgetBoundsEvaluation
<1>7. PositionInv /\ EvidenceInv /\ VerdictFromPairedEvidence
  BY <1>1, <1>4 DEF PositionInv, EvidenceInv, VerdictFromPairedEvidence, Concluding, EvaluationVerdict
<1>8. VerdictInv
  BY <1>1 DEF AbInit, VerdictInv
<1> QED BY <1>3, <1>5, <1>6, <1>7, <1>8 DEF AbInv

\* Every step keeps the invariant.
LEMMA AbStepKeeps ==
  AbInv /\ [AbNext]_abVars => AbInv'
  BY BeginKeeps, ValidateKeeps, MoveKeeps, SettleKeeps, OpenKeeps, SampleKeeps, CloseKeeps,
     ComparabilityKeeps, CompareOneKeeps, CentralVerdictKeeps, CommitAuthorizationKeeps,
     AbStutters DEF AbNext

\* However an evaluation ends, each measurement session it opened was closed once, and
\* one that could not be closed is reported (evaluate, collect_measurement).
THEOREM SessionSafety == AbSpec => []SessionsAreSettled
  BY AbStarts, AbStepKeeps, AbInvSuffices, PTL DEF AbSpec

\* An evaluation ends within its budget but for one step of the transaction, or one call
\* and the close after it, under way at the deadline (the deadline of evaluate).
THEOREM BudgetSafety == AbSpec => []BudgetBoundsEvaluation
  BY AbStarts, AbStepKeeps, AbInvSuffices, PTL DEF AbSpec

\* A commit is authorized only on complete and settled samples of both sides, each taken
\* in its own position and in time, of which every comparison says Improved (evaluate).
THEOREM CommitSafety == AbSpec => []CommitIsWarranted
  BY AbStarts, AbStepKeeps, AbInvSuffices, PTL DEF AbSpec
==============================================================================
