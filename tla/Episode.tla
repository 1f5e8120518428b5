------------------------------ MODULE Episode ------------------------------
(***************************************************************************)
(* One episode: EpisodeCoordinator::run and its session                    *)
(* (runtime/episode/coordinator.rs) over EpisodeStateMachine               *)
(* (state_machine.rs) and the permissions of the agent (permissions.rs).   *)
(* The transaction kernel appears through the results of its operations    *)
(* only; `durable` is what those results prove of its log.                 *)
(***************************************************************************)
EXTENDS Integers, Sequences

CONSTANTS
  MaxRounds,       \* reasoning.max_rounds
  MaxSkillRounds,  \* max_skill_rounds of the skill session
  MaxBatch         \* bound on the tool calls of one turn

ASSUME RoundsAssumption ==
  MaxRounds \in Nat \ {0} /\ MaxSkillRounds \in Nat /\ MaxBatch \in Nat \ {0}

VARIABLES
  machine,       \* EpisodeStateMachine
  transaction,   \* the session holds an open TransactionKernel
  durable,       \* what the kernel's results prove of the transaction
  decision,      \* verdict of the evaluation, "None" before it
  at,            \* where run is
  calls,         \* tool calls of the turn that are still to be handled
  round,         \* kind of the turn: "action", "mixed" or "context"
  actionRounds,
  skillRounds,
  outcome,       \* what run returned: a phase, "Error", or "None" so far
  opened,        \* history: transactions created
  evaluated,     \* history: evaluations started
  auditFailed    \* history: some audit record was not written

session == <<machine, transaction, durable, decision, opened, evaluated>>
rounds == <<calls, round, actionRounds, skillRounds>>
episodeVars == <<session, rounds, at, outcome, auditFailed>>

Phase == {"Clean", "Experimenting", "CommitPending", "RollingBack",
          "RecoveryRequired", "Committed"}

Lifecycle == {"Active", "Finishing", "Finished"}

Verdict == {"Improved", "NotImproved"}

Action == {"Probe", "BeginExperiment", "Mutation", "RequestCommit", "Abort"}

\* A tool call decodes to a skill context command, to an action, or not at all.
Command == Action \cup {"Context", "Undecodable"}

Durable == {"None", "Open", "RolledBack", "Committed", "Unknown"}

---------------------------------------------------------------------------
(* EpisodeStateMachine.  A transition that the code would reject is absent: *)
(* HandleMatchesPhase shows that the session never asks for one.           *)

NewMachine == [phase |-> "Clean", lifecycle |-> "Active", intent |-> FALSE,
               transactionId |-> FALSE, candidate |-> FALSE]

\* is_allowed_in, for an active episode.
AllowedInPhase(m, action) ==
  CASE m.phase = "Clean" ->
         \/ action \in {"Probe", "Abort"}
         \/ action = "BeginExperiment" /\ ~m.intent
         \/ action = "Mutation" /\ m.intent
    [] m.phase = "Experimenting" -> action # "BeginExperiment"
    [] OTHER -> FALSE

\* ensure_agent_action
IsAllowed(m, action) == m.lifecycle = "Active" /\ AllowedInPhase(m, action)

BeginTransaction(m) == [m EXCEPT !.transactionId = TRUE, !.phase = "Experimenting"]

\* request_commit and the commit steps up to the evaluation's result.
CommitRequested(m) ==
  [m EXCEPT !.candidate = TRUE, !.phase = "CommitPending", !.lifecycle = "Finishing"]

BeginRollback(m) ==
  IF m.phase \in {"Experimenting", "CommitPending"}
    THEN [m EXCEPT !.phase = "RollingBack", !.lifecycle = "Finishing"] ELSE m

\* Variant: the transaction id stays.
RollbackCompletedKeepsId(m) ==
  [m EXCEPT !.phase = "Clean", !.lifecycle = "Finished", !.candidate = FALSE]

\* Variant: the episode goes on after a rollback.
RollbackCompletedActive(m) ==
  [m EXCEPT !.phase = "Clean", !.lifecycle = "Active",
            !.transactionId = FALSE, !.candidate = FALSE]

RollbackCompleted(m) ==
  [m EXCEPT !.phase = "Clean", !.lifecycle = "Finished",
            !.transactionId = FALSE, !.candidate = FALSE]

CommitCompleted(m) == [m EXCEPT !.phase = "Committed", !.lifecycle = "Finished"]

RequireRecovery(m) == [m EXCEPT !.phase = "RecoveryRequired", !.lifecycle = "Finished"]

StopReasoning(m) ==
  IF m.lifecycle = "Active" THEN [m EXCEPT !.lifecycle = "Finishing"] ELSE m

FinishClean(m) == [m EXCEPT !.lifecycle = "Finished"]

ReasoningStopped(m) == m.lifecycle # "Active"

---------------------------------------------------------------------------
(* The session's handlers, as the set of the states <<machine, transaction, *)
(* durable, decision, opened, evaluated>> they may lead to.                *)

State(m, t, d, v, o, e) == <<m, t, d, v, o, e>>
Same == State(machine, transaction, durable, decision, opened, evaluated)

\* rollback_open_transaction from machine state m: what the machine and the
\* log are when it returns Ok, and when rollback_all fails.
RollbackOk(m, d) ==
  IF transaction \/ m.transactionId
    THEN [machine |-> RollbackCompleted(BeginRollback(m)), durable |-> "RolledBack"]
    ELSE [machine |-> m, durable |-> d]

RollbackErr(m) == BeginRollback(m)

\* A failed operation: roll back, and require recovery if that fails too.
RollbackOrRecover(m, v, o, e) ==
  LET done == RollbackOk(m, "Open") IN
  {State(done.machine, FALSE, done.durable, v, o, e),
   State(RequireRecovery(RollbackErr(m)), TRUE, "Open", v, o, e)}

\* begin_experiment freezes the intent, or refuses a contract.
BeginExperiment ==
  {Same, State([machine EXCEPT !.intent = TRUE], transaction, durable, decision,
               opened, evaluated)}

\* mutate: refused before it starts, no safe log, or experiment succeeds or fails.
Mutate ==
  LET m == IF transaction THEN machine ELSE BeginTransaction(machine)
      o == IF transaction THEN opened ELSE opened + 1
  IN {Same}
     \cup (IF transaction THEN {}
             ELSE {State(RequireRecovery(machine), FALSE, "Unknown", decision, o, evaluated)})
     \cup {State(m, TRUE, "Open", decision, o, evaluated)}
     \cup RollbackOrRecover(m, decision, o, evaluated)

\* finalize_candidate: committed, outcome unknown, or failed.
FinalizeImproved(m, e) ==
  {State(CommitCompleted(m), TRUE, "Committed", "Improved", opened, e),
   State(RequireRecovery(m), TRUE, "Unknown", "Improved", opened, e)}
  \cup RollbackOrRecover(m, "Improved", opened, e)

\* An evaluation that could not close its measurements ends in recovery even
\* when the rollback succeeds.
EvaluationFailed(m, e) ==
  LET rolledBack == RollbackOrRecover(m, decision, opened, e) IN
  rolledBack \cup {State(RequireRecovery(s[1]), s[2], s[3], s[4], s[5], s[6]) : s \in rolledBack}

\* request_commit: an invalid candidate changes nothing; only Improved is
\* finalized.
RequestCommit ==
  LET m == CommitRequested(machine)  e == evaluated + 1 IN
  {Same} \cup EvaluationFailed(m, e) \cup FinalizeImproved(m, e)
         \cup RollbackOrRecover(m, "NotImproved", opened, e)

\* abort: a failed rollback is left to finish_session.
Abort ==
  LET m == StopReasoning(machine)  done == RollbackOk(m, durable) IN
  {State(FinishClean(done.machine), FALSE, done.durable, decision, opened, evaluated)}
  \cup (IF transaction THEN {State(RollbackErr(m), TRUE, "Open", decision, opened, evaluated)}
                       ELSE {})

\* execute
Execute(command) ==
  IF ~IsAllowed(machine, command) THEN {Same}
  ELSE CASE command = "Probe" -> {Same}
         [] command = "BeginExperiment" -> BeginExperiment
         [] command = "Mutation" -> Mutate
         [] command = "RequestCommit" -> RequestCommit
         [] command = "Abort" -> Abort

Becomes(s) ==
  /\ machine' = s[1] /\ transaction' = s[2] /\ durable' = s[3]
  /\ decision' = s[4] /\ opened' = s[5] /\ evaluated' = s[6]

\* Audit records: a failed one ends the reasoning (fail_closed).
Recorded == UNCHANGED auditFailed
NotRecorded == auditFailed' = TRUE

---------------------------------------------------------------------------
(* run *)

EpisodeInit ==
  /\ machine = NewMachine
  /\ transaction = FALSE
  /\ durable = "None"
  /\ decision = "None"
  /\ at = "start"
  /\ calls = <<>>
  /\ round = "action"
  /\ actionRounds = 0
  /\ skillRounds = 0
  /\ outcome = "None"
  /\ opened = 0
  /\ evaluated = 0
  /\ auditFailed = FALSE

\* The skill session and the records of the start: their failures end run with
\* an error, a failure of the reasoner ends the episode.
Start ==
  /\ at = "start"
  /\ \/ Recorded /\ at' = "done" /\ outcome' = "Error" /\ UNCHANGED session
     \/ NotRecorded /\ at' = "done" /\ outcome' = "Error" /\ UNCHANGED session
     \/ Recorded /\ at' = "turn" /\ UNCHANGED <<outcome, session>>
     \/ /\ Recorded /\ at' = "finish" /\ UNCHANGED <<outcome>>
        /\ Becomes(State(StopReasoning(machine), transaction, durable, decision,
                         opened, evaluated))
  /\ UNCHANGED rounds

FailClosed == Becomes(State(StopReasoning(machine), transaction, durable, decision,
                            opened, evaluated))

\* AgentTurn::Final, or an empty batch.
FinalTurn ==
  /\ at = "turn"
  /\ at' = "finish"
  /\ \/ /\ actionRounds = MaxRounds
        /\ Recorded /\ UNCHANGED <<session, actionRounds>>
     \/ /\ actionRounds # MaxRounds
        /\ actionRounds' = actionRounds + 1
        /\ (Recorded /\ UNCHANGED session) \/ (NotRecorded /\ FailClosed)
     \/ Recorded /\ UNCHANGED <<session, actionRounds>>
  /\ UNCHANGED <<calls, round, skillRounds, outcome>>

Batch == UNION {[1 .. n -> Command] : n \in 1 .. MaxBatch}

Kind(batch) ==
  LET has == {batch[i] : i \in DOMAIN batch} IN
  CASE "Context" \in has /\ has \cap Action # {} -> "mixed"
    [] "Context" \in has /\ has \cap Action = {} -> "context"
    [] OTHER -> "action"

\* No round of this kind is left: run ends.  Otherwise the batch is handled.
TakeRound(batch, limited, action, skill) ==
  /\ at = "turn"
  /\ round' = Kind(batch)
  /\ IF limited
       THEN at' = "finish" /\ calls' = <<>> /\ UNCHANGED <<actionRounds, skillRounds>>
       ELSE /\ at' = "call" /\ calls' = batch
            /\ actionRounds' = actionRounds + action
            /\ skillRounds' = skillRounds + skill
  /\ UNCHANGED <<session, outcome, auditFailed>>

\* Variant: a batch of skill context calls is free.
ToolCallsUncounted(batch) ==
  IF Kind(batch) = "context" THEN TakeRound(batch, FALSE, 0, 0)
                             ELSE TakeRound(batch, actionRounds = MaxRounds, 1, 0)

\* Variant: one round more than the limit.
ToolCallsOneMore(batch) ==
  IF Kind(batch) = "context" THEN TakeRound(batch, skillRounds > MaxSkillRounds, 0, 1)
                             ELSE TakeRound(batch, actionRounds > MaxRounds, 1, 0)

\* AgentTurn::ToolCalls: one more round of its kind, if there is one left.
ToolCalls(batch) ==
  IF Kind(batch) = "context" THEN TakeRound(batch, skillRounds = MaxSkillRounds, 0, 1)
                             ELSE TakeRound(batch, actionRounds = MaxRounds, 1, 0)

\* What a call does to the session.
Handled(command) ==
  IF round = "mixed" \/ command \notin Action THEN {Same} ELSE Execute(command)

\* One call of the batch.  A record fails before the action is executed (the
\* call is dropped) or after it; a handled call may stop the reasoning.
Call ==
  /\ at = "call" /\ calls # <<>>
  /\ \/ NotRecorded /\ FailClosed /\ at' = "finish" /\ calls' = <<>>
     \/ /\ NotRecorded /\ at' = "finish" /\ calls' = <<>>
        /\ round # "context"
        /\ \E s \in Handled(Head(calls)) :
             Becomes(State(StopReasoning(s[1]), s[2], s[3], s[4], s[5], s[6]))
     \/ /\ Recorded
        /\ \E s \in Handled(Head(calls)) :
             /\ Becomes(s)
             /\ IF ReasoningStopped(s[1])
                  THEN at' = "finish" /\ calls' = <<>>
                  ELSE at' = "call" /\ calls' = Tail(calls)
  /\ UNCHANGED <<round, actionRounds, skillRounds, outcome>>

\* The batch is done: the results go back to the reasoner.
Resume ==
  /\ at = "call" /\ calls = <<>>
  /\ \/ /\ round # "context" /\ actionRounds = MaxRounds
        /\ at' = "finish" /\ UNCHANGED session
     \/ /\ round = "context" \/ actionRounds # MaxRounds
        /\ (at' = "turn" /\ UNCHANGED session) \/ (at' = "finish" /\ FailClosed)
  /\ UNCHANGED <<rounds, outcome, auditFailed>>

\* Variant: a failed clean-up is only logged.
CleanupFailedQuietly == FinishClean(RollbackCompleted(RollbackErr(machine)))

CleanupFailed == RequireRecovery(RollbackErr(machine))

\* The session's end without the last record: roll back what is open.
Cleaned ==
  IF machine.phase \in {"Committed", "RecoveryRequired"} THEN {Same}
  ELSE LET done == RollbackOk(machine, durable) IN
       {State(FinishClean(done.machine), FALSE, done.durable, decision, opened, evaluated)}
       \cup (IF transaction
               THEN {State(CleanupFailed, TRUE, "Open", decision, opened, evaluated)}
               ELSE {})

\* finish_session: the outcome, or an error when it cannot be recorded.
FinishSession ==
  /\ at = "finish"
  /\ at' = "done"
  /\ \E s \in Cleaned :
       /\ Becomes(s)
       /\ \/ Recorded /\ outcome' = s[1].phase
          \/ NotRecorded /\ outcome' = "Error"
  /\ UNCHANGED rounds

EpisodeNext ==
  \/ Start \/ FinalTurn \/ (\E batch \in Batch : ToolCalls(batch))
  \/ Call \/ Resume \/ FinishSession

EpisodeSpec == EpisodeInit /\ [][EpisodeNext]_episodeVars

---------------------------------------------------------------------------
(* Properties *)

\* Every variable of an episode has its type, and neither round counter of run
\* passes its limit.
EpisodeTypeOK ==
  /\ machine \in [phase : Phase, lifecycle : Lifecycle, intent : BOOLEAN,
                  transactionId : BOOLEAN, candidate : BOOLEAN]
  /\ transaction \in BOOLEAN
  /\ durable \in Durable
  /\ decision \in Verdict \cup {"None"}
  /\ at \in {"start", "turn", "call", "finish", "done"}
  /\ calls \in Seq(Command)
  /\ round \in {"action", "mixed", "context"}
  /\ actionRounds \in 0 .. MaxRounds
  /\ skillRounds \in 0 .. MaxSkillRounds
  /\ outcome \in Phase \cup {"None", "Error"}
  /\ opened \in Nat /\ evaluated \in Nat
  /\ auditFailed \in BOOLEAN

Settled == machine.phase \in {"Committed", "RecoveryRequired"}

\* The session's transaction handle, the phase and the transaction id of the
\* state machine agree between any two calls, so that no transition the code
\* asks for is rejected and no rollback misses its transaction
\* (ensure_transaction, rollback_open_transaction, finish_clean).
HandleMatchesPhase ==
  ~Settled =>
    /\ transaction = (machine.phase \in {"Experimenting", "RollingBack"})
    /\ transaction = machine.transactionId
    /\ transaction = (durable = "Open")
    /\ transaction => machine.intent
    /\ ~machine.candidate

\* The reported outcome is what the log proves: Committed for a committed
\* transaction and no other, and RecoveryRequired whenever the transaction is
\* still open or its outcome unknown (finish_session).
OutcomeIsTrue ==
  outcome \in Phase =>
    /\ (outcome = "Committed") <=> (durable = "Committed")
    /\ durable \in {"Open", "Unknown"} => outcome = "RecoveryRequired"

\* One transaction and one final evaluation per episode, however many turns
\* and batched calls the agent uses (mutate, request_commit and the lifecycle).
OneTransaction == opened <= 1 /\ evaluated <= 1

\* Whatever turns and batches the agent makes and whichever records are lost, an
\* episode reports what the log proves, and never loses hold of its one
\* transaction (EpisodeCoordinator::run).
EpisodeIsSound == EpisodeTypeOK /\ HandleMatchesPhase /\ OneTransaction /\ OutcomeIsTrue

\* Every episode ends, whatever turns the reasoner takes: both kinds of rounds
\* are limited (the loop of run).
EpisodeEnds == <>(at = "done")

=============================================================================
