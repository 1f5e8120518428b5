----------------------- MODULE TransactionDriftProofs -----------------------
(***************************************************************************)
(* DriftInv is kept by every step: every resource that nobody else wrote,  *)
(* and that stores what is written, holds what the head of its revisions   *)
(* explains, whatever is restored, replayed or revised, and over any       *)
(* number of restarts.  So drift is reported of no such resource.          *)
(***************************************************************************)
EXTENDS TransactionStepProofs

\* The provers: a leaf that cites none is left to Zenon.
USE Zenon

---------------------------------------------------------------------------
(* Drift has a cause: how each part of DriftInv survives a step that       *)
(* leaves the tuned system, the log and the records alone.                 *)

Quiet == Still /\ UNCHANGED <<world, normalised>>

LEMMA QuietFacts ==
  ASSUME Quiet
  PROVE  /\ Known' = Known /\ Heads' = Heads /\ LogChanges(log') = LogChanges(log)
         /\ \A c : /\ Clear(c)' <=> Clear(c)
                   /\ AtOrigin(c)' <=> AtOrigin(c)
                   /\ Applied(c)' <=> Applied(c)
                   /\ AtCommitValue(c)' <=> AtCommitValue(c)
                   /\ IsHead(c)' <=> IsHead(c)
<1>1. Known' = Known /\ LogChanges(log') = LogChanges(log)
  BY DEF Quiet, Still, Known
<1>2. \A c : (Clear(c)' <=> Clear(c)) /\ (AtOrigin(c)' <=> AtOrigin(c)) /\ (Applied(c)' <=> Applied(c))
  BY DEF Quiet, Still, Clear, Touched, AtOrigin, Applied, AtDesired, Holds
<1>3. \A c : AtCommitValue(c)' <=> AtCommitValue(c)
  BY DEF Quiet, Still, AtCommitValue, AtDesired, AtBaseline, Holds
<1>4. \A c : IsHead(c)' <=> IsHead(c)
  BY <1>1 DEF Quiet, Still, IsHead, Head
<1>5. Heads' = Heads
  BY <1>1, <1>4 DEF Heads
<1> QED BY <1>1, <1>2, <1>3, <1>4, <1>5

LEMMA QuietFlag ==
  ASSUME FlagInv, Quiet,
         Appending("ChangeUpsert")' /\ call'.event.state = "DriftDetected" => ~Clear(call'.change)
  PROVE  FlagInv'
BY DEF FlagInv, Quiet, Still, Clear, Touched

LEMMA QuietHead ==
  ASSUME HeadInv, Quiet, Active' = Active, ~Creating'
  PROVE  HeadInv'
<1>1. Live' = Live /\ LogChanges(log') = LogChanges(log)
  BY QuietFacts DEF Live
<1>2. \A c : AtOrigin(c)' <=> AtOrigin(c)
  BY QuietFacts
<1>3. \A c, r : Explains(c, r)' <=> Explains(c, r)
  BY DEF Explains, Quiet, Still
<1> QED BY <1>1, <1>2, <1>3 DEF HeadInv, Quiet, Still, Touched

LEMMA QuietRolled ==
  ASSUME RolledInv, Quiet,
         Appending("ChangeUpsert")' /\ call'.event.state = "RolledBack" =>
           call'.op = "rollback_all" /\ AtOrigin(call'.change)
  PROVE  RolledInv'
<1>1. \A c : AtOrigin(c)' <=> AtOrigin(c)
  BY QuietFacts
<1>2. AtOrigin(call'.change) => AtOrigin(call.change)'
  BY DEF AtOrigin, Clear, Touched, Quiet, Still
<1> QED BY <1>1, <1>2 DEF RolledInv, Quiet, Still

LEMMA QuietVerified ==
  ASSUME VerifiedInv, Quiet,
         phase = "Experimenting" /\ Ahead' # "error" =>
           /\ Ahead # "error"
           /\ \A c \in Revised \ Revised' : changes[c] # "AppliedVerified"
           /\ Appending("ChangeUpsert")' /\ call'.event.state = "AppliedVerified" =>
                Applied(call'.change)
           /\ Revising' \/ Ahead' \in ApplyLocation =>
                /\ call'.change = call.change
                /\ Revising \/ (Ahead \in ApplyLocation /\ ~Creating)
           /\ call'.at = "reviseCheck" => changes[call'.change] = "AppliedVerified"
           /\ call'.at = "revisePrepare" => changes[call'.change] = "BaselineRestored"
           /\ call'.at = "append" /\ call'.then = "revisePrepare" =>
                call'.event.type = "ChangeUpsert" /\ call'.event.state = "BaselineRestored"
  PROVE  VerifiedInv'
<1> SUFFICES ASSUME phase = "Experimenting", Ahead' # "error" PROVE VerifiedInv'
  BY DEF VerifiedInv, Quiet, Still
<1>1. Heads' = Heads /\ changes' = changes /\ \A c : Applied(c)' <=> Applied(c)
  BY QuietFacts DEF Quiet, Still
<1>2. \A c \in Heads' \ Revised' : changes'[c] = "AppliedVerified" => Applied(c)'
  BY <1>1 DEF VerifiedInv
<1>3. Applied(call'.change) => Applied(call.change)'
  BY DEF Applied, Clear, Touched, AtDesired, Holds, Quiet, Still
<1>4. Revising' \/ Ahead' \in ApplyLocation => IsHead(call.change)'
  <2>1. ASSUME Revising' \/ Ahead' \in ApplyLocation PROVE IsHead(call.change)'
    <3>1. IsHead(call.change) /\ call'.change = call.change
      BY <2>1 DEF VerifiedInv
    <3>2. Known' = Known
      BY QuietFacts
    <3> QED BY <3>1, <3>2 DEF IsHead, Head, Quiet, Still
  <2> QED BY <2>1
<1> QED BY <1>1, <1>2, <1>3, <1>4 DEF VerifiedInv

LEMMA QuietReplay ==
  ASSUME ReplayInv, Quiet, call'.op = call.op,
         phase = "CommitPending" /\ Ahead' \notin {"error", "outcomeUnknown"} =>
           /\ Ahead \notin {"error", "outcomeUnknown"}
           /\ call'.todo \subseteq call.todo /\ Unplayed \subseteq Unplayed'
           /\ call.op = "restore_baseline" =>
                /\ \A c \in Known : c \in call.todo \cup InHand => c \in call'.todo \cup InHand' \/ AtOrigin(c)
                /\ Appending("ChangeUpsert")' => AtOrigin(call'.change)
                /\ Appending("OperationIntent")' => call'.then \in RestoreLocation
           /\ call.op \in {"restore_baseline", "replay"} /\ Ahead' = "ok" => call'.todo = {}
           /\ call.op \in {"replay", "finalize"} =>
                (Ahead' \in ChangeLocation \/ Appending("ChangeUpsert")' => call'.change \in candidate)
           /\ call.op = "replay" /\ Appending("ChangeUpsert")' => Applied(call'.change)
  PROVE  ReplayInv'
<1> SUFFICES ASSUME phase = "CommitPending", Ahead' \notin {"error", "outcomeUnknown"}
             PROVE  ReplayInv'
  BY DEF ReplayInv, Quiet, Still
<1>1. /\ Heads' = Heads /\ Known' = Known /\ candidate' = candidate
      /\ \A c : /\ AtOrigin(c)' <=> AtOrigin(c)
                /\ Clear(c)' <=> Clear(c)
                /\ AtCommitValue(c)' <=> AtCommitValue(c)
  BY QuietFacts DEF Quiet, Still
<1>2. /\ Applied(call'.change) => Applied(call.change)'
      /\ AtOrigin(call'.change) => AtOrigin(call.change)'
  BY DEF Applied, AtOrigin, Clear, Touched, AtDesired, Holds, Quiet, Still
<1>3. call.op = "restore_baseline" => \A c \in Known' \ (call'.todo \cup InHand') : AtOrigin(c)'
  BY <1>1 DEF ReplayInv
<1>4. call.op \in {"replay", "finalize_check", "finalize", "finalize_recheck"} =>
        \A c \in Heads' \ Unplayed' : Clear(c)' => AtCommitValue(c)'
  BY <1>1 DEF ReplayInv
<1>5. /\ call.op = "replay_check" => \A c \in Known' : AtOrigin(c)'
      /\ call.op \in {"replay", "finalize"} => call'.todo \subseteq candidate
      /\ call.op \in {"finalize_check", "finalize_recheck"} => call'.todo \subseteq Heads'
  BY <1>1 DEF ReplayInv
<1> QED BY <1>1, <1>2, <1>3, <1>4, <1>5 DEF ReplayInv

LEMMA QuietRestore ==
  ASSUME Quiet,
         call'.op \in {"restore_baseline", "rollback_all"} =>
           \A c \in InHand', d \in call'.todo : d < c,
         call'.at = "matchDesired" => Applied(call'.change),
         call'.at = "append" => call'.then \notin {"matchDesired", "reviseCheck"}
  PROVE  RestoreInv'
<1>1. Applied(call'.change) => Applied(call.change)'
  BY DEF Applied, Clear, Touched, AtDesired, Holds, Quiet, Still
<1> QED BY <1>1 DEF RestoreInv

---------------------------------------------------------------------------
(* The three ways in which an operation goes on.                           *)

Calm ==
  /\ TypeOK /\ TypeOK' /\ Structure /\ DriftInv /\ Quiet
  /\ call.at \notin {"ok", "error", "outcomeUnknown", "append"}

LEMMA CalmFacts ==
  ASSUME Calm
  PROVE  /\ call \in Call /\ Ahead = call.at /\ ~Creating /\ \A t : ~Appending(t)
         /\ Revising <=> call.op = "experiment" /\ call.at \in ReviseLocation
         /\ InHand = IF call.at \in RestoreLocation THEN {call.change} ELSE {}
         /\ call'.op = call.op => Active' = Active
<1>1. call \in Call
  BY DEF Calm, TypeOK, KernelTypeOK
<1>2. call.at # "append"
  BY DEF Calm
<1>3. Ahead = call.at /\ ~Creating /\ \A t : ~Appending(t)
  BY <1>2 DEF Ahead, Creating, Appending
<1>4. InHand = IF call.at \in RestoreLocation THEN {call.change} ELSE {}
  BY <1>2 DEF InHand
<1>5. call'.op = call.op => Active' = Active
  BY DEF Calm, Quiet, Still, Active, InEpisode
<1> QED BY <1>1, <1>3, <1>4, <1>5 DEF Revising

\* An operation goes to another location.
LEMMA MoveDrift ==
  ASSUME Calm, call'.at # "append", call'.op = call.op, call'.todo \subseteq call.todo,
         call.op \in {"restore_baseline", "rollback_all"} /\ call'.at \in RestoreLocation =>
           \A d \in call'.todo : d < call'.change,
         call'.at = "matchDesired" => Applied(call'.change),
         call'.at # "error" =>
           /\ call.op = "experiment" =>
                /\ call'.change = call.change /\ call'.at # "reviseCheck"
                /\ call'.at \in ReviseLocation <=> call.at \in ReviseLocation
                /\ call'.at \in ApplyLocation => call.at \in ApplyLocation
                /\ call'.at = "revisePrepare" => changes[call.change] = "BaselineRestored"
           /\ call.op = "restore_baseline" =>
                \A c \in Known : c \in call.todo \cup InHand => c \in call'.todo \cup InHand' \/ AtOrigin(c)
           /\ call.op \in {"restore_baseline", "replay"} /\ call'.at = "ok" => call'.todo = {}
           /\ call.op \in {"replay", "finalize"} /\ call'.at \in ChangeLocation =>
                call.at \in ChangeLocation /\ call'.change = call.change
           /\ call.op = "replay" =>
                /\ call'.todo = call.todo
                /\ call.at \in ApplyLocation => call'.at \in ApplyLocation
  PROVE  DriftInv'
<1> USE DEF Calm
<1>1. /\ Ahead = call.at /\ ~Creating /\ \A t : ~Appending(t) /\ Active' = Active
      /\ Revising <=> call.op = "experiment" /\ call.at \in ReviseLocation
  BY CalmFacts
<1>2. Ahead' = call'.at /\ ~Creating' /\ \A t : ~Appending(t)'
  BY DEF Ahead, Creating, Appending
<1>3. Revising' <=> call.op = "experiment" /\ call'.at \in ReviseLocation
  BY <1>2 DEF Revising
<1>4. InHand' = IF call'.at \in RestoreLocation THEN {call'.change} ELSE {}
  BY DEF InHand
<1>5. FlagInv' /\ HeadInv' /\ RolledInv'
  <2>1. FlagInv' BY <1>2, QuietFlag DEF DriftInv
  <2>2. HeadInv' BY <1>1, <1>2, QuietHead DEF DriftInv
  <2>3. RolledInv' BY <1>2, QuietRolled DEF DriftInv
  <2> QED BY <2>1, <2>2, <2>3
<1>6. VerifiedInv'
  <2> SUFFICES ASSUME phase = "Experimenting", Ahead' # "error" PROVE VerifiedInv'
    BY DEF VerifiedInv, Quiet, Still
  <2>1. call.at # "error" /\ call'.at # "error"
    BY <1>2
  <2>2. call.op = "experiment"
    <3>1. call.op \in {"begin", "experiment"} /\ Ahead \in Visits(call.op)
      BY DEF Structure, ControlInv
    <3>2. call.op # "begin"
      BY <1>1, <3>1 DEF Visits
    <3> QED BY <3>1, <3>2
  <2>3. \A c \in Revised \ Revised' : FALSE
    BY <1>1, <1>2, <1>3, <2>1, <2>2 DEF Revised
  <2>4. "revisePrepare" \in ReviseLocation
    BY DEF ReviseLocation
  <2> QED BY <1>1, <1>2, <1>3, <2>1, <2>2, <2>3, <2>4, QuietVerified DEF DriftInv
<1>7. ReplayInv'
  <2>1. Unplayed = IF call.op # "replay" THEN {}
                   ELSE IF call.at \in ApplyLocation THEN call.todo \cup {call.change} ELSE call.todo
    BY <1>1 DEF Unplayed
  <2>2. Unplayed' = IF call.op # "replay" THEN {}
                    ELSE IF call'.at \in ApplyLocation THEN call'.todo \cup {call'.change} ELSE call'.todo
    BY <1>2 DEF Unplayed
  <2>3. ApplyLocation \subseteq ChangeLocation
    BY DEF ChangeLocation
  <2>4. call'.at # "error" => Unplayed \subseteq Unplayed'
    BY <2>1, <2>2, <2>3
  <2> SUFFICES ASSUME phase = "CommitPending", call'.at # "error" PROVE ReplayInv'
    BY <1>2 DEF ReplayInv, Quiet, Still
  <2>5. call.at \notin {"error", "outcomeUnknown"}
    OBVIOUS
  <2>6. call.op \in {"replay", "finalize"} /\ call'.at \in ChangeLocation => call'.change \in candidate
    BY <1>1, <2>5 DEF DriftInv, ReplayInv
  <2> QED BY <1>1, <1>2, <2>4, <2>5, <2>6, QuietReplay DEF DriftInv
<1>8. RestoreInv'
  BY <1>4, QuietRestore
<1> QED BY <1>5, <1>6, <1>7, <1>8 DEF DriftInv

\* An operation records a state of its change, and goes on at l.
LEMMA PersistDrift ==
  ASSUME Calm, NEW k \in Call, k.op = call.op, k.todo \subseteq call.todo, k.change \in Known,
         NEW st, NEW op, NEW l, NEW eff, Persist(k, st, op, l, eff),
         st = "DriftDetected" => ~Clear(k.change),
         st = "RolledBack" => call.op = "rollback_all" /\ AtOrigin(k.change),
         l \notin {"matchDesired", "reviseCheck"}, l = "ok" => call.op = "experiment",
         call.op \in {"restore_baseline", "rollback_all"} => k = call /\ call.at \in RestoreLocation,
         l # "error" =>
           /\ k = call
           /\ call.op = "experiment" =>
                /\ l \in ReviseLocation <=> call.at \in ReviseLocation
                /\ l \notin ApplyLocation
                /\ l = "revisePrepare" => st = "BaselineRestored"
                /\ l # "reviseCheck"
                /\ st = "AppliedVerified" => Applied(call.change)
           /\ call.op = "restore_baseline" => AtOrigin(call.change)
           /\ call.op = "replay" => Applied(call.change)
           /\ call.op \in {"replay", "finalize"} => call.at \in ChangeLocation
  PROVE  DriftInv'
<1> USE DEF Calm
<1>1. /\ Ahead = call.at /\ ~Creating /\ \A t : ~Appending(t) /\ call \in Call
      /\ Revising <=> call.op = "experiment" /\ call.at \in ReviseLocation
      /\ InHand = IF call.at \in RestoreLocation THEN {call.change} ELSE {}
  BY CalmFacts
<1>2. /\ call'.at = "append" /\ call'.then = l
      /\ call'.event.type = "ChangeUpsert" /\ call'.event.change = k.change
      /\ call'.event.state = st
      /\ call'.op = call.op /\ call'.change = k.change /\ call'.todo = k.todo
  <2> HIDE DEF Calm
  <2>1. /\ call'.at = "append" /\ call'.then = l /\ call'.afterEffect = eff
        /\ call'.event.type = "ChangeUpsert" /\ call'.event.change = k.change
        /\ call'.event.state = st /\ call'.opid = op /\ call'.event.op = op
        /\ call'.op = k.op /\ call'.change = k.change /\ call'.todo = k.todo
        /\ call'.revision = k.revision
    BY PersistShape
  <2> QED BY <2>1
<1>3. Ahead' = l /\ Appending("ChangeUpsert")' /\ ~Appending("OperationIntent")'
  BY <1>2 DEF Ahead, Appending
<1>4. ~Creating' /\ Active' = Active
  <2>1. Known' = Known BY QuietFacts
  <2>2. Active' = Active BY <1>2, CalmFacts
  <2> QED BY <1>2, <2>1, <2>2 DEF Creating
<1>5. Revising' <=> call.op = "experiment" /\ l \in ReviseLocation
  BY <1>2, <1>3 DEF Revising
<1>6. InHand' = {k.change}
  BY <1>2 DEF InHand
<1>7. FlagInv' /\ HeadInv' /\ RolledInv'
  <2>1. FlagInv' BY <1>2, QuietFlag DEF DriftInv
  <2>2. HeadInv' BY <1>4, QuietHead DEF DriftInv
  <2>3. RolledInv' BY <1>2, QuietRolled DEF DriftInv
  <2> QED BY <2>1, <2>2, <2>3
<1>8. VerifiedInv'
  <2> SUFFICES ASSUME phase = "Experimenting", Ahead' # "error" PROVE VerifiedInv'
    BY DEF VerifiedInv, Quiet, Still
  <2>1. call.at # "error" /\ l # "error"
    BY <1>3
  <2>2. call.op = "experiment"
    <3>1. call.op \in {"begin", "experiment"} /\ Ahead \in Visits(call.op)
      BY DEF Structure, ControlInv
    <3>2. call.op # "begin"
      BY <1>1, <3>1 DEF Visits
    <3> QED BY <3>1, <3>2
  <2>3. \A c \in Revised \ Revised' : FALSE
    BY <1>1, <1>2, <1>3, <1>5, <2>1, <2>2 DEF Revised
  <2>4. "reviseCheck" # "append" /\ "revisePrepare" # "append"
    OBVIOUS
  <2> QED BY <1>1, <1>2, <1>3, <1>5, <2>1, <2>2, <2>3, <2>4, QuietVerified DEF DriftInv
<1>9. ReplayInv'
  <2> SUFFICES ASSUME phase = "CommitPending", l # "error" PROVE ReplayInv'
    BY <1>3 DEF ReplayInv, Quiet, Still
  <2>1. k = call /\ call.at \notin {"error", "outcomeUnknown"}
    OBVIOUS
  <2>2. Unplayed' = IF call.op # "replay" THEN {} ELSE call.todo \cup {call.change}
    BY <1>2, <1>3, <2>1 DEF Unplayed
  <2>3. Unplayed \subseteq Unplayed'
    BY <1>1, <2>2 DEF Unplayed
  <2>4. call.op \in {"replay", "finalize"} => call'.change \in candidate
    BY <1>1, <1>2, <2>1 DEF DriftInv, ReplayInv
  <2>5. call.op # "experiment"
    BY DEF Structure, ControlInv
  <2>6. call.op = "restore_baseline" => InHand' = {call.change} /\ call.at \in RestoreLocation
    BY <1>6, <2>1
  <2>7. call.op = "restore_baseline" =>
          \A c \in Known : c \in call.todo \cup InHand => c \in call'.todo \cup InHand'
    BY <1>1, <1>2, <2>1, <2>6
  <2> QED BY <1>1, <1>2, <1>3, <2>1, <2>3, <2>4, <2>5, <2>7, QuietReplay DEF DriftInv
<1>10. RestoreInv'
  <2>1. call.op \in {"restore_baseline", "rollback_all"} =>
          \A c \in InHand', d \in call'.todo : d < c
    <3>1. call.op \in {"restore_baseline", "rollback_all"} => InHand' = InHand /\ call'.todo = call.todo
      BY <1>1, <1>2, <1>6
    <3> QED BY <3>1 DEF DriftInv, RestoreInv
  <2> QED BY <1>2, <2>1, QuietRestore
<1> QED BY <1>7, <1>8, <1>9, <1>10 DEF DriftInv

\* An operation announces what it is about to ask of a driver.
LEMMA AnnounceDrift ==
  ASSUME Calm, NEW k \in Call, k.op = call.op, k.todo \subseteq call.todo, k.change \in Known,
         NEW label, NEW kind, NEW l \in {"restore", "apply", "finalize"},
         AnnounceThen(k, label, kind, l),
         call.op \in {"experiment", "restore_baseline", "rollback_all"} =>
           k = call /\ call.at \in RestoreLocation /\ l = "restore",
         call.op = "replay" =>
           /\ l = "apply" /\ call.at = "loop"
           /\ k.change \in call.todo /\ call.todo \subseteq k.todo \cup {k.change},
         call.op = "finalize" => k.change \in call.todo
  PROVE  DriftInv'
<1> USE DEF Calm
<1>1. /\ Ahead = call.at /\ ~Creating /\ \A t : ~Appending(t) /\ call \in Call
      /\ Revising <=> call.op = "experiment" /\ call.at \in ReviseLocation
      /\ InHand = IF call.at \in RestoreLocation THEN {call.change} ELSE {}
  BY CalmFacts
<1>2. /\ call'.at = "append" /\ call'.then = l
      /\ call'.event.type = "OperationIntent"
      /\ call'.op = call.op /\ call'.change = k.change /\ call'.todo = k.todo
  <2> HIDE DEF Calm
  <2>1. PICK ev, id, eff : /\ ev = OperationIntent(k.change, id, kind)
                           /\ AppendThen(k, ev, id, l, eff)
    BY DEF AnnounceThen
  <2>2. ev.type = "OperationIntent"
    BY <2>1 DEF OperationIntent
  <2>3. /\ call'.at = "append" /\ call'.event = ev /\ call'.then = l
        /\ call'.afterEffect = eff /\ call'.opid = id
        /\ call'.op = k.op /\ call'.change = k.change /\ call'.todo = k.todo
        /\ call'.revision = k.revision
    BY <2>1, AppendShape, SMT
  <2> QED BY <2>2, <2>3
<1>3. Ahead' = l /\ ~Appending("ChangeUpsert")' /\ ~Creating'
  BY <1>2 DEF Ahead, Appending, Creating
<1>4. Active' = Active
  BY <1>2, CalmFacts
<1>5. Revising' <=> call.op = "experiment" /\ l \in ReviseLocation
  BY <1>2, <1>3 DEF Revising
<1>6. InHand' = {k.change}
  BY <1>2 DEF InHand
<1>7. FlagInv' /\ HeadInv' /\ RolledInv'
  <2>1. FlagInv' BY <1>3, QuietFlag DEF DriftInv
  <2>2. HeadInv' BY <1>3, <1>4, QuietHead DEF DriftInv
  <2>3. RolledInv' BY <1>3, QuietRolled DEF DriftInv
  <2> QED BY <2>1, <2>2, <2>3
<1>8. VerifiedInv'
  <2> SUFFICES ASSUME phase = "Experimenting" PROVE VerifiedInv'
    BY DEF VerifiedInv, Quiet, Still
  <2>2. call.op = "experiment"
    <3>1. call.op \in {"begin", "experiment"} /\ Ahead \in Visits(call.op)
      BY DEF Structure, ControlInv
    <3>2. call.op # "begin"
      BY <1>1, <3>1 DEF Visits
    <3> QED BY <3>1, <3>2
  <2>3. k = call /\ call.at \in RestoreLocation /\ l = "restore"
    BY <2>2
  <2>4. /\ call.at \in ReviseLocation /\ call.at \notin {"error", "reviseCheck"}
        /\ l \in ReviseLocation /\ l \notin ApplyLocation /\ l \notin {"error", "reviseCheck", "revisePrepare"}
    BY <2>3 DEF ReviseLocation, RestoreLocation, ApplyLocation
  <2>5. \A c \in Revised \ Revised' : FALSE
    BY <1>1, <1>2, <1>3, <1>5, <2>2, <2>3, <2>4 DEF Revised
  <2> QED BY <1>1, <1>2, <1>3, <1>5, <2>2, <2>3, <2>4, <2>5, QuietVerified DEF DriftInv
<1>9. ReplayInv'
  <2> SUFFICES ASSUME phase = "CommitPending" PROVE ReplayInv'
    BY DEF ReplayInv, Quiet, Still
  <2>1. call.at \notin {"error", "outcomeUnknown"} /\ l # "ok"
    OBVIOUS
  <2>2. Unplayed \subseteq Unplayed'
    <3>1. Unplayed' = IF call.op # "replay" THEN {}
                      ELSE IF l \in ApplyLocation THEN k.todo \cup {k.change} ELSE k.todo
      BY <1>2, <1>3 DEF Unplayed
    <3>2. call.op # "replay" => Unplayed = {}
      BY DEF Unplayed
    <3>3. call.op = "replay" => Unplayed = call.todo
      <4>1. call.op = "replay" => call.at \notin ApplyLocation
        BY DEF ApplyLocation
      <4> QED BY <1>1, <4>1 DEF Unplayed
    <3>4. call.op = "replay" => l \in ApplyLocation
      BY DEF ApplyLocation
    <3> QED BY <3>1, <3>2, <3>3, <3>4
  <2>3. call.op \in {"replay", "finalize"} => call'.change \in candidate
    BY <1>1, <1>2, <2>1 DEF DriftInv, ReplayInv
  <2>4. call.op = "restore_baseline" => l \in RestoreLocation /\ InHand' = InHand /\ call'.todo = call.todo
    BY <1>1, <1>2, <1>6 DEF RestoreLocation
  <2> QED BY <1>1, <1>2, <1>3, <2>1, <2>2, <2>3, <2>4, QuietReplay DEF DriftInv
<1>10. RestoreInv'
  <2>1. call.op \in {"restore_baseline", "rollback_all"} => InHand' = InHand /\ call'.todo = call.todo
    BY <1>1, <1>2, <1>6
  <2>2. call.op \in {"restore_baseline", "rollback_all"} =>
          \A c \in InHand', d \in call'.todo : d < c
    BY <2>1 DEF DriftInv, RestoreInv
  <2>3. l \notin {"matchDesired", "reviseCheck"}
    OBVIOUS
  <2> QED BY <1>2, <2>2, <2>3, QuietRestore
<1> QED BY <1>7, <1>8, <1>9, <1>10 DEF DriftInv

---------------------------------------------------------------------------
(* The steps that read the tuned system.                                   *)

Under ==
  /\ TypeOK /\ TypeOK' /\ Structure /\ RollbackInv /\ SealInv /\ CommitInv /\ DriftInv
  /\ UNCHANGED <<phase, retry>>
  /\ call.at \notin {"ok", "error", "outcomeUnknown", "append"}

LEMMA UnderCalm ==
  ASSUME Under, OnlyControl \/ OnlyOperationId
  PROVE  Calm
BY StillFrames DEF Under, Calm, Quiet, OnlyControl, OnlyOperationId, environment

LEMMA ErrorDrift ==
  ASSUME Under, Goto("error")
  PROVE  DriftInv'
<1>1. Calm /\ call \in Call
  BY UnderCalm DEF Goto, Under, TypeOK, KernelTypeOK
<1>2. /\ call'.at = "error" /\ call'.op = call.op /\ call'.todo = call.todo
      /\ call'.change = call.change
  BY <1>1, MoveShape DEF Goto
<1>3. "error" \notin RestoreLocation
  BY DEF RestoreLocation
<1> QED BY <1>1, <1>2, <1>3, MoveDrift

LEMMA FlagDrift ==
  ASSUME Under, NEW k \in Call, k.op = call.op, k.change \in Known, k.todo \subseteq call.todo,
         MarkDrift(k), ~Clear(k.change),
         call.op \in {"restore_baseline", "rollback_all"} => k = call /\ call.at \in RestoreLocation
  PROVE  DriftInv'
<1>1. Calm
  BY UnderCalm DEF MarkDrift, UpdateChange
<1>2. PICK op, st, l, eff : /\ Persist(k, st, op, l, eff)
                            /\ st = "DriftDetected" /\ l = "error"
  BY DEF MarkDrift, UpdateChange
<1>3. st # "RolledBack" /\ l \notin {"matchDesired", "reviseCheck"} /\ l # "ok"
  BY <1>2
<1> QED BY <1>1, <1>2, <1>3, PersistDrift

LEMMA EnsureDrift ==
  ASSUME Under, NEW k \in Call, k.op = call.op, k.change \in Known, k.todo \subseteq call.todo,
         NEW matched, NEW l, EnsureExpected(k, matched, l),
         Clear(k.change) => matched,
         call.op \notin {"restore_baseline", "rollback_all"},
         matched /\ OnlyControl /\ call' = [k EXCEPT !.at = l] => DriftInv'
  PROVE  DriftInv'
<1>1. CASE matched /\ NoFault /\ OnlyControl /\ call' = [k EXCEPT !.at = l]
  BY <1>1
<1>2. CASE ~matched /\ MarkDrift(k)
  BY <1>2, FlagDrift
<1>3. CASE ReadbackFails
  BY <1>3, ErrorDrift DEF ReadbackFails
<1> QED BY <1>1, <1>2, <1>3 DEF EnsureExpected

\* What a readback of a logged change says of the original value.
LEMMA BaselineMeansOrigin ==
  ASSUME TypeOK, Structure, NEW c \in LogChanges(log)
  PROVE  /\ AtBaseline(c) => AtOrigin(c)
         /\ AtOrigin(c) /\ Clear(c) => AtBaseline(c)
<1>1. c \in Change
  BY DEF LogChanges
<1>2. Clear(c) => prepared[c].baseline = origin[prepared[c].resource]
  BY <1>1 DEF Structure, BaselineInv, Clear, Touched, Undrifted
<1> QED BY <1>2 DEF AtBaseline, Holds, AtOrigin

LEMMA KnownIsLogged ==
  ASSUME Structure
  PROVE  Known \subseteq LogChanges(log) /\ Known \subseteq Change
BY DEF Structure, MemoryInv, Known

LEMMA OneHead ==
  ASSUME NEW p, NEW s \in SUBSET Change, NEW r, NEW c \in ResourceHead(p, s, r),
         NEW d \in ResourceHead(p, s, r)
  PROVE  c = d
<1>1. c \in Change /\ d \in Change /\ c <= d /\ d <= c
  BY DEF ResourceHead
<1> QED BY <1>1, SMT DEF Change

\* A step that runs has its changes in memory.
LEMMA RunningLive ==
  ASSUME TypeOK, Structure, call.at \notin {"ok", "error", "outcomeUnknown"}
  PROVE  Active /\ Live = Known
<1>1. ControlInv BY DEF Structure
<1>2. /\ phase \notin {"RecoveryRequired", "Committed", "Clean", "Down", "Ready", "Blocked"}
      /\ phase \in {"EarlyPass", "Gate"} => call.op = "rollback_all"
  BY <1>1, Running
<1>3. phase \in EpisodePhase \cup StartupStage
  BY DEF TypeOK
<1>4. Active
  BY <1>2, <1>3 DEF Active, InEpisode, EpisodePhase, StartupStage
<1> QED BY <1>4 DEF Live

\* restore_one finds an undrifted change at its baseline or at its desired value: a
\* later change of the resource has been taken back before.
LEMMA RestoreFinds ==
  ASSUME Under, call.at = "restoreOne", Clear(call.change), ~AtBaseline(call.change)
  PROVE  AtDesired(call.change)
<1> DEFINE c == call.change
<1> DEFINE r == prepared[c].resource
<1> USE DEF Under
<1>1. /\ call.at \in RestoreLocation /\ call.op \in {"experiment", "restore_baseline", "rollback_all"}
      /\ call \in Call /\ c \in Known
      /\ call.op = "experiment" => Revising
  <2>1. call.at \in RestoreLocation
    BY DEF RestoreLocation
  <2> QED BY <2>1, AtRestore DEF Within
<1>2. c \in LogChanges(log) /\ Known \subseteq Change /\ c \in Change
  BY <1>1, KnownIsLogged
<1>3. world[r] # origin[r]
  BY <1>2, BaselineMeansOrigin DEF AtOrigin
<1>4. r \in Resource \ Touched
  <2>1. prepared[c] \in PreparedMutation
    BY <1>2 DEF TypeOK, KernelTypeOK
  <2> QED BY <2>1 DEF PreparedMutation, Clear, Touched
<1>5. PICK d \in ResourceHead(prepared, Known, r) : Explains(d, r)
  BY <1>3, <1>4, RunningLive DEF DriftInv, HeadInv
<1>6. /\ d \in Known /\ d \in Change /\ prepared[d].resource = r /\ c <= d
      /\ Clear(d) /\ ~AtOrigin(d)
  <2>1. d \in Known /\ prepared[d].resource = r /\ c <= d
    BY <1>1, <1>5 DEF ResourceHead
  <2> QED BY <1>2, <1>3, <1>4, <2>1 DEF Clear, Touched, AtOrigin
<1>7. InHand = {c} /\ Ahead = call.at /\ Ahead \notin {"error", "outcomeUnknown"}
  BY <1>1 DEF InHand, Ahead
<1>8. d = c
  <2>1. CASE call.op = "experiment"
    <3>1. phase = "Experimenting"
      BY <2>1, ExperimentPhase DEF Structure
    <3>2. IsHead(c)
      BY <1>1, <1>7, <2>1, <3>1 DEF DriftInv, VerifiedInv
    <3> QED BY <1>2, <1>5, <3>2, OneHead DEF IsHead, Head
  <2>2. CASE call.op \in {"restore_baseline", "rollback_all"}
    <3>1. d \in call.todo \cup {c}
      <4>1. CASE call.op = "rollback_all"
        <5>1. log.seal # "Committed"
          BY <4>1, RunningLive DEF SealInv
        <5>2. changes[d] = "RolledBack" => AtOrigin(d)
          BY <1>6, <5>1 DEF DriftInv, RolledInv
        <5> QED BY <1>6, <1>7, <4>1, <5>2 DEF RollbackInv
      <4>2. CASE call.op = "restore_baseline"
        <5>1. call.op \notin {"begin", "experiment", "rollback_all"} BY <4>2
        <5>2. phase = "CommitPending"
          BY <5>1, PendingPhase DEF Structure
        <5> QED BY <1>6, <1>7, <4>2, <5>2 DEF DriftInv, ReplayInv
      <4> QED BY <2>2, <4>1, <4>2
    <3>2. d \in call.todo => d < c
      BY <1>7, <2>2 DEF DriftInv, RestoreInv
    <3>3. ~(d < c)
      BY <1>2, <1>6, SMT DEF Change
    <3> QED BY <3>1, <3>2, <3>3
  <2> QED BY <1>1, <2>1, <2>2
<1> QED BY <1>4, <1>5, <1>8 DEF Explains, AtDesired, Holds, Touched

LEMMA Locations ==
  /\ ApplyLocation \cap ReviseLocation = {} /\ RestoreLocation \subseteq ReviseLocation
  /\ ApplyLocation \subseteq ChangeLocation /\ ReviseLocation \subseteq ChangeLocation
  /\ \A l \in ApplyLocation \cup RestoreLocation :
       l \notin {"ok", "error", "outcomeUnknown", "append", "reviseCheck", "revisePrepare", "loop"}
  /\ "matchDesired" \notin ApplyLocation
BY DEF ApplyLocation, ReviseLocation, RestoreLocation, ChangeLocation

\* apply_and_verify and restore_one go on with their change.
LEMMA StayDrift ==
  ASSUME Calm, NEW l, call' = [call EXCEPT !.at = l],
         \/ call.at \in ApplyLocation /\ l \in ApplyLocation
         \/ call.at \in RestoreLocation /\ l \in RestoreLocation,
         l = "matchDesired" => Applied(call.change)
  PROVE  DriftInv'
<1>1. /\ call \in Call /\ InHand = IF call.at \in RestoreLocation THEN {call.change} ELSE {}
      /\ TypeOK /\ Structure /\ DriftInv
  BY CalmFacts DEF Calm
<1>2. /\ call'.at = l /\ call'.op = call.op /\ call'.todo = call.todo
      /\ call'.change = call.change
  BY <1>1, MoveShape
<1>3. /\ call.at \in ReviseLocation <=> l \in ReviseLocation
      /\ call.at \in RestoreLocation <=> l \in RestoreLocation
      /\ call.at \in ApplyLocation <=> l \in ApplyLocation
      /\ l \notin {"ok", "error", "outcomeUnknown", "append", "reviseCheck", "revisePrepare", "loop"}
      /\ call.at \in ChangeLocation
  BY Locations
<1>4. InHand' = InHand
  <2>1. InHand' = IF l \in RestoreLocation THEN {call.change} ELSE {}
    BY <1>2, <1>3 DEF InHand
  <2> QED BY <1>1, <1>3, <2>1
<1>5. call.op \in {"restore_baseline", "rollback_all"} /\ l \in RestoreLocation =>
        \A d \in call.todo : d < call.change
  BY <1>1, <1>3 DEF DriftInv, RestoreInv
<1>6. call'.at # "append" /\ call'.at # "ok" /\ call'.at # "revisePrepare" /\ call'.at # "reviseCheck"
  BY <1>2, <1>3
<1> QED BY <1>2, <1>3, <1>4, <1>5, <1>6, MoveDrift

\* A driver's answer is inconclusive.
LEMMA OpenDrift ==
  ASSUME Calm, call.at \in ApplyLocation \cup RestoreLocation, NEW st, NEW op, NEW l, NEW eff,
         Persist(call, st, op, l, eff), l = "error", st \notin {"DriftDetected", "RolledBack"}
  PROVE  DriftInv'
<1>1. call \in Call /\ call.change \in Known
  <2>1. Within(call)
    BY AtApply, AtRestore DEF Calm
  <2> QED BY <2>1, CalmFacts DEF Within
<1>2. call.op \in {"restore_baseline", "rollback_all"} => call.at \in RestoreLocation
  <2>1. call.at \in ApplyLocation => call.op \in {"experiment", "replay"}
    BY AtApply DEF Calm
  <2> QED BY <2>1
<1>3. l \notin {"matchDesired", "reviseCheck"} /\ l # "ok"
  OBVIOUS
<1> QED BY <1>1, <1>2, <1>3, PersistDrift

LEMMA ApplyStillDrift ==
  ASSUME Under, ApplyStatus \/ ApplyVerify
  PROVE  DriftInv'
<1>1. call.at \in ApplyLocation
  BY DEF ApplyStatus, ApplyVerify, ApplyLocation
<1>2. /\ call \in Call /\ call.change \in Known /\ call.op \in {"experiment", "replay"}
  BY <1>1, AtApply DEF Under, Within
<1>3. ASSUME Goto("applyVerify") PROVE DriftInv'
  <2>1. Calm BY <1>3, UnderCalm DEF Goto
  <2>2. "applyVerify" \in ApplyLocation /\ "applyVerify" # "matchDesired" BY DEF ApplyLocation
  <2> QED BY <1>1, <1>3, <2>1, <2>2, StayDrift DEF Goto
<1>4. ASSUME NEW st, st \notin {"DriftDetected", "RolledBack"}, RecordOutcome(st, "error", FALSE)
      PROVE  DriftInv'
  <2>1. Calm BY <1>4, UnderCalm DEF RecordOutcome
  <2>2. PICK l, eff : Persist(call, st, call.opid, l, eff) /\ l = "error"
    BY <1>4 DEF RecordOutcome
  <2> QED BY <1>1, <1>4, <2>1, <2>2, OpenDrift
<1>5. ASSUME AtDesired(call.change), RecordOutcome(SuccessState, AfterApply, TRUE) PROVE DriftInv'
  <2>1. Calm BY <1>5, UnderCalm DEF RecordOutcome
  <2>2. PICK eff, st, l : /\ Persist(call, st, call.opid, l, eff)
                          /\ st = SuccessState /\ l = AfterApply
    BY <1>5 DEF RecordOutcome
  <2>3. st \in {"AppliedVerified", "CandidateApplied"} /\ l = IF call.op = "experiment" THEN "ok" ELSE "loop"
    BY <2>2 DEF SuccessState, AfterApply
  <2>4. /\ st \notin {"DriftDetected", "RolledBack"} /\ l \in {"ok", "loop"}
        /\ l = "ok" => call.op = "experiment"
    BY <2>3
  <2>5. /\ l \notin ReviseLocation /\ l \notin ApplyLocation /\ l \notin {"matchDesired", "reviseCheck"} /\ l \notin {"error", "revisePrepare", "reviseCheck"}
        /\ call.at \notin ReviseLocation /\ call.at \in ChangeLocation
        /\ call.op \notin {"restore_baseline", "rollback_all"}
    BY <1>1, <1>2, <2>4 DEF ReviseLocation, RestoreLocation, ApplyLocation, ChangeLocation
  <2>6. Applied(call.change)
    BY <1>5 DEF Applied
  <2> QED BY <1>2, <2>1, <2>2, <2>4, <2>5, <2>6, PersistDrift
<1>6. \A st \in {"FailedNotApplied", "AppliedUnknown"} : st \notin {"DriftDetected", "RolledBack"}
  OBVIOUS
<1>7. CASE ApplyStatus
  BY <1>3, <1>4, <1>6, <1>7 DEF ApplyStatus
<1>8. CASE ApplyVerify
  BY <1>4, <1>5, <1>6, <1>8 DEF ApplyVerify
<1> QED BY <1>7, <1>8

\* restore_one is done with its change, and records it unless the record says so.
LEMMA RestoredDrift ==
  ASSUME Under, call.at \in RestoreLocation, AtBaseline(call.change),
         \/ /\ OnlyControl /\ call' = [call EXCEPT !.at = AfterRestore]
            /\ changes[call.change] = RestoredState
         \/ \E op, eff : /\ OnlyControl \/ OnlyOperationId
                         /\ Persist(call, RestoredState, op, AfterRestore, eff)
  PROVE  DriftInv'
<1>1. /\ call \in Call /\ call.change \in Known
      /\ call.op \in {"experiment", "restore_baseline", "rollback_all"}
  BY AtRestore DEF Under, Within
<1>2. Calm
  BY UnderCalm
<1>3. AtOrigin(call.change)
  BY <1>1, KnownIsLogged, BaselineMeansOrigin DEF Under
<1>4. /\ call.op = "experiment" => RestoredState = "BaselineRestored" /\ AfterRestore = "revisePrepare"
      /\ call.op # "experiment" => AfterRestore = "loop"
      /\ RestoredState = IF call.op = "rollback_all" THEN "RolledBack" ELSE "BaselineRestored"
  BY DEF RestoredState, AfterRestore
<1>5. /\ call.at \in ReviseLocation /\ AfterRestore \notin {"error", "ok", "matchDesired", "reviseCheck", "append"}
      /\ AfterRestore \notin ApplyLocation /\ AfterRestore \notin RestoreLocation
      /\ call.op = "experiment" => AfterRestore \in ReviseLocation
  BY <1>1, <1>4 DEF ReviseLocation, RestoreLocation, ApplyLocation
<1>6. CASE /\ call' = [call EXCEPT !.at = AfterRestore]
           /\ changes[call.change] = RestoredState
  <2>1. /\ call'.at = AfterRestore /\ call'.op = call.op /\ call'.todo = call.todo
        /\ call'.change = call.change
    BY <1>1, <1>6, MoveShape
  <2>2. InHand = {call.change}
    BY <1>2, CalmFacts
  <2>3. \A c \in Known : c \in call.todo \cup InHand => c \in call'.todo \cup InHand' \/ AtOrigin(c)
    BY <1>3, <2>1, <2>2
  <2>4. call.op # "replay" /\ call.op # "finalize" /\ call'.at # "append" /\ call'.at # "ok"
    BY <1>1, <1>5, <2>1
  <2> QED BY <1>2, <1>4, <1>5, <1>6, <2>1, <2>3, <2>4, MoveDrift
<1>7. ASSUME NEW op, NEW eff, Persist(call, RestoredState, op, AfterRestore, eff)
      PROVE  DriftInv'
  <2>1. PICK st, l : Persist(call, st, op, l, eff) /\ st = RestoredState /\ l = AfterRestore
    BY <1>7
  <2>2. /\ st \notin {"DriftDetected", "AppliedVerified"}
        /\ st = "RolledBack" => call.op = "rollback_all"
        /\ l # "ok" /\ l \notin {"matchDesired", "reviseCheck"} /\ l # "error"
        /\ call.op \notin {"replay", "finalize"}
        /\ call.op = "experiment" => st = "BaselineRestored" /\ l = "revisePrepare"
    BY <1>1, <1>4, <1>5, <2>1
  <2>3. call.op = "experiment" => l \in ReviseLocation /\ l \notin ApplyLocation /\ l # "reviseCheck"
    BY <1>5, <2>1
  <2> QED BY <1>1, <1>2, <1>3, <1>5, <2>1, <2>2, <2>3, PersistDrift
<1> QED BY <1>6, <1>7

LEMMA RestoreStillDrift ==
  ASSUME Under, RestoreOne \/ MatchDesired \/ RestoreStatus \/ RestoreVerify
  PROVE  DriftInv'
<1>1. call.at \in RestoreLocation
  BY DEF RestoreOne, MatchDesired, RestoreStatus, RestoreVerify, RestoreLocation
<1>2. /\ call \in Call /\ call.change \in Known
      /\ call.op \in {"experiment", "restore_baseline", "rollback_all"}
  BY <1>1, AtRestore DEF Under, Within
<1>3. ReadbackFails => DriftInv'
  BY ErrorDrift DEF ReadbackFails
<1>4. ASSUME MarkDrift(call), ~Clear(call.change) PROVE DriftInv'
  BY <1>1, <1>2, <1>4, FlagDrift
<1>5. ASSUME RecordOutcome("AppliedUnknown", "error", FALSE) PROVE DriftInv'
  <2>1. Calm BY <1>5, UnderCalm DEF RecordOutcome
  <2>2. PICK st, l, eff : /\ Persist(call, st, call.opid, l, eff)
                          /\ l = "error" /\ st = "AppliedUnknown"
    BY <1>5 DEF RecordOutcome
  <2>3. st \notin {"DriftDetected", "RolledBack"}
    BY <2>2
  <2> QED BY <1>1, <2>1, <2>2, <2>3, OpenDrift
<1>6. ASSUME AtBaseline(call.change), RecordOutcome(RestoredState, AfterRestore, TRUE) PROVE DriftInv'
  <2>1. \E op, eff : Persist(call, RestoredState, op, AfterRestore, eff)
    BY <1>6 DEF RecordOutcome
  <2>2. OnlyControl
    BY <1>6 DEF RecordOutcome
  <2> QED BY <1>1, <1>6, <2>1, <2>2, RestoredDrift
<1>7. ASSUME NEW l \in RestoreLocation, Goto(l), l = "matchDesired" => Applied(call.change)
      PROVE  DriftInv'
  <2>1. Calm BY <1>7, UnderCalm DEF Goto
  <2> QED BY <1>1, <1>7, <2>1, StayDrift DEF Goto
<1>8. CASE RestoreOne
  <2>1. call.at = "restoreOne" BY <1>8 DEF RestoreOne
  <2>2. CASE /\ AtBaseline(call.change) /\ changes[call.change] = RestoredState
             /\ Goto(AfterRestore)
    BY <1>1, <2>2, RestoredDrift DEF Goto
  <2>3. CASE /\ AtBaseline(call.change)
             /\ UpdateChange(call, "baseline-observed", RestoredState, AfterRestore)
    <3>1. \E op, eff : Persist(call, RestoredState, op, AfterRestore, eff)
      BY <2>3 DEF UpdateChange
    <3>2. OnlyOperationId
      BY <2>3 DEF UpdateChange
    <3> QED BY <1>1, <2>3, <3>1, <3>2, RestoredDrift
  <2>4. CASE ~AtBaseline(call.change) /\ AlreadyRolledBack /\ MarkDrift(call)
    <3>1. changes[call.change] = "RolledBack" /\ call.op = "rollback_all"
      BY <2>4 DEF AlreadyRolledBack, RestoredState
    <3>2. log.seal # "Committed"
      BY <3>1, RunningLive DEF Under, SealInv
    <3>3. AtOrigin(call.change)
      BY <1>2, <3>1, <3>2, KnownIsLogged DEF Under, DriftInv, RolledInv
    <3>4. ~Clear(call.change)
      BY <1>2, <2>4, <3>3, KnownIsLogged, BaselineMeansOrigin DEF Under
    <3> QED BY <1>4, <2>4, <3>4
  <2>5. CASE ~AtBaseline(call.change) /\ Goto("matchDesired")
    <3>1. "matchDesired" \in RestoreLocation BY DEF RestoreLocation
    <3>2. Applied(call.change)
      BY <2>1, <2>5, RestoreFinds DEF Applied
    <3> QED BY <1>7, <2>5, <3>1, <3>2
  <2> QED BY <1>3, <1>8, <2>2, <2>3, <2>4, <2>5 DEF RestoreOne
<1>9. CASE MatchDesired
  <2>1. Applied(call.change)
    BY <1>9 DEF Under, DriftInv, RestoreInv, MatchDesired
  <2>2. ASSUME AnnounceThen(call, "restore", "Restore", "restore") PROVE DriftInv'
    <3>1. Calm BY <2>2, UnderCalm DEF AnnounceThen
    <3>2. call.op # "replay" /\ call.op # "finalize" BY <1>2
    <3> QED BY <1>1, <1>2, <2>2, <3>1, <3>2, AnnounceDrift
  <2>3. ~AtDesired(call.change) => ~Clear(call.change)
    BY <2>1 DEF Applied
  <2> QED BY <1>3, <1>4, <1>9, <2>2, <2>3 DEF MatchDesired
<1>10. CASE RestoreStatus
  <2>1. "restoreVerify" \in RestoreLocation /\ "restoreVerify" # "matchDesired" BY DEF RestoreLocation
  <2> QED BY <1>5, <1>7, <1>10, <2>1 DEF RestoreStatus
<1>11. CASE RestoreVerify
  BY <1>3, <1>5, <1>6, <1>11 DEF RestoreVerify
<1> QED BY <1>8, <1>9, <1>10, <1>11

LEMMA ReviseCheckDrift ==
  ASSUME Under, ReviseCheck
  PROVE  DriftInv'
<1> DEFINE l == IF prepared[call.revision].baseline = Desired THEN "restoreOne" ELSE "error"
<1>1. call.at = "reviseCheck" /\ EnsureExpected(call, AtDesired(call.change), l)
  BY DEF ReviseCheck
<1>2. call \in Call /\ Ahead = call.at /\ ControlInv
  BY <1>1 DEF Under, TypeOK, KernelTypeOK, Ahead, Structure
<1>3. call.op = "experiment" /\ Revising
  <2>1. "reviseCheck" \in Visits(call.op) /\ call.op \in Operation
    BY <1>1, <1>2 DEF ControlInv, Call
  <2>2. call.op = "experiment"
    BY <2>1 DEF Visits, Operation, RestoreLocation, ApplyLocation
  <2> QED BY <1>1, <1>2, <2>2 DEF Revising, ReviseLocation
<1>4. phase = "Experimenting"
  BY <1>2, <1>3, ExperimentPhase DEF Under
<1>5. call.change \in Known
  <2>1. ~Creating /\ Ahead \in ChangeLocation
    BY <1>1, <1>2 DEF Creating, Appending, ChangeLocation, ReviseLocation
  <2> QED BY <2>1 DEF Under, Structure, ChangeInv
<1>6. /\ \A c \in Heads \ Revised : changes[c] = "AppliedVerified" => Applied(c)
      /\ IsHead(call.change) /\ changes[call.change] = "AppliedVerified"
  BY <1>1, <1>2, <1>3, <1>4 DEF Under, DriftInv, VerifiedInv
<1>7. Applied(call.change)
  BY <1>1, <1>2, <1>5, <1>6 DEF Heads, Revised
<1>8. ASSUME OnlyControl, call' = [call EXCEPT !.at = l] PROVE DriftInv'
  <2>1. Calm BY <1>8, UnderCalm
  <2>2. /\ call'.at = l /\ call'.op = call.op /\ call'.todo = call.todo
        /\ call'.change = call.change
    BY <1>2, <1>8, MoveShape
  <2>3. /\ call'.at \in {"restoreOne", "error"} /\ call.at \in ReviseLocation
        /\ call'.at # "error" => call'.at \in ReviseLocation
        /\ call'.at \notin ApplyLocation
    BY <1>1, <2>2 DEF ReviseLocation, RestoreLocation, ApplyLocation
  <2>4. /\ call'.at # "append" /\ call'.at # "matchDesired" /\ call'.at # "reviseCheck"
        /\ call'.at # "revisePrepare" /\ call'.at # "ok"
        /\ call.op \notin {"restore_baseline", "rollback_all", "replay", "finalize"}
    BY <1>3, <2>3
  <2> QED BY <1>3, <2>1, <2>2, <2>3, <2>4, MoveDrift
<1>9. Clear(call.change) => AtDesired(call.change)
  BY <1>7 DEF Applied
<1>10. call.op \notin {"restore_baseline", "rollback_all"}
  BY <1>3
<1> QED BY <1>1, <1>2, <1>5, <1>8, <1>9, <1>10, EnsureDrift

LEMMA LoopMoves ==
  ASSUME Under, call.op \in {"replay_check", "finalize_check", "finalize", "finalize_recheck"},
         OnlyControl, NEW k \in Call, k.op = call.op, k.todo \subseteq call.todo,
         call' = [k EXCEPT !.at = "loop"]
  PROVE  DriftInv'
<1>1. Calm BY UnderCalm
<1>2. call'.at = "loop" /\ call'.op = call.op /\ call'.todo \subseteq call.todo
  BY MoveShape
<1>3. /\ "loop" \notin RestoreLocation /\ "loop" \notin ChangeLocation
      /\ call.op \notin {"experiment", "restore_baseline", "rollback_all", "replay"}
      /\ call'.at # "append" /\ call'.at # "matchDesired" /\ call'.at # "ok"
  BY <1>2 DEF ChangeLocation, ReviseLocation, RestoreLocation, ApplyLocation
<1> QED BY <1>1, <1>2, <1>3, MoveDrift

LEMMA RestoreNextDrift ==
  ASSUME Under, RestoreNext
  PROVE  DriftInv'
<1>1. PICK c \in Change : Last(c) /\ call' = [Visit(c) EXCEPT !.at = "restoreOne"]
  BY DEF RestoreNext
<1>2. Calm /\ call.at = "loop" /\ call.op \in {"restore_baseline", "rollback_all"} /\ call \in Call
  BY UnderCalm DEF RestoreNext, InLoop, Under, TypeOK, KernelTypeOK
<1>3. Visit(c) \in Call
  BY <1>1, <1>2, AtVisit DEF Under
<1>4. /\ call'.at = "restoreOne" /\ call'.op = call.op /\ call'.change = c
      /\ call'.todo = call.todo \ {c}
  BY <1>1, <1>2, <1>3, MoveShape, VisitShape, SMT
<1>5. InHand = {} /\ InHand' = {c}
  <2>1. call.at \notin RestoreLocation /\ call'.at \in RestoreLocation
    BY <1>2, <1>4 DEF RestoreLocation
  <2> QED BY <1>2, <1>4, <2>1, CalmFacts DEF InHand
<1>6. \A d \in call'.todo : d < call'.change
  <2>1. call.todo \in SUBSET Change
    BY <1>2 DEF Call
  <2> QED BY <1>1, <1>4, <2>1, SMT DEF Last, Change
<1>7. \A d \in Known : d \in call.todo \cup InHand => d \in call'.todo \cup InHand'
  BY <1>4, <1>5
<1>8. /\ call'.at # "append" /\ call'.at # "matchDesired" /\ call'.at # "ok"
      /\ call.op \notin {"experiment", "replay", "finalize"} /\ call'.todo \subseteq call.todo
  BY <1>2, <1>4
<1> QED BY <1>2, <1>4, <1>6, <1>7, <1>8, MoveDrift

LEMMA VisitFacts ==
  ASSUME TypeOK, Structure, call.at = "loop", NEW c \in Change, First(c)
  PROVE  /\ Visit(c) \in Call /\ Visit(c).change \in Known /\ c \in call.todo
         /\ Visit(c).op = call.op /\ Visit(c).change = c /\ Visit(c).todo = call.todo \ {c}
         /\ Visit(c).todo \subseteq call.todo
<1>1. call \in Call
  BY DEF TypeOK, KernelTypeOK
<1>2. Visit(c) \in Call /\ Within(Visit(c))
  BY AtVisit
<1>3. Visit(c).op = call.op /\ Visit(c).change = c /\ Visit(c).todo = call.todo \ {c}
  BY <1>1, VisitShape
<1> QED BY <1>2, <1>3 DEF Within, First

LEMMA ReplayLoopDrift ==
  ASSUME Under, ReplayNext \/ Replayed \/ FinalizeNext
  PROVE  DriftInv'
<1>1. call \in Call /\ call.at = "loop"
  BY DEF Under, TypeOK, KernelTypeOK, ReplayNext, Replayed, FinalizeNext, InLoop
<1>2. ASSUME NEW c \in Change, First(c)
      PROVE  /\ Visit(c) \in Call /\ Visit(c).change \in Known /\ Visit(c).change \in call.todo
             /\ Visit(c).op = call.op /\ Visit(c).todo \subseteq call.todo
             /\ call.todo \subseteq Visit(c).todo \cup {Visit(c).change}
  BY <1>1, <1>2, VisitFacts DEF Under
<1>3. CASE ReplayNext
  <2>1. PICK c \in Change : First(c) /\ AnnounceThen(Visit(c), "replay", "Apply", "apply")
    BY <1>3 DEF ReplayNext
  <2>2. Calm /\ call.op = "replay"
    BY <1>3, <2>1, UnderCalm DEF ReplayNext, AnnounceThen, InLoop
  <2>3. call.op \notin {"experiment", "restore_baseline", "rollback_all", "finalize"}
        /\ "apply" \in {"restore", "apply", "finalize"}
    BY <2>2
  <2>4. /\ Visit(c) \in Call /\ Visit(c).change \in Known /\ Visit(c).change \in call.todo
        /\ Visit(c).op = call.op /\ Visit(c).todo \subseteq call.todo
        /\ call.todo \subseteq Visit(c).todo \cup {Visit(c).change}
    BY <1>2, <2>1
  <2> QED BY <1>1, <2>1, <2>2, <2>3, <2>4, AnnounceDrift
<1>4. CASE FinalizeNext
  <2>1. PICK c \in Change : First(c) /\ AnnounceThen(Visit(c), "finalize", "Finalize", "finalize")
    BY <1>4 DEF FinalizeNext
  <2>2. Calm /\ call.op = "finalize"
    BY <1>4, <2>1, UnderCalm DEF FinalizeNext, AnnounceThen, InLoop
  <2>3. call.op \notin {"experiment", "restore_baseline", "rollback_all", "replay"}
        /\ "finalize" \in {"restore", "apply", "finalize"}
    BY <2>2
  <2>4. /\ Visit(c) \in Call /\ Visit(c).change \in Known /\ Visit(c).change \in call.todo
        /\ Visit(c).op = call.op /\ Visit(c).todo \subseteq call.todo
    BY <1>2, <2>1
  <2> QED BY <1>1, <2>1, <2>2, <2>3, <2>4, AnnounceDrift
<1>5. CASE Replayed
  <2>1. Calm /\ call.op = "replay" /\ call.todo = {} /\ call' = [call EXCEPT !.at = "ok"]
    BY <1>5, UnderCalm DEF Replayed, Goto, InLoop
  <2>2. call'.at = "ok" /\ call'.op = call.op /\ call'.todo = call.todo
    BY <1>1, <2>1, MoveShape
  <2>3. /\ "ok" \notin RestoreLocation /\ "ok" \notin ChangeLocation /\ call.at \notin ApplyLocation
        /\ call.op \notin {"experiment", "restore_baseline", "rollback_all"}
        /\ call'.at # "append" /\ call'.at # "matchDesired"
    BY <1>1, <2>1, <2>2 DEF ChangeLocation, ReviseLocation, RestoreLocation, ApplyLocation
  <2> QED BY <2>1, <2>2, <2>3, MoveDrift
<1> QED BY <1>3, <1>4, <1>5

\* A check of every change, or of every head, before the commit goes on.
LEMMA CheckNextDrift ==
  ASSUME Under, ReplayCheckNext \/ CommitCheckNext
  PROVE  DriftInv'
<1>1. /\ call \in Call /\ call.at = "loop"
      /\ call.op \in {"replay_check", "finalize_check", "finalize_recheck"}
  BY DEF Under, TypeOK, KernelTypeOK, ReplayCheckNext, CommitCheckNext, InLoop
<1>2. /\ call.op \notin {"begin", "experiment", "rollback_all", "restore_baseline"}
      /\ call.op \in {"replay_check", "finalize_check", "finalize", "finalize_recheck"}
  BY <1>1
<1>3. phase = "CommitPending" /\ Ahead \notin {"error", "outcomeUnknown"}
  BY <1>1, <1>2, PendingPhase DEF Under, Structure, Ahead
<1>4. /\ call.op = "replay_check" => \A c \in Known : AtOrigin(c)
      /\ call.op # "replay_check" =>
           /\ call.todo \subseteq Heads
           /\ \A c \in Heads : Clear(c) => AtCommitValue(c)
  <2>1. Unplayed = {}
    BY <1>1 DEF Unplayed
  <2> QED BY <1>1, <1>3, <2>1 DEF Under, DriftInv, ReplayInv
<1>6. ASSUME NEW c \in Change, NEW m, First(c), EnsureExpected(Visit(c), m, "loop"),
             Clear(c) => m
      PROVE  DriftInv'
  <2>1. /\ Visit(c) \in Call /\ Visit(c).change \in Known
        /\ Visit(c).op = call.op /\ Visit(c).change = c
    BY <1>1, <1>6, VisitFacts DEF Under
  <2>2. Visit(c).todo \subseteq call.todo
    BY <1>1, <1>6, VisitFacts DEF Under
  <2>3. OnlyControl /\ call' = [Visit(c) EXCEPT !.at = "loop"] => DriftInv'
    BY <1>2, <2>1, <2>2, LoopMoves
  <2> QED BY <1>2, <1>6, <2>1, <2>2, <2>3, EnsureDrift
<1>7. CASE ReplayCheckNext
  <2>1. PICK c \in Change : First(c) /\ EnsureExpected(Visit(c), AtBaseline(c), "loop")
    BY <1>7 DEF ReplayCheckNext
  <2>2. c \in Known /\ call.op = "replay_check"
    BY <1>1, <1>7, <2>1, VisitFacts DEF Under, ReplayCheckNext, InLoop
  <2>3. Clear(c) => AtBaseline(c)
    BY <1>4, <2>2, KnownIsLogged, BaselineMeansOrigin DEF Under
  <2> QED BY <1>6, <2>1, <2>3
<1>8. CASE CommitCheckNext
  <2>1. PICK c \in Change : First(c) /\ EnsureExpected(Visit(c), AtCommitValue(c), "loop")
    BY <1>8 DEF CommitCheckNext
  <2>2. call.op # "replay_check"
    BY <1>8 DEF CommitCheckNext, InLoop
  <2>3. Clear(c) => AtCommitValue(c)
    BY <1>4, <2>1, <2>2 DEF First
  <2> QED BY <1>6, <2>1, <2>3
<1> QED BY <1>7, <1>8

\* What a driver has acknowledged is still there.
LEMMA AckVerifyDrift ==
  ASSUME Under, AckVerify
  PROVE  DriftInv'
<1>1. /\ call \in Call /\ call.at = "ackVerify" /\ Ahead = call.at
      /\ EnsureExpected(call, AtDesired(call.change), "loop")
  BY DEF Under, TypeOK, KernelTypeOK, AckVerify, Ahead
<1>2. call.op = "finalize"
  <2>1. "ackVerify" \in Visits(call.op) /\ call.op \in Operation
    BY <1>1 DEF Under, Structure, ControlInv, Call
  <2> QED BY <2>1 DEF Visits, Operation, ReviseLocation, RestoreLocation, ApplyLocation
<1>3. /\ call.op \notin {"begin", "experiment", "rollback_all", "restore_baseline"}
      /\ call.op \in {"replay_check", "finalize_check", "finalize", "finalize_recheck"}
  BY <1>2
<1>4. phase = "CommitPending" /\ Ahead \notin {"error", "outcomeUnknown"}
  BY <1>1, <1>3, PendingPhase DEF Under, Structure
<1>5. Ahead \in ChangeLocation /\ Unplayed = {}
  BY <1>1, <1>2 DEF ChangeLocation, Unplayed
<1>6. call.change \in candidate /\ call.change \in Heads
  BY <1>2, <1>4, <1>5 DEF Under, DriftInv, ReplayInv, CommitInv
<1>7. Clear(call.change) => AtDesired(call.change)
  BY <1>2, <1>4, <1>5, <1>6 DEF Under, DriftInv, ReplayInv, AtCommitValue
<1>8. call.change \in Known
  BY <1>6 DEF Heads
<1>9. OnlyControl /\ call' = [call EXCEPT !.at = "loop"] => DriftInv'
  BY <1>1, <1>3, LoopMoves
<1> QED BY <1>1, <1>3, <1>7, <1>8, <1>9, EnsureDrift

---------------------------------------------------------------------------
(* The steps between two loops.                                            *)

LEMMA UnderStill ==
  ASSUME Under, UNCHANGED <<environment, log, prepared, changes, candidate>>
  PROVE  Calm
BY DEF Under, Calm, Quiet, Still, environment

LEMMA SealDrift ==
  ASSUME Calm, call.at = "loop", call.op \in {"rollback_all", "finalize_recheck"},
         NEW ev, NEW op, NEW l, NEW eff, AppendThen(call, ev, op, l, eff), l = "ok",
         ev.type \in {"Sealed", "CommitSealed"}
  PROVE  DriftInv'
<1> USE DEF Calm
<1>1. call \in Call /\ Ahead = call.at
  BY CalmFacts
<1>2. /\ call'.at = "append" /\ call'.event = ev /\ call'.then = "ok"
      /\ call'.op = call.op /\ call'.todo = call.todo
  <2> HIDE DEF Calm
  <2> QED BY <1>1, AppendShape, SMT
<1>3. /\ Ahead' = "ok" /\ ~Appending("ChangeUpsert")' /\ ~Appending("OperationIntent")' /\ ~Creating'
      /\ InHand' = {} /\ ~Revising'
  BY <1>2 DEF Ahead, Appending, Creating, InHand, RestoreLocation, Revising
<1>4. Active' = Active
  BY <1>2, CalmFacts
<1>5. FlagInv' /\ HeadInv' /\ RolledInv'
  <2>1. FlagInv' BY <1>3, QuietFlag DEF DriftInv
  <2>2. HeadInv' BY <1>3, <1>4, QuietHead DEF DriftInv
  <2>3. RolledInv' BY <1>3, QuietRolled DEF DriftInv
  <2> QED BY <2>1, <2>2, <2>3
<1>6. VerifiedInv'
  <2>1. phase # "Experimenting"
    BY DEF Structure, ControlInv
  <2> QED BY <2>1 DEF VerifiedInv, Quiet, Still
<1>7. ReplayInv'
  <2>1. call.op \notin {"restore_baseline", "replay", "finalize"} /\ call.at \notin {"error", "outcomeUnknown"}
    OBVIOUS
  <2>2. Unplayed = {} /\ Unplayed' = {}
    BY <1>2, <2>1 DEF Unplayed
  <2> QED BY <1>1, <1>2, <1>3, <2>1, <2>2, QuietReplay DEF DriftInv
<1>8. RestoreInv'
  BY <1>2, <1>3, QuietRestore
<1> QED BY <1>5, <1>6, <1>7, <1>8 DEF DriftInv

LEMMA SwitchDrift ==
  ASSUME Calm, call.at = "loop", NEW o \in Operation, NEW t,
         call' = [call EXCEPT !.op = o, !.todo = t], CommitInv,
         \/ call.op = "replay_check" /\ o = "replay" /\ t = candidate
         \/ call.op = "finalize_check" /\ o = "finalize" /\ t = candidate
         \/ call.op = "finalize" /\ o = "finalize_recheck" /\ t = Heads
  PROVE  DriftInv'
<1> USE DEF Calm
<1>1. call \in Call /\ Ahead = call.at
  BY CalmFacts
<1>2. call'.at = "loop" /\ call'.op = o /\ call'.todo = t /\ call'.change = call.change
  <2> HIDE DEF Calm
  <2> QED BY <1>1 DEF Call
<1>3. /\ Ahead' = "loop" /\ ~Appending("ChangeUpsert")' /\ ~Appending("OperationIntent")' /\ ~Creating'
      /\ InHand' = {} /\ call'.at # "append" /\ call'.at # "matchDesired"
  BY <1>2 DEF Ahead, Appending, Creating, InHand, RestoreLocation
<1>4. phase = "CommitPending"
  <2>1. call.op \notin {"begin", "experiment", "rollback_all"}
    OBVIOUS
  <2> QED BY <2>1, PendingPhase DEF Structure
<1>5. Active' = Active
  BY <1>4 DEF Active, InEpisode, EpisodePhase, Quiet, Still
<1>6. FlagInv' /\ HeadInv' /\ RolledInv'
  <2>1. FlagInv' BY <1>3, QuietFlag DEF DriftInv
  <2>2. HeadInv' BY <1>3, <1>5, QuietHead DEF DriftInv
  <2>3. RolledInv' BY <1>3, QuietRolled DEF DriftInv
  <2> QED BY <2>1, <2>2, <2>3
<1>7. VerifiedInv'
  <2>1. phase # "Experimenting"
    BY <1>4
  <2> QED BY <2>1 DEF VerifiedInv, Quiet, Still
<1>8. ReplayInv'
  <2>1. /\ Heads' = Heads /\ Known' = Known /\ candidate' = candidate
        /\ \A c : /\ Clear(c)' <=> Clear(c)
                  /\ AtCommitValue(c)' <=> AtCommitValue(c)
    BY QuietFacts DEF Quiet, Still
  <2>2. ReplayInv /\ Ahead \notin {"error", "outcomeUnknown"}
    BY <1>1 DEF DriftInv
  <2>3. \A c \in Heads \ Unplayed' : Clear(c) => AtCommitValue(c)
    <3>1. CASE call.op = "replay_check"
      <4>1. Unplayed' = candidate
        BY <1>2, <1>3, <3>1 DEF Unplayed, ApplyLocation
      <4>2. \A c \in Known : AtOrigin(c)
        BY <1>4, <2>2, <3>1 DEF ReplayInv
      <4>3. \A c \in Known : Clear(c) => AtBaseline(c)
        BY <4>2, KnownIsLogged, BaselineMeansOrigin
      <4> QED BY <4>1, <4>3 DEF Heads, AtCommitValue
    <3>2. CASE call.op \in {"finalize_check", "finalize"}
      <4>1. Unplayed = {}
        BY <3>2 DEF Unplayed
      <4> QED BY <1>4, <2>2, <3>2, <4>1 DEF ReplayInv
    <3> QED BY <3>1, <3>2
  <2>4. /\ o \notin {"restore_baseline", "replay_check"}
        /\ o \in {"replay", "finalize"} => t = candidate
        /\ o \in {"finalize_check", "finalize_recheck"} => t = Heads
        /\ "loop" # "ok" /\ "loop" \notin ChangeLocation
    BY DEF ChangeLocation, ReviseLocation, RestoreLocation, ApplyLocation
  <2> QED BY <1>2, <1>3, <2>1, <2>3, <2>4 DEF ReplayInv
<1>9. RestoreInv'
  BY <1>3, QuietRestore
<1> QED BY <1>6, <1>7, <1>8, <1>9 DEF DriftInv

LEMMA LoopEndDrift ==
  ASSUME Under, Restored \/ ReplayChecked \/ CommitChecked \/ Acknowledged \/ CommitSeal
  PROVE  DriftInv'
<1>1. call.at = "loop" /\ call \in Call /\ CommitInv
  BY DEF Under, TypeOK, KernelTypeOK, Restored, ReplayChecked, CommitChecked, Acknowledged,
               CommitSeal, InLoop
<1>2. Calm
  <2>1. UNCHANGED <<environment, log, prepared, changes, candidate>>
    BY DEF Restored, ReplayChecked, CommitChecked, Acknowledged, CommitSeal, OnlyControl, memory
  <2> QED BY <2>1, UnderStill
<1>3. CASE call.op = "restore_baseline" /\ call.todo = {} /\ At("ok")
  <2>1. call'.at = "ok" /\ call'.op = call.op /\ call'.todo = call.todo
    BY <1>1, <1>3, MoveShape DEF At
  <2>2. InHand = {}
    BY <1>1 DEF InHand, RestoreLocation
  <2>3. "ok" \notin RestoreLocation /\ call'.at # "append" /\ call'.at # "matchDesired"
        /\ call.op \notin {"experiment", "replay", "finalize"}
    BY <1>3, <2>1 DEF RestoreLocation
  <2> QED BY <1>2, <1>3, <2>1, <2>2, <2>3, MoveDrift
<1>4. ASSUME call.op \in {"rollback_all", "finalize_recheck"}, NEW ev, NEW op, NEW l, NEW eff,
             AppendThen(call, ev, op, l, eff), l = "ok", ev.type \in {"Sealed", "CommitSealed"}
      PROVE  DriftInv'
  BY <1>1, <1>2, <1>4, SealDrift
<1>5. Sealed("RolledBack").type \in {"Sealed", "CommitSealed"}
      /\ CommitSealed(candidate).type \in {"Sealed", "CommitSealed"}
  BY DEF Sealed, CommitSealed
<1>6. CASE Restored
  <2>1. \/ call.op = "restore_baseline" /\ call.todo = {} /\ At("ok")
        \/ /\ call.op = "rollback_all"
           /\ \E ev, op, l, eff : AppendThen(call, ev, op, l, eff) /\ l = "ok" /\ ev = Sealed("RolledBack")
    BY <1>6 DEF Restored, InLoop
  <2> QED BY <1>3, <1>4, <1>5, <2>1
<1>7. CASE CommitSeal
  <2>1. /\ call.op = "finalize_recheck"
        /\ \E ev, op, l, eff : AppendThen(call, ev, op, l, eff) /\ l = "ok" /\ ev = CommitSealed(candidate)
    BY <1>7 DEF CommitSeal, InLoop
  <2> QED BY <1>4, <1>5, <2>1
<1>8. {"replay", "finalize", "finalize_recheck"} \subseteq Operation
  BY DEF Operation
<1>9. CASE ReplayChecked
  BY <1>1, <1>2, <1>8, <1>9, SwitchDrift DEF ReplayChecked, InLoop
<1>10. CASE CommitChecked
  BY <1>1, <1>2, <1>8, <1>10, SwitchDrift DEF CommitChecked, InLoop
<1>11. CASE Acknowledged
  BY <1>1, <1>2, <1>8, <1>11, SwitchDrift DEF Acknowledged, InLoop
<1> QED BY <1>6, <1>7, <1>9, <1>10, <1>11

\* An acknowledgement writes nothing, whatever is answered.
LEMMA FinalizeDrift ==
  ASSUME Under, Finalize
  PROVE  DriftInv'
<1>1. /\ call \in Call /\ call.at = "finalize" /\ Ahead = call.at
  BY DEF Under, TypeOK, KernelTypeOK, Finalize, Ahead
<1>2. Calm
  <2>1. UNCHANGED <<environment, log, prepared, changes, candidate>>
    BY DEF Finalize, DriverFrame, memory
  <2> QED BY <2>1, UnderStill
<1>3. call.op = "finalize"
  <2>1. "finalize" \in Visits(call.op) /\ call.op \in Operation
    BY <1>1 DEF Under, Structure, ControlInv, Call
  <2> QED BY <2>1 DEF Visits, Operation, ReviseLocation, RestoreLocation, ApplyLocation
<1>4. call.change \in Known /\ call.at \in ChangeLocation
  <2>1. ~Creating /\ Ahead \in ChangeLocation
    BY <1>1 DEF Creating, Appending, ChangeLocation
  <2> QED BY <1>1, <2>1 DEF Under, Structure, ChangeInv
<1>5. PICK st, l, eff : /\ Persist(call, st, call.opid, l, eff)
                        /\ st = "CandidateApplied" /\ (l = "ackVerify" \/ l = "error")
  BY DEF Finalize, Inconclusive
<1>6. /\ st # "DriftDetected" /\ st # "RolledBack" /\ l \notin {"matchDesired", "reviseCheck"} /\ l # "ok"
      /\ call.op \notin {"experiment", "restore_baseline", "rollback_all", "replay"}
  BY <1>3, <1>5
<1> QED BY <1>1, <1>2, <1>4, <1>5, <1>6, PersistDrift

---------------------------------------------------------------------------
(* The steps that write the tuned system.                                  *)

\* A driver writes v, or the system makes something else of it.
Writes(v) == Stores(v) \/ StoresOther(v)

\* What a driver does to the resource of call.change, and to no other.
LEMMA WritesElsewhere ==
  ASSUME TypeOK, Still, NEW v, Writes(v), NEW q, q # prepared[call.change].resource
  PROVE  world'[q] = world[q] /\ (q \in Touched' <=> q \in Touched)
<1>1. PICK u : world' = [world EXCEPT ![prepared[call.change].resource] = u]
  BY DEF Writes, Stores, StoresOther, Set
<1>2. world \in [Resource -> Value]
  BY DEF TypeOK, KernelTypeOK
<1>3. world'[q] = world[q]
  BY <1>1, <1>2, SMT
<1> QED BY <1>3 DEF Writes, Stores, StoresOther, Still, Touched

LEMMA OthersKept ==
  ASSUME TypeOK, Still, NEW v, Writes(v), NEW c,
         prepared[c].resource # prepared[call.change].resource
  PROVE  /\ AtOrigin(c)' <=> AtOrigin(c)
         /\ Applied(c)' <=> Applied(c)
         /\ AtCommitValue(c)' <=> AtCommitValue(c)
<1>1. /\ world'[prepared[c].resource] = world[prepared[c].resource]
      /\ prepared[c].resource \in Touched' <=> prepared[c].resource \in Touched
  BY WritesElsewhere
<1>2. prepared' = prepared /\ origin' = origin /\ candidate' = candidate
  BY DEF Still
<1> QED BY <1>1, <1>2 DEF AtOrigin, Applied, AtCommitValue, AtDesired, AtBaseline, Holds, Clear

\* The resource of call.change holds what was written, or is out of the promise.
LEMMA WritesHere ==
  ASSUME TypeOK, NEW v, Writes(v), call.change \in Known,
         prepared[call.change].resource \notin Touched'
  PROVE  world'[prepared[call.change].resource] = v
<1>1. call.change \in Change
  BY DEF Known
<1>2. world \in [Resource -> Value] /\ prepared[call.change].resource \in Resource
  BY <1>1 DEF TypeOK, KernelTypeOK, PreparedMutation
<1>3. Set(call.change, v)
  BY DEF Writes, Stores, StoresOther, Touched
<1> QED BY <1>2, <1>3 DEF Set

\* The promise only shrinks.
LEMMA StillTouched ==
  ASSUME Still
  PROVE  Touched \subseteq Touched' /\ \A c : Clear(c)' => Clear(c)
BY DEF Still, Touched, Clear

\* A restore takes nothing away from what is home.
LEMMA WritesBaseline ==
  ASSUME TypeOK, Structure, Still, Writes(Baseline), call.change \in Known, NEW c, AtOrigin(c)
  PROVE  AtOrigin(c)'
<1>1. CASE prepared[c].resource # prepared[call.change].resource
  BY <1>1, OthersKept
<1>2. CASE prepared[c].resource = prepared[call.change].resource
  <2> SUFFICES ASSUME prepared[c].resource \notin Touched'
               PROVE  world'[prepared[c].resource] = origin[prepared[c].resource]
    BY DEF AtOrigin, Clear, Still
  <2>1. world'[prepared[c].resource] = prepared[call.change].baseline
    BY <1>2, WritesHere DEF Baseline
  <2>2. call.change \in LogChanges(log) /\ call.change \in Change
    BY KnownIsLogged
  <2>3. Undrifted(call.change)
    BY <1>2, StillTouched DEF Undrifted, Touched
  <2>4. prepared[call.change].baseline = origin[prepared[call.change].resource]
    BY <2>2, <2>3 DEF Structure, BaselineInv
  <2> QED BY <1>2, <2>1, <2>4
<1> QED BY <1>1, <1>2

\* What a driver is told to apply is the head of its resource.
LEMMA AppliesHead ==
  ASSUME Under, call.at = "applyWrite"
  PROVE  /\ IsHead(call.change) /\ call.change \in Known /\ call \in Call
         /\ \/ phase = "Experimenting" /\ call.op = "experiment"
            \/ phase = "CommitPending" /\ call.op = "replay" /\ call.change \in candidate
<1> USE DEF Under
<1>1. call.at \in ApplyLocation /\ Ahead = call.at /\ ~Creating
  BY DEF ApplyLocation, Ahead, Creating, Appending
<1>2. call.op \in {"experiment", "replay"} /\ call \in Call /\ call.change \in Known
  BY <1>1, AtApply DEF Within
<1>3. CASE call.op = "experiment"
  <2>1. phase = "Experimenting"
    BY <1>3, ExperimentPhase DEF Structure
  <2>2. Ahead # "error"
    BY <1>1
  <2> QED BY <1>1, <1>2, <1>3, <2>1, <2>2 DEF DriftInv, VerifiedInv
<1>4. CASE call.op = "replay"
  <2>1. call.op \notin {"begin", "experiment", "rollback_all"} /\ Ahead \notin {"error", "outcomeUnknown"}
    BY <1>1, <1>4
  <2>2. phase = "CommitPending"
    BY <2>1, PendingPhase DEF Structure
  <2>3. Ahead \in ChangeLocation
    BY <1>1, Locations
  <2>4. call.change \in candidate
    BY <1>4, <2>1, <2>2, <2>3 DEF DriftInv, ReplayInv
  <2> QED BY <1>2, <1>4, <2>2, <2>4 DEF CommitInv, Heads
<1> QED BY <1>2, <1>3, <1>4

LEMMA OtherHeads ==
  ASSUME TypeOK, IsHead(call.change), NEW c \in Heads, c # call.change
  PROVE  prepared[c].resource # prepared[call.change].resource
<1>1. Known \in SUBSET Change
  BY DEF Known
<1> QED BY <1>1, OneHead DEF IsHead, Heads, Head

\* The control state that a driver's answer leads to.
Reported ==
  /\ call'.op = call.op /\ call'.todo = call.todo /\ call'.change = call.change
  /\ Appending("ChangeUpsert")' => call'.event.state \notin {"DriftDetected", "RolledBack"}
  /\ ~Creating' /\ call'.at # "matchDesired"
  /\ call'.at = "append" => call'.then = "error"
  /\ call'.at # "append" =>
       \/ call.at = "applyWrite" /\ call'.at \in ApplyLocation
       \/ call.at = "restoreWrite" /\ call'.at \in RestoreLocation

LEMMA AnsweredFacts ==
  ASSUME Under, Still, Reported
  PROVE  /\ Heads' = Heads /\ Known' = Known /\ LogChanges(log') = LogChanges(log)
         /\ Active /\ Active' /\ Live = Known /\ Live' = Known
         /\ Ahead' # "error" => call'.at # "append" /\ Ahead' = call'.at
         /\ \A c : (Clear(c)' => Clear(c)) /\ (IsHead(c)' <=> IsHead(c))
<1>1. Known' = Known /\ LogChanges(log') = LogChanges(log) /\ \A c : Clear(c)' => Clear(c)
  BY StillTouched DEF Still, Known
<1>2. \A c : IsHead(c)' <=> IsHead(c)
  BY <1>1 DEF Still, IsHead, Head
<1>3. Heads' = Heads
  BY <1>1, <1>2 DEF Heads
<1>4. Active /\ Live = Known
  BY RunningLive DEF Under
<1>5. Active' /\ Live' = Known
  BY <1>1, <1>4 DEF Active, Live, InEpisode, Still, Reported
<1>6. Ahead' # "error" => call'.at # "append" /\ Ahead' = call'.at
  BY DEF Ahead, Reported
<1> QED BY <1>1, <1>2, <1>3, <1>4, <1>5, <1>6

LEMMA AnsweredFlag ==
  ASSUME Under, Still, Reported
  PROVE  FlagInv'
<1>1. FlagInv BY DEF Under, DriftInv
<1>2. ~(Appending("ChangeUpsert")' /\ call'.event.state = "DriftDetected")
  BY DEF Reported
<1> QED BY <1>1, <1>2, StillTouched DEF FlagInv, Still

LEMMA ApplyEffectDrift ==
  ASSUME Under, Still, Reported, call.at = "applyWrite", Writes(Desired)
  PROVE  DriftInv'
<1> DEFINE r == prepared[call.change].resource
<1>1. /\ IsHead(call.change) /\ call.change \in Known /\ call \in Call
      /\ \/ phase = "Experimenting" /\ call.op = "experiment"
         \/ phase = "CommitPending" /\ call.op = "replay" /\ call.change \in candidate
  BY AppliesHead
<1>2. /\ Heads' = Heads /\ Known' = Known /\ LogChanges(log') = LogChanges(log)
      /\ Live = Known /\ Live' = Known
      /\ Ahead' # "error" => call'.at # "append" /\ Ahead' = call'.at
      /\ \A c : (Clear(c)' => Clear(c)) /\ (IsHead(c)' <=> IsHead(c))
  BY AnsweredFacts
<1>3. TypeOK /\ Structure /\ DriftInv /\ SealInv /\ call.at \notin {"error", "outcomeUnknown"}
      /\ ~Creating /\ Ahead = "applyWrite" /\ "applyWrite" \in ApplyLocation /\ \A t : ~Appending(t)
  BY DEF Under, Creating, Appending, Ahead, ApplyLocation
<1>4. r \notin Touched' => world'[r] = prepared[call.change].desired
  BY <1>1, <1>3, WritesHere DEF Desired
<1>5. LogChanges(log) = Known /\ Known \subseteq Change
  BY <1>1, <1>3 DEF Structure, MemoryInv, Known
<1>6. FlagInv'
  BY AnsweredFlag
<1>7. HeadInv'
  <2>1. ASSUME NEW q \in Resource, q \notin Touched', world'[q] # origin[q]
        PROVE  \E c \in ResourceHead(prepared, Known, q) : Explains(c, q)'
    <3>1. CASE q = r
      <4>1. call.change \in ResourceHead(prepared, Known, q)
        BY <1>1, <3>1 DEF IsHead, Head
      <4>2. prepared[call.change].baseline = origin[q] /\ prepared[call.change] \in PreparedMutation
        <5>1. call.change \in Change /\ Undrifted(call.change)
          BY <1>1, <1>5, <2>1, <3>1, StillTouched DEF Undrifted, Touched
        <5>2. prepared[call.change].baseline = origin[q]
          BY <1>1, <1>3, <1>5, <3>1, <5>1 DEF Structure, BaselineInv
        <5> QED BY <1>3, <5>1, <5>2 DEF TypeOK, KernelTypeOK
      <4>3. world'[q] = prepared[call.change].desired
        BY <1>4, <2>1, <3>1
      <4>4. PICK c : c = call.change
        OBVIOUS
      <4>5. Explains(c, q)'
        BY <3>1, <4>2, <4>3, <4>4 DEF Explains, Still
      <4> QED BY <4>1, <4>4, <4>5
    <3>2. CASE q # r
      <4>1. world'[q] = world[q] /\ q \notin Touched
        BY <1>3, <2>1, <3>2, WritesElsewhere
      <4>2. PICK c \in ResourceHead(prepared, Known, q) : Explains(c, q)
        BY <1>2, <1>3, <2>1, <4>1 DEF DriftInv, HeadInv
      <4>3. Explains(c, q)'
        BY <4>1, <4>2 DEF Explains, Still
      <4> QED BY <4>2, <4>3
    <3> QED BY <3>1, <3>2
  <2>2. ~Creating' /\ LogChanges(log') \ Live' = {}
    BY <1>2, <1>5 DEF Reported
  <2>3. prepared' = prepared /\ origin' = origin
    BY DEF Still
  <2> QED BY <1>2, <2>1, <2>2, <2>3 DEF HeadInv
<1>8. RolledInv'
  <2>1. ~(Appending("ChangeUpsert")' /\ call'.event.state = "RolledBack")
    BY DEF Reported
  <2>2. phase \in {"Experimenting", "CommitPending"}
    BY <1>1
  <2>3. \A c \in Change : log.seal # "Committed" => "RolledBack" \notin {changes[c], log.state[c]}
    BY <1>3, <2>2 DEF DriftInv, RolledInv
  <2> QED BY <2>1, <2>3 DEF RolledInv, Still
<1>9. VerifiedInv'
  <2> SUFFICES ASSUME phase = "Experimenting", Ahead' # "error" PROVE VerifiedInv'
    BY DEF VerifiedInv, Still
  <2>1. call.op = "experiment" /\ call'.op = "experiment" /\ call'.change = call.change /\ changes' = changes
    BY <1>1 DEF Reported, Still
  <2>2. call'.at \in ApplyLocation /\ Ahead' = call'.at /\ call'.at # "append"
    BY <1>2, <1>3 DEF Reported
  <2>3. Revised = {} /\ Revised' = {} /\ ~Revising'
    <3>1. "applyWrite" \notin ReviseLocation /\ call'.at \notin ReviseLocation
      BY <1>3, <2>2, Locations
    <3> QED BY <1>3, <2>2, <3>1 DEF Revised, Revising
  <2>4. call'.at \notin {"append", "reviseCheck", "revisePrepare"} /\ ~Appending("ChangeUpsert")'
    BY <2>2, Locations DEF Appending
  <2>5. ASSUME NEW c \in Heads, changes[c] = "AppliedVerified" PROVE Applied(c)'
    <3>1. CASE c = call.change
      <4>1. prepared' = prepared /\ (Clear(c)' => Holds(c)' = prepared[c].desired)
        BY <1>4, <3>1 DEF Holds, Still, Clear
      <4> QED BY <4>1 DEF Applied, AtDesired
    <3>2. CASE c # call.change
      <4>1. Applied(c)
        BY <1>3, <2>1, <2>3, <2>5 DEF DriftInv, VerifiedInv
      <4>2. prepared[c].resource # prepared[call.change].resource
        BY <1>1, <1>3, <3>2, OtherHeads
      <4> QED BY <1>3, <4>1, <4>2, OthersKept
    <3> QED BY <3>1, <3>2
  <2>6. IsHead(call.change)'
    <3>1. call'.change = call.change /\ prepared' = prepared /\ Known' = Known
      BY <1>2 DEF Reported, Still
    <3> QED BY <1>1, <3>1 DEF IsHead, Head
  <2> QED BY <1>2, <2>1, <2>3, <2>4, <2>5, <2>6 DEF VerifiedInv
<1>10. ReplayInv'
  <2> SUFFICES ASSUME phase = "CommitPending", Ahead' # "error" PROVE ReplayInv'
    BY DEF ReplayInv, Still
  <2>1. call.op = "replay" /\ call'.op = "replay" /\ call'.todo = call.todo /\ candidate' = candidate
        /\ call'.change = call.change /\ call.change \in candidate
    BY <1>1 DEF Reported, Still
  <2>2. call'.at \in ApplyLocation /\ Ahead' = call'.at /\ call'.at # "append"
    BY <1>2, <1>3 DEF Reported
  <2>3. call'.at # "ok" /\ ~Appending("ChangeUpsert")'
    BY <2>2, Locations DEF Appending
  <2>4. Unplayed = call.todo \cup {call.change} /\ Unplayed' = call.todo \cup {call.change}
    BY <1>3, <2>1, <2>2 DEF Unplayed
  <2>5. ASSUME NEW c \in Heads' \ Unplayed' PROVE Clear(c)' => AtCommitValue(c)'
    <3>1. c \in Heads /\ c \notin Unplayed /\ c # call.change
      BY <1>2, <2>4, <2>5
    <3>2. Clear(c) => AtCommitValue(c)
      <4>1. Ahead \notin {"error", "outcomeUnknown"} BY <1>3
      <4> QED BY <1>3, <2>1, <3>1, <4>1 DEF DriftInv, ReplayInv
    <3>3. prepared[c].resource # prepared[call.change].resource
      BY <1>1, <1>3, <3>1, OtherHeads
    <3> QED BY <1>2, <1>3, <3>2, <3>3, OthersKept
  <2>6. call.todo \subseteq candidate
    <3>1. Ahead \notin {"error", "outcomeUnknown"} BY <1>3
    <3> QED BY <1>3, <2>1, <3>1 DEF DriftInv, ReplayInv
  <2>7. /\ call'.op \notin {"restore_baseline", "replay_check", "finalize_check", "finalize_recheck"}
        /\ Ahead' # "ok"
    BY <2>1, <2>2, <2>3
  <2> QED BY <2>1, <2>3, <2>5, <2>6, <2>7 DEF ReplayInv
<1>11. RestoreInv'
  <2>1. call'.op \notin {"restore_baseline", "rollback_all"}
    BY <1>1 DEF Reported
  <2>2. call'.at # "matchDesired" /\ (call'.at = "append" => call'.then \notin {"matchDesired", "reviseCheck"})
    BY DEF Reported
  <2> QED BY <2>1, <2>2 DEF RestoreInv
<1> QED BY <1>6, <1>7, <1>8, <1>9, <1>10, <1>11 DEF DriftInv

LEMMA RestoreEffectDrift ==
  ASSUME Under, Still, Reported, call.at = "restoreWrite", Writes(Baseline)
  PROVE  DriftInv'
<1> DEFINE r == prepared[call.change].resource
<1>1. /\ call \in Call /\ call.change \in Known /\ call.at \in RestoreLocation
      /\ call.op \in {"experiment", "restore_baseline", "rollback_all"}
      /\ call.op = "experiment" => Revising
  <2>1. call.at \in RestoreLocation BY DEF RestoreLocation
  <2> QED BY <2>1, AtRestore DEF Under, Within
<1>2. /\ Heads' = Heads /\ Known' = Known /\ LogChanges(log') = LogChanges(log)
      /\ Live = Known /\ Live' = Known
      /\ Ahead' # "error" => call'.at # "append" /\ Ahead' = call'.at
      /\ \A c : (Clear(c)' => Clear(c)) /\ (IsHead(c)' <=> IsHead(c))
  BY AnsweredFacts
<1>3. TypeOK /\ Structure /\ DriftInv /\ SealInv /\ call.at \notin {"error", "outcomeUnknown"}
      /\ ~Creating /\ Ahead = "restoreWrite" /\ \A t : ~Appending(t)
  BY DEF Under, Creating, Appending, Ahead
<1>4. \A c : AtOrigin(c) => AtOrigin(c)'
  BY <1>1, <1>3, WritesBaseline
<1>5. FlagInv'
  BY AnsweredFlag
<1>6. HeadInv'
  <2>1. ASSUME NEW q \in Resource, q \notin Touched', world'[q] # origin[q]
        PROVE  \E c \in ResourceHead(prepared, Known, q) : Explains(c, q)'
    <3>1. q # r
      <4>1. SUFFICES ASSUME q = r PROVE FALSE
        OBVIOUS
      <4>2. call.change \in LogChanges(log) /\ call.change \in Change /\ Undrifted(call.change)
        BY <1>1, <1>3, <2>1, <4>1, KnownIsLogged, StillTouched DEF Undrifted, Touched
      <4>3. prepared[call.change].baseline = origin[r]
        BY <1>3, <4>2 DEF Structure, BaselineInv
      <4>4. world'[r] = prepared[call.change].baseline
        BY <1>1, <1>3, <2>1, <4>1, WritesHere DEF Baseline
      <4> QED BY <2>1, <4>1, <4>3, <4>4
    <3>2. world'[q] = world[q] /\ q \notin Touched
      BY <1>3, <2>1, <3>1, WritesElsewhere
    <3>3. PICK c \in ResourceHead(prepared, Known, q) : Explains(c, q)
      BY <1>2, <1>3, <2>1, <3>2 DEF DriftInv, HeadInv
    <3>4. Explains(c, q)'
      BY <3>2, <3>3 DEF Explains, Still
    <3> QED BY <3>3, <3>4
  <2>2. ~Creating' /\ \A c \in LogChanges(log') \ Live' : AtOrigin(c)'
    BY <1>2, <1>3, <1>4 DEF Reported, DriftInv, HeadInv
  <2>3. prepared' = prepared /\ origin' = origin
    BY DEF Still
  <2> QED BY <1>2, <2>1, <2>2, <2>3 DEF HeadInv
<1>7. RolledInv'
  <2>1. ~(Appending("ChangeUpsert")' /\ call'.event.state = "RolledBack")
    BY DEF Reported
  <2>2. RolledInv BY <1>3 DEF DriftInv
  <2> QED BY <1>4, <2>1, <2>2 DEF RolledInv, Still
<1>8. ASSUME Ahead' # "error"
      PROVE  /\ call'.at \in RestoreLocation /\ Ahead' = call'.at /\ call'.at # "append"
             /\ call'.at \notin {"ok", "reviseCheck", "revisePrepare"} /\ call'.at \notin ApplyLocation
             /\ call'.at \in ReviseLocation /\ ~Appending("ChangeUpsert")' /\ ~Appending("OperationIntent")'
  <2>1. call'.at \in RestoreLocation /\ Ahead' = call'.at /\ call'.at # "append"
    BY <1>2, <1>8 DEF Reported
  <2> QED BY <2>1, Locations DEF Appending
<1>9. VerifiedInv'
  <2> SUFFICES ASSUME phase = "Experimenting", Ahead' # "error" PROVE VerifiedInv'
    BY DEF VerifiedInv, Still
  <2>1. call.op = "experiment"
    BY <1>1, <1>3 DEF Structure, ControlInv
  <2>2. call'.op = "experiment" /\ call'.change = call.change /\ changes' = changes
    BY <2>1 DEF Reported, Still
  <2>3. /\ IsHead(call.change) /\ Revised = {call.change}
        /\ \A c \in Heads \ Revised : changes[c] = "AppliedVerified" => Applied(c)
    BY <1>1, <1>3, <2>1 DEF DriftInv, VerifiedInv, Revised
  <2>4. Revised' = {call.change}
    BY <1>8, <2>2 DEF Revised, Revising
  <2>5. ASSUME NEW c \in Heads, c # call.change, changes[c] = "AppliedVerified" PROVE Applied(c)'
    <3>1. Applied(c)
      BY <2>3, <2>5
    <3>2. prepared[c].resource # prepared[call.change].resource
      BY <1>3, <2>3, <2>5, OtherHeads
    <3> QED BY <1>3, <3>1, <3>2, OthersKept
  <2>6. IsHead(call.change)'
    <3>1. prepared' = prepared
      BY DEF Still
    <3> QED BY <1>2, <2>2, <2>3, <3>1 DEF IsHead, Head
  <2> QED BY <1>2, <1>8, <2>2, <2>4, <2>5, <2>6 DEF VerifiedInv
<1>10. ReplayInv'
  <2> SUFFICES ASSUME phase = "CommitPending", Ahead' # "error" PROVE ReplayInv'
    BY DEF ReplayInv, Still
  <2>1. call.op = "restore_baseline" /\ call'.op = call.op /\ call'.todo = call.todo
        /\ call'.change = call.change
    BY <1>1, <1>3 DEF Structure, ControlInv, Reported
  <2>2. InHand = {call.change} /\ InHand' = {call.change}
    BY <1>1, <1>8, <2>1 DEF InHand
  <2>3. \A c \in Known \ (call.todo \cup {call.change}) : AtOrigin(c)
    <3>1. Ahead \notin {"error", "outcomeUnknown"} BY <1>3
    <3> QED BY <1>3, <2>1, <2>2, <3>1 DEF DriftInv, ReplayInv
  <2>4. /\ call'.op \notin {"replay_check", "replay", "finalize_check", "finalize", "finalize_recheck"}
        /\ Ahead' # "ok" /\ call'.op = "restore_baseline"
    BY <1>8, <2>1
  <2> QED BY <1>2, <1>4, <1>8, <2>1, <2>2, <2>3, <2>4 DEF ReplayInv
<1>11. RestoreInv'
  <2>1. call'.at # "matchDesired" /\ (call'.at = "append" => call'.then \notin {"matchDesired", "reviseCheck"})
    BY DEF Reported
  <2>2. InHand = {call.change}
    BY <1>1 DEF InHand
  <2>3. \A c \in InHand' : c = call.change
    BY DEF InHand, Reported
  <2>4. call.op \in {"restore_baseline", "rollback_all"} => \A d \in call.todo : d < call.change
    BY <1>3, <2>2 DEF DriftInv, RestoreInv
  <2>5. call'.op = call.op /\ call'.todo = call.todo
    BY DEF Reported
  <2> QED BY <2>1, <2>3, <2>4, <2>5 DEF RestoreInv
<1> QED BY <1>5, <1>6, <1>7, <1>9, <1>10, <1>11 DEF DriftInv

\* The locations and the records that a driver's answer leads to.
LEMMA Answers ==
  /\ \A l \in {"applyWrite", "applyVerify", "applyStatus"} : l \in ApplyLocation /\ l # "matchDesired"
  /\ \A l \in {"restoreWrite", "restoreVerify", "restoreStatus"} :
       l \in RestoreLocation /\ l # "matchDesired"
  /\ \A st \in {"FailedNotApplied", "AppliedUnknown"} : st \notin {"DriftDetected", "RolledBack"}
  /\ "apply" \in ApplyLocation /\ "restore" \in RestoreLocation
BY DEF ApplyLocation, RestoreLocation

\* A driver that has only read, and one that wrote nothing.
LEMMA NothingWrittenDrift ==
  ASSUME Calm,
         \/ \E l \in {"applyWrite", "applyVerify", "applyStatus"} :
              call.at \in ApplyLocation /\ At(l)
         \/ \E l \in {"restoreWrite", "restoreVerify", "restoreStatus"} :
              call.at \in RestoreLocation /\ At(l)
         \/ \E st \in {"FailedNotApplied", "AppliedUnknown"} :
              call.at \in ApplyLocation \cup RestoreLocation /\ Inconclusive(st)
  PROVE  DriftInv'
<1>1. ASSUME NEW l \in {"applyWrite", "applyVerify", "applyStatus"},
             call.at \in ApplyLocation, At(l)
      PROVE  DriftInv'
  BY <1>1, Answers, StayDrift DEF At
<1>2. ASSUME NEW l \in {"restoreWrite", "restoreVerify", "restoreStatus"},
             call.at \in RestoreLocation, At(l)
      PROVE  DriftInv'
  BY <1>2, Answers, StayDrift DEF At
<1>3. ASSUME NEW st \in {"FailedNotApplied", "AppliedUnknown"},
             call.at \in ApplyLocation \cup RestoreLocation, Inconclusive(st)
      PROVE  DriftInv'
  <2>1. PICK l, eff : Persist(call, st, call.opid, l, eff) /\ l = "error"
    BY <1>3 DEF Inconclusive
  <2> QED BY <1>3, <2>1, Answers, OpenDrift
<1> QED BY <1>1, <1>2, <1>3

LEMMA DriverReadsDrift ==
  ASSUME Under, Apply \/ Restore
  PROVE  DriftInv'
<1>1. Calm
  <2>1. UNCHANGED <<environment, log, prepared, changes, candidate>>
    BY DEF Apply, Restore, DriverFrame, memory
  <2> QED BY <2>1, UnderStill
<1>2. CASE Apply
  <2>1. call.at \in ApplyLocation
    BY <1>2, Answers DEF Apply
  <2> QED BY <1>1, <1>2, <2>1, NothingWrittenDrift DEF Apply
<1>3. CASE Restore
  <2>1. call.at \in RestoreLocation
    BY <1>3, Answers DEF Restore
  <2> QED BY <1>1, <1>3, <2>1, NothingWrittenDrift DEF Restore
<1> QED BY <1>2, <1>3

\* Where a driver's write leads to.
LEMMA WriteAnswered ==
  ASSUME Under, Still, call \in Call, call.change \in Known,
         \/ \E l \in {"applyVerify", "applyStatus"} : call.at = "applyWrite" /\ At(l)
         \/ \E l \in {"restoreVerify", "restoreStatus"} : call.at = "restoreWrite" /\ At(l)
         \/ Inconclusive("AppliedUnknown")
  PROVE  Reported
<1>1. ASSUME NEW l, At(l), l \notin {"append", "matchDesired"},
             \/ call.at = "applyWrite" /\ l \in ApplyLocation
             \/ call.at = "restoreWrite" /\ l \in RestoreLocation
      PROVE  Reported
  <2>1. /\ call'.at = l /\ call'.op = call.op /\ call'.todo = call.todo
        /\ call'.change = call.change
    BY <1>1, MoveShape DEF At
  <2> QED BY <1>1, <2>1 DEF Reported, Creating, Appending
<1>2. CASE Inconclusive("AppliedUnknown")
  <2>1. PICK st, l, eff : /\ Persist(call, st, call.opid, l, eff)
                          /\ l = "error" /\ st = "AppliedUnknown"
    BY <1>2 DEF Inconclusive
  <2>2. /\ call'.at = "append" /\ call'.then = l /\ call'.event.change = call.change
        /\ call'.event.state = st
        /\ call'.op = call.op /\ call'.change = call.change /\ call'.todo = call.todo
    BY <2>1, PersistShape, SMT
  <2>3. ~Creating'
    <3>1. Known' = Known BY DEF Still, Known
    <3> QED BY <2>2, <3>1 DEF Creating
  <2>4. st \notin {"DriftDetected", "RolledBack"}
    BY <2>1
  <2> QED BY <2>1, <2>2, <2>3, <2>4 DEF Reported
<1>3. /\ \A l \in {"applyVerify", "applyStatus", "restoreVerify", "restoreStatus"} :
           l \notin {"append", "matchDesired"}
      /\ \A l \in {"applyVerify", "applyStatus"} : l \in ApplyLocation
      /\ \A l \in {"restoreVerify", "restoreStatus"} : l \in RestoreLocation
  BY DEF ApplyLocation, RestoreLocation
<1> QED BY <1>1, <1>2, <1>3

LEMMA WriteDrift ==
  ASSUME Under, ApplyWrite \/ RestoreWrite
  PROVE  DriftInv'
<1>1. Still
  BY DEF Under, ApplyWrite, RestoreWrite, WriteFrame, Still, memory, Stores, StoresOther,
         StoresNothing, StoresSomething
<1>2. call \in Call /\ call.change \in Known
  <2>1. \/ call.at = "applyWrite" /\ call.at \in ApplyLocation
        \/ call.at = "restoreWrite" /\ call.at \in RestoreLocation
    BY Answers DEF ApplyWrite, RestoreWrite
  <2> QED BY <2>1, AtApply, AtRestore DEF Under, Within
<1>3. CASE StoresNothing
  <2>1. Calm
    BY <1>1, <1>3 DEF Under, Calm, Quiet, StoresNothing
  <2>2. /\ ApplyWrite => call.at \in ApplyLocation
        /\ RestoreWrite => call.at \in RestoreLocation
    BY Answers DEF ApplyWrite, RestoreWrite
  <2> QED BY <2>1, <2>2, NothingWrittenDrift DEF ApplyWrite, RestoreWrite
<1>4. CASE ApplyWrite /\ ~StoresNothing
  <2>1. call.at = "applyWrite" /\ Writes(Desired)
    BY <1>4 DEF ApplyWrite, StoresSomething, Writes
  <2>2. Reported
    BY <1>1, <1>2, <1>4, WriteAnswered DEF ApplyWrite
  <2> QED BY <1>1, <2>1, <2>2, ApplyEffectDrift
<1>5. CASE RestoreWrite /\ ~StoresNothing
  <2>1. call.at = "restoreWrite" /\ Writes(Baseline)
    BY <1>5 DEF RestoreWrite, StoresSomething, Writes
  <2>2. Reported
    BY <1>1, <1>2, <1>5, WriteAnswered DEF RestoreWrite
  <2> QED BY <1>1, <2>1, <2>2, RestoreEffectDrift
<1> QED BY <1>3, <1>4, <1>5

---------------------------------------------------------------------------
(* The steps that prepare a change.                                        *)

\* What is prepared for a change that is not known yet changes nothing of the others.
LEMMA RewriteDrift ==
  ASSUME TypeOK, Structure, DriftInv, phase = "Experimenting",
         call.at \notin {"error", "outcomeUnknown", "append"},
         NEW c \in Change, IsNextChange(c), Rewrites(c),
         \A h \in Revised : changes[h] # "AppliedVerified",
         call'.op = "experiment",
         \/ /\ call'.at = "append" /\ call'.then = "apply"
            /\ call'.change = c /\ call'.event.change = c
            /\ call'.event.type = "ChangeUpsert" /\ call'.event.state = "IntentDurable"
            /\ prepared'[c].resource \notin Touched =>
                 world[prepared'[c].resource] = origin[prepared'[c].resource]
         \/ /\ call'.at = "reviseCheck" /\ IsHead(call'.change)
            /\ changes[call'.change] = "AppliedVerified"
  PROVE  DriftInv'
<1>1. /\ Known' = Known /\ \A d \in LogChanges(log) : d # c
      /\ LogChanges(log') = LogChanges(log)
  <2>1. call'.at \notin {"error", "outcomeUnknown"} /\ call.at \notin {"error", "outcomeUnknown"}
    OBVIOUS
  <2> QED BY <2>1, RewriteKeeps
<1>2. Known \subseteq LogChanges(log) /\ Known \subseteq Change /\ LogChanges(log) \subseteq Change
      /\ LogChanges(log) = Known
  <2>1. LogChanges(log) \subseteq Change BY DEF LogChanges
  <2>2. call.at \notin {"error", "outcomeUnknown"} OBVIOUS
  <2> QED BY <2>1, <2>2, KnownIsLogged DEF Structure, MemoryInv
<1>3. /\ UNCHANGED <<world, origin, drifted, normalised, log, changes, candidate, phase>>
      /\ \A d \in LogChanges(log) : prepared'[d] = prepared[d]
  BY <1>1, <1>2 DEF Rewrites
<1>4. \A d \in LogChanges(log) : /\ Clear(d)' <=> Clear(d)
                                 /\ AtOrigin(d)' <=> AtOrigin(d)
                                 /\ Applied(d)' <=> Applied(d)
  BY <1>3 DEF Clear, Touched, AtOrigin, Applied, AtDesired, Holds
<1>5. \A r : ResourceHead(prepared', Known, r) = ResourceHead(prepared, Known, r)
  BY <1>2, <1>3 DEF ResourceHead
<1>6. Active /\ Active' /\ Live = Known /\ Live' = Known
  BY <1>1, <1>3 DEF Active, InEpisode, EpisodePhase, Live
<1>7. /\ Ahead' \in {"apply", "reviseCheck"} /\ Ahead = call.at
      /\ Appending("ChangeUpsert")' => call'.event.state = "IntentDurable"
  BY DEF Ahead, Appending
<1>8. FlagInv'
  <2>1. \A d \in Change : "DriftDetected" \in {changes[d], log.state[d]} => d \in LogChanges(log)
    BY <1>2 DEF Known, LogChanges, Absent
  <2>2. ~(Appending("ChangeUpsert")' /\ call'.event.state = "DriftDetected")
    BY <1>7
  <2> QED BY <1>3, <1>4, <2>1, <2>2 DEF DriftInv, FlagInv
<1>9. HeadInv'
  <2>1. ASSUME NEW r \in Resource, r \notin Touched, world[r] # origin[r]
        PROVE  \E d \in ResourceHead(prepared', Known, r) : Explains(d, r)'
    <3>1. PICK d \in ResourceHead(prepared, Known, r) : Explains(d, r)
      BY <1>6, <2>1 DEF DriftInv, HeadInv
    <3>2. d \in LogChanges(log)
      BY <1>2, <3>1 DEF ResourceHead
    <3>3. Explains(d, r)'
      BY <1>3, <3>1, <3>2 DEF Explains
    <3> QED BY <1>5, <3>1, <3>3
  <2>2. LogChanges(log') \ Live' = {}
    BY <1>1, <1>2, <1>6
  <2>3. Creating' => AtOrigin(call.change)' /\ call'.event.state = "IntentDurable"
    <3>1. Creating' => call'.at = "append" /\ Appending("ChangeUpsert")'
      BY DEF Creating, Appending
    <3>2. CASE call'.at = "append"
      <4>1. call'.change = c /\ (prepared'[c].resource \notin Touched =>
                 world[prepared'[c].resource] = origin[prepared'[c].resource])
        BY <3>2
      <4>2. AtOrigin(call.change)'
        BY <1>3, <4>1 DEF AtOrigin, Clear, Touched
      <4> QED BY <1>7, <3>1, <4>2
    <3> QED BY <3>1, <3>2
  <2> QED BY <1>3, <1>6, <2>1, <2>2, <2>3 DEF HeadInv, Touched
<1>10. RolledInv'
  <2>1. \A d \in Change : "RolledBack" \in {changes[d], log.state[d]} => d \in LogChanges(log)
    BY <1>2 DEF Known, LogChanges, Absent
  <2>2. ~(Appending("ChangeUpsert")' /\ call'.event.state = "RolledBack")
    BY <1>7
  <2> QED BY <1>3, <1>4, <2>1, <2>2 DEF DriftInv, RolledInv
<1>11. VerifiedInv'
  <2>1. \A d \in Known : IsHead(d)' <=> IsHead(d)
    BY <1>1, <1>2, <1>3, <1>5 DEF IsHead, Head
  <2>2. Heads' = Heads /\ Heads \subseteq Known
    BY <1>1, <2>1 DEF Heads
  <2>3. \A h \in Heads : changes[h] = "AppliedVerified" => Applied(h)
    <3>1. Ahead # "error" BY <1>7
    <3> QED BY <3>1 DEF DriftInv, VerifiedInv
  <2>4. \A h \in Heads' : changes'[h] = "AppliedVerified" => Applied(h)'
    BY <1>2, <1>3, <1>4, <2>2, <2>3
  <2>5. CASE call'.at = "append"
    <3>1. /\ call'.then = "apply" /\ call'.event.state = "IntentDurable" /\ call'.event.type = "ChangeUpsert"
          /\ Ahead' = "apply" /\ "apply" \notin ReviseLocation
      BY <2>5 DEF Ahead, ReviseLocation, RestoreLocation
    <3>2. ~Revising'
      BY <3>1 DEF Revising
    <3>3. Creating'
      <4>1. call'.event.change \notin Known'
        BY <1>1, <1>2, <2>5
      <4> QED BY <2>5, <3>1, <4>1 DEF Creating, Appending
    <3> QED BY <2>4, <2>5, <3>1, <3>2, <3>3 DEF VerifiedInv
  <2>6. CASE call'.at = "reviseCheck"
    <3>1. IsHead(call'.change) /\ changes[call'.change] = "AppliedVerified"
      BY <2>6
    <3>2. call'.change \in Known
      BY <3>1 DEF IsHead, Head, ResourceHead
    <3>3. IsHead(call.change)'
      BY <1>1, <1>2, <1>3, <1>5, <3>1, <3>2 DEF IsHead, Head
    <3>4. changes'[call'.change] = "AppliedVerified" /\ ~Appending("ChangeUpsert")'
      BY <1>3, <2>6, <3>1 DEF Appending
    <3> QED BY <2>4, <2>6, <3>3, <3>4 DEF VerifiedInv
  <2> QED BY <2>5, <2>6
<1>12. ReplayInv'
  BY <1>3 DEF ReplayInv
<1>13. RestoreInv'
  BY DEF RestoreInv
<1> QED BY <1>8, <1>9, <1>10, <1>11, <1>12, <1>13 DEF DriftInv

LEMMA FirstRecordShape ==
  ASSUME NEW k \in Call, NEW c \in Change, NEW op, NEW head, FirstRecord(k, c, op, head)
  PROVE  /\ call'.at = "append" /\ call'.then = "apply" /\ call'.op = k.op
         /\ call'.change = c /\ call'.event.change = c
         /\ call'.event.type = "ChangeUpsert" /\ call'.event.state = "IntentDurable"
<1> DEFINE k2 == [k EXCEPT !.change = c]
<1> DEFINE ev == ChangeUpsert(c, "IntentDurable", FALSE, op, head)
<1>1. k2 \in Call /\ k2.op = k.op /\ k2.change = c
  BY DEF Call
<1>2. ev.type = "ChangeUpsert" /\ ev.state = "IntentDurable" /\ ev.change = c
  BY DEF ChangeUpsert
<1>3. AppendThen(k2, ev, op, "apply", FALSE)
  BY DEF FirstRecord
<1> HIDE DEF k2, ev
<1>4. PICK eff : AppendThen(k2, ev, op, "apply", eff)
  BY <1>3
<1>5. call'.at = "append" /\ call'.event = ev /\ call'.then = "apply"
      /\ call'.op = k2.op /\ call'.change = k2.change
  BY <1>1, <1>4, AppendShape, SMT
<1> QED BY <1>1, <1>2, <1>5

LEMMA RevisePrepareDrift ==
  ASSUME Under, RevisePrepare
  PROVE  DriftInv'
<1>0. call \in Call /\ call.at = "revisePrepare" /\ TypeOK /\ Structure /\ DriftInv
      /\ Ahead = call.at /\ ~Creating
  BY DEF Under, TypeOK, KernelTypeOK, RevisePrepare, Ahead, Creating, Appending
<1>1. call.op = "experiment"
  <2>1. "revisePrepare" \in Visits(call.op) /\ call.op \in Operation
    BY <1>0 DEF Structure, ControlInv, Call
  <2> QED BY <2>1 DEF Visits, Operation, RestoreLocation, ApplyLocation
<1>2. phase = "Experimenting" /\ Ahead # "error" /\ call.at \notin {"error", "outcomeUnknown", "append"}
  BY <1>0, <1>1, ExperimentPhase DEF Under, Structure
<1>3. Ahead \in ReviseLocation /\ Ahead \in ChangeLocation /\ Revising
  BY <1>0, <1>1 DEF ReviseLocation, ChangeLocation, Revising
<1>4. /\ call.change \in Known /\ IsNextChange(call.revision) /\ call.revision \in Change
      /\ prepared[call.revision].resource = prepared[call.change].resource
  <2>1. call.revision \in Change
    BY <1>0 DEF Call
  <2> QED BY <1>0, <1>3, <2>1 DEF Structure, ChangeInv
<1>5. \A h \in Revised : changes[h] # "AppliedVerified"
  <2>1. changes[call.change] = "BaselineRestored"
    BY <1>0, <1>2 DEF DriftInv, VerifiedInv
  <2> QED BY <2>1 DEF Revised
<1>6. CASE At("error") /\ UNCHANGED prepared
  <2>1. Calm
    <3>1. UNCHANGED <<environment, log, prepared, changes, candidate>>
      BY <1>6 DEF RevisePrepare
    <3> QED BY <3>1, UnderStill
  <2>2. /\ call'.at = "error" /\ call'.op = call.op /\ call'.todo = call.todo
        /\ call'.change = call.change
    BY <1>0, <1>6, MoveShape DEF At
  <2>3. "error" \notin RestoreLocation
    BY DEF RestoreLocation
  <2> QED BY <2>1, <2>2, <2>3, MoveDrift
<1>7. CASE /\ prepared' = [prepared EXCEPT ![call.revision].baseline = Holds(call.change)]
           /\ Holds(call.change) = Baseline
           /\ FirstRecord(call, call.revision, NextOperationId("revision"), {call.change})
  <2>1. Rewrites(call.revision)
    BY <1>0, <1>4, <1>7 DEF Under, RevisePrepare, Rewrites, TypeOK, KernelTypeOK, environment
  <2>2. prepared'[call.revision].resource = prepared[call.change].resource
    BY <1>0, <1>4, <1>7, SMT DEF TypeOK, KernelTypeOK, PreparedMutation
  <2>3. AtOrigin(call.change)
    BY <1>0, <1>4, <1>7, KnownIsLogged, BaselineMeansOrigin DEF AtBaseline, Baseline
  <2>4. prepared'[call.revision].resource \notin Touched =>
          world[prepared'[call.revision].resource] = origin[prepared'[call.revision].resource]
    BY <2>2, <2>3 DEF AtOrigin, Clear, Touched
  <2>5. /\ call'.at = "append" /\ call'.then = "apply" /\ call'.op = "experiment"
        /\ call'.change = call.revision /\ call'.event.change = call.revision
        /\ call'.event.type = "ChangeUpsert" /\ call'.event.state = "IntentDurable"
    BY <1>0, <1>1, <1>4, <1>7, FirstRecordShape
  <2> QED BY <1>0, <1>2, <1>4, <1>5, <2>1, <2>4, <2>5, RewriteDrift
<1> QED BY <1>6, <1>7 DEF RevisePrepare

LEMMA PrepareDrift ==
  ASSUME TypeOK, Structure, DriftInv, UNCHANGED <<phase, retry>>, phase = "Experimenting", Idle,
         NEW r \in Resource, NEW d \in Value, NEW c \in Change, Prepare(r, d, c)
  PROVE  DriftInv'
<1>0. /\ Calls("experiment") \in Call /\ call.at = "ok" /\ Calls("experiment").op = "experiment"
      /\ call.at \notin {"error", "outcomeUnknown", "append"}
  BY ControlTypes DEF Operation, Calls, IdleCall, Idle
<1>1. Rewrites(c) /\ IsNextChange(c)
  BY DEF Prepare, Rewrites, environment, TypeOK, KernelTypeOK
<1>2. prepared'[c].resource = r
  <2>1. prepared'[c] = [resource |-> r, baseline |-> world[r], desired |-> d]
    BY DEF Prepare, TypeOK, KernelTypeOK
  <2> QED BY <2>1, SMT
<1>3. \A h \in Revised : changes[h] # "AppliedVerified"
  <2>1. ~Revising
    BY <1>0 DEF Revising, Ahead, ReviseLocation, RestoreLocation
  <2> QED BY <2>1 DEF Revised
<1>4. CASE /\ Head(r) = {}
           /\ FirstRecord(Calls("experiment"), c, NextOperationId("experiment"), {})
  <2>1. prepared'[c].resource \notin Touched =>
          world[prepared'[c].resource] = origin[prepared'[c].resource]
    BY <1>2, <1>4, UntouchedResource DEF Touched
  <2>2. /\ call'.at = "append" /\ call'.then = "apply" /\ call'.op = "experiment"
        /\ call'.change = c /\ call'.event.change = c
        /\ call'.event.type = "ChangeUpsert" /\ call'.event.state = "IntentDurable"
    <3> QED BY <1>0, <1>4, FirstRecordShape
  <2> QED BY <1>0, <1>1, <1>3, <2>1, <2>2, RewriteDrift
<1>5. CASE \E h \in Head(r) :
             call' = [Calls("experiment") EXCEPT
                        !.at = "reviseCheck", !.change = h, !.revision = c]
  <2>1. PICK h \in Head(r) :
               call' = [Calls("experiment") EXCEPT
                          !.at = "reviseCheck", !.change = h, !.revision = c]
    BY <1>5
  <2>2. call'.at = "reviseCheck" /\ call'.op = "experiment" /\ call'.change = h
    BY <1>0, <2>1 DEF Call
  <2>3. prepared[h].resource = r
    BY DEF Head, ResourceHead
  <2>4. IsHead(call'.change) /\ changes[call'.change] = "AppliedVerified"
    BY <2>2, <2>3 DEF IsHead, Prepare
  <2> QED BY <1>0, <1>1, <1>3, <2>2, <2>4, RewriteDrift
<1> QED BY <1>4, <1>5 DEF Prepare

---------------------------------------------------------------------------
(* The coordinator. *)

\* An operation is over, and the coordinator calls the next one.
LEMMA StartDrift ==
  ASSUME TypeOK, Structure, DriftInv, SameData, InEpisode, InEpisode',
         call'.at \in {"loop", "error"},
         phase' \in {"Experimenting", "CommitPending"} => phase \in {"Experimenting", "CommitPending"},
         VerifiedInv', ReplayInv'
  PROVE  DriftInv'
<1>1. /\ \A t : ~Appending(t)' /\ ~Creating' /\ InHand' = {}
      /\ call'.at # "append" /\ call'.at # "matchDesired"
  BY DEF Appending, Creating, InHand, RestoreLocation
<1>2. Live = Known /\ Live' = Known /\ LogChanges(log') = LogChanges(log)
  BY DEF Live, Active, SameData, Known
<1>3. FlagInv'
  BY <1>1 DEF DriftInv, FlagInv, SameData, Clear, Touched
<1>4. HeadInv'
  <2>1. \A c : AtOrigin(c)' <=> AtOrigin(c)
    BY DEF AtOrigin, Clear, Touched, SameData
  <2>2. \A c, r : Explains(c, r)' <=> Explains(c, r)
    BY DEF Explains, SameData
  <2> QED BY <1>1, <1>2, <2>1, <2>2 DEF DriftInv, HeadInv, Touched, SameData
<1>5. RolledInv'
  <2>1. \A c : AtOrigin(c)' <=> AtOrigin(c)
    BY DEF AtOrigin, Clear, Touched, SameData
  <2> QED BY <1>1, <2>1 DEF DriftInv, RolledInv, SameData
<1>6. RestoreInv'
  BY <1>1 DEF RestoreInv
<1> QED BY <1>3, <1>4, <1>5, <1>6 DEF DriftInv

\* The episode ends, and nothing else happens.
LEMMA EndDrift ==
  ASSUME DriftInv, InEpisode, UNCHANGED kernelVars,
         phase' \in {"RecoveryRequired", "Committed", "Clean"}
  PROVE  DriftInv'
<1>1. UNCHANGED <<world, origin, drifted, normalised, log, prepared, changes, candidate, call>>
  BY DEF kernelVars, environment, memory
<1>2. InEpisode' /\ phase' \notin {"Experimenting", "CommitPending"}
  BY DEF InEpisode, EpisodePhase
<1>3. Live' = Live
  BY <1>1, <1>2 DEF Live, Active, Known
<1>4. \A c : AtOrigin(c)' <=> AtOrigin(c)
  BY <1>1 DEF AtOrigin, Clear, Touched
<1>5. \A c, r : Explains(c, r)' <=> Explains(c, r)
  BY <1>1 DEF Explains
<1>6. (Creating' <=> Creating) /\ (\A t : Appending(t)' <=> Appending(t)) /\ InHand' = InHand
  BY <1>1 DEF Creating, Appending, Known, InHand
<1>7. AtOrigin(call.change)' <=> AtOrigin(call.change)
  BY <1>1 DEF AtOrigin, Clear, Touched
<1>8. FlagInv'
  BY <1>1, <1>6 DEF DriftInv, FlagInv, Clear, Touched
<1>9. HeadInv'
  BY <1>1, <1>3, <1>4, <1>5, <1>6, <1>7 DEF DriftInv, HeadInv, Touched
<1>10. RolledInv'
  BY <1>1, <1>2, <1>4, <1>6, <1>7 DEF DriftInv, RolledInv
<1>11. VerifiedInv' /\ ReplayInv'
  BY <1>2 DEF VerifiedInv, ReplayInv
<1>12. RestoreInv'
  BY <1>1, <1>6 DEF DriftInv, RestoreInv, Applied, Clear, Touched, AtDesired, Holds
<1> QED BY <1>8, <1>9, <1>10, <1>11, <1>12 DEF DriftInv

\* The control state of an operation that starts.
LEMMA CallShape ==
  ASSUME NEW o \in Operation, NEW s,
         \/ call' = [Calls(o) EXCEPT !.at = "error"]
         \/ call' = [Calls(o) EXCEPT !.at = "loop", !.todo = s]
  PROVE  /\ call'.op = o /\ call'.at \in {"loop", "error"} /\ Ahead' = call'.at
         /\ call'.at = "loop" => call'.todo = s
         /\ InHand' = {} /\ \A t : ~Appending(t)'
<1>1. Calls(o) \in Call /\ Calls(o).op = o
  BY ControlTypes DEF Calls, IdleCall
<1>2. call'.op = o /\ call'.at \in {"loop", "error"} /\ (call'.at = "loop" => call'.todo = s)
  <2>1. CASE call' = [Calls(o) EXCEPT !.at = "error"]
    <3>1. call'.op = o /\ call'.at = "error"
      BY <1>1, <2>1 DEF Call
    <3> QED BY <3>1
  <2>2. CASE call' = [Calls(o) EXCEPT !.at = "loop", !.todo = s]
    BY <1>1, <2>2 DEF Call
  <2> QED BY <2>1, <2>2
<1>3. call'.at # "append" /\ call'.at \notin RestoreLocation
  BY <1>2 DEF RestoreLocation
<1> QED BY <1>2, <1>3 DEF Ahead, InHand, Appending

LEMMA RollbackDrift ==
  ASSUME TypeOK, Structure, DriftInv, InEpisode, phase' = "RollingBack", RollbackAll
  PROVE  DriftInv'
<1>1. SameData
  BY DEF RollbackAll, StartLoop, OnlyControl, SameData, environment, memory
<1>2. \/ call' = [Calls("rollback_all") EXCEPT !.at = "error"]
      \/ call' = [Calls("rollback_all") EXCEPT !.at = "loop", !.todo = Known]
  BY DEF RollbackAll, StartLoop
<1>3. "rollback_all" \in Operation /\ phase' \notin {"Experimenting", "CommitPending"} /\ InEpisode'
  BY DEF Operation, InEpisode, EpisodePhase
<1>4. call'.at \in {"loop", "error"}
  BY <1>2, <1>3, CallShape
<1>5. VerifiedInv' /\ ReplayInv'
  BY <1>3 DEF VerifiedInv, ReplayInv
<1> QED BY <1>1, <1>3, <1>4, <1>5, StartDrift

LEMMA MutateDrift ==
  ASSUME TypeOK, Structure, DriftInv, Mutate
  PROVE  DriftInv'
<1>1. phase = "Experimenting" /\ phase' = phase /\ UNCHANGED <<phase, retry>> /\ Idle
  BY DEF Mutate
<1>2. ASSUME NEW r \in Resource, NEW d \in Value, NEW c \in Change, Prepare(r, d, c)
      PROVE  DriftInv'
  BY <1>1, <1>2, PrepareDrift
<1>3. ASSUME SameData, call' = [Calls("experiment") EXCEPT !.at = "error"] PROVE DriftInv'
  <2>1. "experiment" \in Operation /\ InEpisode /\ InEpisode' /\ phase' # "CommitPending"
        /\ phase \in {"Experimenting", "CommitPending"}
    BY <1>1 DEF Operation, InEpisode, EpisodePhase
  <2>2. call'.at = "error" /\ Ahead' = call'.at
    <3>1. call'.at = "error"
      BY <1>3 DEF Calls, IdleCall
    <3> QED BY <3>1 DEF Ahead
  <2>3. VerifiedInv' /\ ReplayInv'
    BY <2>1, <2>2 DEF VerifiedInv, ReplayInv
  <2>4. call'.at \in {"loop", "error"}
    BY <2>2
  <2> QED BY <1>3, <2>1, <2>3, <2>4, StartDrift
<1>4. ASSUME ExperimentRejected PROVE DriftInv'
  <2>1. SameData
    BY <1>4 DEF ExperimentRejected, OnlyControl, SameData, environment, memory
  <2> QED BY <1>3, <1>4, <2>1 DEF ExperimentRejected
<1>5. ASSUME NEW r \in Resource, NEW d \in Value, PrepareRejected(r, d) PROVE DriftInv'
  <2>1. SameData
    BY <1>5 DEF PrepareRejected, OnlyOperationId, SameData, environment
  <2> QED BY <1>3, <1>5, <2>1 DEF PrepareRejected
<1> QED BY <1>2, <1>4, <1>5 DEF Mutate

\* canonical_candidate: the baseline has still to be restored, change by change.
LEMMA RequestCommitDrift ==
  ASSUME TypeOK, Structure, DriftInv, NEW s \in SUBSET Change, RequestCommit(s)
  PROVE  DriftInv'
<1>1. SameData /\ phase = "Experimenting" /\ phase' = "CommitPending"
  BY DEF RequestCommit, SameData, environment, memory
<1>2. call' = [Calls("restore_baseline") EXCEPT !.at = "loop", !.todo = Known]
  BY DEF RequestCommit
<1>3. InEpisode /\ InEpisode' /\ "restore_baseline" \in Operation
  BY <1>1 DEF InEpisode, EpisodePhase, Operation
<1>4. /\ call'.op = "restore_baseline" /\ Ahead' = call'.at /\ call'.at \in {"loop", "error"}
      /\ call'.at = "loop" => call'.todo = Known
      /\ \A t : ~Appending(t)'
  BY <1>2, <1>3, CallShape
<1>5. Known' = Known
  BY <1>1 DEF SameData, Known
<1>6. ReplayInv'
  BY <1>4, <1>5 DEF ReplayInv
<1>7. VerifiedInv'
  BY <1>1 DEF VerifiedInv
<1> QED BY <1>1, <1>3, <1>4, <1>6, <1>7, StartDrift

LEMMA EvaluateDrift ==
  ASSUME TypeOK, Structure, DriftInv, EvaluateCandidate
  PROVE  DriftInv'
<1>1. /\ SameData /\ phase = "CommitPending" /\ phase' = phase
      /\ call.at = "ok" /\ call.op = "restore_baseline"
  BY DEF EvaluateCandidate, ReplayCandidate, StartLoop, OnlyControl, SameData,
               environment, memory, Idle
<1>2. \/ call' = [Calls("replay_check") EXCEPT !.at = "loop", !.todo = Known]
      \/ call' = [Calls("replay") EXCEPT !.at = "error"]
  BY DEF EvaluateCandidate, ReplayCandidate, StartLoop
<1>3. InEpisode /\ InEpisode' /\ "replay_check" \in Operation /\ "replay" \in Operation
  BY <1>1 DEF InEpisode, EpisodePhase, Operation
<1>4. /\ call'.at \in {"loop", "error"} /\ Ahead' = call'.at /\ \A t : ~Appending(t)'
      /\ call'.at = "loop" => call'.op = "replay_check"
  <2>1. CASE call' = [Calls("replay_check") EXCEPT !.at = "loop", !.todo = Known]
    BY <1>3, <2>1, CallShape
  <2>2. CASE call' = [Calls("replay") EXCEPT !.at = "error"]
    <3>1. /\ call'.at \in {"loop", "error"} /\ Ahead' = call'.at /\ \A t : ~Appending(t)'
      BY <1>3, <2>2, CallShape
    <3>2. Calls("replay") \in Call
      BY <1>3, ControlTypes
    <3>3. call'.at = "error"
      BY <2>2, <3>2 DEF Call
    <3> QED BY <3>1, <3>3
  <2> QED BY <1>2, <2>1, <2>2
<1>5. \A c \in Known : AtOrigin(c)
  <2>1. Ahead = "ok" /\ InHand = {}
    BY <1>1 DEF Ahead, InHand, RestoreLocation
  <2>2. Ahead \notin {"error", "outcomeUnknown"}
    BY <2>1
  <2>3. call.todo = {} /\ \A c \in Known \ (call.todo \cup InHand) : AtOrigin(c)
    BY <1>1, <2>1, <2>2 DEF DriftInv, ReplayInv
  <2> QED BY <2>1, <2>3
<1>6. \A c \in Known' : AtOrigin(c)'
  <2>1. \A c : AtOrigin(c)' <=> AtOrigin(c)
    BY <1>1 DEF AtOrigin, Clear, Touched, SameData
  <2> QED BY <1>1, <1>5, <2>1 DEF SameData, Known
<1>7. ReplayInv'
  BY <1>4, <1>6 DEF ReplayInv
<1>8. VerifiedInv' /\ phase \in {"Experimenting", "CommitPending"}
  BY <1>1 DEF VerifiedInv
<1> QED BY <1>1, <1>3, <1>4, <1>7, <1>8, StartDrift

LEMMA FinalizeImprovedDrift ==
  ASSUME TypeOK, Structure, DriftInv, FinalizeImproved
  PROVE  DriftInv'
<1>1. /\ SameData /\ phase = "CommitPending" /\ phase' = phase
      /\ call.at = "ok" /\ call.op = "replay" /\ candidate' = candidate
  BY DEF FinalizeImproved, FinalizeCandidate, StartLoop, OnlyControl, SameData,
               environment, memory, Idle
<1>2. \/ call' = [Calls("finalize_check") EXCEPT !.at = "loop", !.todo = Heads]
      \/ call' = [Calls("finalize") EXCEPT !.at = "error"]
  BY DEF FinalizeImproved, FinalizeCandidate, StartLoop
<1>3. InEpisode /\ InEpisode' /\ "finalize_check" \in Operation /\ "finalize" \in Operation
  BY <1>1 DEF InEpisode, EpisodePhase, Operation
<1>4. /\ call'.at \in {"loop", "error"} /\ Ahead' = call'.at /\ \A t : ~Appending(t)'
      /\ call'.at = "loop" => call'.op = "finalize_check" /\ call'.todo = Heads
  <2>1. CASE call' = [Calls("finalize_check") EXCEPT !.at = "loop", !.todo = Heads]
    BY <1>3, <2>1, CallShape
  <2>2. CASE call' = [Calls("finalize") EXCEPT !.at = "error"]
    <3>1. /\ call'.at \in {"loop", "error"} /\ Ahead' = call'.at /\ \A t : ~Appending(t)'
      BY <1>3, <2>2, CallShape
    <3>2. Calls("finalize") \in Call
      BY <1>3, ControlTypes
    <3>3. call'.at = "error"
      BY <2>2, <3>2 DEF Call
    <3> QED BY <3>1, <3>3
  <2> QED BY <1>2, <2>1, <2>2
<1>5. \A c \in Heads : Clear(c) => AtCommitValue(c)
  <2>1. Ahead = "ok" /\ ~Appending("ChangeUpsert")
    BY <1>1 DEF Ahead, Appending
  <2>2. Ahead \notin {"error", "outcomeUnknown"} /\ Ahead \notin ApplyLocation
    BY <2>1 DEF ApplyLocation
  <2>3. call.todo = {} /\ \A c \in Heads \ Unplayed : Clear(c) => AtCommitValue(c)
    BY <1>1, <2>1, <2>2 DEF DriftInv, ReplayInv
  <2>4. Unplayed = {}
    BY <1>1, <2>1, <2>2, <2>3 DEF Unplayed
  <2> QED BY <2>3, <2>4
<1>6. Heads' = Heads /\ \A c \in Heads : Clear(c)' => AtCommitValue(c)'
  <2>1. Heads' = Heads
    BY <1>1 DEF SameData, Heads, IsHead, Head, Known
  <2>2. \A c : Clear(c)' <=> Clear(c)
    BY <1>1 DEF SameData, Clear, Touched
  <2>3. \A c : AtCommitValue(c)' <=> AtCommitValue(c)
    BY <1>1 DEF SameData, AtCommitValue, AtDesired, AtBaseline, Holds
  <2> QED BY <1>5, <2>1, <2>2, <2>3
<1>7. ReplayInv'
  BY <1>4, <1>6 DEF ReplayInv
<1>8. VerifiedInv' /\ phase \in {"Experimenting", "CommitPending"}
  BY <1>1 DEF VerifiedInv
<1> QED BY <1>1, <1>3, <1>4, <1>7, <1>8, StartDrift

LEMMA EpisodeDrift ==
  ASSUME TypeOK, Structure, DriftInv, EpisodeStep
  PROVE  DriftInv'
<1>1. ASSUME \/ BeginFailed \/ CommitOutcomeUnknown \/ CommitCompleted
             \/ RollbackCompleted \/ RollbackFailed
      PROVE  DriftInv'
  <2>1. UNCHANGED kernelVars
    BY <1>1 DEF BeginFailed, CommitOutcomeUnknown, CommitCompleted, RollbackCompleted,
                       RollbackFailed
  <2>2. InEpisode /\ phase' \in {"RecoveryRequired", "Committed", "Clean"}
    BY <1>1 DEF BeginFailed, CommitOutcomeUnknown, CommitCompleted, RollbackCompleted,
                RollbackFailed, InEpisode, EpisodePhase
  <2> QED BY <2>1, <2>2, EndDrift
<1>2. ASSUME \/ EvaluationRejects \/ Abort \/ FinishSession \/ OperationFailed
             \/ RollbackRetried
      PROVE  DriftInv'
  <2>1. phase' = "RollingBack" /\ RollbackAll
    BY <1>2 DEF EvaluationRejects, Abort, FinishSession, OperationFailed,
                       RollbackRetried, StartRollback
  <2>2. InEpisode
    BY <1>2 DEF EvaluationRejects, Abort, FinishSession, OperationFailed, RollbackRetried,
                InEpisode, EpisodePhase
  <2> QED BY <2>1, <2>2, RollbackDrift
<1> QED BY <1>1, <1>2, MutateDrift, EvaluateDrift, FinalizeImprovedDrift,
           RequestCommitDrift DEF EpisodeStep

---------------------------------------------------------------------------
(* The process, and outsiders. *)

\* A restart finds in the log the head of every resource that the transaction
\* has left changed.
LEMMA LogHeads ==
  ASSUME TypeOK, Structure, DriftInv, NEW r \in Resource \ Touched, world[r] # origin[r]
  PROVE  \E c \in ResourceHead(prepared, LogChanges(log), r) : Explains(c, r)
<1>1. PICK c \in ResourceHead(prepared, Live, r) : Explains(c, r)
  BY DEF DriftInv, HeadInv
<1>2. Live \subseteq LogChanges(log)
  BY DEF Live, Structure, MemoryInv
<1>3. /\ c \in LogChanges(log) /\ prepared[c].resource = r
      /\ \A d \in Live : prepared[d].resource = r => d <= c
  BY <1>1, <1>2 DEF ResourceHead
<1>4. ASSUME NEW d \in LogChanges(log), prepared[d].resource = r
      PROVE  d <= c
  <2>1. ASSUME d \notin Live PROVE FALSE
    <3>1. AtOrigin(d) /\ Clear(d)
      BY <1>4, <2>1 DEF DriftInv, HeadInv, Clear, Touched
    <3> QED BY <1>4, <3>1 DEF AtOrigin
  <2> QED BY <1>3, <1>4, <2>1
<1>5. c \in ResourceHead(prepared, LogChanges(log), r)
  BY <1>3, <1>4 DEF ResourceHead
<1> QED BY <1>1, <1>5

LEMMA RestartDrift ==
  ASSUME TypeOK, Structure, DriftInv, Restart
  PROVE  DriftInv'
<1>1. /\ UNCHANGED <<world, origin, drifted, normalised, log, prepared, changes, call>>
      /\ call = IdleCall /\ phase = "Down" /\ phase' = "EarlyPass"
  BY DEF Restart, kernelVars, environment, memory, Structure, ControlInv
<1>2. call.at = "ok" /\ call.op = "begin"
  BY <1>1 DEF IdleCall
<1>3. Live' = Live /\ phase' \notin {"Experimenting", "CommitPending"}
  BY <1>1, <1>2 DEF Live, Active, InEpisode, EpisodePhase
<1>4. ~Creating' /\ (\A t : ~Appending(t)') /\ call'.at = "ok" /\ call'.op = "begin"
  BY <1>1, <1>2 DEF Creating, Appending
<1>5. FlagInv'
  BY <1>1, <1>4 DEF DriftInv, FlagInv, Clear, Touched
<1>6. \A c : AtOrigin(c)' <=> AtOrigin(c)
  BY <1>1 DEF AtOrigin, Clear, Touched
<1>7. HeadInv'
  <2>1. \A c, r : Explains(c, r)' <=> Explains(c, r)
    BY <1>1 DEF Explains
  <2> QED BY <1>1, <1>3, <1>4, <1>6, <2>1 DEF DriftInv, HeadInv, Touched
<1>8. RolledInv'
  BY <1>1, <1>3, <1>4, <1>6 DEF DriftInv, RolledInv
<1>9. VerifiedInv' /\ ReplayInv'
  BY <1>3 DEF VerifiedInv, ReplayInv
<1>10. RestoreInv'
  BY <1>4 DEF RestoreInv
<1> QED BY <1>5, <1>7, <1>8, <1>9, <1>10 DEF DriftInv

\* recover takes every record for what the log says, or for an unfinished one.
LEMMA RecoverDrift ==
  ASSUME TypeOK, Structure, DriftInv, RecoverPending
  PROVE  DriftInv'
<1>1. /\ UNCHANGED <<world, origin, drifted, normalised, log, prepared>>
      /\ phase \in {"EarlyPass", "Gate"} /\ phase' = phase /\ call.op = "begin"
      /\ \A c \in Change : changes'[c] = RecoveredState(log, c)
      /\ call' = [Calls("rollback_all") EXCEPT !.at = "loop", !.todo = LogChanges(log)]
  BY DEF RecoverPending, RecoverAndRollback, Rebuild, environment
<1>2. /\ call'.op = "rollback_all" /\ call'.at \in {"loop", "error"}
      /\ InHand' = {} /\ \A t : ~Appending(t)'
  <2>1. "rollback_all" \in Operation
    BY DEF Operation
  <2> QED BY <1>1, <2>1, CallShape
<1>3. Known' = LogChanges(log)
  <2>1. \A c \in Change : log.intent[c] # {} => log.state[c] # Absent
    BY DEF Structure, MemoryInv, PendingOperations, LogChanges
  <2>2. \A c \in Change : RecoveredState(log, c) # Absent <=> log.state[c] # Absent
    BY <2>1 DEF RecoveredState, Absent
  <2> QED BY <1>1, <2>2 DEF Known, LogChanges
<1>4. Live' = LogChanges(log) /\ Live = LogChanges(log)
  BY <1>1, <1>2, <1>3 DEF Live, Active, InEpisode, EpisodePhase
<1>5. /\ phase' \notin {"Experimenting", "CommitPending"} /\ ~Creating'
      /\ call'.at # "matchDesired" /\ call'.at # "append"
  BY <1>1, <1>2 DEF Creating
<1>6. \A c \in Change, st \in {"DriftDetected", "RolledBack"} :
        st \in {changes'[c], log'.state[c]} => log.state[c] = st
  BY <1>1 DEF RecoveredState
<1>7. FlagInv'
  <2>1. "DriftDetected" \in {"DriftDetected", "RolledBack"}
    OBVIOUS
  <2> QED BY <1>1, <1>2, <1>6, <2>1 DEF DriftInv, FlagInv, Clear, Touched
<1>8. \A c : AtOrigin(c)' <=> AtOrigin(c)
  BY <1>1 DEF AtOrigin, Clear, Touched
<1>9. HeadInv'
  <2>1. \A c, r : Explains(c, r)' <=> Explains(c, r)
    BY <1>1 DEF Explains
  <2> QED BY <1>1, <1>4, <1>5, <2>1 DEF DriftInv, HeadInv, Touched
<1>10. RolledInv'
  <2>1. "RolledBack" \in {"DriftDetected", "RolledBack"}
    OBVIOUS
  <2> QED BY <1>1, <1>2, <1>5, <1>6, <1>8, <2>1 DEF DriftInv, RolledInv
<1>11. VerifiedInv' /\ ReplayInv'
  BY <1>5 DEF VerifiedInv, ReplayInv
<1>12. RestoreInv'
  BY <1>2, <1>5 DEF RestoreInv
<1> QED BY <1>7, <1>9, <1>10, <1>11, <1>12 DEF DriftInv

\* An outsider can only take a resource out of what the records answer for.
LEMMA AsideDrift ==
  ASSUME TypeOK, Structure, DriftInv,
         UNCHANGED <<origin, log, prepared, changes, candidate, call, phase>>,
         \A q \in Resource \ Touched' : world'[q] = world[q] /\ q \in Resource \ Touched
  PROVE  DriftInv'
<1>1. UNCHANGED <<origin, log, prepared, changes, candidate, call, phase>>
  OBVIOUS
<1>2. \A q \in Resource \ Touched' : world'[q] = world[q] /\ q \in Resource \ Touched
  OBVIOUS
<1>3. /\ Known' = Known /\ Live' = Live /\ Heads' = Heads /\ (Creating' <=> Creating)
      /\ (Revising' <=> Revising) /\ Ahead' = Ahead /\ InHand' = InHand
      /\ Revised' = Revised /\ Unplayed' = Unplayed /\ (\A t : Appending(t)' <=> Appending(t))
  BY <1>1 DEF Known, Live, Active, InEpisode, Heads, IsHead, Head, Creating, Appending,
                     Revising, Ahead, InHand, Revised, Unplayed
<1>4. \A c \in Change : Clear(c)' =>
        Clear(c) /\ world'[prepared[c].resource] = world[prepared[c].resource]
  <2>1. \A c \in Change : prepared[c].resource \in Resource
    BY DEF TypeOK, KernelTypeOK, PreparedMutation
  <2> QED BY <1>1, <1>2, <2>1 DEF Clear, Touched
<1>5. call.change \in Change /\ Heads \subseteq Change /\ Known \subseteq Change
  BY DEF TypeOK, KernelTypeOK, Call, Heads, Known
<1>6. \A c \in Change : AtOrigin(c) => AtOrigin(c)'
  BY <1>1, <1>4 DEF AtOrigin
<1>7. \A c \in Change : Applied(c) => Applied(c)'
  BY <1>1, <1>4 DEF Applied, AtDesired, Holds
<1>8. \A c \in Change :
        (Clear(c) => AtCommitValue(c)) => (Clear(c) => AtCommitValue(c))'
  BY <1>1, <1>4 DEF AtCommitValue, AtDesired, AtBaseline, Holds
<1>9. /\ AtOrigin(call.change) => AtOrigin(call.change)'
      /\ Applied(call.change) => Applied(call.change)'
      /\ ~Clear(call.change) => ~Clear(call.change)'
  BY <1>1, <1>4, <1>5 DEF AtOrigin, Applied, AtDesired, Holds
<1>10. FlagInv'
  BY <1>1, <1>3, <1>4, <1>9 DEF DriftInv, FlagInv
<1>11. HeadInv'
  <2>1. \A c, q : q \in Resource \ Touched' /\ Explains(c, q) => Explains(c, q)'
    BY <1>1, <1>2 DEF Explains, Touched
  <2>2. \A c \in LogChanges(log') \ Live' : AtOrigin(c)'
    <3>1. LogChanges(log) \subseteq Change /\ LogChanges(log') = LogChanges(log)
      BY <1>1 DEF LogChanges
    <3> QED BY <1>3, <1>6, <3>1 DEF DriftInv, HeadInv
  <2> QED BY <1>1, <1>2, <1>3, <1>9, <2>1, <2>2 DEF DriftInv, HeadInv
<1>12. RolledInv'
  BY <1>1, <1>3, <1>6, <1>9 DEF DriftInv, RolledInv
<1>13. VerifiedInv'
  <2>1. IsHead(call.change)' <=> IsHead(call.change)
    BY <1>1 DEF IsHead, Head, Known
  <2> QED BY <1>1, <1>3, <1>5, <1>7, <1>9, <2>1 DEF DriftInv, VerifiedInv
<1>14. ReplayInv'
  <2>1. ASSUME call.op = "restore_baseline", phase = "CommitPending",
               Ahead \notin {"error", "outcomeUnknown"}
        PROVE  /\ \A c \in Known \ (call.todo \cup InHand) : AtOrigin(c)'
               /\ Appending("ChangeUpsert") => AtOrigin(call.change)'
    BY <1>5, <1>6, <1>9, <2>1 DEF DriftInv, ReplayInv
  <2>2. ASSUME call.op = "replay_check", phase = "CommitPending",
               Ahead \notin {"error", "outcomeUnknown"}
        PROVE  \A c \in Known : AtOrigin(c)'
    BY <1>5, <1>6, <2>2 DEF DriftInv, ReplayInv
  <2>3. ASSUME call.op \in {"replay", "finalize_check", "finalize", "finalize_recheck"},
               phase = "CommitPending", Ahead \notin {"error", "outcomeUnknown"}
        PROVE  \A c \in Heads \ Unplayed : (Clear(c) => AtCommitValue(c))'
    BY <1>5, <1>8, <2>3 DEF DriftInv, ReplayInv
  <2> QED BY <1>1, <1>3, <1>9, <2>1, <2>2, <2>3 DEF DriftInv, ReplayInv
<1>15. RestoreInv'
  BY <1>1, <1>3, <1>9 DEF DriftInv, RestoreInv
<1> QED BY <1>10, <1>11, <1>12, <1>13, <1>14, <1>15 DEF DriftInv

LEMMA OutsiderDrift ==
  ASSUME TypeOK, Structure, DriftInv, Drift \/ UNCHANGED vars
  PROVE  DriftInv'
<1>1. UNCHANGED <<origin, log, prepared, changes, candidate, call, phase>>
  BY DEF Drift, ExternalWrite, memory, vars, kernelVars, environment
<1>2. \A q \in Resource \ Touched' : world'[q] = world[q] /\ q \in Resource \ Touched
  <2>1. CASE Drift
    <3>1. PICK r \in Resource, v \in Value : ExternalWrite(r, v)
      BY <2>1 DEF Drift
    <3>2. world' = [world EXCEPT ![r] = v] /\ drifted' = drifted \cup {r}
      BY <3>1 DEF ExternalWrite
    <3>3. normalised' = normalised
      BY <3>1 DEF ExternalWrite
    <3> QED BY <3>2, <3>3 DEF TypeOK, KernelTypeOK, Touched
  <2>2. CASE UNCHANGED vars
    BY <2>2 DEF vars, kernelVars, environment, Touched
  <2> QED BY <2>1, <2>2
<1> QED BY <1>1, <1>2, AsideDrift

---------------------------------------------------------------------------
(* The log.                                                                *)

\* What an entry makes of a state that memory or log have for a change.
Folded(old, c) ==
  IF Upserts(call.event, c) THEN call.event.state
  ELSE IF call.event.type = "CommitSealed" /\ old # Absent
    THEN IF c \in call.event.candidate THEN "Finalized" ELSE "RolledBack"
  ELSE old

\* Which appends there are.
LEMMA AppendCases ==
  ASSUME TypeOK, Structure, call.at = "append"
  PROVE  /\ call.event.type \in {"ChangeUpsert", "OperationIntent"} => call.event.change = call.change
         /\ call.event.type = "CommitSealed" => call.op = "finalize_recheck" /\ call.then = "ok"
         /\ call.event.type = "Sealed" => call.op = "rollback_all" /\ call.then = "ok"
         /\ call.event.type = "Started" => call.op = "begin" /\ call.then = "ok"
         /\ call.event.type \in {"ChangeUpsert", "OperationIntent", "CommitSealed", "Sealed", "Started"}
<1>1. AppendInv
  BY DEF Structure
<1>2. /\ Started.type = "Started" /\ Sealed("RolledBack").type = "Sealed"
      /\ CommitSealed(candidate).type = "CommitSealed"
  BY DEF Started, Sealed, CommitSealed
<1>3. CASE call.event.type = "ChangeUpsert" /\ call.event.change = call.change
  BY <1>3
<1>4. CASE call.event.type = "OperationIntent" /\ call.event.change = call.change
  BY <1>4
<1>5. CASE call.event = Started /\ call.op = "begin" /\ call.then = "ok"
  BY <1>2, <1>5
<1>6. CASE call.event = Sealed("RolledBack") /\ call.op = "rollback_all" /\ call.then = "ok"
  BY <1>2, <1>6
<1>7. CASE call.event = CommitSealed(candidate) /\ call.op = "finalize_recheck" /\ call.then = "ok"
  BY <1>2, <1>7
<1> QED BY <1>1, <1>3, <1>4, <1>5, <1>6, <1>7 DEF AppendInv

\* The change that a first record is about.
LEMMA CreatingFacts ==
  ASSUME TypeOK, Structure, DriftInv, Creating
  PROVE  /\ call.at = "append" /\ call.event.type = "ChangeUpsert" /\ call.event.change = call.change
         /\ call.event.state = "IntentDurable"
         /\ IsNextChange(call.change) /\ call.op = "experiment" /\ call.then = "apply"
         /\ AtOrigin(call.change) /\ call.change \in Change /\ NewChange = {call.change}
<1>1. call.at = "append" /\ call.event.type = "ChangeUpsert"
  BY DEF Creating, Appending
<1>2. call.event.change = call.change
  BY <1>1, AppendCases
<1>3. IsNextChange(call.change) /\ call.op = "experiment" /\ call.then = "apply"
  BY <1>1, SMT DEF Structure, AppendInv, Started, Sealed, CommitSealed
<1>4. call.change \in Change
  BY DEF TypeOK, KernelTypeOK, Call
<1> QED BY <1>1, <1>2, <1>3, <1>4 DEF DriftInv, HeadInv, NewChange

\* A record of drift or of a rollback is one that the kernel has grounds for.
LEMMA FoldedGrounds ==
  ASSUME TypeOK, Structure, SealInv, DriftInv, call.at = "append",
         NEW c \in Change, NEW old \in {changes[c], log.state[c]}
  PROVE  /\ Folded(old, c) = "DriftDetected" => ~Clear(c)
         /\ log.seal # "Committed" /\ call.event.type # "CommitSealed" /\ Folded(old, c) = "RolledBack" =>
              AtOrigin(c) /\ phase \notin {"Experimenting", "CommitPending"}
<1>1. old = changes[c] \/ old = log.state[c]
  OBVIOUS
<1>2. CASE Upserts(call.event, c)
  <2>1. /\ Folded(old, c) = call.event.state /\ call.event.change = c
        /\ Appending("ChangeUpsert") /\ call.event.type = "ChangeUpsert"
    BY <1>2 DEF Folded, Upserts, Appending
  <2>2. c = call.change
    BY <2>1, AppendCases
  <2>3. call.event.state = "DriftDetected" => ~Clear(c)
    BY <2>1, <2>2 DEF DriftInv, FlagInv
  <2>4. call.event.state = "RolledBack" => call.op = "rollback_all" /\ AtOrigin(c)
    BY <2>1, <2>2 DEF DriftInv, RolledInv
  <2>5. call.op = "rollback_all" => phase \notin {"Experimenting", "CommitPending"}
    BY DEF Structure, ControlInv
  <2> QED BY <2>1, <2>3, <2>4, <2>5
<1>3. CASE ~Upserts(call.event, c) /\ call.event.type = "CommitSealed" /\ old # Absent
  <2>1. Folded(old, c) \in {"Finalized", "RolledBack"}
    BY <1>3 DEF Folded
  <2>2. Folded(old, c) # "DriftDetected"
    BY <2>1
  <2> QED BY <1>3, <2>2
<1>4. CASE ~Upserts(call.event, c) /\ ~(call.event.type = "CommitSealed" /\ old # Absent)
  <2>1. Folded(old, c) = old
    BY <1>4 DEF Folded
  <2>2. old = "DriftDetected" => ~Clear(c)
    BY <1>1 DEF DriftInv, FlagInv
  <2>3. old = "RolledBack" /\ log.seal # "Committed" => AtOrigin(c) /\ phase \notin {"Experimenting", "CommitPending"}
    BY <1>1 DEF DriftInv, RolledInv
  <2> QED BY <2>1, <2>2, <2>3
<1> QED BY <1>2, <1>3, <1>4

\* The log with the entry, and the memory that has taken note of it.
LEMMA WrittenStates ==
  ASSUME TypeOK, Structure, SealInv, call.at = "append"
  PROVE  /\ \A c \in Change : Written.state[c] = Folded(log.state[c], c)
         /\ Memorise(call.event) => \A c \in Change : changes'[c] = Folded(changes[c], c)
         /\ Written.seal # "Committed" => log.seal # "Committed" /\ call.event.type # "CommitSealed"
<1>1. \A c \in Change : Written.state[c] = Folded(log.state[c], c)
  <2>1. Written.state = FoldState(log, call.event)
    BY DEF Written, Replay
  <2> QED BY <2>1 DEF FoldState, Folded
<1>2. Memorise(call.event) => \A c \in Change : changes'[c] = Folded(changes[c], c)
  BY DEF Memorise, Folded
<1>3. Written.seal = FoldSeal(log, call.event)
  BY DEF Written, Replay
<1>4. log.seal # "Committed"
  <2>1. call.at \notin {"ok", "outcomeUnknown"} /\ call.at \notin {"ok", "error", "outcomeUnknown"}
    OBVIOUS
  <2>2. Active
    BY <2>1, RunningLive
  <2> QED BY <2>1, <2>2 DEF SealInv
<1>5. call.event.type = "CommitSealed" => FoldSeal(log, call.event) = "Committed"
  BY DEF FoldSeal
<1> QED BY <1>1, <1>2, <1>3, <1>4, <1>5

\* A first record adds a change above the others, and of a resource that is home.
LEMMA JoinHeads ==
  ASSUME TypeOK, Structure, DriftInv, call.at = "append",
         Known' = Known \cup NewChange, UNCHANGED prepared
  PROVE  /\ \A r \in Resource \ Touched : world[r] # origin[r] =>
              \E c \in ResourceHead(prepared, Known', r) : Explains(c, r)
         /\ \A c \in Heads' : c \in Heads \/ (Creating /\ c = call.change)
         /\ ~Creating => Heads' = Heads
         /\ Creating /\ phase = "Experimenting" => call.change \in Heads'
<1>1. Live = Known
  <2>1. call.at \notin {"ok", "error", "outcomeUnknown"}
    OBVIOUS
  <2> QED BY <2>1, RunningLive
<1>2. ~Creating => Known' = Known
  BY DEF NewChange
<1>3. ~Creating => Heads' = Heads
  BY <1>2 DEF Heads, IsHead, Head
<1>4. Creating => Known' = Known \cup {call.change}
  BY CreatingFacts
<1>5. ASSUME NEW r \in Resource \ Touched, world[r] # origin[r]
      PROVE  \E c \in ResourceHead(prepared, Known', r) : Explains(c, r)
  <2>1. PICK c \in ResourceHead(prepared, Known, r) : Explains(c, r)
    BY <1>1, <1>5 DEF DriftInv, HeadInv
  <2>2. Creating => prepared[call.change].resource # r
    BY <1>5, CreatingFacts DEF AtOrigin, Clear, Touched
  <2>3. c \in ResourceHead(prepared, Known', r)
    BY <1>2, <1>4, <2>1, <2>2 DEF ResourceHead
  <2> QED BY <2>1, <2>3
<1>6. ASSUME NEW c \in Heads' PROVE c \in Heads \/ (Creating /\ c = call.change)
  <2>1. CASE ~Creating
    BY <1>3, <1>6, <2>1
  <2>2. CASE Creating /\ c # call.change
    <3>1. /\ c \in Known /\ Known \subseteq Known'
      BY <1>4, <1>6, <2>2 DEF Heads
    <3>2. c \in ResourceHead(prepared, Known', prepared[c].resource)
      BY <1>6 DEF Heads, IsHead, Head
    <3>3. c \in ResourceHead(prepared, Known, prepared[c].resource)
      BY <3>1, <3>2 DEF ResourceHead
    <3> QED BY <3>1, <3>3 DEF Heads, IsHead, Head
  <2> QED BY <2>1, <2>2
<1>7. ASSUME Creating, phase = "Experimenting" PROVE call.change \in Heads'
  <2>1. IsNextChange(call.change) /\ call.change \in Change
    BY <1>7, CreatingFacts
  <2>2. \A c \in Known, d \in Change : d < c => d \in Known
    BY <1>7 DEF Structure, OrderInv
  <2>3. \A d \in Known : d <= call.change
    <3>1. TAKE d \in Known
    <3>2. ~(call.change < d)
      BY <2>1, <2>2 DEF IsNextChange
    <3>3. d \in Change
      BY DEF Known
    <3> QED BY <2>1, <3>2, <3>3, SMT DEF Change
  <2>4. call.change <= call.change
    BY <2>1, SMT DEF Change
  <2>5. call.change \in ResourceHead(prepared, Known', prepared[call.change].resource)
    BY <1>4, <1>7, <2>3, <2>4 DEF ResourceHead
  <2> QED BY <1>4, <1>7, <2>5 DEF Heads, IsHead, Head
<1> QED BY <1>3, <1>5, <1>6, <1>7

\* What an append that has reached the file leaves alone.
LEMMA DurableFacts ==
  ASSUME TypeOK, Structure, UNCHANGED <<phase, retry>>, AppendDurable
  PROVE  /\ call.at = "append" /\ call'.at = call.then /\ call'.op = call.op
         /\ call'.change = call.change /\ call'.todo = call.todo
         /\ Ahead' = Ahead /\ Ahead = call.then /\ call.then # "append" /\ ~Creating'
         /\ (\A t : ~Appending(t)') /\ (Revising' <=> Revising) /\ Revised' = Revised
         /\ Known' = Known \cup NewChange /\ LogChanges(log') = LogChanges(log) \cup NewChange
         /\ log' = Written /\ Memorise(call.event)
         /\ UNCHANGED <<world, origin, drifted, normalised, prepared, candidate, phase>>
         /\ Live = Known /\ Live' = Known'
         /\ InHand' = IF call.then \in RestoreLocation THEN {call.change} ELSE {}
<1>1. call \in Call /\ call.op \in Operation /\ call.at = "append"
  BY DEF TypeOK, KernelTypeOK, Call, AppendDurable
<1>2. /\ call'.at = call.then /\ call'.op = call.op /\ call'.change = call.change
      /\ call'.todo = call.todo
  BY <1>1 DEF AppendDurable, Call
<1>3. /\ log' = Written /\ Memorise(call.event)
      /\ UNCHANGED <<world, origin, drifted, normalised, prepared, candidate, phase>>
  BY DEF AppendDurable, environment
<1>4. Known' = Known \cup NewChange /\ LogChanges(log') = LogChanges(log) \cup NewChange
  BY <1>1, <1>3, WrittenChanges
<1>5. Ahead = call.then
  BY <1>1 DEF Ahead
<1>6. call.then # "append"
  BY <1>1, <1>5, AppendVisits DEF Structure, ControlInv
<1>7. Ahead' = call.then /\ ~Creating' /\ (\A t : ~Appending(t)')
  BY <1>2, <1>6 DEF Ahead, Creating, Appending
<1>8. (Revising' <=> Revising) /\ Revised' = Revised
  BY <1>2, <1>5, <1>7 DEF Revising, Revised
<1>9. Active /\ Live = Known
  <2>1. call.at \notin {"ok", "error", "outcomeUnknown"}
    BY <1>1
  <2> QED BY <2>1, RunningLive
<1>10. Live' = Known'
  BY <1>2, <1>3, <1>9 DEF Active, InEpisode, Live
<1>11. InHand' = IF call.then \in RestoreLocation THEN {call.change} ELSE {}
  BY <1>2, <1>6 DEF InHand
<1> QED BY <1>1, <1>2, <1>3, <1>4, <1>5, <1>6, <1>7, <1>8, <1>9, <1>10, <1>11

\* The conjuncts about changes that are not in hand.
LEMMA DurableStates ==
  ASSUME TypeOK, Structure, SealInv, DriftInv, UNCHANGED <<phase, retry>>, AppendDurable
  PROVE  FlagInv' /\ HeadInv' /\ RolledInv' /\ RestoreInv'
<1>1. /\ call.at = "append" /\ call'.at = call.then /\ call'.op = call.op
      /\ call'.change = call.change /\ call'.todo = call.todo
      /\ call.then # "append" /\ ~Creating' /\ (\A t : ~Appending(t)')
      /\ Known' = Known \cup NewChange /\ LogChanges(log') = LogChanges(log) \cup NewChange
      /\ log' = Written /\ Memorise(call.event)
      /\ UNCHANGED <<world, origin, drifted, normalised, prepared, candidate, phase>>
      /\ Live = Known /\ Live' = Known'
      /\ InHand' = IF call.then \in RestoreLocation THEN {call.change} ELSE {}
  BY DurableFacts
<1>2. \A c \in Change : /\ changes'[c] = Folded(changes[c], c)
                        /\ log'.state[c] = Folded(log.state[c], c)
  BY <1>1, WrittenStates
<1>3. \A c : (Clear(c)' <=> Clear(c)) /\ (AtOrigin(c)' <=> AtOrigin(c))
  BY <1>1 DEF Clear, Touched, AtOrigin
<1>4. FlagInv'
  <2>1. ASSUME NEW c \in Change, "DriftDetected" \in {changes'[c], log'.state[c]}
        PROVE  ~Clear(c)
    <3>1. changes[c] \in {changes[c], log.state[c]} /\ log.state[c] \in {changes[c], log.state[c]}
      OBVIOUS
    <3> QED BY <1>1, <1>2, <2>1, <3>1, FoldedGrounds
  <2> QED BY <1>1, <1>3, <2>1 DEF FlagInv
<1>5. HeadInv'
  <2>1. \A c, r : Explains(c, r)' <=> Explains(c, r)
    BY <1>1 DEF Explains
  <2>2. \A r \in Resource \ Touched : world[r] # origin[r] =>
          \E c \in ResourceHead(prepared, Known', r) : Explains(c, r)
    BY <1>1, JoinHeads
  <2>3. \A c \in LogChanges(log') \ Live' : AtOrigin(c)'
    BY <1>1, <1>3 DEF DriftInv, HeadInv
  <2> QED BY <1>1, <2>1, <2>2, <2>3 DEF HeadInv, Touched
<1>6. RolledInv'
  <2>1. ASSUME log'.seal # "Committed", NEW c \in Change,
               "RolledBack" \in {changes'[c], log'.state[c]}
        PROVE  AtOrigin(c) /\ phase \notin {"Experimenting", "CommitPending"}
    <3>1. changes[c] \in {changes[c], log.state[c]} /\ log.state[c] \in {changes[c], log.state[c]}
      OBVIOUS
    <3>2. log.seal # "Committed" /\ call.event.type # "CommitSealed"
      BY <1>1, <2>1, WrittenStates
    <3> QED BY <1>1, <1>2, <2>1, <3>1, <3>2, FoldedGrounds
  <2> QED BY <1>1, <1>3, <2>1 DEF RolledInv
<1>7. RestoreInv'
  <2>1. call.then \in RestoreLocation => InHand = {call.change}
    <3>1. "ok" \notin RestoreLocation
      BY DEF RestoreLocation
    <3> QED BY <1>1, <3>1, AppendCases DEF InHand
  <2>2. call.then \notin {"matchDesired", "reviseCheck"}
    BY <1>1 DEF DriftInv, RestoreInv
  <2>3. call'.at # "matchDesired" /\ call'.at # "append"
    BY <1>1, <2>2
  <2>4. InHand' \subseteq InHand
    BY <1>1, <2>1
  <2> QED BY <1>1, <2>3, <2>4 DEF DriftInv, RestoreInv
<1> QED BY <1>4, <1>5, <1>6, <1>7

LEMMA DurableVerified ==
  ASSUME TypeOK, Structure, SealInv, DriftInv, UNCHANGED <<phase, retry>>, AppendDurable
  PROVE  VerifiedInv'
<1>1. /\ call.at = "append" /\ call'.at = call.then /\ call'.op = call.op
      /\ call'.change = call.change /\ Ahead' = Ahead /\ Ahead = call.then
      /\ call.then # "append" /\ (\A t : ~Appending(t)')
      /\ (Revising' <=> Revising) /\ Revised' = Revised
      /\ Known' = Known \cup NewChange /\ Memorise(call.event)
      /\ UNCHANGED <<world, origin, drifted, normalised, prepared, candidate, phase>>
  BY DurableFacts
<1> SUFFICES ASSUME phase = "Experimenting", Ahead # "error" PROVE VerifiedInv'
  BY <1>1 DEF VerifiedInv
<1>2. \A c \in Change : changes'[c] = Folded(changes[c], c)
  BY <1>1, WrittenStates
<1>3. \A c : (Clear(c)' <=> Clear(c)) /\ (Applied(c)' <=> Applied(c))
  BY <1>1 DEF Clear, Touched, Applied, AtDesired, Holds
<1>4. call.event.type # "CommitSealed" /\ call.change \in Change
  <2>1. call.op # "finalize_recheck"
    BY DEF Structure, ControlInv
  <2> QED BY <1>1, <2>1, AppendCases DEF TypeOK, KernelTypeOK, Call
<1>5. \A c \in Change : changes'[c] = IF Upserts(call.event, c) THEN call.event.state ELSE changes[c]
  BY <1>2, <1>4 DEF Folded
<1>6. ASSUME NEW c \in Heads', c \notin Revised, changes'[c] = "AppliedVerified"
      PROVE  Applied(c)
  <2>1. c \in Change
    BY <1>1 DEF Heads, Known
  <2>2. CASE Upserts(call.event, c)
    <3>1. call.event.state = "AppliedVerified"
      BY <1>5, <1>6, <2>1, <2>2
    <3>2. Appending("ChangeUpsert") /\ call.event.change = c /\ call.event.type = "ChangeUpsert"
      BY <1>1, <2>2 DEF Appending, Upserts
    <3>3. c = call.change
      BY <1>1, <3>2, AppendCases
    <3> QED BY <3>1, <3>2, <3>3 DEF DriftInv, VerifiedInv
  <2>3. CASE ~Upserts(call.event, c)
    <3>1. changes[c] = "AppliedVerified"
      BY <1>5, <1>6, <2>1, <2>3
    <3>2. ~(Creating /\ c = call.change)
      BY <2>3, CreatingFacts DEF Upserts
    <3>3. c \in Heads
      BY <1>1, <1>6, <3>2, JoinHeads
    <3> QED BY <1>6, <3>1, <3>3 DEF DriftInv, VerifiedInv
  <2> QED BY <2>2, <2>3
<1>7. ASSUME Revising \/ Ahead \in ApplyLocation PROVE IsHead(call.change)'
  <2>1. CASE Creating
    <3>1. call.change \in Heads'
      BY <1>1, <2>1, JoinHeads
    <3>2. PICK c : c = call.change /\ c = call'.change
      BY <1>1
    <3>3. c \in Head(prepared[c].resource)'
      BY <3>1, <3>2 DEF Heads, IsHead
    <3> QED BY <3>2, <3>3 DEF IsHead, Head
  <2>2. CASE ~Creating
    <3>1. IsHead(call.change)
      BY <1>7, <2>2 DEF DriftInv, VerifiedInv
    <3>2. Known' = Known
      BY <1>1, <2>2 DEF NewChange
    <3> QED BY <1>1, <3>1, <3>2 DEF IsHead, Head
  <2> QED BY <2>1, <2>2
<1>8. call'.at # "append" /\ call'.at # "reviseCheck"
  <2>1. call.then \notin {"matchDesired", "reviseCheck"}
    BY <1>1 DEF DriftInv, RestoreInv
  <2> QED BY <1>1, <2>1
<1>9. ASSUME call'.at = "revisePrepare" PROVE changes'[call'.change] = "BaselineRestored"
  <2>1. call.event.type = "ChangeUpsert" /\ call.event.state = "BaselineRestored"
    BY <1>1, <1>9 DEF DriftInv, VerifiedInv
  <2>2. Upserts(call.event, call.change)
    BY <1>1, <2>1, AppendCases DEF Upserts
  <2> QED BY <1>1, <1>4, <1>5, <2>1, <2>2
<1> QED BY <1>1, <1>3, <1>6, <1>7, <1>8, <1>9 DEF VerifiedInv

LEMMA DurableReplay ==
  ASSUME TypeOK, Structure, SealInv, DriftInv, UNCHANGED <<phase, retry>>, AppendDurable
  PROVE  ReplayInv'
<1>1. /\ call.at = "append" /\ call'.at = call.then /\ call'.op = call.op
      /\ call'.change = call.change /\ call'.todo = call.todo
      /\ Ahead' = Ahead /\ Ahead = call.then /\ (\A t : ~Appending(t)')
      /\ Known' = Known \cup NewChange
      /\ UNCHANGED <<world, origin, drifted, normalised, prepared, candidate, phase>>
      /\ InHand' = IF call.then \in RestoreLocation THEN {call.change} ELSE {}
  BY DurableFacts
<1> SUFFICES ASSUME phase = "CommitPending", Ahead \notin {"error", "outcomeUnknown"}
             PROVE  ReplayInv'
  BY <1>1 DEF ReplayInv
<1>2. ~Creating
  <2>1. call.op # "experiment"
    BY DEF Structure, ControlInv
  <2> QED BY <2>1, CreatingFacts
<1>3. Known' = Known /\ Heads' = Heads
  <2>1. Known' = Known
    BY <1>1, <1>2 DEF NewChange
  <2> QED BY <1>1, <2>1 DEF Heads, IsHead, Head
<1>4. \A c : /\ AtOrigin(c)' <=> AtOrigin(c)
             /\ Clear(c)' <=> Clear(c)
             /\ AtCommitValue(c)' <=> AtCommitValue(c)
  BY <1>1 DEF AtOrigin, Clear, Touched, AtCommitValue, AtDesired, AtBaseline, Holds
<1>5. ASSUME call.op = "restore_baseline", NEW c \in Known, c \notin call.todo \cup InHand'
      PROVE  AtOrigin(c)
  <2>1. CASE c \notin InHand
    BY <1>5, <2>1 DEF DriftInv, ReplayInv
  <2>2. CASE c \in InHand
    <3>1. c = call.change
      BY <2>2 DEF InHand
    <3>2. call.then \notin RestoreLocation
      BY <1>1, <1>5, <3>1
    <3>3. ~Appending("OperationIntent")
      BY <1>5, <3>2 DEF DriftInv, ReplayInv
    <3>4. Appending("ChangeUpsert")
      BY <1>1, <2>2, <3>3 DEF InHand, Appending, RestoreLocation
    <3> QED BY <1>5, <3>1, <3>4 DEF DriftInv, ReplayInv
  <2> QED BY <2>1, <2>2
<1>6. call.op \in {"replay", "finalize_check", "finalize", "finalize_recheck"} =>
        \A c \in Heads \ Unplayed' : Clear(c) => AtCommitValue(c)
  <2> SUFFICES ASSUME call.op \in {"replay", "finalize_check", "finalize", "finalize_recheck"},
                      NEW c \in Heads, c \notin Unplayed', Clear(c)
               PROVE  AtCommitValue(c)
    OBVIOUS
  <2>1. CASE c \notin Unplayed
    BY <2>1 DEF DriftInv, ReplayInv
  <2>2. CASE c \in Unplayed
    <3>1. call.op = "replay" /\ Appending("ChangeUpsert") /\ c = call.change
      BY <1>1, <2>2 DEF Unplayed
    <3>2. Applied(call.change) /\ call.change \in candidate
      BY <3>1 DEF DriftInv, ReplayInv
    <3> QED BY <3>1, <3>2 DEF Applied, AtCommitValue
  <2> QED BY <2>1, <2>2
<1>7. call.op = "restore_baseline" => \A c \in Known' \ (call'.todo \cup InHand') : AtOrigin(c)'
  BY <1>1, <1>3, <1>4, <1>5
<1>8. call.op = "replay_check" => \A c \in Known' : AtOrigin(c)'
  BY <1>3, <1>4 DEF DriftInv, ReplayInv
<1>9. call.op \in {"replay", "finalize_check", "finalize", "finalize_recheck"} =>
        \A c \in Heads' \ Unplayed' : Clear(c)' => AtCommitValue(c)'
  BY <1>3, <1>4, <1>6
<1>10. /\ call.op \in {"restore_baseline", "replay"} /\ Ahead = "ok" => call.todo = {}
       /\ call.op \in {"replay", "finalize"} => call.todo \subseteq candidate
       /\ call.op \in {"replay", "finalize"} /\ Ahead \in ChangeLocation => call.change \in candidate
       /\ call.op \in {"finalize_check", "finalize_recheck"} => call.todo \subseteq Heads
  BY DEF DriftInv, ReplayInv
<1> QED BY <1>1, <1>3, <1>7, <1>8, <1>9, <1>10 DEF ReplayInv

\* What the log says once the append in progress has stopped, and nothing else
\* has changed.
LEMMA StoppedGrounds ==
  ASSUME TypeOK, Structure, SealInv, DriftInv, LogStops, NEW c \in Change
  PROVE  /\ log'.state[c] = "DriftDetected" => ~Clear(c)
         /\ log'.seal # "Committed" => log.seal # "Committed"
         /\ log'.seal # "Committed" /\ log'.state[c] = "RolledBack" =>
              AtOrigin(c) /\ phase \notin {"Experimenting", "CommitPending"}
         /\ c \in LogChanges(log') => c \in LogChanges(log) \/ (Creating /\ c = call.change)
<1>1. CASE SameEntries(log)
  BY <1>1 DEF SameEntries, DriftInv, FlagInv, RolledInv, LogChanges
<1>2. CASE call.at = "append" /\ SameEntries(Written)
  <2>1. log'.state[c] = Folded(log.state[c], c) /\ log.state[c] \in {changes[c], log.state[c]}
    BY <1>2, WrittenStates DEF SameEntries
  <2>2. log'.seal # "Committed" => log.seal # "Committed" /\ call.event.type # "CommitSealed"
    BY <1>2, WrittenStates DEF SameEntries
  <2>3. /\ log'.state[c] = "DriftDetected" => ~Clear(c)
        /\ log'.seal # "Committed" /\ log'.state[c] = "RolledBack" =>
             AtOrigin(c) /\ phase \notin {"Experimenting", "CommitPending"}
    BY <1>2, <2>1, <2>2, FoldedGrounds
  <2>4. c \in LogChanges(log') => c \in LogChanges(log) \/ (Creating /\ c = call.change)
    <3>1. LogChanges(log') = LogChanges(Written)
      BY <1>2 DEF SameEntries, LogChanges
    <3>2. LogChanges(Written) = LogChanges(log) \cup NewChange
      BY <1>2, WrittenChanges
    <3> QED BY <3>1, <3>2 DEF NewChange
  <2> QED BY <2>2, <2>3, <2>4
<1> QED BY <1>1, <1>2, StoppedLog

\* A record that may or may not have reached the file ends the operation.
LEMMA AppendFailsDrift ==
  ASSUME TypeOK, Structure, SealInv, DriftInv, UNCHANGED <<phase, retry>>, AppendFails
  PROVE  DriftInv'
<1>1. /\ call \in Call /\ call.at = "append" /\ call.change \in Change
      /\ UNCHANGED <<world, origin, drifted, normalised, prepared, candidate, phase>>
  BY DEF TypeOK, KernelTypeOK, Call, AppendFails, environment
<1>2. /\ call'.at = IF call.event.type = "CommitSealed" THEN "outcomeUnknown" ELSE "error"
      /\ call'.op = call.op
  BY <1>1 DEF AppendFails, Call
<1>3. /\ call'.at \in {"error", "outcomeUnknown"} /\ Ahead' = call'.at /\ ~Creating'
      /\ (\A t : ~Appending(t)') /\ InHand' = {} /\ call'.at # "append" /\ call'.at # "matchDesired"
  <2>1. call'.at \in {"error", "outcomeUnknown"}
    BY <1>2
  <2>2. call'.at # "append" /\ call'.at # "matchDesired" /\ call'.at \notin RestoreLocation
    BY <2>1 DEF RestoreLocation
  <2> QED BY <2>1, <2>2 DEF Ahead, Creating, Appending, InHand
<1>4. \A c \in Change : changes'[c] = changes[c] \/ (changes'[c] = "AppliedUnknown" /\ c \in Known)
  <2>1. call.afterEffect => call.change \in Known
    BY <1>1 DEF Structure, AppendInv
  <2> QED BY <1>1, <2>1 DEF AppendFails, TypeOK, KernelTypeOK
<1>5. Known' = Known
  BY <1>4 DEF Known, Absent
<1>6. Live = Known /\ Live' = Known
  <2>1. call.at \notin {"ok", "error", "outcomeUnknown"}
    BY <1>1
  <2>2. Active /\ Live = Known
    BY <2>1, RunningLive
  <2> QED BY <1>1, <1>2, <1>5, <2>2 DEF Active, InEpisode, Live
<1>7. LogStops
  BY <1>1 DEF AppendFails, LogStops
<1>8. \A c \in LogChanges(log') : c \in LogChanges(log) \/ (Creating /\ c = call.change)
  BY <1>7, StoppedGrounds DEF LogChanges
<1>9. ASSUME NEW c \in Change
      PROVE  /\ "DriftDetected" \in {changes'[c], log'.state[c]} => ~Clear(c)
             /\ log'.seal # "Committed" /\ "RolledBack" \in {changes'[c], log'.state[c]} =>
                  AtOrigin(c) /\ phase \notin {"Experimenting", "CommitPending"}
  <2>1. /\ changes'[c] = "DriftDetected" => changes[c] = "DriftDetected"
        /\ changes'[c] = "RolledBack" => changes[c] = "RolledBack"
    BY <1>4
  <2>2. log'.seal # "Committed" => log.seal # "Committed"
    BY <1>7, StoppedGrounds
  <2>3. /\ changes[c] = "DriftDetected" => ~Clear(c)
        /\ log.seal # "Committed" /\ changes[c] = "RolledBack" =>
             AtOrigin(c) /\ phase \notin {"Experimenting", "CommitPending"}
    BY DEF DriftInv, FlagInv, RolledInv
  <2> QED BY <1>7, <2>1, <2>2, <2>3, StoppedGrounds
<1>10. \A c : (Clear(c)' <=> Clear(c)) /\ (AtOrigin(c)' <=> AtOrigin(c))
  BY <1>1 DEF Clear, Touched, AtOrigin
<1>11. FlagInv' /\ RolledInv'
  BY <1>1, <1>3, <1>9, <1>10 DEF FlagInv, RolledInv
<1>12. HeadInv'
  <2>1. \A c, r : Explains(c, r)' <=> Explains(c, r)
    BY <1>1 DEF Explains
  <2>2. \A c \in LogChanges(log') \ Live' : AtOrigin(c)'
    BY <1>6, <1>8, <1>10, CreatingFacts DEF DriftInv, HeadInv
  <2> QED BY <1>1, <1>3, <1>6, <2>1, <2>2 DEF DriftInv, HeadInv, Touched
<1>13. VerifiedInv'
  <2>1. phase = "Experimenting" => call'.at = "error"
    <3>1. phase = "Experimenting" => call.op # "finalize_recheck"
      BY DEF Structure, ControlInv
    <3> QED BY <1>1, <1>2, <3>1, AppendCases
  <2> QED BY <1>1, <1>3, <2>1 DEF VerifiedInv
<1>14. ReplayInv' /\ RestoreInv'
  BY <1>3 DEF ReplayInv, RestoreInv
<1> QED BY <1>11, <1>12, <1>13, <1>14 DEF DriftInv

LEMMA AppendDrift ==
  ASSUME TypeOK, Structure, SealInv, DriftInv, UNCHANGED <<phase, retry>>,
         AppendDurable \/ AppendFails
  PROVE  DriftInv'
<1>1. CASE AppendDurable
  BY <1>1, DurableStates, DurableVerified, DurableReplay DEF DriftInv
<1>2. CASE AppendFails
  BY <1>2, AppendFailsDrift
<1> QED BY <1>1, <1>2

---------------------------------------------------------------------------
(* The end of a process.                                                   *)

\* The memory is lost, and an append in progress may be.
LEMMA LossDrift ==
  ASSUME TypeOK, Structure, SealInv, DriftInv, LoseMemory, UNCHANGED <<environment, prepared>>,
         LogStops, phase' \in StartupStage
  PROVE  DriftInv'
<1>1. /\ UNCHANGED <<world, origin, drifted, normalised, prepared>>
      /\ \A c \in Change : changes'[c] = Absent
  BY DEF LoseMemory, environment
<1>2. call'.at = "ok" /\ call'.op = "begin"
  BY DEF LoseMemory, IdleCall
<1>3. Live' = LogChanges(log') /\ phase' \notin {"Experimenting", "CommitPending"}
  BY <1>1, <1>2 DEF Live, Active, InEpisode, EpisodePhase, StartupStage
<1>4. ~Creating' /\ (\A t : ~Appending(t)')
  BY <1>2 DEF Creating, Appending
<1>5. Absent # "DriftDetected" /\ Absent # "RolledBack"
  BY DEF Absent
<1>6. \A c : (Clear(c)' <=> Clear(c)) /\ (AtOrigin(c)' <=> AtOrigin(c))
  BY <1>1 DEF AtOrigin, Clear, Touched
<1>7. FlagInv'
  BY <1>1, <1>4, <1>5, <1>6, StoppedGrounds DEF FlagInv
<1>8. HeadInv'
  <2>1. \A c, r : Explains(c, r)' <=> Explains(c, r)
    BY <1>1 DEF Explains
  <2>2. ASSUME NEW r \in Resource \ Touched, world[r] # origin[r]
        PROVE  \E c \in ResourceHead(prepared, LogChanges(log'), r) : Explains(c, r)
    <3>1. PICK c \in ResourceHead(prepared, LogChanges(log), r) : Explains(c, r)
      BY <2>2, LogHeads
    <3>2. Creating => prepared[call.change].resource # r
      BY <2>2, CreatingFacts DEF AtOrigin, Clear
    <3>3. LogChanges(log) \subseteq LogChanges(log')
      BY StoppedLog
    <3>4. \A d \in LogChanges(log') : d \in LogChanges(log) \/ (Creating /\ d = call.change)
      BY StoppedGrounds DEF LogChanges
    <3>5. c \in ResourceHead(prepared, LogChanges(log'), r)
      BY <3>1, <3>2, <3>3, <3>4 DEF ResourceHead
    <3> QED BY <3>1, <3>5
  <2>3. Touched' = Touched
    BY <1>1 DEF Touched
  <2> QED BY <1>1, <1>3, <1>4, <2>1, <2>2, <2>3 DEF HeadInv
<1>9. RolledInv'
  BY <1>1, <1>3, <1>4, <1>5, <1>6, StoppedGrounds DEF RolledInv
<1>10. VerifiedInv' /\ ReplayInv'
  BY <1>3 DEF VerifiedInv, ReplayInv
<1>11. RestoreInv'
  BY <1>2 DEF RestoreInv
<1> QED BY <1>7, <1>8, <1>9, <1>10, <1>11 DEF DriftInv

LEMMA ProcessDrift ==
  ASSUME TypeOK, Structure, SealInv, DriftInv, ProcessStep
  PROVE  DriftInv'
<1>1. ASSUME Crash \/ Shutdown \/ EarlyPassDone \/ GateOpens \/ GateBlocks
      PROVE  DriftInv'
  <2>1. LoseMemory /\ UNCHANGED <<environment, prepared>> /\ LogStops
    BY <1>1 DEF Crash, Shutdown, EarlyPassDone, GateOpens, GateBlocks, StagePassed, LogStops
  <2>2. phase' \in StartupStage
    BY <1>1 DEF Crash, Shutdown, EarlyPassDone, GateOpens, GateBlocks, StagePassed,
                StartupStage
  <2> QED BY <2>1, <2>2, LossDrift
<1> QED BY <1>1, RestartDrift, RecoverDrift DEF ProcessStep, StartupStep

---------------------------------------------------------------------------

LEMMA StepDrift ==
  ASSUME TypeOK, TypeOK', Structure, RollbackInv, SealInv, CommitInv, DriftInv, Step
  PROVE  DriftInv'
<1>1. KernelStep /\ UNCHANGED <<phase, retry>>
  BY DEF Step
<1>2. CASE AppendDurable \/ AppendFails
  BY <1>1, <1>2, AppendDrift
<1>3. CASE ~(AppendDurable \/ AppendFails)
  <2>1. call.at \notin {"ok", "error", "outcomeUnknown", "append"}
    <3>1. call.at \in {"apply", "applyWrite", "applyStatus", "applyVerify", "restoreOne",
                       "matchDesired", "restore", "restoreWrite", "restoreStatus",
                       "restoreVerify", "reviseCheck", "revisePrepare", "loop",
                       "finalize", "ackVerify"}
      BY <1>1, <1>3 DEF KernelStep, Apply, ApplyWrite, ApplyStatus, ApplyVerify, RestoreOne,
           MatchDesired, Restore, RestoreWrite, RestoreStatus, RestoreVerify, ReviseCheck, RevisePrepare, RestoreNext, Restored,
           ReplayCheckNext, ReplayChecked, ReplayNext, Replayed, CommitCheckNext, CommitChecked,
           FinalizeNext, Finalize, AckVerify, Acknowledged, CommitSeal, InLoop
    <3> QED BY <3>1
  <2>2. Under
    BY <1>1, <2>1 DEF Under
  <2> QED BY <1>1, <1>3, <2>2, ApplyStillDrift, RestoreStillDrift, ReviseCheckDrift, RestoreNextDrift,
             ReplayLoopDrift, CheckNextDrift, AckVerifyDrift, LoopEndDrift, FinalizeDrift,
             DriverReadsDrift, WriteDrift, RevisePrepareDrift DEF KernelStep
<1> QED BY <1>2, <1>3

\* Every step keeps what the flags and the rollbacks are evidence of.
LEMMA NextDrift ==
  ASSUME TypeOK, TypeOK', Structure, RollbackInv, SealInv, CommitInv, DriftInv, [Next]_vars
  PROVE  DriftInv'
BY StepDrift, EpisodeDrift, ProcessDrift, OutsiderDrift DEF Next

LEMMA InitDrift ==
  ASSUME Init
  PROVE  DriftInv
<1>1. /\ world = origin /\ log = EmptyLog /\ changes = [c \in Change |-> Absent]
      /\ call = [IdleCall EXCEPT !.at = "append"] /\ phase = "Experimenting"
  BY DEF Init, BeginKernel
<1>2. /\ call.at = "append" /\ call.op = "begin" /\ call.event = Started /\ call.then = "ok"
      /\ call.event.type = "Started"
  BY <1>1 DEF IdleCall, Started
<1>3. /\ \A c \in Change : changes[c] = Absent /\ log.state[c] = Absent
      /\ Absent # "DriftDetected" /\ Absent # "RolledBack" /\ Absent # "AppliedVerified"
  BY <1>1 DEF EmptyLog, Absent
<1>4. /\ Ahead = "ok" /\ ~Appending("ChangeUpsert") /\ ~Creating /\ ~Revising
  BY <1>2 DEF Ahead, Appending, Creating, Revising
<1>5. Known = {} /\ LogChanges(log) = {}
  BY <1>3 DEF Known, LogChanges
<1>6. FlagInv /\ RolledInv
  BY <1>3, <1>4 DEF FlagInv, RolledInv
<1>7. HeadInv
  BY <1>1, <1>4, <1>5 DEF HeadInv
<1>8. VerifiedInv
  BY <1>2, <1>4, <1>5 DEF VerifiedInv, Heads, ApplyLocation
<1>9. ReplayInv
  BY <1>1 DEF ReplayInv
<1>10. RestoreInv
  BY <1>2 DEF RestoreInv
<1> QED BY <1>6, <1>7, <1>8, <1>9, <1>10 DEF DriftInv

=============================================================================
