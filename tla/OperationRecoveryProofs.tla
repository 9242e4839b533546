----------------------- MODULE OperationRecoveryProofs -----------------------
(***************************************************************************)
(* TLAPS proofs about the recovery of one operation, for any number of     *)
(* calls, crashes and changes of the installed tools.                      *)
(***************************************************************************)
EXTENDS OperationRecovery, SequenceTheorems, WellFoundedInduction, TLAPS

call == process.call
todo == process.todo

\* The process is the record that its steps update.
ProcessType ==
    process \in [kind : {"none", "run", "recover"}, call : Invocations \cup {None}, todo : Seq(Steps)]

\* The effect that a process still owes has an allowing audit of its own.
Covered(i) == effects[i] < audits[i] \/ audits[i] = 2

\* A live turn before the intent of its call is recorded.
Unrecorded ==
    /\ process.kind = "run" /\ call \in Invocations /\ intent[call] = None
    /\ \/ /\ todo \in {<<"allowed", "intent", "effect">>,
                       <<"denied", "intent", "declined", "message">>,
                       <<"refused", "intent", "declined", "message">>}
          /\ call \notin refused
       \/ todo = <<"intent", "effect">> /\ call \notin refused /\ Covered(call)
       \/ todo = <<"intent", "declined", "message">>

\* A recovery before its replay.
Replaying ==
    /\ process.kind = "recover" /\ call \in Invocations \ refused
    /\ intent[call] \in Intents /\ intent[call].saved = "safe" /\ result[call] = None
    /\ todo = ReplaySteps \/ (todo = <<"replay", "effect">> /\ Covered(call))

\* The effect is next: the first of a live turn, or a replay that was decided.
AtEffect ==
    /\ todo = <<"effect">> /\ call \in Invocations \ refused
    /\ intent[call] \in Intents /\ result[call] = None /\ Covered(call)
    /\ \/ process.kind = "run" /\ effects[call] = 0
       \/ process.kind = "recover" /\ intent[call].saved = "safe" /\ decision[call] = "replay"

\* Nothing left that runs an effect or records an intent.
QuietSteps == Steps \ {"allowed", "intent", "effect", "replay"}
Quiet ==
    /\ todo \in Seq(QuietSteps)
    /\ todo \in {<<>>, <<"finish">>} \/ (call \in Invocations /\ intent[call] \in Intents)

\* Every effect and every result belongs to a recorded intent.
RecordsFollowIntents ==
    \A i \in Invocations : intent[i] = None => effects[i] = 0 /\ result[i] = None

\* A live turn records the intent of what was refused before it goes on.
RefusalsAreRecorded ==
    process.kind = "run" =>
        \A i \in refused : \/ intent[i] \in Intents
                           \/ call = i /\ todo = <<"intent", "declined", "message">>

\* The inductive invariant.
RecoveryInv ==
    /\ TypeOK /\ ProcessType
    /\ Unrecorded \/ Replaying \/ AtEffect \/ Quiet
    /\ RecordsFollowIntents /\ RefusalsAreRecorded
    /\ UnsafeRunsOnce /\ EffectsAreAudited

-----------------------------------------------------------------------------
\* A nonempty set of natural numbers has a least one.
LEMMA LeastNatural ==
    ASSUME NEW S \in SUBSET Nat, S # {}
    PROVE  \E m \in S : \A k \in S : m =< k
<1> DEFINE R == OpToRel(<, Nat)
<1>1. IsWellFoundedOn(R, Nat)
  BY NatLessThanWellFounded
<1>2. \A a, b \in Nat : <<a, b>> \in R <=> a < b
  BY DEF OpToRel
<1> HIDE DEF R
<1>3. PICK m \in S : \A k \in S : ~(<<k, m>> \in R)
  BY <1>1, WFMin
<1>4. \A k \in S : k \in Nat
  OBVIOUS
<1>5. \A k \in S : ~(k < m)
  BY <1>2, <1>3, <1>4, Zenon
<1> QED
  BY <1>4, <1>5

\* plan_recovery takes an invocation that is indeed unanswered.
LEMMA FirstUnanswered == Unanswered # {} => Min(Unanswered) \in Unanswered
<1> SUFFICES ASSUME Unanswered # {} PROVE Min(Unanswered) \in Unanswered
  OBVIOUS
<1>1. Unanswered \in SUBSET Nat
  BY RecoveryAssumption DEF Unanswered, Invocations
<1>2. \E m \in Unanswered : \A k \in Unanswered : m =< k
  BY <1>1, LeastNatural
<1> QED
  BY <1>2 DEF Min

\* The records that a process appends one after another.
LEMMA TodoTails ==
    /\ Tail(<<"allowed", "intent", "effect">>) = <<"intent", "effect">>
    /\ Tail(<<"intent", "effect">>) = <<"effect">>
    /\ Tail(<<"denied", "intent", "declined", "message">>) = <<"intent", "declined", "message">>
    /\ Tail(<<"refused", "intent", "declined", "message">>) = <<"intent", "declined", "message">>
    /\ Tail(<<"intent", "declined", "message">>) = <<"declined", "message">>
    /\ Tail(<<"allowed", "replay", "effect">>) = <<"replay", "effect">>
    /\ Tail(<<"replay", "effect">>) = <<"effect">>
    /\ Tail(<<"finish">>) = <<>>
OBVIOUS

\* The first step of each plan, and what is left after it.
LEMMA TodoHeads ==
    /\ Head(<<"allowed", "intent", "effect">>) = "allowed"
    /\ Head(<<"intent", "effect">>) = "intent"
    /\ Head(<<"denied", "intent", "declined", "message">>) = "denied"
    /\ Head(<<"refused", "intent", "declined", "message">>) = "refused"
    /\ Head(<<"intent", "declined", "message">>) = "intent"
    /\ Head(<<"allowed", "replay", "effect">>) = "allowed"
    /\ Head(<<"replay", "effect">>) = "replay"
    /\ Head(<<"effect">>) = "effect"
    /\ Head(<<"finish">>) = "finish"
OBVIOUS

\* The plans are sequences of steps.
LEMMA TodoTypes ==
    /\ <<"allowed", "intent", "effect">> \in Seq(Steps)
    /\ <<"denied", "intent", "declined", "message">> \in Seq(Steps)
    /\ <<"refused", "intent", "declined", "message">> \in Seq(Steps)
    /\ <<"allowed", "replay", "effect">> \in Seq(Steps)
    /\ <<"interrupt", "interrupted", "message", "finish">> \in Seq(QuietSteps)
    /\ <<"denied", "decline", "declined", "message", "finish">> \in Seq(QuietSteps)
    /\ <<"refused", "decline", "declined", "message", "finish">> \in Seq(QuietSteps)
    /\ <<"declined", "message">> \in Seq(QuietSteps)
    /\ <<"completed", "named", "message">> \in Seq(QuietSteps)
    /\ <<"failed", "message">> \in Seq(QuietSteps)
    /\ <<"finish">> \in Seq(QuietSteps) /\ <<>> \in Seq(QuietSteps)
    /\ Seq(QuietSteps) \subseteq Seq(Steps)
BY DEF Steps, QuietSteps, Outcomes

\* What a quiet process owes next is a quiet step, and the rest is quiet.
LEMMA QuietTail ==
    ASSUME NEW s \in Seq(QuietSteps), s # <<>>
    PROVE  Head(s) \in QuietSteps /\ Tail(s) \in Seq(QuietSteps)
BY HeadTailProperties

\* Where a process stands, by what it owes next.
LEMMA OwedStage ==
    ASSUME RecoveryInv, NEW step \in Steps, Owes(step)
    PROVE  /\ step = "effect" => AtEffect
           /\ step = "intent" =>
                 /\ Unrecorded
                 /\ todo \in {<<"intent", "effect">>, <<"intent", "declined", "message">>}
           /\ step = "replay" => Replaying /\ todo = <<"replay", "effect">>
           /\ step = "allowed" => \/ Unrecorded /\ todo = <<"allowed", "intent", "effect">>
                                  \/ Replaying /\ todo = ReplaySteps
           /\ step \in {"denied", "refused"} =>
                 \/ Quiet
                 \/ Unrecorded /\ todo = <<step, "intent", "declined", "message">>
           /\ step \in QuietSteps \ {"denied", "refused"} => Quiet
<1>1. CASE Quiet
  <2>1. step \in QuietSteps
    BY <1>1, QuietTail DEF Quiet, Owes, todo
  <2> QED
    BY <1>1, <2>1 DEF QuietSteps
<1>2. CASE Unrecorded
  BY <1>2, TodoHeads DEF Unrecorded, Owes, todo, QuietSteps
<1>3. CASE Replaying
  BY <1>3, TodoHeads DEF Replaying, ReplaySteps, Owes, todo, QuietSteps
<1>4. CASE AtEffect
  BY <1>4, TodoHeads DEF AtEffect, Owes, todo, QuietSteps
<1> QED
  BY <1>1, <1>2, <1>3, <1>4 DEF RecoveryInv

\* A step that is done leaves the rest of the process as it was.
LEMMA DoneType ==
    ASSUME ProcessType, todo # <<>>, Done
    PROVE  /\ ProcessType' /\ process'.kind = process.kind /\ call' = call
           /\ todo' = Tail(todo)
<1>1. Tail(todo) \in Seq(Steps)
  BY HeadTailProperties DEF ProcessType, todo
<1> QED
  BY <1>1 DEF ProcessType, Done, call, todo

\* A quiet process stays quiet, if the intents are kept.
LEMMA DoneQuiet ==
    ASSUME ProcessType, Quiet, todo # <<>>, Done, UNCHANGED intent
    PROVE  Quiet'
<1>1. call' = call /\ todo' = Tail(todo)
  BY DoneType
<1>2. Tail(todo) \in Seq(QuietSteps)
  BY QuietTail DEF Quiet
<1>3. todo \in {<<>>, <<"finish">>} => Tail(todo) = <<>>
  BY TodoTails
<1> QED
  BY <1>1, <1>2, <1>3 DEF Quiet

\* A step of the process alone has only its stage to show.
LEMMA ProcessAloneRecoveryInv ==
    ASSUME RecoveryInv, ProcessType', RefusalsAreRecorded',
           (Unrecorded \/ Replaying \/ AtEffect \/ Quiet)',
           UNCHANGED <<intent, result, decision, refused, message, effects, audits>>,
           tool' \in [Invocations -> Tools], finished' \in BOOLEAN,
           crashes' \in 0..MaxCrashes, changes' \in 0..MaxChanges
    PROVE  RecoveryInv'
<1>1. TypeOK'
  BY DEF RecoveryInv, TypeOK, ProcessType
<1>2. RecordsFollowIntents' /\ UnsafeRunsOnce' /\ EffectsAreAudited'
  BY DEF RecoveryInv, RecordsFollowIntents, UnsafeRunsOnce, EffectsAreAudited
<1> QED
  BY <1>1, <1>2 DEF RecoveryInv

\* A new operation has the invariant.
LEMMA InitRecoveryInv == Init => RecoveryInv
<1> SUFFICES ASSUME Init PROVE RecoveryInv
  OBVIOUS
<1>1. <<>> \in Seq(Steps) /\ <<>> \in Seq(QuietSteps)
  OBVIOUS
<1>2. ProcessType
  BY <1>1 DEF Init, ProcessType
<1>3. TypeOK
  <2>1. tool \in [Invocations -> Tools]
    BY DEF Init
  <2>2. /\ intent \in [Invocations -> Intents \cup {None}]
        /\ result \in [Invocations -> Outcomes \cup {None}]
        /\ decision \in [Invocations -> {None, "interrupt", "decline", "replay"}]
    BY DEF Init
  <2>3. effects \in [Invocations -> 0..2] /\ audits \in [Invocations -> 0..2]
    BY DEF Init
  <2>4. message \in [Invocations -> BOOLEAN] /\ finished \in BOOLEAN /\ refused \subseteq Invocations
    BY DEF Init
  <2>5. crashes \in 0..MaxCrashes /\ changes \in 0..MaxChanges
    BY RecoveryAssumption DEF Init
  <2> QED
    BY <1>2, <2>1, <2>2, <2>3, <2>4, <2>5 DEF TypeOK, ProcessType
<1>4. Quiet
  BY <1>1 DEF Init, Quiet, todo
<1> QED
  BY <1>2, <1>3, <1>4 DEF Init, RecoveryInv, RecordsFollowIntents, RefusalsAreRecorded,
                          UnsafeRunsOnce, EffectsAreAudited

\* A call of the live turn starts with nothing recorded and nothing refused.
LEMMA InvokeToolRecoveryInv ==
    ASSUME RecoveryInv, NEW i \in Invocations, InvokeTool(i)
    PROVE  RecoveryInv'
<1>1. PICK s \in {<<"allowed", "intent", "effect">>,
                  <<"denied", "intent", "declined", "message">>,
                  <<"refused", "intent", "declined", "message">>} :
        process' = [process EXCEPT !.call = i, !.todo = s]
  BY DEF InvokeTool
<1>2. /\ process.kind = "run" /\ process.todo = <<>> /\ intent[i] = None
      /\ UNCHANGED <<tool, journal, history, crashes, changes>>
  BY DEF InvokeTool
<1>3. s \in Seq(Steps)
  BY TodoTypes
<1>4. ProcessType' /\ process'.kind = "run" /\ call' = i /\ todo' = s
  BY <1>1, <1>2, <1>3 DEF RecoveryInv, ProcessType, call, todo
<1>5. i \notin refused
  BY <1>2, NoneAssumption DEF RecoveryInv, RefusalsAreRecorded, todo
<1>6. Unrecorded'
  BY <1>2, <1>4, <1>5 DEF Unrecorded, journal
<1>7. RefusalsAreRecorded'
  BY <1>2 DEF RecoveryInv, RefusalsAreRecorded, todo, journal
<1> QED
  BY <1>2, <1>4, <1>6, <1>7, ProcessAloneRecoveryInv
     DEF RecoveryInv, TypeOK, journal, history

\* What ends a turn is quiet.
LEMMA EndTurnRecoveryInv == RecoveryInv /\ EndTurn => RecoveryInv'
<1> SUFFICES ASSUME RecoveryInv, EndTurn PROVE RecoveryInv'
  OBVIOUS
<1>1. /\ process.todo = <<>> /\ process' = [process EXCEPT !.todo = <<"finish">>]
      /\ UNCHANGED <<tool, journal, history, crashes, changes>>
  BY DEF EndTurn
<1>2. ProcessType' /\ process'.kind = process.kind /\ call' = call /\ todo' = <<"finish">>
  BY <1>1, TodoTypes DEF RecoveryInv, ProcessType, call, todo
<1>3. Quiet'
  BY <1>2, TodoTypes DEF Quiet
<1>4. RefusalsAreRecorded'
  BY <1>1, <1>2 DEF RecoveryInv, RefusalsAreRecorded, todo, journal
<1> QED
  BY <1>1, <1>2, <1>3, <1>4, ProcessAloneRecoveryInv DEF RecoveryInv, TypeOK, journal, history

\* A resume replays only what was declared safe, was not refused and has no
\* result; all else it does is quiet.
LEMMA ResumeRecoveryInv == RecoveryInv /\ Resume => RecoveryInv'
<1> SUFFICES ASSUME RecoveryInv, Resume PROVE RecoveryInv'
  OBVIOUS
<1>1. PICK c \in IF Unanswered = {} THEN {None} ELSE {Min(Unanswered)},
           s \in IF Unanswered = {} THEN {<<"finish">>} ELSE RecoverySteps(Min(Unanswered)) :
           process' = [kind |-> "recover", call |-> c, todo |-> s]
  BY DEF Resume
<1>2. UNCHANGED <<tool, journal, history, crashes, changes>>
  BY DEF Resume
<1>3. process'.kind = "recover" /\ call' = c /\ todo' = s
  BY <1>1 DEF call, todo
<1>4. CASE Unanswered = {}
  <2>1. c = None /\ s = <<"finish">>
    BY <1>1, <1>4
  <2>2. ProcessType' /\ Quiet'
    BY <1>1, <1>3, <2>1, TodoTypes DEF ProcessType, Quiet
  <2> QED
    BY <1>2, <1>3, <2>2, ProcessAloneRecoveryInv
       DEF RecoveryInv, TypeOK, journal, history, RefusalsAreRecorded
<1>5. CASE Unanswered # {}
  <2>1. c \in Unanswered /\ s \in RecoverySteps(c)
    BY <1>1, <1>5, FirstUnanswered
  <2>2. c \in Invocations /\ intent[c] \in Intents /\ result[c] = None
    BY <2>1 DEF Unanswered, Answered, RecoveryInv, TypeOK
  <2>3. \/ s \in Seq(QuietSteps)
        \/ s = ReplaySteps /\ c \notin refused /\ intent[c].saved = "safe"
    BY <2>1, TodoTypes DEF RecoverySteps, Replayable, Authorized, InterruptSteps, DeclineSteps
  <2>4. ProcessType'
    BY <1>1, <2>2, <2>3, TodoTypes DEF ProcessType, ReplaySteps
  <2>5. Quiet' \/ Replaying'
    BY <1>2, <1>3, <2>2, <2>3 DEF Quiet, Replaying, journal
  <2> QED
    BY <1>2, <1>3, <2>4, <2>5, ProcessAloneRecoveryInv
       DEF RecoveryInv, TypeOK, journal, history, RefusalsAreRecorded
<1> QED
  BY <1>4, <1>5

\* A command that returns or dies leaves no process.
LEMMA GoneRecoveryInv ==
    ASSUME RecoveryInv, process' = NoProcess, UNCHANGED <<tool, journal, history, changes>>,
           crashes' \in 0..MaxCrashes
    PROVE  RecoveryInv'
<1>1. ProcessType' /\ Quiet' /\ RefusalsAreRecorded'
  BY TodoTypes DEF NoProcess, ProcessType, Quiet, todo, RefusalsAreRecorded
<1> QED
  BY <1>1, ProcessAloneRecoveryInv DEF RecoveryInv, TypeOK, journal, history

\* The audit covers the effect that it allows.
LEMMA AppendAuditRecoveryInv == RecoveryInv /\ AppendAudit => RecoveryInv'
<1> SUFFICES ASSUME RecoveryInv, AppendAudit PROVE RecoveryInv'
  OBVIOUS
<1>1. /\ todo # <<>> /\ Done
      /\ UNCHANGED <<tool, intent, result, decision, message, finished, effects, crashes, changes>>
  BY DEF AppendAudit, Owes, todo
<1>2. ProcessType' /\ process'.kind = process.kind /\ call' = call /\ todo' = Tail(todo)
  BY <1>1, DoneType DEF RecoveryInv
<1>3. {"allowed", "denied", "refused"} \subseteq Steps
  BY DEF Steps
<1>4. CASE Owes("allowed")
  <2>1. /\ audits' = [audits EXCEPT ![call] = Twice(@)] /\ refused' = refused
    BY <1>4 DEF AppendAudit, Owes, call
  <2>2. \/ Unrecorded /\ todo = <<"allowed", "intent", "effect">>
        \/ Replaying /\ todo = ReplaySteps
    BY <1>3, <1>4, OwedStage
  <2>3. call \in Invocations /\ audits \in [Invocations -> 0..2] /\ effects \in [Invocations -> 0..2]
    BY <2>2 DEF Unrecorded, Replaying, RecoveryInv, TypeOK
  <2>4. /\ audits' \in [Invocations -> 0..2]
        /\ \A j \in Invocations : audits[j] <= audits'[j]
        /\ audits'[call] > audits[call] \/ audits'[call] = 2
    BY <2>1, <2>3 DEF Twice
  <2>5. EffectsAreAudited'
    BY <1>1, <2>3, <2>4 DEF RecoveryInv, EffectsAreAudited
  <2>6. effects'[call] < audits'[call] \/ audits'[call] = 2
    BY <1>1, <2>3, <2>4 DEF RecoveryInv, EffectsAreAudited
  <2>7. Unrecorded /\ todo = <<"allowed", "intent", "effect">> => Unrecorded'
    BY <1>1, <1>2, <2>1, <2>6, TodoTails, TodoHeads DEF Unrecorded, Covered
  <2>8. Replaying /\ todo = ReplaySteps => Replaying'
    BY <1>1, <1>2, <2>1, <2>6, TodoTails DEF Replaying, ReplaySteps, Covered
  <2>9. TypeOK'
    BY <1>1, <1>2, <2>1, <2>4 DEF RecoveryInv, TypeOK, ProcessType
  <2>10. RefusalsAreRecorded'
    BY <1>1, <1>2, <2>1, <2>2 DEF RecoveryInv, RefusalsAreRecorded, Replaying
  <2>11. RecordsFollowIntents' /\ UnsafeRunsOnce'
    BY <1>1 DEF RecoveryInv, RecordsFollowIntents, UnsafeRunsOnce
  <2> QED
    BY <1>2, <2>2, <2>5, <2>7, <2>8, <2>9, <2>10, <2>11 DEF RecoveryInv
<1>5. CASE ~Owes("allowed")
  <2>1. PICK step \in {"denied", "refused"} : Owes(step)
    BY <1>5 DEF AppendAudit
  <2>2. \/ Quiet
        \/ Unrecorded /\ todo = <<step, "intent", "declined", "message">>
    BY <1>3, <2>1, OwedStage
  <2>3. audits' = audits /\ refused' \in {refused, refused \cup {call}}
    BY <1>5 DEF AppendAudit, call
  <2>4. Quiet' \/ (Unrecorded' /\ todo' = <<"intent", "declined", "message">>)
    <3>1. CASE Quiet
      BY <1>1, <3>1, DoneQuiet DEF RecoveryInv
    <3>2. CASE Unrecorded /\ todo = <<step, "intent", "declined", "message">>
      BY <1>1, <1>2, <3>2, TodoTails DEF Unrecorded
    <3> QED
      BY <2>2, <3>1, <3>2
  <2>5. call \in Invocations
    BY <2>1, <2>2, TodoHeads DEF Unrecorded, Quiet, Owes, todo
  <2>6. TypeOK'
    BY <1>1, <1>2, <2>3, <2>5 DEF RecoveryInv, TypeOK, ProcessType
  <2>7. RefusalsAreRecorded'
    <3>1. CASE Quiet
      <4>1. intent[call] \in Intents /\ todo # <<"intent", "declined", "message">>
        BY <2>1, <3>1, TodoHeads DEF Quiet, Owes, todo
      <4> QED
        BY <1>1, <1>2, <2>3, <4>1 DEF RecoveryInv, RefusalsAreRecorded
    <3>2. CASE Unrecorded /\ todo = <<step, "intent", "declined", "message">>
      BY <1>1, <1>2, <2>3, <3>2, TodoTails DEF RecoveryInv, RefusalsAreRecorded
    <3> QED
      BY <2>2, <3>1, <3>2
  <2>8. RecordsFollowIntents' /\ UnsafeRunsOnce' /\ EffectsAreAudited'
    BY <1>1, <2>3 DEF RecoveryInv, RecordsFollowIntents, UnsafeRunsOnce, EffectsAreAudited
  <2> QED
    BY <1>2, <2>4, <2>6, <2>7, <2>8 DEF RecoveryInv
<1> QED
  BY <1>4, <1>5

\* The intent is recorded before the effect and never over another intent.
LEMMA AppendIntentRecoveryInv == RecoveryInv /\ AppendIntent => RecoveryInv'
<1> SUFFICES ASSUME RecoveryInv, AppendIntent PROVE RecoveryInv'
  OBVIOUS
<1>1. /\ Owes("intent") /\ todo # <<>> /\ Done
      /\ intent' = [intent EXCEPT ![call] = [contract |-> tool[call].contract, saved |-> tool[call].safety]]
      /\ UNCHANGED <<tool, result, decision, refused, message, finished, effects, audits, crashes, changes>>
  BY DEF AppendIntent, Owes, todo, call, history
<1>2. ProcessType' /\ process'.kind = process.kind /\ call' = call /\ todo' = Tail(todo)
  BY <1>1, DoneType DEF RecoveryInv
<1>3. Unrecorded /\ todo \in {<<"intent", "effect">>, <<"intent", "declined", "message">>}
  BY <1>1, OwedStage DEF Steps
<1>4. call \in Invocations /\ intent[call] = None /\ effects[call] = 0 /\ result[call] = None
  BY <1>3 DEF Unrecorded, RecoveryInv, RecordsFollowIntents
<1>5. [contract |-> tool[call].contract, saved |-> tool[call].safety] \in Intents
  BY <1>4 DEF RecoveryInv, TypeOK, Tools, Intents
<1>6. /\ intent' \in [Invocations -> Intents \cup {None}] /\ intent'[call] \in Intents
      /\ \A i \in Invocations \ {call} : intent'[i] = intent[i]
  BY <1>1, <1>4, <1>5 DEF RecoveryInv, TypeOK
<1>7. TypeOK'
  BY <1>1, <1>2, <1>6 DEF RecoveryInv, TypeOK, ProcessType
<1>8. AtEffect' \/ Quiet'
  <2>1. CASE todo = <<"intent", "effect">>
    BY <1>1, <1>2, <1>3, <1>4, <1>6, <2>1, TodoTails DEF Unrecorded, AtEffect, Covered
  <2>2. CASE todo = <<"intent", "declined", "message">>
    BY <1>2, <1>4, <1>6, <2>2, TodoTails, TodoTypes DEF Quiet
  <2> QED
    BY <1>3, <2>1, <2>2
<1>9. RecordsFollowIntents'
  BY <1>1, <1>4, <1>6, NoneAssumption DEF RecoveryInv, RecordsFollowIntents
<1>10. RefusalsAreRecorded'
  BY <1>1, <1>2, <1>6 DEF RecoveryInv, TypeOK, RefusalsAreRecorded
<1>11. UnsafeRunsOnce' /\ EffectsAreAudited'
  BY <1>1, <1>4, <1>6 DEF RecoveryInv, UnsafeRunsOnce, EffectsAreAudited
<1> QED
  BY <1>2, <1>7, <1>8, <1>9, <1>10, <1>11 DEF RecoveryInv

\* A decision to replay is recorded before the effect.
LEMMA AppendDecisionRecoveryInv == RecoveryInv /\ AppendDecision => RecoveryInv'
<1> SUFFICES ASSUME RecoveryInv, AppendDecision PROVE RecoveryInv'
  OBVIOUS
<1>1. PICK d \in {"interrupt", "decline", "replay"} :
        Owes(d) /\ decision' = [decision EXCEPT ![call] = d]
  BY DEF AppendDecision, call
<1>2. /\ todo # <<>> /\ Done
      /\ UNCHANGED <<tool, intent, result, refused, message, finished, effects, audits, crashes, changes>>
  BY DEF AppendDecision, Owes, todo, history
<1>3. ProcessType' /\ process'.kind = process.kind /\ call' = call /\ todo' = Tail(todo)
  BY <1>2, DoneType DEF RecoveryInv
<1>4. Quiet \/ (d = "replay" /\ Replaying /\ todo = <<"replay", "effect">>)
  BY <1>1, OwedStage DEF Steps, QuietSteps
<1>5. call \in Invocations
  BY <1>1, <1>4, TodoHeads DEF Quiet, Replaying, Owes, todo
<1>6. decision' \in [Invocations -> {None, "interrupt", "decline", "replay"}] /\ decision'[call] = d
  BY <1>1, <1>5 DEF RecoveryInv, TypeOK
<1>7. TypeOK'
  BY <1>2, <1>3, <1>6 DEF RecoveryInv, TypeOK, ProcessType
<1>8. Quiet' \/ AtEffect'
  <2>1. CASE Quiet
    BY <1>2, <2>1, DoneQuiet DEF RecoveryInv
  <2>2. CASE d = "replay" /\ Replaying /\ todo = <<"replay", "effect">>
    BY <1>2, <1>3, <1>6, <2>2, TodoTails DEF Replaying, ReplaySteps, AtEffect, Covered
  <2> QED
    BY <1>4, <2>1, <2>2
<1>9. RefusalsAreRecorded'
  <2>1. todo # <<"intent", "declined", "message">>
    BY <1>1, TodoHeads DEF Owes, todo
  <2> QED
    BY <1>2, <1>3, <2>1 DEF RecoveryInv, RefusalsAreRecorded
<1>10. RecordsFollowIntents' /\ UnsafeRunsOnce' /\ EffectsAreAudited'
  BY <1>2 DEF RecoveryInv, RecordsFollowIntents, UnsafeRunsOnce, EffectsAreAudited
<1> QED
  BY <1>3, <1>7, <1>8, <1>9, <1>10 DEF RecoveryInv

\* An effect runs for the first time, or for a replay of what is safe.
LEMMA ExecuteRecoveryInv == RecoveryInv /\ Execute => RecoveryInv'
<1> SUFFICES ASSUME RecoveryInv, Execute PROVE RecoveryInv'
  OBVIOUS
<1>1. /\ Owes("effect") /\ effects' = [effects EXCEPT ![call] = Twice(@)]
      /\ UNCHANGED <<tool, intent, result, decision, refused, message, finished, audits, crashes, changes>>
  BY DEF Execute, journal, call
<1>2. AtEffect
  BY <1>1, OwedStage DEF Steps
<1>3. PICK records \in {<<"completed", "named", "message">>, <<"failed", "message">>} :
        process' = [process EXCEPT !.todo =
                       records \o IF process.kind = "recover" THEN <<"finish">> ELSE <<>>]
  BY DEF Execute
<1>4. records \o (IF process.kind = "recover" THEN <<"finish">> ELSE <<>>) \in Seq(QuietSteps)
  <2>1. records \in Seq(QuietSteps)
    BY TodoTypes
  <2>2. (IF process.kind = "recover" THEN <<"finish">> ELSE <<>>) \in Seq(QuietSteps)
    BY TodoTypes
  <2> QED
    BY <2>1, <2>2, ConcatProperties
<1>5. /\ ProcessType' /\ process'.kind = process.kind /\ call' = call
      /\ todo' \in Seq(QuietSteps)
  BY <1>3, <1>4, TodoTypes DEF RecoveryInv, ProcessType, call, todo
<1>6. Quiet'
  BY <1>1, <1>2, <1>5 DEF AtEffect, Quiet
<1>7. call \in Invocations /\ effects \in [Invocations -> 0..2] /\ audits \in [Invocations -> 0..2]
  BY <1>2 DEF AtEffect, RecoveryInv, TypeOK
<1>8. /\ effects' \in [Invocations -> 0..2] /\ effects'[call] = Twice(effects[call])
      /\ \A i \in Invocations \ {call} : effects'[i] = effects[i]
  BY <1>1, <1>7 DEF Twice
<1>9. TypeOK'
  BY <1>1, <1>5, <1>8 DEF RecoveryInv, TypeOK, ProcessType
<1>10. RefusalsAreRecorded'
  BY <1>1, <1>2, <1>5, TodoHeads DEF RecoveryInv, RefusalsAreRecorded, AtEffect
<1>11. RecordsFollowIntents'
  BY <1>1, <1>2, <1>8, NoneAssumption DEF RecoveryInv, RecordsFollowIntents, AtEffect
<1>12. UnsafeRunsOnce'
  BY <1>1, <1>2, <1>8 DEF RecoveryInv, UnsafeRunsOnce, AtEffect, Twice
<1>13. EffectsAreAudited'
  BY <1>1, <1>2, <1>7, <1>8 DEF RecoveryInv, EffectsAreAudited, AtEffect, Covered, Twice
<1> QED
  BY <1>5, <1>6, <1>9, <1>10, <1>11, <1>12, <1>13 DEF RecoveryInv

\* A result belongs to an intent.
LEMMA AppendResultRecoveryInv == RecoveryInv /\ AppendResult => RecoveryInv'
<1> SUFFICES ASSUME RecoveryInv, AppendResult PROVE RecoveryInv'
  OBVIOUS
<1>1. PICK o \in Outcomes : Owes(o) /\ result' = [result EXCEPT ![call] = o]
  BY DEF AppendResult, call
<1>2. /\ todo # <<>> /\ Done
      /\ UNCHANGED <<tool, intent, decision, refused, message, finished, effects, audits, crashes, changes>>
  BY DEF AppendResult, Owes, todo, history
<1>3. ProcessType' /\ process'.kind = process.kind /\ call' = call /\ todo' = Tail(todo)
  BY <1>2, DoneType DEF RecoveryInv
<1>4. Quiet
  BY <1>1, OwedStage DEF Steps, QuietSteps, Outcomes
<1>5. call \in Invocations /\ intent[call] \in Intents
  BY <1>1, <1>4, TodoHeads DEF Quiet, Owes, todo, Outcomes
<1>6. Quiet'
  BY <1>2, <1>4, DoneQuiet DEF RecoveryInv
<1>7. TypeOK'
  BY <1>1, <1>2, <1>3, <1>5 DEF RecoveryInv, TypeOK, ProcessType
<1>8. RefusalsAreRecorded'
  <2>1. todo # <<"intent", "declined", "message">>
    BY <1>1, TodoHeads DEF Owes, todo, Outcomes
  <2> QED
    BY <1>2, <1>3, <2>1 DEF RecoveryInv, RefusalsAreRecorded
<1>9. RecordsFollowIntents'
  BY <1>1, <1>2, <1>5, NoneAssumption DEF RecoveryInv, TypeOK, RecordsFollowIntents
<1>10. UnsafeRunsOnce' /\ EffectsAreAudited'
  BY <1>2 DEF RecoveryInv, UnsafeRunsOnce, EffectsAreAudited
<1> QED
  BY <1>3, <1>6, <1>7, <1>8, <1>9, <1>10 DEF RecoveryInv

\* The records that decide nothing here.
LEMMA OtherRecordsRecoveryInv ==
    ASSUME RecoveryInv, AppendNamedOutput \/ AppendMessage \/ AppendFinished
    PROVE  RecoveryInv'
<1>1. PICK step \in {"named", "message", "finish"} : Owes(step)
  BY DEF AppendNamedOutput, AppendMessage, AppendFinished
<1>2. /\ todo # <<>> /\ Done /\ finished' \in BOOLEAN
      /\ UNCHANGED <<tool, intent, result, decision, refused, effects, audits, crashes, changes>>
  BY DEF AppendNamedOutput, AppendMessage, AppendFinished, Owes, todo, history, journal,
         RecoveryInv, TypeOK
<1>3. ProcessType' /\ process'.kind = process.kind /\ call' = call /\ todo' = Tail(todo)
  BY <1>2, DoneType DEF RecoveryInv
<1>4. Quiet
  BY <1>1, OwedStage DEF Steps, QuietSteps
<1>5. Quiet'
  BY <1>2, <1>4, DoneQuiet DEF RecoveryInv
<1>6. message' \in [Invocations -> BOOLEAN]
  BY DEF AppendNamedOutput, AppendMessage, AppendFinished, journal, RecoveryInv, TypeOK
<1>7. TypeOK'
  BY <1>2, <1>3, <1>6 DEF RecoveryInv, TypeOK, ProcessType
<1>8. RefusalsAreRecorded'
  <2>1. todo # <<"intent", "declined", "message">>
    BY <1>1, TodoHeads DEF Owes, todo
  <2> QED
    BY <1>2, <1>3, <2>1 DEF RecoveryInv, RefusalsAreRecorded
<1>9. RecordsFollowIntents' /\ UnsafeRunsOnce' /\ EffectsAreAudited'
  BY <1>2 DEF RecoveryInv, RecordsFollowIntents, UnsafeRunsOnce, EffectsAreAudited
<1> QED
  BY <1>3, <1>5, <1>7, <1>8, <1>9 DEF RecoveryInv

\* The tools change while no process is there.
LEMMA ChangeRecoveryInv ==
    ASSUME RecoveryInv, NEW i \in Invocations, Change(i)
    PROVE  RecoveryInv'
<1>1. PICK t \in Tools : tool' = [tool EXCEPT ![i] = t]
  BY DEF Change
<1>2. tool' \in [Invocations -> Tools] /\ changes' \in 0..MaxChanges
  BY <1>1, RecoveryAssumption DEF Change, RecoveryInv, TypeOK
<1>3. UNCHANGED <<intent, result, decision, refused, message, finished, process, effects, audits, crashes>>
  BY DEF Change, journal, history
<1>4. ProcessType' /\ RefusalsAreRecorded'
  BY <1>3 DEF RecoveryInv, ProcessType, RefusalsAreRecorded, call, todo
<1>5. (Unrecorded \/ Replaying \/ AtEffect \/ Quiet)'
  BY <1>3 DEF RecoveryInv, Unrecorded, Replaying, AtEffect, Quiet, Covered, call, todo
<1> QED
  BY <1>2, <1>3, <1>4, <1>5, ProcessAloneRecoveryInv DEF RecoveryInv, TypeOK

\* Every step preserves the invariant.
LEMMA NextRecoveryInv == RecoveryInv /\ [Next]_vars => RecoveryInv'
<1> SUFFICES ASSUME RecoveryInv, [Next]_vars PROVE RecoveryInv'
  OBVIOUS
<1>1. CASE \E i \in Invocations : InvokeTool(i)
  BY <1>1, InvokeToolRecoveryInv
<1>2. CASE \E i \in Invocations : Change(i)
  BY <1>2, ChangeRecoveryInv
<1>3. CASE EndTurn
  BY <1>3, EndTurnRecoveryInv
<1>4. CASE Resume
  BY <1>4, ResumeRecoveryInv
<1>5. CASE Return
  BY <1>5, GoneRecoveryInv DEF Return, RecoveryInv, TypeOK
<1>6. CASE Crash
  <2>1. crashes' \in 0..MaxCrashes
    BY <1>6, RecoveryAssumption DEF Crash, RecoveryInv, TypeOK
  <2> QED
    BY <1>6, <2>1, GoneRecoveryInv DEF Crash
<1>7. CASE AppendAudit
  BY <1>7, AppendAuditRecoveryInv
<1>8. CASE AppendIntent
  BY <1>8, AppendIntentRecoveryInv
<1>9. CASE AppendDecision
  BY <1>9, AppendDecisionRecoveryInv
<1>10. CASE Execute
  BY <1>10, ExecuteRecoveryInv
<1>11. CASE AppendResult
  BY <1>11, AppendResultRecoveryInv
<1>12. CASE AppendNamedOutput \/ AppendMessage \/ AppendFinished
  BY <1>12, OtherRecordsRecoveryInv
<1>13. CASE UNCHANGED vars
  <2>1. UNCHANGED <<tool, intent, result, decision, refused, message, finished, process,
                    effects, audits, crashes, changes>>
    BY <1>13 DEF vars, journal, history
  <2>2. ProcessType' /\ RefusalsAreRecorded'
    BY <2>1 DEF RecoveryInv, ProcessType, RefusalsAreRecorded, call, todo
  <2>3. (Unrecorded \/ Replaying \/ AtEffect \/ Quiet)'
    BY <2>1 DEF RecoveryInv, Unrecorded, Replaying, AtEffect, Quiet, Covered, call, todo
  <2> QED
    BY <2>1, <2>2, <2>3, ProcessAloneRecoveryInv DEF RecoveryInv, TypeOK
<1> QED
  BY <1>1, <1>2, <1>3, <1>4, <1>5, <1>6, <1>7, <1>8, <1>9, <1>10, <1>11, <1>12, <1>13
     DEF Next, ProcessStep, Terminated

\* The invariant holds in every behaviour.
THEOREM RecoveryInvariant == Spec => []RecoveryInv
<1> QED
  BY InitRecoveryInv, NextRecoveryInv, PTL DEF Spec

-----------------------------------------------------------------------------
\* EffectsAreWarranted: through any number of crashes, resumes and changed
\* tools, an effect that was declared unsafe runs at most once, and every run
\* of an effect has its own durable permission.
THEOREM WarrantedEffects == Spec => []EffectsAreWarranted
<1>1. RecoveryInv => EffectsAreWarranted
  BY DEF RecoveryInv, EffectsAreWarranted
<1> QED
  BY <1>1, RecoveryInvariant, PTL

\* SettledForGood: a recorded result is final, a second run of an effect
\* follows a durable decision to replay, and what the owner refused does not run.
THEOREM SettledStays == Spec => SettledForGood
<1>1. ASSUME RecoveryInv, [Next]_vars
      PROVE  [AnsweredForGood /\ DenialHolds]_vars
  <2> SUFFICES ASSUME Next PROVE AnsweredForGood /\ DenialHolds
    BY <1>1
  <2>1. \/ UNCHANGED effects
        \/ AtEffect /\ effects' = [effects EXCEPT ![call] = Twice(@)] /\ UNCHANGED result
    <3>1. CASE Execute
      BY <1>1, <3>1, OwedStage DEF Execute, journal, call, Steps
    <3>2. CASE ~Execute
      BY <3>2 DEF Next, ProcessStep, InvokeTool, Change, EndTurn, Resume, AppendAudit, AppendIntent,
                  AppendDecision, AppendResult, AppendNamedOutput, AppendMessage, AppendFinished,
                  Return, Crash, Terminated, vars, history
    <3> QED
      BY <3>1, <3>2
  <2>2. \/ UNCHANGED result
        \/ \E o \in Outcomes : result' = [result EXCEPT ![call] = o] /\ ~Answered(call)
    <3>1. CASE AppendResult
      BY <3>1 DEF AppendResult, call
    <3>2. CASE ~AppendResult
      BY <3>2 DEF Next, ProcessStep, InvokeTool, Change, EndTurn, Resume, AppendAudit, AppendIntent,
                  AppendDecision, Execute, AppendNamedOutput, AppendMessage, AppendFinished,
                  Return, Crash, Terminated, vars, journal
    <3> QED
      BY <3>1, <3>2
  <2>3. ASSUME NEW i \in Invocations, Answered(i)
        PROVE  result'[i] = result[i] /\ effects'[i] = effects[i]
    BY <1>1, <2>1, <2>2, <2>3 DEF Answered, AtEffect, RecoveryInv, TypeOK
  <2>4. ASSUME NEW i \in Invocations, effects'[i] # effects[i], effects[i] > 0
        PROVE  decision[i] = "replay"
    BY <1>1, <2>1, <2>4 DEF AtEffect, RecoveryInv, TypeOK
  <2>5. ASSUME NEW i \in refused PROVE effects'[i] = effects[i]
    BY <1>1, <2>1 DEF AtEffect, RecoveryInv, TypeOK
  <2> QED
    BY <2>3, <2>4, <2>5 DEF AnsweredForGood, DenialHolds
<1> QED
  BY <1>1, RecoveryInvariant, PTL DEF Spec, SettledForGood
=============================================================================
