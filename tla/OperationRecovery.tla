-------------------------- MODULE OperationRecovery --------------------------
(***************************************************************************)
(* One durable operation whose process may die at any append, and the      *)
(* explicit recovery that reconciles it (operation.rs invoke_tool,         *)
(* operation/recovery.rs), one `xana operation resume` after another,      *)
(* while the installed tools, the workspace and the permission policy      *)
(* change between the processes.                                           *)
(*                                                                         *)
(* A process works through `todo`, the appends and the effect its next     *)
(* await points still owe; the session's writer lock admits one process.   *)
(* The executor of a live turn is here as far as recovery sees its records;*)
(* the turn around it is module NativeRuntime.                             *)
(*                                                                         *)
(* Abstracted: a contract is one of two versions, arguments and canonical  *)
(* scope are whether replanning reproduces them; counts of effects and     *)
(* audits stop at two.                                                     *)
(***************************************************************************)
EXTENDS Naturals, Sequences, FiniteSetsExt

CONSTANTS
    Calls,      \* number of tool calls of the step
    MaxCrashes, \* bound: processes that die
    MaxChanges, \* bound: changes of the installed tools and the workspace
    None

ASSUME RecoveryAssumption ==
    /\ Calls \in Nat \ {0} /\ MaxCrashes \in Nat /\ MaxChanges \in Nat

Invocations == 1..Calls
Safeties == {"safe", "never"}
\* What ToolRegistry::definition and ToolRegistry::plan say of one call now:
\* the plan reproduces arguments and scope, differs from them, or is refused.
Tools == [there : BOOLEAN, contract : 1..2, safety : Safeties,
          plan : {"same", "moved", "refused"}]
Intents == [contract : 1..2, saved : Safeties]
ASSUME NoneAssumption == None \notin Intents
Outcomes == {"completed", "failed", "declined", "interrupted"}
Steps == {"allowed", "denied", "refused", "intent", "effect", "interrupt", "decline",
          "replay", "named", "message", "finish"} \cup Outcomes

VARIABLES
    tool,     \* Invocation -> the tool its call names
    intent,   \* Invocation -> InvocationIntentAppended
    result,   \* Invocation -> InvocationResultAppended
    decision, \* Invocation -> the last RecoveryDecisionAppended
    refused,  \* invocations with a durable denial by the controller
    message,  \* Invocation -> its tool result is in the conversation
    finished, \* OperationFinished
    process,  \* the process with the writer lock
    effects,  \* history: Invocation -> times its effect has run
    audits,   \* history: Invocation -> allowing PermissionAudited records
    crashes,  \* bounded count
    changes   \* bounded count

journal == <<intent, result, decision, refused, message, finished>>
history == <<effects, audits>>
vars == <<tool, journal, process, history, crashes, changes>>

NoProcess == [kind |-> "none", call |-> None, todo |-> <<>>]

\* The type invariant.
TypeOK ==
    /\ tool \in [Invocations -> Tools]
    /\ intent \in [Invocations -> Intents \cup {None}]
    /\ result \in [Invocations -> Outcomes \cup {None}]
    /\ decision \in [Invocations -> {None, "interrupt", "decline", "replay"}]
    /\ refused \subseteq Invocations
    /\ message \in [Invocations -> BOOLEAN] /\ finished \in BOOLEAN
    /\ process.kind \in {"none", "run", "recover"}
    /\ process.call \in Invocations \cup {None} /\ process.todo \in Seq(Steps)
    /\ effects \in [Invocations -> 0..2] /\ audits \in [Invocations -> 0..2]
    /\ crashes \in 0..MaxCrashes /\ changes \in 0..MaxChanges

\* A turn has committed its step; which tools it calls is open.
Init ==
    /\ tool \in [Invocations -> {t \in Tools : t.there /\ t.contract = 1 /\ t.plan = "same"}]
    /\ intent = [i \in Invocations |-> None]
    /\ result = [i \in Invocations |-> None]
    /\ decision = [i \in Invocations |-> None]
    /\ refused = {} /\ message = [i \in Invocations |-> FALSE] /\ finished = FALSE
    /\ process = [kind |-> "run", call |-> None, todo |-> <<>>]
    /\ effects = [i \in Invocations |-> 0] /\ audits = [i \in Invocations |-> 0]
    /\ crashes = 0 /\ changes = 0

Twice(n) == IF n < 2 THEN n + 1 ELSE n

Answered(i) == result[i] # None
Unanswered == {i \in Invocations : intent[i] # None /\ ~Answered(i)}

-----------------------------------------------------------------------------
(* The live turn: one call after another, each through its own records.    *)

\* agent.rs's loop over the calls, and invoke_tool: the authorization decides
\* whether the intent is followed by the effect.
InvokeTool(i) ==
    /\ process.kind = "run" /\ process.todo = <<>> /\ ~finished
    /\ intent[i] = None /\ \A j \in 1..(i - 1) : Answered(j)
    /\ \E todo \in {<<"allowed", "intent", "effect">>,
                    <<"denied", "intent", "declined", "message">>,
                    <<"refused", "intent", "declined", "message">>} :
          process' = [process EXCEPT !.call = i, !.todo = todo]
    /\ UNCHANGED <<tool, journal, history, crashes, changes>>

\* The turn ends between two calls, completed, interrupted or failed.
EndTurn ==
    /\ process.kind = "run" /\ process.todo = <<>> /\ ~finished
    /\ process' = [process EXCEPT !.todo = <<"finish">>]
    /\ UNCHANGED <<tool, journal, history, crashes, changes>>

-----------------------------------------------------------------------------
(* What a recovery does about one invocation.                              *)

\* Mutant: only the installed declaration counts.
ReplayableNow(i) == tool[i].there /\ tool[i].safety = "safe"

\* plan_recovery: whether the saved and the installed declarations allow the
\* invocation to run again.
Replayable(i) ==
    /\ tool[i].there /\ tool[i].contract = intent[i].contract
    /\ intent[i].saved = "safe" /\ tool[i].safety = "safe"

InterruptSteps == <<"interrupt", "interrupted", "message", "finish">>

ReplaySteps == <<"allowed", "replay", "effect">>
DeclineSteps(answer) == <<answer, "decline", "declined", "message", "finish">>

\* Mutant: a broker that starts without the earlier denials.
AuthorizedAfresh(i) == {DeclineSteps("denied"), ReplaySteps, DeclineSteps("refused")}

\* authorize_current, by the current policy or the owner at the prompt.  The
\* broker starts from the denials of the unfinished operation.
Authorized(i) ==
    {DeclineSteps("denied")}
        \cup IF i \in refused THEN {} ELSE {ReplaySteps, DeclineSteps("refused")}

\* Mutant: an interruption is reported and not recorded as the result.
RecoveryStepsUnrecorded(i) ==
    IF Replayable(i) THEN {ReplaySteps}
    ELSE {<<"interrupt", "message", "finish">>}

\* execute_recovery's arm for each planned action, up to the effect.  A replay
\* that cannot be planned any more ends the resume with an error.
RecoverySteps(i) ==
    IF ~Replayable(i) \/ tool[i].plan = "moved" THEN {InterruptSteps}
    ELSE IF tool[i].plan = "refused" THEN {<<>>}
    ELSE Authorized(i)

\* DurableSession::resume takes the writer lock; plan_recovery takes the first
\* unanswered invocation, or the finish when there is none.
Resume ==
    /\ process.kind = "none" /\ ~finished
    /\ \E call \in IF Unanswered = {} THEN {None} ELSE {Min(Unanswered)},
          todo \in IF Unanswered = {} THEN {<<"finish">>} ELSE RecoverySteps(Min(Unanswered)) :
          process' = [kind |-> "recover", call |-> call, todo |-> todo]
    /\ UNCHANGED <<tool, journal, history, crashes, changes>>

\* The command returns, with its plan or with an error, and drops the lock.
Return ==
    /\ process.kind # "none"
    /\ process.todo = <<>> /\ (process.kind = "run" => finished)
    /\ process' = NoProcess
    /\ UNCHANGED <<tool, journal, history, crashes, changes>>

-----------------------------------------------------------------------------
(* The steps of a process.                                                 *)

Owes(step) == process.todo # <<>> /\ Head(process.todo) = step
Done == process' = [process EXCEPT !.todo = Tail(@)]

\* PermissionAudited: in a recovery, the answer of the current policy.
AppendAudit ==
    /\ Owes("allowed") \/ Owes("denied") \/ Owes("refused")
    /\ audits' = IF Owes("allowed") THEN [audits EXCEPT ![process.call] = Twice(@)] ELSE audits
    /\ refused' = IF Owes("refused") THEN refused \cup {process.call} ELSE refused
    /\ Done /\ UNCHANGED <<tool, intent, result, decision, message, finished, effects, crashes, changes>>

AppendIntent ==
    /\ Owes("intent") /\ Done
    /\ intent' = [intent EXCEPT ![process.call] =
                     [contract |-> tool[process.call].contract, saved |-> tool[process.call].safety]]
    /\ UNCHANGED <<tool, result, decision, refused, message, finished, history, crashes, changes>>

\* RecoveryDecisionAppended, refused by the reducer for an answered invocation.
AppendDecision ==
    /\ \E d \in {"interrupt", "decline", "replay"} :
          Owes(d) /\ decision' = [decision EXCEPT ![process.call] = d]
    /\ ~Answered(process.call) /\ ~finished
    /\ Done /\ UNCHANGED <<tool, intent, result, refused, message, finished, history, crashes, changes>>

\* PlannedTool::execute: the effect, and what will be recorded of it.
Execute ==
    /\ Owes("effect")
    /\ effects' = [effects EXCEPT ![process.call] = Twice(@)]
    /\ \E records \in {<<"completed", "named", "message">>, <<"failed", "message">>} :
          process' = [process EXCEPT !.todo =
                         records \o IF process.kind = "recover" THEN <<"finish">> ELSE <<>>]
    /\ UNCHANGED <<tool, journal, audits, crashes, changes>>

\* InvocationResultAppended, refused by the reducer when there is one.
AppendResult ==
    /\ \E o \in Outcomes : Owes(o) /\ result' = [result EXCEPT ![process.call] = o]
    /\ ~Answered(process.call) /\ ~finished
    /\ Done /\ UNCHANGED <<tool, intent, decision, refused, message, finished, history, crashes, changes>>

\* NamedValueSet of a completed output; its presence decides nothing here.
AppendNamedOutput == Owes("named") /\ Done /\ UNCHANGED <<tool, journal, history, crashes, changes>>

AppendMessage ==
    /\ Owes("message") /\ Done
    /\ message' = [message EXCEPT ![process.call] = TRUE]
    /\ UNCHANGED <<tool, intent, result, decision, refused, finished, history, crashes, changes>>

\* OperationFinished, refused by the reducer while an intent is unanswered.
AppendFinished ==
    /\ Owes("finish") /\ ~finished
    /\ IF Unanswered = {} THEN finished' = TRUE ELSE UNCHANGED finished
    /\ Done /\ UNCHANGED <<tool, intent, result, decision, refused, message, history, crashes, changes>>

-----------------------------------------------------------------------------
(* The environment.                                                        *)

\* The process dies, or an append fails and its error ends the attempt.
Crash ==
    /\ process.kind # "none" /\ crashes < MaxCrashes
    /\ process' = NoProcess /\ crashes' = crashes + 1
    /\ UNCHANGED <<tool, journal, history, changes>>

\* Another version, another policy declaration, a moved or missing file.
Change(i) ==
    /\ process.kind = "none" /\ changes < MaxChanges
    /\ \E t \in Tools : tool' = [tool EXCEPT ![i] = t]
    /\ changes' = changes + 1
    /\ UNCHANGED <<journal, process, history, crashes>>

ProcessStep ==
    \/ AppendAudit \/ AppendIntent \/ AppendDecision \/ Execute \/ AppendResult
    \/ AppendNamedOutput \/ AppendMessage \/ AppendFinished \/ Return

\* The operation is over and the session is free.
Terminated == finished /\ process.kind = "none" /\ UNCHANGED vars

Next ==
    \/ \E i \in Invocations : InvokeTool(i) \/ Change(i)
    \/ EndTurn \/ Resume \/ ProcessStep \/ Crash \/ Terminated

\* A process makes progress, and the owner repeats the resume until it has
\* finished the operation.
Fairness == WF_vars(ProcessStep) /\ WF_vars(Resume)

Spec == Init /\ [][Next]_vars /\ Fairness

-----------------------------------------------------------------------------
\* An effect that was declared unsafe to repeat when it was intended runs at
\* most once, through crashes, resumes and changed tools
\* (operation/recovery.rs plan_recovery).
UnsafeRunsOnce ==
    \A i \in Invocations : intent[i] # None /\ intent[i].saved = "never" => effects[i] <= 1

\* Every run of an effect has its own durable allowing audit: a replay is not
\* covered by the permission of the first run (recovery.rs authorize_current).
EffectsAreAudited == \A i \in Invocations : effects[i] <= audits[i]

\* Nothing execute_recovery runs is run on the authority of the process that
\* died: a repetition was declared safe by the saved intent and by the tool
\* installed now, and has its own current permission.
EffectsAreWarranted == TypeOK /\ UnsafeRunsOnce /\ EffectsAreAudited

\* A second run of an effect follows a durable decision to replay it, and an
\* effect whose result is recorded is never run again and its result never
\* replaced (the reducer's InvalidRecoveryDecision and DuplicateResult).
AnsweredForGood ==
    \A i \in Invocations :
        /\ Answered(i) => result'[i] = result[i] /\ effects'[i] = effects[i]
        /\ effects'[i] # effects[i] /\ effects[i] > 0 => decision[i] = "replay"

\* What the owner has durably denied does not run, in this or in any later
\* process (durable.rs unfinished_permission_evidence).
DenialHolds == \A i \in refused : effects'[i] = effects[i]

\* What an earlier process settled no resume reopens: neither a recorded
\* result nor the owner's refusal.
SettledForGood == [][AnsweredForGood /\ DenialHolds]_vars

\* Resuming again and again finishes the operation, whatever records the
\* crashed attempts have left, if its safe calls can still be planned.
ResumesFinish ==
    [](\A i \in Invocations : tool[i].plan # "refused")
        => [](process.kind = "recover" => <>finished)
=============================================================================
