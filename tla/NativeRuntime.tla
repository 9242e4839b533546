--------------------------- MODULE NativeRuntime ---------------------------
(***************************************************************************)
(* The foreground runtime of src/native_runtime.rs: one actor that owns a  *)
(* durable Conversation, the tranche task it spawns for a root turn        *)
(* (src/agent.rs, src/operation.rs), the permission broker task            *)
(* (src/permission/broker.rs) and the operation journal it appends to      *)
(* (src/session/reduce.rs).                                                *)
(*                                                                         *)
(* The actor is a loop: a deferred command first, then one biased select   *)
(* over its channels.  A handler runs to its end before the next select,   *)
(* except that it stays awake for commands while settings are refreshed    *)
(* and while a compaction runs.  The task talks to the actor by requests   *)
(* that carry a one-shot acknowledgement; aborting the task leaves its     *)
(* request in the channel, and leaves the events of the broker in theirs.  *)
(*                                                                         *)
(* An operation id is a fresh UUID, an invocation id the number of the     *)
(* call in its operation, a round-budget suspension id the number of       *)
(* rounds consumed when it was reached (each suspension consumes more).    *)
(* Message bodies, telemetry, usage, completion evidence, memory, children *)
(* and the transient (session-less, test only) runtime are left out.       *)
(***************************************************************************)
EXTENDS Naturals, Sequences, FiniteSets

CONSTANTS
    Operations,   \* operation ids a client may draw
    MaxCalls,     \* bound: tool calls of one operation
    SoftRounds,   \* max_tool_rounds of the profile
    HardRounds,   \* MAX_ROOT_TOOL_ROUNDS
    MaxSent,      \* bound: commands clients send in a behaviour
    MaxFaults,    \* bound: journal appends that fail in a behaviour
    Biased,       \* whether the select's order is exact (see Before)
    None          \* no operation, no command, no suspension

ASSUME RoundsAssumption ==
    /\ SoftRounds \in Nat \ {0}
    /\ HardRounds \in Nat
    /\ SoftRounds <= HardRounds
ASSUME BiasedAssumption == Biased \in BOOLEAN
ASSUME BoundsAssumption == MaxCalls \in Nat /\ MaxSent \in Nat /\ MaxFaults \in Nat
ASSUME NoneAssumption ==
    None \notin Operations /\ None \notin [op : Operations, at : 1 .. HardRounds]

VARIABLES
    commands,     \* channel: RuntimeCommand, from the clients
    closed,       \* the last command sender was dropped
    sent,         \* commands sent so far
    submitted,    \* operation ids clients have drawn
    pc,           \* where the actor's loop is
    after,        \* where the loop goes when the running handler returns
    turn,         \* the operation being started or compacted for
    deferred,     \* deferred_command
    active,       \* the active operation
    budget,       \* suspended_round_budget
    task,         \* Operation -> control point of its tranche task
    call,         \* Operation -> tool calls it has planned
    round,        \* Operation -> rounds of the running tranche
    consumed,     \* Operation -> rounds of its earlier tranches
    verdict,      \* Operation -> authorization of its current call
    completions,  \* channel: OperationCompletion, from the task
    requests,     \* channels: conversation commits and durable operations
    brokerQ,      \* channel: BrokerCommand
    brokerEvents, \* channel: state changes and permission requests
    pending,      \* the broker's pending requests
    journal,      \* Operation -> its durable projection
    faults,       \* appends that have failed so far
    effects,      \* history: tool calls that were dispatched
    view          \* ClientSnapshot of a client that read every event so far

actorVars  == <<pc, after, turn, deferred, active, budget>>
taskVars   == <<task, call, round, consumed, verdict, effects>>
brokerVars == <<brokerQ, brokerEvents, pending>>
clientVars == <<commands, closed, sent, submitted>>
storeVars  == <<journal, faults>>
vars == <<actorVars, taskVars, brokerVars, clientVars, storeVars,
          completions, requests, view>>

-----------------------------------------------------------------------------
Calls == 1 .. MaxCalls
Invocation == [op : Operations, call : Calls]

Command ==
    [type : {"submit", "compact", "interrupt"}, op : Operations]
    \cup [type : {"decide"}, op : Operations, call : Calls, allow : BOOLEAN]
    \cup [type : {"budget"}, op : Operations, at : 1 .. HardRounds,
          continue : BOOLEAN]
    \cup [type : {"clear", "shutdown"}]

TaskPoint ==
    {"none", "model", "assistant", "assistant_ok", "step", "plan", "ask",
     "answered", "audit", "audited", "intent", "intended", "effected",
     "result", "resulted", "reply", "replied", "failing", "done", "aborted"}

Journal == [state   : {"absent", "running", "suspended", "finished"},
            steps   : Nat,
            audits  : SUBSET [call : Calls, allow : BOOLEAN],
            intents : SUBSET Calls,
            results : SUBSET [call : Calls,
                              outcome : {"performed", "declined"}],
            budgets : SUBSET (1 .. HardRounds),
            decided : SUBSET (1 .. HardRounds)]

(* The value type of every variable. *)
TypeOK ==
    /\ commands \in Seq(Command) /\ closed \in BOOLEAN
    /\ sent \in 0 .. MaxSent /\ submitted \in SUBSET Operations
    /\ pc \in {"top", "select", "refresh", "compact", "commit", "exited"}
    /\ after \in {"top", "select"}
    /\ turn \in [op : Operations, manual : BOOLEAN] \cup {None}
    /\ deferred \in Command \cup {None}
    /\ active \in Operations \cup {None}
    /\ budget \in [op : Operations, at : 1 .. HardRounds] \cup {None}
    /\ task \in [Operations -> TaskPoint]
    /\ call \in [Operations -> 0 .. MaxCalls]
    /\ round \in [Operations -> 0 .. SoftRounds]
    /\ consumed \in [Operations -> Nat]
    /\ verdict \in [Operations -> {"none", "allow", "deny"}]
    /\ \A i \in 1 .. Len(completions) :
          /\ completions[i].op \in Operations
          /\ completions[i].result \in {"completed", "rounds", "failed"}
    /\ \A i \in 1 .. Len(requests) :
          requests[i].op \in Operations /\ requests[i].kind \in TaskPoint
    /\ \A i \in 1 .. Len(brokerQ) :
          brokerQ[i].type \in {"authorize", "cancel", "shutdown", "controller_lost"}
    /\ \A i \in 1 .. Len(brokerEvents) :
          /\ brokerEvents[i].op \in Operations
          /\ brokerEvents[i].kind \in {"suspended", "requested", "running"}
    /\ pending \in SUBSET Invocation
    /\ journal \in [Operations -> Journal]
    /\ faults \in 0 .. MaxFaults
    /\ effects \in SUBSET Invocation
    /\ view \in [active : Operations \cup {None}, approvals : SUBSET Invocation]

-----------------------------------------------------------------------------
(* The journal: what session/reduce.rs accepts.                            *)

\* operation_has_pending: an intent without a result.
Answered(j) == {r.call : r \in j.results}
HasPending(op) == journal[op].intents \ Answered(journal[op]) # {}

\* valid_operation_transition, with the reducer's terminal checks.
CanMoveTo(op, next) ==
    CASE next = "running"   -> journal[op].state \in {"absent", "suspended"}
      [] next = "suspended" -> journal[op].state = "running"
      [] next = "finished"  -> /\ journal[op].state \in {"running", "suspended"}
                               /\ ~HasPending(op)

Unfinished == {op \in Operations : journal[op].state \in {"running", "suspended"}}

\* Session::append_record of a record the reducer accepts iff `valid`: it is
\* refused when invalid, and may also fail in the store.
Stored(valid, ok) ==
    /\ ok => valid
    /\ IF valid /\ ~ok THEN faults < MaxFaults /\ faults' = faults + 1
                       ELSE faults' = faults

Moved(op, next) == [journal EXCEPT ![op].state = next]

-----------------------------------------------------------------------------
(* The projection of runtime events a client holds (ClientSnapshot.apply). *)
Shows(op)    == [view EXCEPT !.active = op]
ShowsIdle    == [view EXCEPT !.active = None]

\* Return from a handler: the loop takes a deferred command only at its top,
\* and a handler that was called there falls through into the select.
Returns(to, left) == pc' = IF to = "top" /\ left # None THEN "top" ELSE "select"
CallerOf == IF pc = "top" THEN "select" ELSE "top"

\* Emit CommandRejected and return: nothing but the loop position changes.
Rejected ==
    /\ Returns(CallerOf, deferred)
    /\ UNCHANGED <<after, turn, active, budget, taskVars, brokerVars,
                   storeVars, completions, requests, view>>

-----------------------------------------------------------------------------
Init ==
    /\ commands = <<>> /\ closed = FALSE /\ sent = 0 /\ submitted = {}
    /\ pc = "select" /\ after = "top" /\ turn = None /\ deferred = None
    /\ active = None /\ budget = None
    /\ task = [op \in Operations |-> "none"]
    /\ call = [op \in Operations |-> 0]
    /\ round = [op \in Operations |-> 0]
    /\ consumed = [op \in Operations |-> 0]
    /\ verdict = [op \in Operations |-> "none"]
    /\ completions = <<>> /\ requests = <<>>
    /\ brokerQ = <<>> /\ brokerEvents = <<>> /\ pending = {}
    /\ journal = [op \in Operations |->
                    [state |-> "absent", steps |-> 0, audits |-> {},
                     intents |-> {}, results |-> {},
                     budgets |-> {}, decided |-> {}]]
    /\ faults = 0 /\ effects = {}
    /\ view = [active |-> None, approvals |-> {}]

-----------------------------------------------------------------------------
(* Clients send what they have seen: a fresh operation id, an operation    *)
(* they submitted, an approval of their snapshot, a reached budget.        *)
Offers ==
    [type : {"submit", "compact"}, op : Operations \ submitted]
    \cup [type : {"interrupt"}, op : submitted]
    \cup {[type |-> "decide", op |-> v.op, call |-> v.call, allow |-> a] :
            v \in view.approvals, a \in BOOLEAN}
    \cup (UNION {{[type |-> "budget", op |-> op, at |-> b, continue |-> a] :
                    b \in journal[op].budgets, a \in BOOLEAN} : op \in Operations})
    \cup [type : {"clear", "shutdown"}]

Send(c) ==
    /\ ~closed /\ sent < MaxSent
    /\ commands' = Append(commands, c)
    /\ sent' = sent + 1
    /\ submitted' = submitted \cup
                      (IF c.type \in {"submit", "compact"} THEN {c.op} ELSE {})
    /\ UNCHANGED <<closed, actorVars, taskVars, brokerVars, storeVars,
                   completions, requests, view>>

\* The last RuntimeHandle is dropped.
DropController ==
    /\ ~closed
    /\ closed' = TRUE
    /\ UNCHANGED <<commands, sent, submitted, actorVars, taskVars, brokerVars,
                   storeVars, completions, requests, view>>

-----------------------------------------------------------------------------
(* The actor: commands.                                                    *)

\* The command the loop handles next: the deferred one at its top, otherwise
\* the first of the channel, which the select polls before anything else.
NextCommand == IF pc = "top" THEN deferred ELSE Head(commands)

Take(type) ==
    /\ \/ pc = "top" /\ deferred' = None /\ UNCHANGED commands
       \/ /\ pc = "select" /\ commands # <<>>
          /\ commands' = Tail(commands) /\ UNCHANGED deferred
    /\ NextCommand.type = type
    /\ UNCHANGED <<closed, sent, submitted>>

\* interrupt_active: abort the task, which drops an armed authorization guard;
\* what the task already queued stays queued.  The suspension record may be
\* refused (an operation already suspended for a permission) or fail, but the
\* operation is reported suspended in every case.
GuardLeaked == <<>>
GuardDropped ==
    IF active # None /\ task[active] \in {"ask", "answered"}
    THEN <<[type |-> "cancel", op |-> active, call |-> call[active]]>> ELSE <<>>

TaskAborted == [task EXCEPT ![active] = "aborted"]

InterruptActive(extra) ==
    /\ active' = None
    /\ brokerQ' = brokerQ \o extra \o GuardDropped
    /\ UNCHANGED <<budget, call, round, consumed, verdict, effects,
                   completions, requests, brokerEvents, pending>>
    /\ IF active = None
       THEN UNCHANGED <<task, journal, faults, view>>
       ELSE /\ task' = TaskAborted
            /\ view' = Shows(active)
            /\ \E ok \in BOOLEAN :
                 /\ Stored(CanMoveTo(active, "suspended"), ok)
                 /\ journal' = IF ok THEN Moved(active, "suspended") ELSE journal

\* SubmitTurn, up to the settings refresh.  A live root, a reached round
\* budget or any unfinished operation of the journal refuses the turn.
RefusesTurnWhileLive == active # None \/ budget # None
RefusesTurn == active # None \/ budget # None \/ Unfinished # {}

SubmitTurn ==
    /\ Take("submit")
    /\ IF RefusesTurn
       THEN Rejected
       ELSE /\ pc' = "refresh" /\ after' = CallerOf
            /\ turn' = [op |-> NextCommand.op, manual |-> FALSE]
            /\ UNCHANGED <<active, budget, taskVars, brokerVars, storeVars,
                           completions, requests, view>>

\* A command that arrives during the refresh replaces the deferred one and
\* the turn is rejected; a dropped controller defers a shutdown.
RefreshInterrupted ==
    /\ pc = "refresh"
    /\ \/ /\ commands # <<>>
          /\ deferred' = Head(commands) /\ commands' = Tail(commands)
       \/ /\ commands = <<>> /\ closed
          /\ deferred' = [type |-> "shutdown"] /\ UNCHANGED commands
    /\ turn' = None
    /\ Returns(after, deferred')
    /\ UNCHANGED <<closed, sent, submitted, after, active, budget, taskVars,
                   brokerVars, storeVars, completions, requests, view>>

\* The refresh, the memory selection or the prompt assembly fails.
TurnUnprepared ==
    /\ pc = "refresh" /\ commands = <<>>
    /\ turn' = None
    /\ Returns(after, deferred)
    /\ UNCHANGED <<clientVars, after, deferred, active, budget, taskVars,
                   brokerVars, storeVars, completions, requests, view>>

\* The turn is prepared; history above the threshold is compacted first.
TurnPrepared ==
    /\ pc = "refresh" /\ commands = <<>>
    /\ pc' \in {"commit", "compact"}
    /\ UNCHANGED <<clientVars, after, turn, deferred, active, budget, taskVars,
                   brokerVars, storeVars, completions, requests, view>>

\* CompactConversation.
CompactConversation ==
    /\ Take("compact")
    /\ IF active # None \/ budget # None
       THEN Rejected
       ELSE /\ pc' = "compact" /\ after' = CallerOf
            /\ turn' = [op |-> NextCommand.op, manual |-> TRUE]
            /\ UNCHANGED <<active, budget, taskVars, brokerVars, storeVars,
                           completions, requests, view>>

\* handle_compaction_command: only an interrupt of the very operation, a
\* shutdown or a dropped controller stops the compaction.
CompactionCommand ==
    /\ pc = "compact" /\ commands # <<>>
    /\ commands' = Tail(commands)
    /\ UNCHANGED <<closed, sent, submitted, after, deferred, budget,
                   call, round, consumed, verdict, effects,
                   completions, requests, brokerEvents, pending>>
    /\ LET c == Head(commands) IN
       IF c.type = "shutdown"
       THEN /\ pc' = "exited" /\ turn' = None /\ active' = None
            /\ brokerQ' = Append(brokerQ, [type |-> "shutdown"])
            /\ UNCHANGED <<task, journal, faults, view>>
       ELSE /\ UNCHANGED <<active, task, journal, faults, brokerQ, view>>
            /\ IF c.type = "interrupt" /\ c.op = turn.op
               THEN turn' = None /\ Returns(after, deferred)
               ELSE UNCHANGED <<pc, turn>>

CompactionOrphaned ==
    /\ pc = "compact" /\ commands = <<>> /\ closed
    /\ pc' = "exited" /\ turn' = None
    /\ brokerQ' = Append(brokerQ, [type |-> "shutdown"])
    /\ UNCHANGED <<clientVars, after, deferred, active, budget, taskVars,
                   brokerEvents, pending, storeVars, completions, requests, view>>

\* The compaction ends, with a checkpoint or without.  After an automatic one
\* the turn proceeds if its prompt fits, and is rejected otherwise.
CompactionEnds ==
    /\ pc = "compact" /\ commands = <<>>
    /\ \/ ~turn.manual /\ pc' = "commit" /\ UNCHANGED turn
       \/ turn' = None /\ Returns(after, deferred)
    /\ UNCHANGED <<clientVars, after, deferred, active, budget, taskVars,
                   brokerVars, storeVars, completions, requests, view>>

\* The rest of start_turn: the user entry, the acceptance and configuration
\* records, the task.  A failed append rejects the turn; the operation is then
\* already accepted if only its configuration record failed.
CommitTurn ==
    /\ pc = "commit"
    /\ turn' = None
    /\ Returns(after, deferred)
    /\ \E ok \in BOOLEAN :
         /\ Stored(CanMoveTo(turn.op, "running"), ok)
         /\ IF ok
            THEN /\ journal' = Moved(turn.op, "running")
                 /\ task' = [task EXCEPT ![turn.op] = "model"]
                 /\ active' = turn.op /\ view' = Shows(turn.op)
            ELSE /\ \/ UNCHANGED journal
                    \/ CanMoveTo(turn.op, "running") /\ journal' = Moved(turn.op, "running")
                 /\ UNCHANGED <<task, active, view>>
    /\ UNCHANGED <<clientVars, after, deferred, budget, call, round, consumed,
                   verdict, effects, brokerVars, completions, requests>>

\* ClearConversation.
ClearConversation ==
    /\ Take("clear")
    /\ Returns(CallerOf, deferred')
    /\ \E ok \in BOOLEAN :
         /\ Stored(active = None /\ budget = None, ok)
         /\ view' = IF ok THEN [active |-> None, approvals |-> {}] ELSE view
    /\ UNCHANGED <<after, turn, active, budget, taskVars, brokerVars, journal,
                   completions, requests>>

\* InterruptOperation: only the active operation, by its exact id.
InterruptsIfRunning(op) == active = op /\ journal[op].state = "running"
Interrupts(op) == active = op

InterruptOperation ==
    /\ Take("interrupt")
    /\ IF Interrupts(NextCommand.op)
       THEN /\ Returns(CallerOf, deferred')
            /\ InterruptActive(<<>>)
            /\ UNCHANGED <<after, turn>>
       ELSE Rejected

\* DecidePermission awaits the broker's answer, so everything queued at the
\* broker before it has been handled when the decision is.
DecidePermission ==
    /\ Take("decide")
    /\ brokerQ = <<>>
    /\ LET c == NextCommand
           key == [op |-> c.op, call |-> c.call] IN
       IF key \notin pending
       THEN Rejected
       ELSE /\ Returns(CallerOf, deferred')
            /\ pending' = pending \ {key}
            /\ brokerEvents' = Append(brokerEvents, [op |-> c.op, kind |-> "running"])
            /\ IF task[c.op] = "ask" /\ call[c.op] = c.call
               THEN /\ task' = [task EXCEPT ![c.op] = "answered"]
                    /\ verdict' = [verdict EXCEPT ![c.op] =
                                     IF c.allow THEN "allow" ELSE "deny"]
               ELSE UNCHANGED <<task, verdict>>
            /\ UNCHANGED <<after, turn, active, budget, call, round, consumed,
                           effects, brokerQ, storeVars, completions, requests, view>>

\* root_round_budget and the tranche limit that follows from it.
Remaining(op) == HardRounds - consumed[op]
TrancheIsAlwaysSoft(op) == SoftRounds
TrancheLimit(op) == IF Remaining(op) < SoftRounds THEN Remaining(op) ELSE SoftRounds

\* DecideRoundBudget: the exact suspension, an allowed action, a journal that
\* has not recorded a decision for it; Stop needs every intent answered.  A
\* Continue is also refused when its prompt cannot be prepared.
BudgetRefuses(c) ==
    \/ budget # [op |-> c.op, at |-> c.at]
    \/ c.continue /\ Remaining(c.op) = 0
    \/ active # None

CommitDecision(c) ==
    \E ok \in BOOLEAN :
      /\ Stored(/\ journal[c.op].state = "suspended"
                /\ c.at \notin journal[c.op].decided
                /\ \A b \in journal[c.op].budgets : b <= c.at
                /\ c.continue \/ ~HasPending(c.op), ok)
      /\ IF ~ok
         THEN UNCHANGED <<budget, active, task, journal, view>>
         ELSE /\ budget' = None
              /\ journal' = [journal EXCEPT
                   ![c.op].state = IF c.continue THEN "running" ELSE "finished",
                   ![c.op].decided = @ \cup {c.at}]
              /\ IF c.continue
                 THEN /\ active' = c.op /\ view' = Shows(c.op)
                      /\ task' = [task EXCEPT ![c.op] = "model"]
                 ELSE view' = ShowsIdle /\ UNCHANGED <<active, task>>

DecideRoundBudget ==
    /\ Take("budget")
    /\ \/ (BudgetRefuses(NextCommand) \/ NextCommand.continue) /\ Rejected
       \/ /\ ~BudgetRefuses(NextCommand)
          /\ CommitDecision(NextCommand)
          /\ Returns(CallerOf, deferred')
          /\ UNCHANGED <<after, turn, call, round, verdict, effects, consumed,
                         brokerVars, completions, requests>>

\* Shutdown, from the channel or deferred.
Shutdown ==
    /\ Take("shutdown")
    /\ pc' = "exited"
    /\ InterruptActive(<<[type |-> "shutdown"]>>)
    /\ UNCHANGED <<after, turn>>

\* Every command sender is gone and the channel is drained.
ControllerDroppedWhenIdle ==
    /\ pc = "select" /\ commands = <<>> /\ closed /\ active = None
    /\ pc' = "exited"
    /\ InterruptActive(<<[type |-> "controller_lost"]>>)
    /\ UNCHANGED <<clientVars, after, turn, deferred>>

ControllerDropped ==
    /\ pc = "select" /\ commands = <<>> /\ closed
    /\ pc' = "exited"
    /\ InterruptActive(<<[type |-> "controller_lost"]>>)
    /\ UNCHANGED <<clientVars, after, turn, deferred>>

-----------------------------------------------------------------------------
(* The actor: the other arms of the select, in their biased order.         *)
CompletionReady == active # None /\ completions # <<>>

\* The select is biased: an arm is taken when those before it are not ready.
\* Its polls are not one atomic step, so an arm may also be taken although an
\* earlier one has just become ready: Biased = FALSE lets it always do so.
Before(ready) == Biased => ~ready
Selects == pc = "select" /\ Before(commands # <<>> \/ closed)
Resumes == Returns("top", deferred)

\* commit_operation_finished; a failed append reports OperationFailed.
FinishOperation(op) ==
    \E ok \in BOOLEAN :
      /\ Stored(CanMoveTo(op, "finished"), ok)
      /\ journal' = IF ok THEN Moved(op, "finished") ELSE journal
      /\ view' = ShowsIdle

\* handle_completion.
HandleCompletion ==
    /\ Selects /\ CompletionReady
    /\ Resumes
    /\ completions' = Tail(completions)
    /\ active' = None
    /\ UNCHANGED <<clientVars, after, turn, deferred, call, verdict,
                   effects, brokerVars, requests>>
    /\ LET c == Head(completions)
           op == c.op
           total == consumed[op] + round[op] IN
       IF op # active
       THEN /\ task' = [task EXCEPT ![active] = "aborted"]
            /\ UNCHANGED <<budget, consumed, round, storeVars, view>>
       ELSE /\ UNCHANGED task
            /\ CASE c.result = "completed" ->
                      /\ FinishOperation(op)
                      /\ UNCHANGED <<budget, consumed, round>>
                 [] c.result = "rounds" ->
                      \E ok \in BOOLEAN :
                        /\ Stored(CanMoveTo(op, "suspended"), ok)
                        /\ IF ok
                           THEN /\ journal' = [Moved(op, "suspended") EXCEPT
                                                 ![op].budgets = @ \cup {total}]
                                /\ budget' = [op |-> op, at |-> total]
                                /\ consumed' = [consumed EXCEPT ![op] = total]
                                /\ round' = [round EXCEPT ![op] = 0]
                                /\ view' = Shows(op)
                           ELSE /\ UNCHANGED <<journal, budget, consumed, round>>
                                /\ view' = ShowsIdle
                 [] c.result = "failed" ->
                      /\ UNCHANGED <<budget, consumed, round>>
                      /\ IF HasPending(op)
                         THEN \E ok \in BOOLEAN :
                                /\ Stored(CanMoveTo(op, "suspended"), ok)
                                /\ journal' = IF ok THEN Moved(op, "suspended") ELSE journal
                                /\ view' = IF ok THEN Shows(op) ELSE ShowsIdle
                         ELSE FinishOperation(op)

\* handle_broker_event: a state change is journaled before it is shown, and
\* reported as a failure of the operation when it cannot be.
HandleBrokerEvent ==
    /\ Selects /\ Before(CompletionReady) /\ brokerEvents # <<>>
    /\ Resumes
    /\ brokerEvents' = Tail(brokerEvents)
    /\ UNCHANGED <<clientVars, after, turn, deferred, active, budget, taskVars,
                   brokerQ, pending, completions, requests>>
    /\ LET e == Head(brokerEvents) IN
       IF e.kind = "requested"
       THEN /\ view' = [view EXCEPT !.approvals = @ \cup {[op |-> e.op, call |-> e.call]}]
            /\ UNCHANGED storeVars
       ELSE \E ok \in BOOLEAN :
              /\ Stored(CanMoveTo(e.op, e.kind), ok)
              /\ journal' = IF ok THEN Moved(e.op, e.kind) ELSE journal
              /\ view' = IF ok THEN Shows(e.op) ELSE ShowsIdle

\* What the reducer does with each record of a task, and when it accepts it.
Accepts(r) ==
    LET j == journal[r.op] IN
    CASE r.kind \in {"assistant", "reply"} -> active = r.op
      [] r.kind = "step"   -> j.state # "finished"
      [] r.kind = "audit"  -> TRUE
      [] r.kind = "intent" -> j.state # "finished" /\ r.call \notin j.intents
                              /\ r.step <= j.steps
      [] r.kind = "result" -> /\ j.state # "finished" /\ r.call \in j.intents
                              /\ r.call \notin Answered(j)

Records(r) ==
    LET j == journal[r.op] IN
    CASE r.kind \in {"assistant", "reply"} -> j
      [] r.kind = "step"   -> [j EXCEPT !.steps = @ + 1]
      [] r.kind = "audit"  -> [j EXCEPT !.audits = @ \cup
                                 {[call |-> r.call, allow |-> r.verdict = "allow"]}]
      [] r.kind = "intent" -> [j EXCEPT !.intents = @ \cup {r.call}]
      [] r.kind = "result" -> [j EXCEPT !.results = @ \cup
                                 {[call |-> r.call,
                                   outcome |-> IF r.verdict = "allow"
                                               THEN "performed" ELSE "declined"]}]

Acknowledged == [assistant |-> "assistant_ok", step |-> "plan",
                 audit |-> "audited", intent |-> "intended",
                 result |-> "resulted", reply |-> "replied"]

\* handle_conversation_commit and handle_durable_operation: append, emit the
\* record's event, acknowledge.  The acknowledgement of an aborted task goes
\* nowhere; its record is appended all the same.  The two channels never hold
\* more than one request of a live task between them, so one queue stands for
\* both.
HandleRequest ==
    /\ Selects /\ Before(CompletionReady \/ brokerEvents # <<>>)
    /\ requests # <<>>
    /\ Resumes
    /\ requests' = Tail(requests)
    /\ LET r == Head(requests) IN
       \E ok \in BOOLEAN :
         /\ Stored(Accepts(r), ok)
         /\ journal' = IF ok THEN [journal EXCEPT ![r.op] = Records(r)] ELSE journal
         /\ task' = IF task[r.op] = r.kind
                    THEN [task EXCEPT ![r.op] = IF ok THEN Acknowledged[r.kind]
                                                      ELSE "failing"]
                    ELSE task
         /\ view' = IF ok /\ r.kind = "audit"
                    THEN [view EXCEPT !.approvals = @ \ {[op |-> r.op, call |-> r.call]}]
                    ELSE view
    /\ UNCHANGED <<clientVars, after, turn, deferred, active, budget, call,
                   round, consumed, verdict, effects, brokerVars, completions>>

\* The maintenance tick, whose only effect here is one turn of the loop.
MaintenanceTick ==
    /\ Selects
    /\ Before(CompletionReady \/ brokerEvents # <<>> \/ requests # <<>>)
    /\ active = None /\ deferred # None
    /\ pc' = "top"
    /\ UNCHANGED <<clientVars, after, turn, deferred, active, budget, taskVars,
                   brokerVars, storeVars, completions, requests, view>>

-----------------------------------------------------------------------------
(* The tranche task: Agent::run_turn_inner and OperationExecutor.          *)
Live(op) == task[op] \notin {"none", "done", "aborted"}

Goes(op, to) == task' = [task EXCEPT ![op] = to]

taskFrame == <<clientVars, actorVars, brokerEvents, pending, journal, view>>

\* Send a request and wait for its acknowledgement.
Requests(op, kind) ==
    /\ requests' = Append(requests, [op |-> op, kind |-> kind, call |-> call[op],
                                     step |-> consumed[op] + round[op] + 1,
                                     verdict |-> verdict[op]])
    /\ Goes(op, kind)
    /\ UNCHANGED <<taskFrame, faults, call, round, consumed, verdict, effects,
                   brokerQ, completions>>

Completes(op, result) ==
    /\ completions' = Append(completions, [op |-> op, result |-> result])
    /\ Goes(op, "done")
    /\ UNCHANGED <<taskFrame, faults, call, consumed, verdict, effects,
                   brokerQ, requests>>

\* The provider answers: a final message, tool calls, or an error.
ModelFinal(op) ==
    /\ task[op] = "model"
    /\ Completes(op, "completed") /\ UNCHANGED round
ModelRequestsTools(op) ==
    /\ task[op] = "model" /\ call[op] < MaxCalls
    /\ Requests(op, "assistant")
ModelFails(op) ==
    /\ task[op] = "model"
    /\ Goes(op, "failing")
    /\ UNCHANGED <<taskFrame, faults, call, round, consumed, verdict, effects,
                   brokerQ, completions, requests>>

StartStep(op) == task[op] = "assistant_ok" /\ Requests(op, "step")

\* Plan one call and ask the broker; a call that cannot be planned or that
\* the progress guard blocks is answered without the broker.
PlanCall(op) ==
    /\ task[op] = "plan" /\ call[op] < MaxCalls
    /\ call' = [call EXCEPT ![op] = @ + 1]
    /\ verdict' = [verdict EXCEPT ![op] = "none"]
    /\ \/ /\ Goes(op, "ask")
          /\ brokerQ' = Append(brokerQ, [type |-> "authorize", op |-> op,
                                         call |-> call[op] + 1])
       \/ Goes(op, "resulted") /\ UNCHANGED brokerQ
    /\ UNCHANGED <<taskFrame, faults, round, consumed, effects, completions, requests>>

AuditCall(op) == task[op] = "answered" /\ Requests(op, "audit")
IntendCall(op) == task[op] = "audited" /\ Requests(op, "intent")

\* Dispatch the effect, only when it was allowed.
EffectReady(op) == task[op] = "intended" /\ verdict[op] = "allow"
PerformEffect(op) ==
    /\ EffectReady(op)
    /\ effects' = effects \cup {[op |-> op, call |-> call[op]]}
    /\ Goes(op, "effected")
    /\ UNCHANGED <<taskFrame, faults, call, round, consumed, verdict, brokerQ,
                   completions, requests>>

\* store_json of the output can fail: the effect happened, its result is lost.
\* So can the record that names the output, after the result.
StoreOutputFails(op) ==
    /\ task[op] = "effected" \/ (task[op] = "resulted" /\ verdict[op] = "allow")
    /\ faults < MaxFaults
    /\ faults' = faults + 1
    /\ Goes(op, "failing")
    /\ UNCHANGED <<taskFrame, call, round, consumed, verdict, effects, brokerQ,
                   completions, requests>>

ResultReadyEarly(op) == task[op] \in {"effected", "intended"}
ResultReady(op) ==
    \/ task[op] = "effected"
    \/ task[op] = "intended" /\ verdict[op] = "deny"
RecordResult(op) == ResultReady(op) /\ Requests(op, "result")

CommitResult(op) == task[op] = "resulted" /\ Requests(op, "reply")

\* After the last call of a round: another round, or the tranche is used up.
RoundEnds(op) ==
    /\ task[op] = "replied"
    /\ round' = [round EXCEPT ![op] = @ + 1]
    /\ IF round[op] + 1 >= TrancheLimit(op)
       THEN Completes(op, "rounds")
       ELSE /\ Goes(op, "model")
            /\ UNCHANGED <<taskFrame, faults, call, consumed, verdict, effects,
                           brokerQ, completions, requests>>

\* The assistant message asked for another call of the same round.
NextCall(op) ==
    /\ task[op] = "replied" /\ call[op] < MaxCalls
    /\ Goes(op, "plan")
    /\ UNCHANGED <<taskFrame, faults, call, round, consumed, verdict, effects,
                   brokerQ, completions, requests>>

\* An error, also of the progress guard after a round, ends the tranche.
ProgressStops(op) ==
    /\ task[op] = "replied"
    /\ Goes(op, "failing")
    /\ UNCHANGED <<taskFrame, faults, call, round, consumed, verdict, effects,
                   brokerQ, completions, requests>>
TrancheFails(op) ==
    /\ task[op] = "failing"
    /\ Completes(op, "failed") /\ UNCHANGED round

TaskStep(op) ==
    \/ ModelFinal(op) \/ ModelRequestsTools(op) \/ ModelFails(op)
    \/ StartStep(op) \/ PlanCall(op) \/ AuditCall(op) \/ IntendCall(op)
    \/ PerformEffect(op) \/ StoreOutputFails(op) \/ RecordResult(op)
    \/ CommitResult(op) \/ RoundEnds(op) \/ NextCall(op)
    \/ ProgressStops(op) \/ TrancheFails(op)

-----------------------------------------------------------------------------
(* The broker task.                                                        *)
Replies(k, v) ==
    IF task[k.op] = "ask" /\ call[k.op] = k.call
    THEN /\ task' = [task EXCEPT ![k.op] = "answered"]
         /\ verdict' = [verdict EXCEPT ![k.op] = v]
    ELSE UNCHANGED <<task, verdict>>

brokerFrame == <<clientVars, actorVars, call, round, consumed, effects,
                 storeVars, completions, requests, view>>

Key(c) == [op |-> c.op, call |-> c.call]

\* Authorize: policy, a saved denial or a grant answers at once; otherwise the
\* request waits and the operation is suspended.
Authorize ==
    /\ brokerQ # <<>> /\ Head(brokerQ).type = "authorize"
    /\ brokerQ' = Tail(brokerQ)
    /\ LET k == Key(Head(brokerQ)) IN
       \/ /\ \E v \in {"allow", "deny"} : Replies(k, v)
          /\ UNCHANGED <<pending, brokerEvents>>
       \/ /\ pc # "exited"
          /\ pending' = pending \cup {k}
          /\ brokerEvents' = brokerEvents \o
                <<[op |-> k.op, kind |-> "suspended"],
                  [op |-> k.op, kind |-> "requested", call |-> k.call]>>
          /\ UNCHANGED <<task, verdict>>
    /\ UNCHANGED brokerFrame

\* Cancel, sent by the dropped guard of an aborted authorization.
CancelRequest ==
    /\ brokerQ # <<>> /\ Head(brokerQ).type = "cancel"
    /\ brokerQ' = Tail(brokerQ)
    /\ pending' = pending \ {Key(Head(brokerQ))}
    /\ UNCHANGED <<brokerFrame, brokerEvents, task, verdict>>

\* Shutdown and ControllerLost deny everything that waits.
DenyAllPending ==
    /\ brokerQ # <<>> /\ Head(brokerQ).type \in {"shutdown", "controller_lost"}
    /\ brokerQ' = Tail(brokerQ)
    /\ pending' = {}
    /\ UNCHANGED <<brokerFrame, brokerEvents, task, verdict>>

BrokerStep == Authorize \/ CancelRequest \/ DenyAllPending

-----------------------------------------------------------------------------
ActorStep ==
    \/ SubmitTurn \/ RefreshInterrupted \/ TurnUnprepared \/ TurnPrepared
    \/ CompactConversation \/ CompactionCommand \/ CompactionOrphaned
    \/ CompactionEnds \/ CommitTurn \/ ClearConversation \/ InterruptOperation
    \/ DecidePermission \/ DecideRoundBudget \/ Shutdown \/ ControllerDropped
    \/ HandleCompletion \/ HandleBrokerEvent \/ HandleRequest \/ MaintenanceTick

ClientStep == DropController \/ \E c \in Offers : Send(c)

Next == ActorStep \/ BrokerStep \/ ClientStep \/ \E op \in Operations : TaskStep(op)

\* Tokio polls every task that is ready; a provider call ends, if only by its
\* own timeout.  Clients need not send anything.
Fairness ==
    /\ WF_vars(ActorStep)
    /\ WF_vars(BrokerStep)
    /\ \A op \in Operations : WF_vars(TaskStep(op))

Spec == Init /\ [][Next]_vars /\ Fairness

-----------------------------------------------------------------------------
(* Properties.                                                             *)

(* Only one root turn runs: a tranche task that can still move belongs to  *)
(* the active operation, and none survives the runtime.                    *)
OneLiveTask ==
    \A op \in Operations : Live(op) => active = op /\ pc # "exited"

(* A turn is only admitted over settled work, so the journal never holds   *)
(* two unfinished operations.                                              *)
OneUnfinishedOperation == Cardinality(Unfinished) <= 1

(* handle_completion never receives the completion of an operation that    *)
(* was interrupted in the meantime while another is active: that branch    *)
(* would kill the wrong Run.                                               *)
CompletionsMatch == CompletionReady => Head(completions).op = active

\* The runtime has one run at a time (native_runtime.rs holds one ActiveRun): a
\* well-typed state, one live task, one unfinished operation in the journal,
\* and a completion only of the run that is active.
OneRun == TypeOK /\ OneLiveTask /\ OneUnfinishedOperation /\ CompletionsMatch

(* Every dispatched effect had its allowing audit and its intent committed *)
(* before, so a crash at any point finds it in the journal.                *)
EffectsHaveIntents ==
    \A e \in effects :
        /\ e.call \in journal[e.op].intents
        /\ [call |-> e.call, allow |-> TRUE] \in journal[e.op].audits

(* A committed result tells what happened: a performed call was dispatched *)
(* and a declined one never was.                                           *)
ResultsAreTruthful ==
    \A op \in Operations : \A r \in journal[op].results :
        (r.outcome = "performed") <=> ([op |-> op, call |-> r.call] \in effects)

(* An operation is only finished with every intent answered: an effect of  *)
(* unknown outcome keeps it suspended for reconciliation.                  *)
FinishedIsReconciled ==
    \A op \in Operations :
        journal[op].state = "finished" =>
            journal[op].intents \subseteq Answered(journal[op])

\* The journal that invoke_tool and the runtime's durable commits leave can be
\* trusted after a crash at any point: it knows every effect that may have
\* happened, claims none that did not, and closes no operation with one open.
JournalIsTruthful == EffectsHaveIntents /\ ResultsAreTruthful /\ FinishedIsReconciled

(* Continuations never take an operation over the hard round ceiling.      *)
RoundsWithinCeiling == \A op \in Operations : consumed[op] + round[op] <= HardRounds

(* A request waits at the broker only for a task that is waiting for it,   *)
(* or its cancellation is already on the way.                              *)
PendingIsOwned ==
    \A k \in pending :
        \/ task[k.op] = "ask" /\ call[k.op] = k.call
        \/ \E i \in 1 .. Len(brokerQ) :
              \/ brokerQ[i] = [type |-> "cancel", op |-> k.op, call |-> k.call]
              \/ brokerQ[i].type \in {"shutdown", "controller_lost"}

(* An interrupt that names the active operation stops it, whatever the     *)
(* operation is waiting for.                                               *)
InterruptTakesEffect ==
    \A op \in Operations :
        (/\ active = op
         /\ \E i \in 1 .. Len(commands) :
               commands[i].type = "interrupt" /\ commands[i].op = op)
        ~> ~Live(op)

(* When its controller is gone the runtime stops, with no task running and *)
(* no approval waiting.                                                    *)
DroppedControllerStops ==
    closed ~> (pc = "exited" /\ pending = {} /\ \A op \in Operations : ~Live(op))

=============================================================================
