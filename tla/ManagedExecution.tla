--------------------------- MODULE ManagedExecution ---------------------------
(***************************************************************************)
(* A managed Codex conversation under a loopback host: the connections and *)
(* their controller (local_host/transport.rs), the loop that owns the      *)
(* conversation (local_host/execution.rs run_managed_execution), the       *)
(* driver's actor behind two bounded channels                              *)
(* (managed_execution/tui_driver.rs run_actor) and the turn it runs        *)
(* (managed/codex.rs).                                                     *)
(*                                                                         *)
(* Abstracted: a lease is held or not (module ControllerLeases has its     *)
(* life); a turn asks for at most one approval, named after its operation; *)
(* the other notifications are one event, and the diagnostic of a failed   *)
(* turn is not told from its end.  Memory approvals are left out.          *)
(* A retired connection (protocol_usable) fails the next turn at           *)
(* turn/start, as any turn may fail there.                                 *)
(***************************************************************************)
EXTENDS Naturals, Sequences, SequencesExt

CONSTANTS
    Clients,         \* connections to the host
    Operations,      \* the turns that may be submitted
    CommandCapacity, \* COMMAND_CAPACITY of the driver
    EventCapacity,   \* EVENT_CAPACITY of the driver
    MayClear,        \* controllers may clear the conversation
    MaxQueued,       \* bound: requests in the loop's queue when a lease is lost
    None

ASSUME ManagedAssumption ==
    /\ CommandCapacity \in Nat \ {0} /\ EventCapacity \in Nat \ {0}
    /\ MayClear \in BOOLEAN /\ MaxQueued \in Nat \ {0} /\ None \notin Operations

VARIABLES
    controller, \* the connection that holds the lease
    waiting,    \* connections that await the answer to a request
    closing,    \* a fail_closed call whose request is not yet sent
    requests,   \* the queue of ExecutionRequest
    loop,       \* run_managed_execution: run, stopping, joining, ended
    active,     \* its active_operation
    approvals,  \* its map of approvals
    commands,   \* the driver's command channel
    events,     \* the driver's event channel
    actor,      \* run_actor
    cancelled,  \* the cancellation token of the actor's turn
    answer,     \* Operation -> its approval's oneshot
    pending,    \* the hub's pending_managed_approvals
    stop,       \* run_borrowed is shutting the host down
    submitted   \* operations already submitted

clients == <<controller, waiting, closing, stop>>
owner == <<loop, active, approvals>>
driver == <<actor, cancelled>>
vars == <<clients, requests, owner, commands, events, driver, answer, pending, submitted>>

Request(kind, o, c) == [kind |-> kind, op |-> o, from |-> c]
Command(kind, o) == [kind |-> kind, op |-> o]
Event(kind, o) == [kind |-> kind, op |-> o]
Finished(o) == Event("finished", o)
Note == Event("note", None)
Idle == [at |-> "idle", op |-> None]

Maybe(S) == S \cup {None}
\* Where the actor has published the turn in the driver's `active`.
Live == {"preparing", "turn", "asking", "interrupting"}
\* Kinds of the requests a connection sends.
Asks == {"submit", "allow", "refuse", "interrupt", "clear"}

\* The type invariant.
TypeOK ==
    /\ controller \in Maybe(Clients) /\ waiting \subseteq Clients /\ closing \in BOOLEAN
    /\ stop \in BOOLEAN
    /\ requests \in Seq([kind : Asks \cup {"failclosed", "shutdown"},
                         op : Maybe(Operations), from : Maybe(Clients)])
    /\ loop \in {"run", "stopping", "joining", "ended"}
    /\ active \in Maybe(Operations) /\ approvals \subseteq Operations
    /\ commands \in Seq([kind : {"submit", "clear", "shutdown"}, op : Maybe(Operations)])
    /\ Len(commands) <= CommandCapacity
    /\ events \in Seq([kind : {"approval", "finished", "note"}, op : Maybe(Operations)])
    /\ Len(events) <= EventCapacity
    /\ actor \in [at : Live \cup {"idle", "starting", "clearing", "ending", "ended"},
                  op : Maybe(Operations)]
    /\ cancelled \in BOOLEAN
    /\ answer \in [Operations -> {"unasked", "open", "allow", "cancel", "granted"}]
    /\ pending \subseteq Operations /\ submitted \subseteq Operations

Init ==
    /\ controller = None /\ waiting = {} /\ closing = FALSE /\ stop = FALSE
    /\ requests = <<>> /\ loop = "run" /\ active = None /\ approvals = {}
    /\ commands = <<>> /\ events = <<>>
    /\ actor = Idle /\ cancelled = FALSE
    /\ answer = [o \in Operations |-> "unasked"]
    /\ pending = {} /\ submitted = {}

-----------------------------------------------------------------------------
(* The connections (serve_client).  Each awaits the answer to its request  *)
(* before it reads the next frame.  What connections do after the loop has *)
(* ended is left out.                                                      *)

\* AcquireControl: a free lease, or a confirmed takeover, which a pending
\* approval refuses.
Acquire(c) ==
    /\ ~stop /\ loop # "ended" /\ c \notin waiting /\ controller # c
    /\ controller # None => pending = {}
    /\ controller' = c
    /\ UNCHANGED <<waiting, closing, stop, requests, owner, commands, events, driver,
                   answer, pending, submitted>>

\* ReleaseControl, or the end of the grace after a disconnect: the lease is
\* over before its fail_closed is in the queue.
LoseControl ==
    /\ ~stop /\ loop # "ended" /\ controller \notin waiting \cup {None}
    /\ ~closing /\ Len(requests) < MaxQueued
    /\ controller' = None /\ closing' = TRUE
    /\ UNCHANGED <<waiting, stop, requests, owner, commands, events, driver, answer,
                   pending, submitted>>

SendFailClosed ==
    /\ closing /\ closing' = FALSE
    /\ requests' = IF loop = "ended" THEN requests
                   ELSE Append(requests, Request("failclosed", None, None))
    /\ UNCHANGED <<controller, waiting, stop, owner, commands, events, driver, answer,
                   pending, submitted>>

\* Command and DecideManagedApproval of the connection that is the controller.
Ask(c, kind, o) ==
    /\ ~stop /\ loop # "ended" /\ controller = c /\ c \notin waiting
    /\ CASE kind = "submit" -> o \in Operations \ submitted
         [] kind \in {"allow", "refuse"} -> o \in Operations /\ answer[o] # "unasked"
         [] kind = "interrupt" -> o \in submitted
         [] kind = "clear" -> o = None /\ MayClear
    /\ requests' = Append(requests, Request(kind, o, c))
    /\ waiting' = waiting \cup {c}
    /\ submitted' = IF kind = "submit" THEN submitted \cup {o} ELSE submitted
    /\ UNCHANGED <<controller, closing, stop, owner, commands, events, driver, answer,
                   pending>>

-----------------------------------------------------------------------------
(* The owner's loop.  Its select is biased: requests before events.        *)

Handles(kinds) == loop = "run" /\ requests # <<>> /\ Head(requests).kind \in kinds
Replied ==
    /\ waiting' = waiting \ {Head(requests).from}
    /\ requests' = Tail(requests)
    /\ UNCHANGED <<controller, closing, stop>>

Room(queue, capacity) == Len(queue) < capacity
\* ManagedTuiDriver's channel send: it waits for room, or fails.
SendCommand(command) ==
    \/ actor.at # "ended" /\ Room(commands, CommandCapacity) /\ commands' = Append(commands, command)
    \/ actor.at = "ended" /\ UNCHANGED commands

\* ManagedTuiDriver::interrupt: only the turn the actor has published.
Interrupt(o) == cancelled' = (cancelled \/ (actor.at \in Live /\ actor.op = o))

\* execute_managed_command: SubmitTurn.
HandleSubmit ==
    /\ Handles({"submit"}) /\ Replied
    /\ IF active # None \/ actor.at = "ended" THEN UNCHANGED <<active, commands>>
       ELSE /\ SendCommand(Command("submit", Head(requests).op))
            /\ active' = Head(requests).op
    /\ UNCHANGED <<loop, approvals, events, driver, answer, pending, submitted>>

\* execute_managed_command: InterruptOperation and ClearConversation.
HandleControl ==
    /\ Handles({"interrupt", "clear"}) /\ Replied
    /\ IF Head(requests).kind = "interrupt"
       THEN /\ IF active = Head(requests).op THEN Interrupt(active) ELSE UNCHANGED cancelled
            /\ UNCHANGED commands
       ELSE /\ IF active = None THEN SendCommand(Command("clear", None)) ELSE UNCHANGED commands
            /\ UNCHANGED cancelled
    /\ UNCHANGED <<owner, events, actor, answer, pending, submitted>>

Cancel(S) == answer' = [o \in Operations |-> IF o \in S THEN "cancel" ELSE answer[o]]

\* resolve_managed_approval, and the resolution that the hub publishes.
HandleDecision ==
    /\ Handles({"allow", "refuse"}) /\ Replied
    /\ LET o == Head(requests).op IN
       /\ approvals' = approvals \ {o} /\ pending' = pending \ {o}
       /\ answer' = IF o \notin approvals THEN answer
                    ELSE [answer EXCEPT ![o] = IF Head(requests).kind = "allow" THEN "allow" ELSE "cancel"]
    /\ UNCHANGED <<loop, active, commands, events, driver, submitted>>

\* fail_closed_managed: what interrupt returns is dropped.
FailClosed ==
    /\ Cancel(approvals) /\ approvals' = {}
    /\ active' = None
    /\ IF active # None THEN Interrupt(active) ELSE UNCHANGED cancelled

HandleFailClosed ==
    /\ Handles({"failclosed"}) /\ Replied /\ FailClosed
    /\ UNCHANGED <<loop, commands, events, actor, pending, submitted>>

\* The shutdown request: fail closed, the driver's Shutdown command, and the
\* actor's task.  Events are no longer received.
HandleShutdown ==
    /\ Handles({"shutdown"}) /\ Replied /\ FailClosed
    /\ loop' = "stopping"
    /\ UNCHANGED <<commands, events, actor, pending, submitted>>

ShutDownDriver ==
    /\ loop = "stopping" /\ loop' = "joining" /\ SendCommand(Command("shutdown", None))
    /\ UNCHANGED <<clients, requests, active, approvals, events, driver, answer,
                   pending, submitted>>

\* driver.next_event, when no request is ready.
Receives(kind) == loop = "run" /\ requests = <<>> /\ events # <<>> /\ Head(events).kind = kind

\* Mutant: an approval outside a turn is ignored.
HandleApprovalIgnoring ==
    /\ Receives("approval") /\ events' = Tail(events)
    /\ LET o == Head(events).op IN
       IF active = None THEN UNCHANGED <<answer, approvals, pending>>
       ELSE /\ approvals' = approvals \cup {o} /\ pending' = pending \cup {o}
            /\ UNCHANGED answer
    /\ UNCHANGED <<clients, requests, loop, active, commands, driver, submitted>>

\* ManagedTuiEvent::Approval, which does not say whose it is: it is shown as
\* an approval of the active operation.
HandleApproval ==
    /\ Receives("approval") /\ events' = Tail(events)
    /\ LET o == Head(events).op IN
       IF active = None
       THEN Cancel({o}) /\ UNCHANGED <<approvals, pending>>
       ELSE /\ approvals' = approvals \cup {o} /\ pending' = pending \cup {o}
            /\ UNCHANGED answer
    /\ UNCHANGED <<clients, requests, loop, active, commands, driver, submitted>>

\* Mutant: only the end of the active operation clears the approvals.
HandleFinishedIfActive ==
    /\ Receives("finished") /\ events' = Tail(events)
    /\ IF active = Head(events).op
       THEN active' = None /\ approvals' = {} /\ pending' = {} /\ Cancel(approvals)
       ELSE UNCHANGED <<active, approvals, pending, answer>>
    /\ UNCHANGED <<clients, requests, loop, commands, driver, submitted>>

\* ManagedTuiEvent::TurnFinished, and the hub's ManagedTurnFinished.
HandleFinished ==
    /\ Receives("finished") /\ events' = Tail(events)
    /\ active' = IF active = Head(events).op THEN None ELSE active
    /\ approvals' = {} /\ Cancel(approvals) /\ pending' = {}
    /\ UNCHANGED <<clients, requests, loop, commands, driver, submitted>>

HandleNote ==
    /\ Receives("note") /\ events' = Tail(events)
    /\ UNCHANGED <<clients, requests, owner, commands, driver, answer, pending, submitted>>

\* The loop returns: the driver's events are over, or its task has ended.
LoopEnds ==
    /\ actor.at = "ended"
    /\ (loop = "run" /\ requests = <<>> /\ events = <<>>) \/ loop = "joining"
    /\ loop' = "ended"
    /\ UNCHANGED <<clients, requests, active, approvals, commands, events, driver,
                   answer, pending, submitted>>

\* Requests that the loop will not read: their callers see a closed channel.
DropRequests ==
    /\ loop = "ended" /\ requests # <<>>
    /\ requests' = <<>> /\ waiting' = {}
    /\ UNCHANGED <<controller, closing, stop, owner, commands, events, driver, answer,
                   pending, submitted>>

-----------------------------------------------------------------------------
(* The host's shutdown (run_borrowed).                                     *)

\* The transport closes and asks the execution to fail closed and to shut
\* down, in this order.
StopHost ==
    /\ ~stop /\ stop' = TRUE
    /\ requests' = IF loop = "ended" THEN requests
                   ELSE requests \o <<Request("failclosed", None, None), Request("shutdown", None, None)>>
    /\ UNCHANGED <<controller, waiting, closing, owner, commands, events, driver, answer,
                   pending, submitted>>

\* Mutant: only a loop that has taken the request is aborted.
AbortStopping ==
    /\ stop /\ loop = "stopping" /\ loop' = "ended"
    /\ UNCHANGED <<clients, requests, active, approvals, commands, events, driver,
                   answer, pending, submitted>>

\* The graceful deadline has passed: the loop's task is aborted, wherever it
\* is, and the driver is dropped.
Abort ==
    /\ stop /\ loop # "ended" /\ loop' = "ended"
    /\ UNCHANGED <<clients, requests, active, approvals, commands, events, driver,
                   answer, pending, submitted>>

-----------------------------------------------------------------------------
(* The driver's actor (run_actor) and its turn (run_turn_cancellable).     *)

Moves(from, to) == actor.at \in from /\ actor' = [actor EXCEPT !.at = to]
ActorOnly == UNCHANGED <<clients, requests, owner, pending, submitted>>

\* The next command; Shutdown, or a dropped driver, ends the actor.
TakeCommand ==
    /\ actor.at = "idle"
    /\ \/ /\ commands # <<>> /\ commands' = Tail(commands)
          /\ actor' = CASE Head(commands).kind = "submit" -> [at |-> "starting", op |-> Head(commands).op]
                        [] Head(commands).kind = "clear" -> [at |-> "clearing", op |-> None]
                        [] Head(commands).kind = "shutdown" -> [at |-> "ended", op |-> None]
       \/ /\ commands = <<>> /\ loop = "ended"
          /\ actor' = [at |-> "ended", op |-> None] /\ UNCHANGED commands
    /\ ActorOnly /\ UNCHANGED <<events, cancelled, answer>>

\* acquire_foreground_root and what else may refuse the turn before it is
\* published, and the publication.
StartTurn ==
    /\ \/ Moves({"starting"}, "ending") /\ UNCHANGED cancelled
       \/ Moves({"starting"}, "preparing") /\ cancelled' = FALSE
    /\ ActorOnly /\ UNCHANGED <<commands, events, answer>>

\* The thread, which may not load, its ThreadOpened event, the memory context
\* and turn/start, each of which may fail.  turn/start is not sent for a
\* cancelled turn.
BeginTurn ==
    /\ \/ Moves({"preparing"}, "ending") /\ UNCHANGED events
       \/ /\ loop # "ended" /\ Room(events, EventCapacity) /\ events' = Append(events, Note)
          /\ (Moves({"preparing"}, "turn") /\ ~cancelled) \/ Moves({"preparing"}, "ending")
       \/ /\ loop = "ended" /\ actor.at = "preparing" /\ UNCHANGED events
          /\ actor' = [at |-> "ended", op |-> None]
    /\ ActorOnly /\ UNCHANGED <<commands, cancelled, answer>>

\* TuiManagedHandler::approve.
AskApproval ==
    /\ Moves({"turn"}, "asking") /\ ~cancelled
    /\ answer[actor.op] = "unasked" /\ loop # "ended" /\ Room(events, EventCapacity)
    /\ events' = Append(events, Event("approval", actor.op))
    /\ answer' = [answer EXCEPT ![actor.op] = "open"]
    /\ ActorOnly /\ UNCHANGED <<commands, cancelled>>

\* wait_for_turn's biased select: the answer counts unless it is cancelled.
ReceiveAnswer ==
    /\ Moves({"asking"}, "turn") /\ ~cancelled /\ answer[actor.op] # "open"
    /\ answer' = [answer EXCEPT ![actor.op] = IF @ = "allow" THEN "granted" ELSE @]
    /\ ActorOnly /\ UNCHANGED <<commands, events, cancelled>>

\* interrupt_turn: a waiting approval is answered by a cancellation.
InterruptTurn ==
    /\ Moves({"turn", "asking"}, "interrupting") /\ cancelled
    /\ ActorOnly /\ UNCHANGED <<commands, events, cancelled, answer>>

\* TuiManagedHandler::notification; a full queue is an error that ends the
\* turn.
Notify ==
    /\ actor.at \in {"turn", "interrupting"} /\ loop # "ended"
    /\ \/ Room(events, EventCapacity) /\ events' = Append(events, Note) /\ UNCHANGED actor
       \/ /\ ~Room(events, EventCapacity) /\ Moves({"turn", "interrupting"}, "ending")
          /\ UNCHANGED events
    /\ ActorOnly /\ UNCHANGED <<commands, cancelled, answer>>

\* The turn completes or fails, by TURN_TIMEOUT or the interruption's deadline
\* at the latest.
EndTurn ==
    /\ Moves({"turn", "asking", "interrupting"}, "ending")
    /\ ActorOnly /\ UNCHANGED <<commands, events, cancelled, answer>>

\* Mutant: the end of an interrupted turn is not reported.
SendEventUnlessCancelled ==
    /\ actor.at \in {"ending", "clearing"}
    /\ loop # "ended" /\ Room(events, EventCapacity)
    /\ events' = IF actor.at = "clearing" THEN Append(events, Note)
                 ELSE IF cancelled THEN events ELSE Append(events, Finished(actor.op))
    /\ actor' = Idle
    /\ ActorOnly /\ UNCHANGED <<commands, cancelled, answer>>

\* send_event of TurnFinished or Cleared; it waits for room, and its failure
\* ends the actor.
SendEvent ==
    /\ actor.at \in {"ending", "clearing"}
    /\ \/ /\ loop # "ended" /\ Room(events, EventCapacity)
          /\ events' = Append(events, IF actor.at = "ending" THEN Finished(actor.op) ELSE Note)
          /\ actor' = Idle
       \/ loop = "ended" /\ actor' = [at |-> "ended", op |-> None] /\ UNCHANGED events
    /\ ActorOnly /\ UNCHANGED <<commands, cancelled, answer>>

\* The memory handler's errors leave run_actor with no TurnFinished.
ActorFails ==
    /\ actor.at \in {"preparing", "turn", "interrupting"}
    /\ actor' = [at |-> "ended", op |-> None]
    /\ ActorOnly /\ UNCHANGED <<commands, events, cancelled, answer>>

-----------------------------------------------------------------------------
LoopStep ==
    \/ HandleSubmit \/ HandleControl \/ HandleDecision \/ HandleFailClosed \/ HandleShutdown
    \/ ShutDownDriver \/ HandleApproval \/ HandleFinished \/ HandleNote \/ LoopEnds
    \/ DropRequests

\* The steps the actor cannot put off: commands, its own awaits, and the ends
\* that timeouts force.
ActorStep ==
    \/ TakeCommand \/ StartTurn \/ BeginTurn \/ ReceiveAnswer \/ InterruptTurn
    \/ EndTurn \/ SendEvent

Next ==
    \/ \E c \in Clients : Acquire(c)
    \/ \E c \in Clients, kind \in Asks, o \in Maybe(Operations) : Ask(c, kind, o)
    \/ LoseControl \/ SendFailClosed
    \/ LoopStep \/ StopHost \/ Abort
    \/ ActorStep \/ AskApproval \/ Notify \/ ActorFails

\* Once the host stops, its shutdown goes on, and its deadline comes.
Fairness ==
    /\ WF_vars(LoopStep) /\ WF_vars(ActorStep) /\ WF_vars(EndTurn) /\ WF_vars(SendFailClosed)
    /\ WF_vars(Abort)

Spec == Init /\ [][Next]_vars /\ Fairness

-----------------------------------------------------------------------------
Reports(o) == Contains(events, Finished(o))
Works(o) == actor.op = o /\ actor.at # "idle"

\* The loop never waits for a turn that nobody will end: its active operation
\* is queued, running, or has its end in the queue.  Otherwise every later
\* turn would be refused as "already active" (execution.rs SubmitTurn).
ActiveWillFinish ==
    loop = "run" /\ active # None /\ actor.at # "ended" =>
        Contains(commands, Command("submit", active)) \/ Works(active) \/ Reports(active)

\* An approval that still blocks a takeover belongs to a turn that has not
\* ended yet, through cancellations, fail-closed and late events: its end will
\* unblock the lease (hub.rs update_pending_managed_approvals).
PendingWillClear ==
    loop = "run" /\ actor.at # "ended" => \A o \in pending : Works(o) \/ Reports(o)

\* An approval that the turn waits for is in the queue, held by the loop or
\* answered: no path of the loop forgets its reply.
NoForgottenApproval ==
    actor.at = "asking" /\ answer[actor.op] = "open" =>
        \/ loop = "ended"
        \/ actor.op \in approvals \/ Contains(events, Event("approval", actor.op))

\* The approvals the loop holds have not been answered.
HeldAreOpen == \A o \in approvals : answer[o] = "open"

\* The approvals run_managed_execution holds and the ones the actor waits for
\* are the same ones: none is forgotten while a turn waits for it, and none is
\* held that was answered or cancelled.
ApprovalsAreKept == TypeOK /\ HeldAreOpen /\ NoForgottenApproval

\* A stopping host leaves neither loop nor actor behind, with full queues, an
\* approval nobody answers and a turn that could not be interrupted.
StopEnds == stop ~> loop = "ended" /\ actor.at = "ended"

\* An approval is granted only to the operation that the loop has active, and
\* so never to one that was failed closed: losing the controller interrupts
\* the turn, and the next one answers for its own requests only
\* (execution.rs fail_closed_managed).
GrantsAreCurrent ==
    [][\A o \in Operations : answer[o] # "granted" /\ answer'[o] = "granted" => active = o]_vars
=============================================================================
