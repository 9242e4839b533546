----------------------------- MODULE LocalHost -----------------------------
(***************************************************************************)
(* The loopback host of src/local_host: connection tasks (transport.rs),   *)
(* the observation hub that embeds the controller leases (hub.rs), the     *)
(* native execution owner behind a FIFO of requests (execution.rs) and the *)
(* server's shutdown, over one controllable Conversation.                  *)
(*                                                                         *)
(* Every hub method runs under the hub's lock and is one step.  A          *)
(* connection task checks authority in the hub and then awaits the request *)
(* channel: the two are separate steps, as are the end of a lease and the  *)
(* fail-closed request that follows it.  The runtime behind the owner is   *)
(* reduced to what the owner can tell apart; NativeRuntime has its detail. *)
(* The module extends the lease reducer: a hub method applies an action of *)
(* ControllerLeases to the hub's lease table, and HostSpec implements Spec.*)
(* Another process may hold the workspace root that a turn needs.          *)
(*                                                                         *)
(* Handshake, wire encoding, rate limits, artifacts and the managed owner  *)
(* are left out, and so is the capacity of the request channel: a full     *)
(* channel only delays a send, which may be delayed anyway.                *)
(***************************************************************************)
EXTENDS ControllerLeases, Sequences, Functions

\* MaxNow bounds the connections too: while the host serves, one ends only if
\* its grace still ends by then.
CONSTANTS
    Conversation,  \* the controllable Conversation of the hub's lease table
    Operations,    \* operation ids clients may draw
    MaxSent,       \* bound: commands of a behaviour
    MayStop,       \* bound: whether the host is shut down in a behaviour
    None           \* no operation, no request

ASSUME ConversationAssumption == Conversation \in Conversations
ASSUME BoundsAssumption == MaxSent \in Nat /\ MayStop \in BOOLEAN

VARIABLES
    conn,       \* Client -> state of its connection task
    role,       \* Client -> the task's cached role
    sending,    \* Client -> the request its task is about to send
    waiting,    \* clients whose task awaits a command result
    owed,       \* controllers whose expiry task has yet to send FailClosed
    sent,       \* commands sent so far
    submitted,  \* operation ids drawn so far
    execQ,      \* channel: ExecutionRequest
    execution,  \* the execution owner's task: "up" or "down"
    activeOp,   \* NativeExecutionState.active_operation
    rootLease,  \* NativeExecutionState.root_lease is held
    pendingRoot,\* NativeExecutionState.pending_root
    rtQ,        \* channel: RuntimeCommand
    rt,         \* the runtime: its operation and what it does with it
    asked,      \* operations that have asked for their approval
    events,     \* channels: AgentEvent, and the forwarder's observations
    stream,     \* the embedded client's forwarder: "open" or "ended"
    shown,      \* approvals of the hub's frontend snapshot
    otherRoot,  \* another process holds the workspace root
    host,       \* the server's run loop
    presented   \* history: approvals shown while there was a controller

leaseVars  == vars
connVars   == <<conn, role, sending, waiting, owed, sent, submitted>>
ownerVars  == <<execution, activeOp, rootLease, pendingRoot>>
runtimeVars == <<rtQ, rt, asked, events, stream>>
hubVars    == <<shown, presented>>
worldVars  == <<otherRoot, host>>
hostVars == <<leaseVars, connVars, execQ, ownerVars, runtimeVars, hubVars, worldVars>>

-----------------------------------------------------------------------------
TheLease == leases[Conversation]
HasController == Held(Conversation)
HubIsController(cl) == IsController(Conversation, cl)
Reconnecting == HasController /\ TheLease.state = "reconnecting"

Command ==
    [type : {"submit", "interrupt"}, op : Operations]
    \cup [type : {"decide"}, op : Operations, allow : BOOLEAN]
RuntimeCommand == Command \cup [type : {"shutdown"}]
Request ==
    [type : {"command"}, client : Clients, command : Command]
    \cup [type : {"fail_closed"}, of : Nat]
    \cup [type : {"shutdown"}]
Event == [type : {"running", "suspended", "requested", "audited", "finished"},
          op : Operations] \cup [type : {"rejected"}]

ASSUME NoneAssumption == None \notin Operations /\ None \notin Request

FailClosed(k) == [type |-> "fail_closed", of |-> k]
ByHost == 0   \* the server's own fail-closed request belongs to no controller

ConnTypeOK ==
    /\ conn \in [Clients -> {"new", "open", "gone"}]
    /\ role \in [Clients -> {"observer", "controller"}]
    /\ sending \in [Clients -> Request \cup {None}]
    /\ waiting \in SUBSET Clients /\ owed \in SUBSET Nat
    /\ sent \in 0 .. MaxSent /\ submitted \in SUBSET Operations

OwnerTypeOK ==
    /\ execQ \in Seq(Request) /\ execution \in {"up", "down"}
    /\ activeOp \in Operations \cup {None}
    /\ rootLease \in BOOLEAN /\ pendingRoot \in SUBSET Operations

RuntimeTypeOK ==
    /\ rtQ \in Seq(RuntimeCommand)
    /\ rt \in [op : Operations \cup {None},
               state : {"idle", "running", "asking", "suspended", "gone"}]
    /\ asked \in SUBSET Operations /\ events \in Seq(Event)
    /\ stream \in {"open", "ended"}

HubTypeOK ==
    /\ shown \in SUBSET Operations /\ presented \in SUBSET Operations
    /\ otherRoot \in BOOLEAN
    /\ host \in {"serving", "closing", "joining", "stopped"}

(* The value type of every variable. *)
HostTypeOK == TypeOK /\ ConnTypeOK /\ OwnerTypeOK /\ RuntimeTypeOK /\ HubTypeOK

HostInit ==
    /\ Init
    /\ conn = [cl \in Clients |-> "new"]
    /\ role = [cl \in Clients |-> "observer"]
    /\ sending = [cl \in Clients |-> None]
    /\ waiting = {} /\ owed = {} /\ sent = 0 /\ submitted = {}
    /\ execQ = <<>> /\ execution = "up"
    /\ activeOp = None /\ rootLease = FALSE /\ pendingRoot = {}
    /\ rtQ = <<>> /\ rt = [op |-> None, state |-> "idle"] /\ asked = {}
    /\ events = <<>> /\ stream = "open"
    /\ shown = {} /\ otherRoot = FALSE /\ host = "serving"
    /\ presented = {}

-----------------------------------------------------------------------------
(* Connection tasks: serve_client.                                         *)

\* A task reads its next frame only when it is not awaiting the execution.
Reads(cl) ==
    /\ host = "serving" /\ conn[cl] = "open"
    /\ sending[cl] = None /\ cl \notin waiting

behindTheHub == <<execQ, ownerVars, runtimeVars, hubVars, worldVars>>

\* A client attaches as an observer, or as the controller it was: the bearer
\* of the current lease moves authority to this connection.
Attach(cl) ==
    /\ host = "serving" /\ conn[cl] = "new"
    /\ conn' = [conn EXCEPT ![cl] = "open"]
    /\ \/ UNCHANGED <<leaseVars, role>>
       \/ /\ HasController /\ Reconnect(Conversation, cl, TheLease.bearer)
          /\ role' = [role EXCEPT ![cl] = "controller"]
    /\ UNCHANGED <<sending, waiting, owed, sent, submitted, behindTheHub>>

\* RequestSnapshot: a fresh subscription, and the role is looked up again.
\* The controller itself learns nothing it could still use when it is not.
RequestSnapshot(cl) ==
    /\ Reads(cl) /\ HasController /\ ~HubIsController(cl)
    /\ Observe(cl, Conversation)
    /\ role' = [role EXCEPT ![cl] = "observer"]
    /\ UNCHANGED <<conn, sending, waiting, owed, sent, submitted, behindTheHub>>

\* Mutant: an approval in the hub's snapshot does not refuse a takeover.
AcquireControlAnyway(cl) ==
    /\ Reads(cl)
    /\ Acquire(Conversation, cl, FALSE)
    /\ role' = [role EXCEPT ![cl] = "controller"]
    /\ UNCHANGED <<conn, sending, waiting, owed, sent, submitted, behindTheHub>>

\* AcquireControl.  Any approval in the hub's snapshot refuses a takeover.
AcquireControl(cl) ==
    /\ Reads(cl)
    /\ Acquire(Conversation, cl, shown # {})
    /\ role' = [role EXCEPT ![cl] = "controller"]
    /\ UNCHANGED <<conn, sending, waiting, owed, sent, submitted, behindTheHub>>

RenewControl(cl) ==
    /\ Reads(cl)
    /\ Renew(Conversation, cl)
    /\ UNCHANGED <<connVars, behindTheHub>>

\* ReleaseControl: the lease ends here, the fail-closed request is sent next.
ReleaseControl(cl) ==
    /\ Reads(cl)
    /\ Release(Conversation, cl)
    /\ role' = [role EXCEPT ![cl] = "observer"]
    /\ sending' = [sending EXCEPT ![cl] = FailClosed(TheLease.controller)]
    /\ UNCHANGED <<conn, waiting, owed, sent, submitted, behindTheHub>>

\* A command frame of the connected controller; anyone else is refused.
CommandFrame(cl, c) ==
    /\ Reads(cl) /\ sent < MaxSent
    /\ role[cl] = "controller" /\ HubIsController(cl)
    /\ sending' = [sending EXCEPT ![cl] =
                     [type |-> "command", client |-> cl,
                      command |-> c]]
    /\ sent' = sent + 1
    /\ submitted' = submitted \cup IF c.type = "submit" THEN {c.op} ELSE {}
    /\ UNCHANGED <<leaseVars, conn, role, waiting, owed, behindTheHub>>

Offers ==
    [type : {"submit"}, op : Operations \ submitted]
    \cup [type : {"interrupt"}, op : submitted]
    \cup [type : {"decide"}, op : shown, allow : BOOLEAN]

\* The channel accepts the request, or its receiver is gone: a command is
\* answered by its result, a fail-closed request by having been sent.
SendRequest(cl) ==
    /\ sending[cl] # None
    /\ sending' = [sending EXCEPT ![cl] = None]
    /\ IF execution = "up"
       THEN /\ execQ' = Append(execQ, sending[cl])
            /\ waiting' = waiting \cup
                 IF sending[cl].type = "command" THEN {cl} ELSE {}
       ELSE UNCHANGED <<execQ, waiting>>
    /\ UNCHANGED <<leaseVars, conn, role, owed, sent, submitted, ownerVars,
                   runtimeVars, hubVars, worldVars>>

\* The loop of serve_client breaks (end of stream, a lagging subscriber, a
\* frame limit, host shutdown): a controller's lease enters grace.
Breaks(cl) ==
    /\ conn[cl] = "open" /\ sending[cl] = None /\ cl \notin waiting
    /\ now + Grace <= MaxNow \/ host # "serving"
    /\ conn' = [conn EXCEPT ![cl] = "gone"]
    /\ IF HubIsController(cl) THEN DisconnectClient(cl)
                           ELSE UNCHANGED leaseVars
    /\ UNCHANGED <<role, sending, waiting, owed, sent, submitted, behindTheHub>>

\* A read error, a close frame, a malformed frame or a failed write leaves
\* serve_client by `?`, past the disconnect at its end.
TransportFails(cl) ==
    /\ Reads(cl)
    /\ conn' = [conn EXCEPT ![cl] = "gone"]
    /\ UNCHANGED <<leaseVars, role, sending, waiting, owed, sent, submitted,
                   behindTheHub>>

-----------------------------------------------------------------------------
(* The grace tasks a disconnect spawns, one per expiry token.              *)
OwesWhateverHeld(e) == IF HasController THEN {TheLease.controller} ELSE {}
Owes(e) == IF Expires(e) THEN {TheLease.controller} ELSE {}
TimerFires(e) ==
    /\ now >= e.deadline
    /\ Expire(e)
    /\ owed' = owed \cup Owes(e)
    /\ UNCHANGED <<conn, role, sending, waiting, sent, submitted, behindTheHub>>

\* Host shutdown cancels a grace task, which drops its token.
TimerCancelled(e) ==
    /\ host # "serving"
    /\ DropExpiry(e)
    /\ UNCHANGED <<connVars, behindTheHub>>

ExpirySent(k) ==
    /\ owed' = owed \ {k}
    /\ execQ' = IF execution = "up" THEN Append(execQ, FailClosed(k)) ELSE execQ
    /\ UNCHANGED <<leaseVars, conn, role, sending, waiting, sent, submitted,
                   ownerVars, runtimeVars, hubVars, worldVars>>

HostTick == Tick /\ UNCHANGED <<connVars, behindTheHub>>

-----------------------------------------------------------------------------
(* The execution owner: run_native_execution.                              *)
NextRequest(type) ==
    /\ execution = "up" /\ execQ # <<>> /\ Head(execQ).type = type
    /\ execQ' = Tail(execQ)

BusyRootIsSilent(r) == ~(r.command.type = "submit" /\ ~rootLease /\ otherRoot)
Replies(r) == TRUE

\* execute_native_command: a turn first needs the workspace root, which
\* another process may hold; the runtime may be gone.
HandleCommand ==
    /\ NextRequest("command")
    /\ LET r == Head(execQ)
           starts == r.command.type = "submit" IN
       /\ IF starts /\ ~rootLease /\ otherRoot
          THEN UNCHANGED <<rootLease, rtQ>>
          ELSE IF rt.state = "gone"
          THEN rootLease' = (rootLease /\ ~starts) /\ UNCHANGED rtQ
          ELSE rootLease' = (rootLease \/ starts) /\ rtQ' = Append(rtQ, r.command)
       /\ waiting' = IF Replies(r) THEN waiting \ {r.client} ELSE waiting
    /\ UNCHANGED <<leaseVars, conn, role, sending, owed, sent, submitted,
                   execution, activeOp, pendingRoot, rt, asked, events, stream,
                   hubVars, worldVars>>

\* fail_closed_native: deny what is pending, in any order, interrupt the
\* operation the owner has seen start, give up the root.
FailsClosed(more) ==
    /\ \E order \in Bijection(1 .. Cardinality(pendingRoot), pendingRoot) :
         rtQ' = rtQ
                \o [i \in DOMAIN order |-> [type |-> "decide", op |-> order[i],
                                            allow |-> FALSE]]
                \o (IF activeOp = None THEN <<>>
                    ELSE <<[type |-> "interrupt", op |-> activeOp]>>)
                \o more
    /\ pendingRoot' = {}
    /\ rootLease' = FALSE

HandleFailClosed ==
    /\ NextRequest("fail_closed")
    /\ FailsClosed(<<>>)
    /\ UNCHANGED <<leaseVars, connVars, execution, activeOp, rt, asked, events,
                   stream, hubVars, worldVars>>

\* The owner's task ends: its root and the requests still queued go with it.
OwnerStops ==
    /\ execution' = "down" /\ rootLease' = FALSE
    /\ waiting' = {} /\ execQ' = <<>>

HandleShutdown ==
    /\ execution = "up" /\ execQ # <<>> /\ Head(execQ).type = "shutdown"
    /\ FailsClosed(<<[type |-> "shutdown"]>>)
    /\ OwnerStops
    /\ UNCHANGED <<leaseVars, conn, role, sending, owed, sent, submitted,
                   activeOp, rt, asked, events, stream, hubVars, worldVars>>

\* NativeExecutionState::observe.
ObservesOnlyRunning(e) ==
    \/ /\ e.type = "running"
       /\ activeOp' = e.op /\ UNCHANGED <<rootLease, pendingRoot>>
    \/ /\ e.type = "finished"
       /\ activeOp' = IF activeOp = e.op THEN None ELSE activeOp
       /\ rootLease' = (rootLease /\ activeOp # e.op)
       /\ pendingRoot' = pendingRoot \ {e.op}
    \/ /\ e.type \notin {"running", "finished"}
       /\ UNCHANGED <<activeOp, rootLease, pendingRoot>>

Observes(e) ==
    \/ /\ e.type \in {"running", "suspended"}
       /\ activeOp' = e.op /\ UNCHANGED <<rootLease, pendingRoot>>
    \/ /\ e.type = "finished"
       /\ activeOp' = IF activeOp = e.op THEN None ELSE activeOp
       /\ rootLease' = (rootLease /\ activeOp # e.op)
       /\ pendingRoot' = pendingRoot \ {e.op}
    \/ /\ e.type = "requested"
       /\ pendingRoot' = pendingRoot \cup {e.op} /\ UNCHANGED <<activeOp, rootLease>>
    \/ /\ e.type = "audited"
       /\ pendingRoot' = pendingRoot \ {e.op} /\ UNCHANGED <<activeOp, rootLease>>
    \/ /\ e.type = "rejected"
       /\ rootLease' = (rootLease /\ activeOp # None)
       /\ UNCHANGED <<activeOp, pendingRoot>>

\* The biased select takes an event only when no request waits, and publishes
\* it to the hub.
HandleEvent ==
    /\ execution = "up" /\ execQ = <<>> /\ events # <<>>
    /\ events' = Tail(events)
    /\ LET e == Head(events) IN
       /\ Observes(e)
       /\ shown' = IF e.type = "requested" THEN shown \cup {e.op}
                   ELSE IF e.type = "audited" THEN shown \ {e.op}
                   ELSE shown
       /\ presented' = IF e.type = "requested" /\ HasController
                       THEN presented \cup {e.op} ELSE presented
    /\ UNCHANGED <<leaseVars, connVars, execQ, execution, rtQ, rt, asked, stream,
                   worldVars>>

\* The observation stream ends with the runtime, or before it: the owner's
\* task returns without failing closed and drops its handle of the runtime.
LoseRuntime ==
    /\ execution = "up" /\ execQ = <<>> /\ events = <<>>
    /\ rt.state = "gone" \/ stream = "ended"
    /\ OwnerStops
    /\ UNCHANGED <<leaseVars, conn, role, sending, owed, sent, submitted,
                   activeOp, pendingRoot, runtimeVars, hubVars, worldVars>>

-----------------------------------------------------------------------------
(* The runtime, as its owner sees it.                                      *)
aroundRuntime == <<leaseVars, connVars, execQ, ownerVars, stream, hubVars, otherRoot, host>>

NextCommand(type) ==
    /\ rtQ # <<>> /\ Head(rtQ).type = type /\ rt.state # "gone"
    /\ rtQ' = Tail(rtQ)

Emits(es) == events' = IF stream = "open" THEN events \o es ELSE events
On(type) == [type |-> type, op |-> rt.op]
Rejects == Emits(<<[type |-> "rejected"]>>) /\ UNCHANGED rt

\* A turn starts over settled work only, and may fail to be prepared; when its
\* automatic compaction fails or is interrupted no rejection is emitted.
RuntimeSubmits ==
    /\ NextCommand("submit")
    /\ \/ Rejects
       \/ rt.state = "idle" /\ UNCHANGED <<rt, events>>
       \/ /\ rt.state = "idle"
          /\ rt' = [op |-> Head(rtQ).op, state |-> "running"]
          /\ Emits(<<[type |-> "running", op |-> Head(rtQ).op]>>)
    /\ UNCHANGED <<aroundRuntime, asked>>

RuntimeDecides ==
    /\ NextCommand("decide")
    /\ LET c == Head(rtQ) IN
       IF rt = [op |-> c.op, state |-> "asking"]
       THEN /\ rt' = [rt EXCEPT !.state = "running"]
            /\ Emits(<<On("running"), On("audited")>>)
       ELSE Rejects
    /\ UNCHANGED <<aroundRuntime, asked>>

RuntimeInterrupts ==
    /\ NextCommand("interrupt")
    /\ IF rt.op = Head(rtQ).op /\ rt.state \in {"running", "asking"}
       THEN /\ rt' = [rt EXCEPT !.state = "suspended"]
            /\ Emits(<<On("suspended")>>)
       ELSE Rejects
    /\ UNCHANGED <<aroundRuntime, asked>>

\* The turn asks for an approval, once at most, or finishes.
RuntimeAsks ==
    /\ rt.state = "running" /\ rt.op \notin asked
    /\ rt' = [rt EXCEPT !.state = "asking"] /\ asked' = asked \cup {rt.op}
    /\ Emits(<<On("suspended"), On("requested")>>)
    /\ UNCHANGED <<rtQ, aroundRuntime>>
RuntimeFinishes ==
    /\ rt.state = "running"
    /\ rt' = [op |-> None, state |-> "idle"]
    /\ Emits(<<On("finished")>>)
    /\ UNCHANGED <<rtQ, aroundRuntime, asked>>

\* A shutdown command, or the owner's handle is dropped.
RuntimeStopsWhenIdle ==
    /\ rt.state # "gone" /\ rt.state # "asking"
    /\ (rtQ # <<>> /\ Head(rtQ).type = "shutdown") \/ (rtQ = <<>> /\ execution = "down")
    /\ rtQ' = <<>> /\ rt' = [op |-> None, state |-> "gone"]
    /\ UNCHANGED <<events, aroundRuntime, asked>>

RuntimeStops ==
    /\ rt.state # "gone"
    /\ (rtQ # <<>> /\ Head(rtQ).type = "shutdown") \/ (rtQ = <<>> /\ execution = "down")
    /\ rtQ' = <<>> /\ rt' = [op |-> None, state |-> "gone"]
    /\ UNCHANGED <<events, aroundRuntime, asked>>

\* The runtime's task panics.
RuntimePanics ==
    /\ rt.state \notin {"idle", "gone"}
    /\ rtQ' = <<>> /\ rt' = [op |-> None, state |-> "gone"]
    /\ UNCHANGED <<events, aroundRuntime, asked>>

\* forward_observations: the owner did not take a critical observation within
\* its grace.  What is queued can still be received, the rest is lost.
ObserverStalls ==
    /\ execution = "up" /\ stream = "open"
    /\ \E taken \in 1 .. Len(events) - 1 : events' = SubSeq(events, 1, taken)
    /\ stream' = "ended"
    /\ UNCHANGED <<leaseVars, connVars, execQ, ownerVars, rtQ, rt, asked, hubVars,
                   worldVars>>

\* Another process takes or frees the workspace root.
OtherRoot ==
    /\ otherRoot \/ ~rootLease
    /\ otherRoot' = ~otherRoot
    /\ UNCHANGED <<leaseVars, connVars, execQ, ownerVars, runtimeVars,
                   hubVars, host>>

-----------------------------------------------------------------------------
(* The server's shutdown: run_borrowed.                                    *)
aroundHost == <<leaseVars, runtimeVars, hubVars, otherRoot>>

\* The token is cancelled: fail closed, then shut the execution down.
StopHost ==
    /\ MayStop /\ host = "serving" /\ host' = "closing"
    /\ execQ' = IF execution = "up"
                THEN execQ \o <<FailClosed(ByHost), [type |-> "shutdown"]>> ELSE execQ
    /\ UNCHANGED <<aroundHost, connVars, ownerVars>>

\* The execution answered, or its two seconds passed and it is aborted; its
\* state, and with it the root, is dropped.
JoinExecution ==
    /\ host = "closing" /\ host' = "joining"
    /\ IF execution = "down"
       THEN UNCHANGED <<execQ, waiting, ownerVars>>
       ELSE /\ OwnerStops
            /\ UNCHANGED <<activeOp, pendingRoot>>
    /\ UNCHANGED <<aroundHost, conn, role, sending, owed, sent, submitted>>

\* Every connection ended, or the rest is aborted.
JoinClients ==
    /\ host = "joining" /\ host' = "stopped"
    /\ conn' = [cl \in Clients |-> IF conn[cl] = "open" THEN "gone" ELSE conn[cl]]
    /\ sending' = [cl \in Clients |-> None]
    /\ UNCHANGED <<aroundHost, role, waiting, owed, sent, submitted, execQ, ownerVars>>

-----------------------------------------------------------------------------
ConnectionStep ==
    \E cl \in Clients :
        \/ Attach(cl) \/ RequestSnapshot(cl) \/ AcquireControl(cl)
        \/ RenewControl(cl) \/ ReleaseControl(cl)
        \/ \E c \in Offers : CommandFrame(cl, c)
        \/ Breaks(cl) \/ TransportFails(cl)
SendStep == \E cl \in Clients : SendRequest(cl)
TimerStep == \/ \E e \in expiries : TimerFires(e) \/ TimerCancelled(e)
             \/ \E k \in owed : ExpirySent(k)
OwnerStep == HandleCommand \/ HandleFailClosed \/ HandleShutdown \/ HandleEvent
             \/ LoseRuntime
RuntimeStep == RuntimeSubmits \/ RuntimeDecides \/ RuntimeInterrupts \/ RuntimeStops
TurnStep == RuntimeAsks \/ RuntimeFinishes \/ RuntimePanics \/ ObserverStalls
HostStep == JoinExecution \/ JoinClients

HostNext == ConnectionStep \/ SendStep \/ TimerStep \/ HostTick \/ OwnerStep
        \/ RuntimeStep \/ TurnStep \/ OtherRoot \/ StopHost \/ HostStep

\* Time passes and every task that is ready is polled.  Clients, the other
\* process and whoever stops the host owe nothing, and a turn may run on.
Fairness ==
    /\ WF_hostVars(SendStep) /\ WF_hostVars(TimerStep) /\ WF_hostVars(HostTick)
    /\ WF_hostVars(OwnerStep) /\ WF_hostVars(RuntimeStep) /\ WF_hostVars(HostStep)

HostSpec == HostInit /\ [][HostNext]_hostVars /\ Fairness

-----------------------------------------------------------------------------
(* Properties.                                                             *)
Works == rt.state \in {"running", "asking"}

(* A fail-closed request is only under way for a lease that is over: a     *)
(* grace task that fires late never cuts off a controller that came back   *)
(* in time, or the work it has running.                                    *)
UnderWay(k) ==
    \/ k \in owed
    \/ \E cl \in Clients : sending[cl] = FailClosed(k)
    \/ \E i \in 1 .. Len(execQ) : execQ[i] = FailClosed(k)
FailClosedFollowsLease == HasController => ~UnderWay(TheLease.controller)

(* Once its channels are drained the owner knows the runtime's operation   *)
(* and the approval it waits for, so that fail-closed finds both; the      *)
(* state is well typed.                                                    *)
Drained == execution = "up" /\ execQ = <<>> /\ rtQ = <<>> /\ events = <<>>
           /\ stream = "open"
OwnerTracksRuntime ==
    /\ HostTypeOK
    /\ Drained /\ Works =>
         activeOp = rt.op /\ (rt.state = "asking" => rt.op \in pendingRoot)

(* A takeover never moves an approval that was presented to one controller *)
(* to another while the turn still waits for its answer: the hub's         *)
(* snapshot still has every such approval when it is asked for the lease.  *)
TakeoverAnswersNothing ==
    [][HasController /\ HasController' /\ TheLease.controller # TheLease'.controller
         => ~(rt.state = "asking" /\ rt.op \in presented)]_hostVars

(* A lost controller's grace ends: it comes back, another takes over, or   *)
(* the lease goes; only host shutdown leaves it as it is.                  *)
GraceEnds == Reconnecting ~> (~Reconnecting \/ host # "serving")

(* A connection task that hands a command to the execution is answered,    *)
(* whatever happens to the owner, the runtime or the host.                 *)
CommandsAreAnswered == \A cl \in Clients : cl \in waiting ~> cl \notin waiting

(* A stopped host leaves nothing behind: no connection, no owner holding   *)
(* the workspace root, no running turn; nor does an observation stream     *)
(* that ended under a running turn, on a host that goes on.                *)
NothingRuns == execution = "down" /\ ~rootLease /\ rt.state = "gone"
ShutdownCompletes ==
    /\ host = "closing" ~>
          host = "stopped" /\ NothingRuns /\ \A cl \in Clients : conn[cl] # "open"
    /\ stream = "ended" ~> NothingRuns

-----------------------------------------------------------------------------
(* The inductive invariant behind the three safety properties.             *)

\* Only the controllable Conversation is ever leased, which is why
\* disconnect_controller may take one expiry token from the reducer's list.
OnlyTheConversation == \A c \in Conversations : Held(c) => c = Conversation

WorkHasOperation ==
    rt.state \in {"running", "asking", "suspended"} => rt.op \in Operations

\* The controller k was drawn before and does not hold the lease.
Over(k) == k <= minted /\ (HasController => TheLease.controller # k)

\* On its way through the grace task, the connection task and the channel, a
\* fail-closed request names a controller whose lease is over.
FailClosedIsOver ==
    /\ \A k \in owed : Over(k)
    /\ \A cl \in Clients :
          sending[cl] # None /\ sending[cl].type = "fail_closed" => Over(sending[cl].of)
    /\ \A i \in 1 .. Len(execQ) :
          execQ[i].type = "fail_closed" => Over(execQ[i].of)

\* The observations that move the owner's active operation, and those that
\* close an operation's approval.
Moves == {"running", "suspended", "finished"}
Names(e, op) == e.type \in {"running", "suspended"} /\ e.op = op
Closes(e, op) == e.type \in {"audited", "finished"} /\ e.op = op

\* An owner that has seen `active` start, with the observations es to take: op
\* is what it will know, as the last that could tell it otherwise names op.
Knows(es, active, op) ==
    \E i \in 0 .. Len(es) :
        /\ IF i = 0 THEN active = op ELSE Names(es[i], op)
        /\ \A j \in i + 1 .. Len(es) : es[j].type \in Moves => Names(es[j], op)

\* Likewise for an approval of op, pending at the owner or on its way there
\* with nothing behind it that closes it.
Finds(es, pending, op) ==
    \E i \in 0 .. Len(es) :
        /\ IF i = 0 THEN op \in pending ELSE es[i] = [type |-> "requested", op |-> op]
        /\ \A j \in i + 1 .. Len(es) : ~Closes(es[j], op)

Answered(q, op) == \E i \in 1 .. Len(q) : q[i].type = "decide" /\ q[i].op = op

\* The owner learns the runtime's operation, and the approval it waits for
\* unless its answer is queued already.
OwnerCatchesUp ==
    execution = "up" /\ stream = "open" /\ Works =>
        /\ Knows(events, activeOp, rt.op)
        /\ rt.state = "asking" =>
              Answered(rtQ, rt.op) \/ Finds(events, pendingRoot, rt.op)

\* An operation asks once.  While it waits its approval is not audited, so
\* that a presented approval is still in the hub's snapshot.
AsksOnce ==
    /\ presented \subseteq asked
    /\ \A i \in 1 .. Len(events) :
          events[i].type \in {"requested", "audited"} => events[i].op \in asked
    /\ rt.state = "asking" =>
          /\ rt.op \in asked
          /\ rt.op \in presented => rt.op \in shown
          /\ \A i \in 1 .. Len(events) : ~(events[i].type = "audited" /\ events[i].op = rt.op)

HostInv ==
    /\ LeaseInv /\ OnlyTheConversation
    /\ HostTypeOK
    /\ IsFiniteSet(pendingRoot)
    /\ WorkHasOperation
    /\ FailClosedIsOver
    /\ OwnerCatchesUp
    /\ AsksOnce

=============================================================================
