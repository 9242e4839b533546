----------------------- MODULE ManagedExecutionProofs -----------------------
(***************************************************************************)
(* TLAPS proofs about a managed conversation, for any connections, turns,  *)
(* capacities of the driver's channels and lengths of the loop's queue.    *)
(***************************************************************************)
EXTENDS ManagedExecution, SequenceTheorems, TLAPS

RequestType == [kind : Asks \cup {"failclosed", "shutdown"}, op : Maybe(Operations), from : Maybe(Clients)]
CommandType == [kind : {"submit", "clear", "shutdown"}, op : Maybe(Operations)]
EventType == [kind : {"approval", "finished", "note"}, op : Maybe(Operations)]

IsApproval(i) == events[i].kind = "approval"

\* What is submitted, and what the actor works on, is a turn.
TurnsAreNamed ==
    /\ \A i \in 1..Len(requests) : requests[i].kind = "submit" => requests[i].op \in Operations
    /\ \A i \in 1..Len(commands) : commands[i].kind = "submit" => commands[i].op \in Operations
    /\ actor.at \in Live \cup {"starting", "ending"} => actor.op \in Operations
    /\ actor.at = "clearing" => actor.op = None

\* A queued approval is open, not yet held by the loop, and the only one of
\* its turn.
QueuedAreOpen ==
    \A i \in 1..Len(events) : IsApproval(i) =>
        /\ events[i].op \in Operations \ approvals /\ answer[events[i].op] = "open"
        /\ \A j \in 1..Len(events) : IsApproval(j) /\ events[j].op = events[i].op => i = j

\* The end of a turn comes after its approvals.
ApprovalsComeFirst ==
    actor.at # "ended" =>
        \A i \in 1..Len(events) : IsApproval(i) =>
            \/ Works(events[i].op)
            \/ \E j \in 1..Len(events) : i < j /\ events[j] = Finished(events[i].op)

\* The inductive invariant.
ManagedInv ==
    /\ TypeOK /\ TurnsAreNamed
    /\ QueuedAreOpen /\ HeldAreOpen /\ NoForgottenApproval
    /\ ApprovalsComeFirst /\ PendingWillClear /\ ActiveWillFinish

-----------------------------------------------------------------------------
\* The channels are queues.
LEMMA AppendQueue ==
    ASSUME NEW S, NEW s \in Seq(S), NEW e \in S
    PROVE  /\ Append(s, e) \in Seq(S) /\ Len(Append(s, e)) = Len(s) + 1
           /\ \A i \in 1..Len(s) : Append(s, e)[i] = s[i]
           /\ Append(s, e)[Len(s) + 1] = e
           /\ \A i \in 1..Len(Append(s, e)) : i \in 1..Len(s) \/ i = Len(s) + 1
OBVIOUS

\* What is left of a queue when its head is taken.
LEMMA TailQueue ==
    ASSUME NEW S, NEW s \in Seq(S), s # <<>>
    PROVE  /\ Head(s) \in S /\ Head(s) = s[1] /\ Tail(s) \in Seq(S)
           /\ Len(s) \in Nat /\ Len(s) > 0 /\ Len(Tail(s)) = Len(s) - 1
           /\ \A i \in 1..Len(Tail(s)) : i + 1 \in 1..Len(s) /\ Tail(s)[i] = s[i + 1]
           /\ \A i \in 1..Len(s) : i = 1 \/ (i - 1 \in 1..Len(Tail(s)) /\ s[i] = Tail(s)[i - 1])
BY HeadTailProperties

\* A member of a queue stays until it is taken.
LEMMA ContainsAppend ==
    ASSUME NEW S, NEW s \in Seq(S), NEW e \in S, NEW x
    PROVE  Contains(Append(s, e), x) <=> Contains(s, x) \/ x = e
<1>1. Contains(s, x) => Contains(Append(s, e), x)
  BY AppendQueue DEF Contains
<1>2. Contains(Append(s, e), e)
  BY AppendQueue DEF Contains
<1>3. Contains(Append(s, e), x) => Contains(s, x) \/ x = e
  BY AppendQueue DEF Contains
<1> QED
  BY <1>1, <1>2, <1>3

\* A queue holds its head and what its tail holds.
LEMMA ContainsTail ==
    ASSUME NEW S, NEW s \in Seq(S), s # <<>>, NEW x
    PROVE  Contains(s, x) <=> x = Head(s) \/ Contains(Tail(s), x)
<1>1. Contains(s, x) => x = Head(s) \/ Contains(Tail(s), x)
  BY TailQueue DEF Contains
<1>2. Contains(s, Head(s))
  <2>1. 1 \in 1..Len(s) /\ s[1] = Head(s)
    BY TailQueue
  <2> QED
    BY <2>1 DEF Contains
<1>3. Contains(Tail(s), x) => Contains(s, x)
  BY TailQueue DEF Contains
<1> QED
  BY <1>1, <1>2, <1>3

-----------------------------------------------------------------------------
\* A new conversation has the invariant.
LEMMA InitManagedInv == Init => ManagedInv
<1> SUFFICES ASSUME Init PROVE ManagedInv
  OBVIOUS
<1>1. TypeOK
  <2>1. Len(<<>>) <= CommandCapacity /\ Len(<<>>) <= EventCapacity
    BY ManagedAssumption
  <2>2. actor \in [at : Live \cup {"idle", "starting", "clearing", "ending", "ended"}, op : Maybe(Operations)]
    BY DEF Init, Idle, Maybe
  <2>3. answer \in [Operations -> {"unasked", "open", "allow", "cancel", "granted"}]
    BY DEF Init
  <2>4. requests \in Seq(RequestType) /\ commands \in Seq(CommandType) /\ events \in Seq(EventType)
    BY DEF Init
  <2>5. /\ controller \in Maybe(Clients) /\ waiting \subseteq Clients /\ closing \in BOOLEAN
        /\ stop \in BOOLEAN /\ loop \in {"run", "stopping", "joining", "ended"}
        /\ active \in Maybe(Operations) /\ approvals \subseteq Operations /\ cancelled \in BOOLEAN
        /\ pending \subseteq Operations /\ submitted \subseteq Operations
    BY DEF Init, Maybe
  <2>6. Len(commands) <= CommandCapacity /\ Len(events) <= EventCapacity
    BY <2>1 DEF Init
  <2> QED
    BY <2>2, <2>3, <2>4, <2>5, <2>6 DEF TypeOK, RequestType, CommandType, EventType
<1>2. Len(events) = 0 /\ Len(requests) = 0 /\ Len(commands) = 0
  BY DEF Init
<1>3. TurnsAreNamed
  BY <1>2 DEF Init, TurnsAreNamed, Idle, Live
<1>4. QueuedAreOpen /\ ApprovalsComeFirst
  BY <1>2 DEF QueuedAreOpen, ApprovalsComeFirst
<1>5. HeldAreOpen /\ NoForgottenApproval /\ PendingWillClear /\ ActiveWillFinish
  BY DEF Init, Idle, HeldAreOpen, NoForgottenApproval, PendingWillClear, ActiveWillFinish
<1> QED
  BY <1>1, <1>3, <1>4, <1>5 DEF ManagedInv

\* What a connection or the host asks for is queued as a request.
LEMMA RequestQueue ==
    ASSUME ManagedInv, NEW r \in RequestType, r.kind = "submit" => r.op \in Operations
    PROVE  /\ Append(requests, r) \in Seq(RequestType)
           /\ \A i \in 1..Len(Append(requests, r)) :
                 Append(requests, r)[i].kind = "submit" => Append(requests, r)[i].op \in Operations
<1>1. requests \in Seq(RequestType)
  BY DEF ManagedInv, TypeOK, RequestType
<1> QED
  BY <1>1, AppendQueue DEF ManagedInv, TurnsAreNamed

\* Connections touch nothing that the loop and the actor keep.
LEMMA ClientManagedInv ==
    ASSUME ManagedInv,
           UNCHANGED <<loop, active, approvals, commands, events, actor, cancelled, answer, pending>>,
           controller' \in Maybe(Clients), waiting' \subseteq Clients, closing' \in BOOLEAN,
           stop' \in BOOLEAN, submitted' \subseteq Operations,
           requests' \in Seq(RequestType),
           \A i \in 1..Len(requests') : requests'[i].kind = "submit" => requests'[i].op \in Operations
    PROVE  ManagedInv'
<1>1. TypeOK'
  BY DEF ManagedInv, TypeOK, RequestType
<1>2. TurnsAreNamed'
  BY DEF ManagedInv, TurnsAreNamed
<1>3. QueuedAreOpen' /\ ApprovalsComeFirst'
  BY DEF ManagedInv, QueuedAreOpen, ApprovalsComeFirst, IsApproval, Works
<1>4. HeldAreOpen' /\ NoForgottenApproval' /\ PendingWillClear' /\ ActiveWillFinish'
  BY DEF ManagedInv, HeldAreOpen, NoForgottenApproval, PendingWillClear, ActiveWillFinish, Works, Reports
<1> QED
  BY <1>1, <1>2, <1>3, <1>4 DEF ManagedInv

\* The steps of the connections and the beginning of the host's shutdown.
LEMMA ClientStepsManagedInv ==
    ASSUME ManagedInv,
           \/ \E c \in Clients : Acquire(c)
           \/ \E c \in Clients, kind \in Asks, o \in Maybe(Operations) : Ask(c, kind, o)
           \/ LoseControl \/ SendFailClosed \/ StopHost \/ DropRequests
    PROVE  ManagedInv'
<1>1. /\ requests \in Seq(RequestType)
      /\ \A i \in 1..Len(requests) : requests[i].kind = "submit" => requests[i].op \in Operations
  BY DEF ManagedInv, TypeOK, RequestType, TurnsAreNamed
<1>2. Request("failclosed", None, None) \in RequestType /\ Request("shutdown", None, None) \in RequestType
  BY DEF Request, RequestType, Maybe
<1>3. CASE \E c \in Clients : Acquire(c)
  BY <1>1, <1>3, ClientManagedInv DEF Acquire, owner, driver, ManagedInv, TypeOK, Maybe
<1>4. CASE \E c \in Clients, kind \in Asks, o \in Maybe(Operations) : Ask(c, kind, o)
  <2>1. PICK c \in Clients, kind \in Asks, o \in Maybe(Operations) : Ask(c, kind, o)
    BY <1>4
  <2>2. Request(kind, o, c) \in RequestType /\ Request(kind, o, c).kind = kind /\ Request(kind, o, c).op = o
    BY DEF Request, RequestType, Maybe
  <2>3. kind = "submit" => o \in Operations
    BY <2>1 DEF Ask, Asks
  <2>4. /\ requests' = Append(requests, Request(kind, o, c)) /\ waiting' = waiting \cup {c}
        /\ submitted' = IF kind = "submit" THEN submitted \cup {o} ELSE submitted
        /\ UNCHANGED <<controller, closing, stop, loop, active, approvals, commands, events, actor,
                       cancelled, answer, pending>>
    BY <2>1 DEF Ask, owner, driver
  <2>5. /\ requests' \in Seq(RequestType)
        /\ \A i \in 1..Len(requests') : requests'[i].kind = "submit" => requests'[i].op \in Operations
    BY <2>2, <2>3, <2>4, RequestQueue
  <2>6. submitted' \subseteq Operations /\ waiting' \subseteq Clients
    BY <2>3, <2>4 DEF ManagedInv, TypeOK
  <2> QED
    BY <2>4, <2>5, <2>6, ClientManagedInv DEF ManagedInv, TypeOK
<1>5. CASE LoseControl
  BY <1>1, <1>5, ClientManagedInv DEF LoseControl, owner, driver, ManagedInv, TypeOK, Maybe
<1>6. CASE SendFailClosed
  <2>1. /\ requests' \in Seq(RequestType)
        /\ \A i \in 1..Len(requests') : requests'[i].kind = "submit" => requests'[i].op \in Operations
    BY <1>1, <1>2, <1>6, RequestQueue DEF SendFailClosed, Request
  <2> QED
    BY <1>6, <2>1, ClientManagedInv DEF SendFailClosed, owner, driver, ManagedInv, TypeOK
<1>7. CASE StopHost
  <2> DEFINE tail == <<Request("failclosed", None, None), Request("shutdown", None, None)>>
  <2>1. tail \in Seq(RequestType) /\ Len(tail) = 2 /\ \A i \in 1..2 : tail[i].kind # "submit"
    BY <1>2 DEF Request
  <2> HIDE DEF tail
  <2>2. /\ requests \o tail \in Seq(RequestType) /\ Len(requests \o tail) = Len(requests) + 2
        /\ \A i \in 1..(Len(requests) + 2) : (requests \o tail)[i] =
              IF i <= Len(requests) THEN requests[i] ELSE tail[i - Len(requests)]
    <3>1. /\ requests \o tail \in Seq(RequestType) /\ Len(requests \o tail) = Len(requests) + Len(tail)
          /\ \A i \in 1..(Len(requests) + Len(tail)) : (requests \o tail)[i] =
                IF i <= Len(requests) THEN requests[i] ELSE tail[i - Len(requests)]
      BY <1>1, <2>1, ConcatProperties, Zenon
    <3> QED
      BY <2>1, <3>1, Zenon
  <2>3. requests' \in {requests, requests \o tail}
    BY <1>7 DEF StopHost, tail
  <2>4. Len(requests) \in Nat
    BY <1>1
  <2>5. \A i \in 1..Len(requests \o tail) :
          (requests \o tail)[i].kind = "submit" => (requests \o tail)[i].op \in Operations
    <3> SUFFICES ASSUME NEW i \in 1..(Len(requests) + 2)
                 PROVE (requests \o tail)[i].kind = "submit" => (requests \o tail)[i].op \in Operations
      BY <2>2
    <3>1. CASE i <= Len(requests)
      BY <1>1, <2>2, <2>4, <3>1
    <3>2. CASE ~(i <= Len(requests))
      BY <2>1, <2>2, <2>4, <3>2
    <3> QED
      BY <3>1, <3>2
  <2>6. /\ requests' \in Seq(RequestType)
        /\ \A i \in 1..Len(requests') : requests'[i].kind = "submit" => requests'[i].op \in Operations
    BY <1>1, <2>2, <2>3, <2>5
  <2> QED
    BY <1>7, <2>6, ClientManagedInv DEF StopHost, owner, driver, ManagedInv, TypeOK
<1>8. CASE DropRequests
  BY <1>8, ClientManagedInv DEF DropRequests, owner, driver, ManagedInv, TypeOK
<1> QED
  BY <1>3, <1>4, <1>5, <1>6, <1>7, <1>8

-----------------------------------------------------------------------------
(* The actor.                                                              *)

ActorType == [at : Live \cup {"idle", "starting", "clearing", "ending", "ended"}, op : Maybe(Operations)]
ActorAside ==
    UNCHANGED <<controller, waiting, closing, stop, requests, loop, active, approvals, pending, submitted>>

\* Whatever the actor does without an event, it works on its turn until it has
\* ended, and does not touch an open approval.
LEMMA ActorManagedInv ==
    ASSUME ManagedInv, ActorAside, UNCHANGED <<commands, events>>,
           actor' \in ActorType, cancelled' \in BOOLEAN,
           actor.at \notin {"idle", "ended"}, actor'.at \notin {"idle", "asking", "clearing"},
           actor'.at = "ended" \/ actor'.op = actor.op,
           actor'.at \in Live \cup {"starting", "ending"} => actor'.op \in Operations,
           answer' \in [Operations -> {"unasked", "open", "allow", "cancel", "granted"}],
           \A o \in Operations : answer[o] = "open" => answer'[o] = "open"
    PROVE  ManagedInv'
<1> USE DEF ActorAside
<1>1. TypeOK'
  BY DEF ManagedInv, TypeOK, ActorType
<1>2. TurnsAreNamed'
  BY DEF ManagedInv, TurnsAreNamed
<1>3. \A o : Works(o) => actor'.at = "ended" \/ Works(o)'
  BY DEF Works
<1>4. QueuedAreOpen' /\ HeldAreOpen'
  BY DEF ManagedInv, TypeOK, QueuedAreOpen, HeldAreOpen, IsApproval
<1>5. NoForgottenApproval'
  BY DEF NoForgottenApproval
<1>6. ApprovalsComeFirst' /\ PendingWillClear' /\ ActiveWillFinish'
  BY <1>3 DEF ManagedInv, ApprovalsComeFirst, PendingWillClear, ActiveWillFinish, IsApproval, Reports
<1> QED
  BY <1>1, <1>2, <1>4, <1>5, <1>6 DEF ManagedInv

\* An event of the actor comes last: an approval that nobody has asked for,
\* or the end of the turn that it stops working on.
LEMMA EventManagedInv ==
    ASSUME ManagedInv, ActorAside, UNCHANGED <<commands, cancelled>>,
           NEW e \in EventType, events' = Append(events, e), Room(events, EventCapacity),
           actor' \in ActorType, actor.at \notin {"idle", "ended"}, actor'.at \notin {"ended", "clearing"},
           actor'.at \in Live \cup {"starting", "ending"} => actor'.op \in Operations,
           (actor'.at # "idle" /\ actor'.op = actor.op) \/ e = Finished(actor.op) \/ actor.at = "clearing",
           IF e.kind = "approval"
           THEN /\ e = Event("approval", actor.op) /\ actor.op \in Operations
                /\ actor'.op = actor.op /\ actor'.at = "asking"
                /\ answer[actor.op] = "unasked" /\ answer' = [answer EXCEPT ![actor.op] = "open"]
           ELSE answer' = answer /\ actor'.at # "asking"
    PROVE  ManagedInv'
<1> USE DEF ActorAside
<1>1. /\ events \in Seq(EventType) /\ Len(events) \in Nat
      /\ events' \in Seq(EventType) /\ Len(events') = Len(events) + 1
      /\ \A i \in 1..Len(events) : i \in 1..Len(events') /\ events'[i] = events[i]
      /\ events'[Len(events) + 1] = e /\ Len(events) + 1 \in 1..Len(events')
      /\ \A i \in 1..Len(events') : i \in 1..Len(events) \/ i = Len(events) + 1
  <2>1. events \in Seq(EventType) /\ Len(events) \in Nat
    BY DEF ManagedInv, TypeOK, EventType
  <2> QED
    BY <2>1, AppendQueue
<1>2. \A x : Contains(events', x) <=> Contains(events, x) \/ x = e
  BY <1>1, ContainsAppend
<1>3. answer' \in [Operations -> {"unasked", "open", "allow", "cancel", "granted"}]
  BY DEF ManagedInv, TypeOK
<1>4. TypeOK'
  <2>1. Len(events') <= EventCapacity
    BY <1>1, ManagedAssumption DEF Room
  <2> QED
    BY <1>1, <1>3, <2>1 DEF ManagedInv, TypeOK, ActorType, EventType
<1>5. TurnsAreNamed'
  BY DEF ManagedInv, TurnsAreNamed
<1>6. \A o \in Operations : answer[o] = "open" => answer'[o] = "open"
  BY DEF ManagedInv, TypeOK
<1>7. HeldAreOpen'
  BY <1>6 DEF ManagedInv, TypeOK, HeldAreOpen
<1>8. e.kind = "approval" => /\ e.op = actor.op /\ e.op \in Operations \ approvals
                             /\ answer[e.op] = "unasked" /\ answer'[e.op] = "open"
                             /\ \A i \in 1..Len(events) : ~(IsApproval(i) /\ events[i].op = e.op)
  BY DEF ManagedInv, TypeOK, HeldAreOpen, QueuedAreOpen, Event
<1>9. QueuedAreOpen'
  <2> SUFFICES ASSUME NEW i \in 1..Len(events'), events'[i].kind = "approval"
               PROVE  /\ events'[i].op \in Operations \ approvals /\ answer'[events'[i].op] = "open"
                      /\ \A j \in 1..Len(events') :
                            events'[j].kind = "approval" /\ events'[j].op = events'[i].op => i = j
    BY DEF QueuedAreOpen, IsApproval
  <2>1. CASE i \in 1..Len(events)
    BY <1>1, <1>6, <1>8, <2>1 DEF ManagedInv, QueuedAreOpen, IsApproval
  <2>2. CASE i = Len(events) + 1
    BY <1>1, <1>8, <2>2 DEF IsApproval
  <2> QED
    BY <1>1, <2>1, <2>2
<1>10. \A o \in Operations : Works(o) => Works(o)' \/ e = Finished(o)
  BY ManagedAssumption DEF Works, ManagedInv, TurnsAreNamed
<1>11. ApprovalsComeFirst'
  <2> SUFFICES ASSUME NEW i \in 1..Len(events'), events'[i].kind = "approval"
               PROVE  \/ actor'.op = events'[i].op /\ actor'.at # "idle"
                      \/ \E j \in 1..Len(events') : i < j /\ events'[j] = Finished(events'[i].op)
    BY DEF ApprovalsComeFirst, IsApproval, Works
  <2>1. CASE i \in 1..Len(events)
    <3>1. events[i].kind = "approval" /\ events[i].op \in Operations /\ events'[i] = events[i]
      BY <1>1, <2>1 DEF ManagedInv, QueuedAreOpen, IsApproval
    <3>2. \/ Works(events[i].op)
          \/ \E j \in 1..Len(events) : i < j /\ events[j] = Finished(events[i].op)
      BY <2>1, <3>1 DEF ManagedInv, ApprovalsComeFirst, IsApproval
    <3>3. CASE Works(events[i].op)
      <4>1. (actor'.op = events[i].op /\ actor'.at # "idle") \/ e = Finished(events[i].op)
        BY <1>10, <3>1, <3>3 DEF Works
      <4>2. i < Len(events) + 1
        BY <1>1, <2>1
      <4> QED
        BY <1>1, <3>1, <4>1, <4>2
    <3>4. CASE \E j \in 1..Len(events) : i < j /\ events[j] = Finished(events[i].op)
      BY <1>1, <3>1, <3>4
    <3> QED
      BY <3>2, <3>3, <3>4
  <2>2. CASE i = Len(events) + 1
    BY <1>1, <1>8, <2>2
  <2> QED
    BY <1>1, <2>1, <2>2
<1>12. PendingWillClear'
  BY <1>2, <1>10 DEF ManagedInv, TypeOK, PendingWillClear, Reports
<1>13. ActiveWillFinish'
  BY <1>2, <1>10 DEF ManagedInv, TypeOK, Maybe, ActiveWillFinish, Reports
<1>14. NoForgottenApproval'
  BY <1>2 DEF NoForgottenApproval
<1> QED
  BY <1>4, <1>5, <1>7, <1>9, <1>11, <1>12, <1>13, <1>14 DEF ManagedInv

\* The steps of a turn.
LEMMA TurnManagedInv ==
    ASSUME ManagedInv,
           \/ StartTurn \/ BeginTurn \/ AskApproval \/ ReceiveAnswer \/ InterruptTurn \/ Notify
           \/ EndTurn \/ SendEvent \/ ActorFails
    PROVE  ManagedInv'
<1>1. /\ actor \in ActorType /\ cancelled \in BOOLEAN
      /\ answer \in [Operations -> {"unasked", "open", "allow", "cancel", "granted"}]
      /\ actor.at \in Live \cup {"starting", "ending"} => actor.op \in Operations
  BY DEF ManagedInv, TypeOK, ActorType, TurnsAreNamed
<1>2. ActorAside
  BY DEF ActorAside, ActorOnly, clients, owner, StartTurn, BeginTurn, AskApproval, ReceiveAnswer,
         InterruptTurn, Notify, EndTurn, SendEvent, ActorFails
<1>3. ASSUME NEW a \in {"preparing", "turn", "interrupting", "ending"}
      PROVE  /\ [actor EXCEPT !.at = a] \in ActorType
             /\ [actor EXCEPT !.at = a].at = a /\ [actor EXCEPT !.at = a].op = actor.op
             /\ a \in Live \cup {"ending"}
  BY <1>1 DEF ActorType, Live
<1>4. [at |-> "ended", op |-> None] \in ActorType /\ "ended" \notin Live \cup {"starting", "ending"}
  BY DEF ActorType, Maybe, Live
<1>5. Note \in EventType /\ Note.kind = "note"
  BY DEF Note, Event, EventType, Maybe
<1>6. ASSUME NEW a \in {"preparing", "turn", "interrupting", "ending"}, actor' = [actor EXCEPT !.at = a],
             actor.at \in Live \cup {"starting"},
             UNCHANGED <<commands, events>>, cancelled' \in BOOLEAN,
             answer' \in [Operations -> {"unasked", "open", "allow", "cancel", "granted"}],
             \A o \in Operations : answer[o] = "open" => answer'[o] = "open"
      PROVE  ManagedInv'
  BY <1>1, <1>2, <1>3, <1>6, ActorManagedInv DEF Live
<1>7. ASSUME actor' = [at |-> "ended", op |-> None], actor.at \notin {"idle", "ended"},
             UNCHANGED <<commands, events, cancelled, answer>>
      PROVE  ManagedInv'
  BY <1>1, <1>2, <1>4, <1>7, ActorManagedInv
<1>8. ASSUME NEW a \in {"turn", "interrupting", "ending"}, actor' = [actor EXCEPT !.at = a],
             actor.at \in Live, UNCHANGED <<commands, cancelled, answer>>,
             Room(events, EventCapacity), events' = Append(events, Note)
      PROVE  ManagedInv'
  BY <1>1, <1>2, <1>3, <1>5, <1>8, EventManagedInv DEF Live
<1>9. CASE StartTurn
  BY <1>1, <1>6, <1>9 DEF StartTurn, Moves, Live
<1>10. CASE BeginTurn
  <2>1. UNCHANGED <<commands, cancelled, answer>>
    BY <1>10 DEF BeginTurn
  <2>2. CASE Moves({"preparing"}, "ending") /\ UNCHANGED events
    BY <1>1, <1>6, <2>1, <2>2 DEF Moves, Live
  <2>3. CASE /\ Room(events, EventCapacity) /\ events' = Append(events, Note)
             /\ Moves({"preparing"}, "turn") \/ Moves({"preparing"}, "ending")
    BY <1>8, <2>1, <2>3 DEF Moves, Live
  <2>4. CASE actor.at = "preparing" /\ actor' = [at |-> "ended", op |-> None] /\ UNCHANGED events
    BY <1>7, <2>1, <2>4
  <2> QED
    BY <1>10, <2>2, <2>3, <2>4 DEF BeginTurn
<1>11. CASE AskApproval
  <2> DEFINE e == Event("approval", actor.op)
  <2>1. actor.at = "turn" /\ actor' = [actor EXCEPT !.at = "asking"]
    BY <1>11 DEF AskApproval, Moves
  <2>2. actor.op \in Operations /\ actor' \in ActorType /\ actor'.at = "asking" /\ actor'.op = actor.op
    BY <1>1, <2>1 DEF ActorType, Live
  <2>3. e \in EventType /\ e.kind = "approval"
    BY <2>2 DEF Event, EventType, Maybe
  <2>4. /\ Room(events, EventCapacity) /\ events' = Append(events, e)
        /\ answer[actor.op] = "unasked" /\ answer' = [answer EXCEPT ![actor.op] = "open"]
        /\ UNCHANGED <<commands, cancelled>>
    BY <1>11 DEF AskApproval
  <2> HIDE DEF e
  <2>5. e = Event("approval", actor.op)
    BY DEF e
  <2> QED
    BY <1>2, <2>1, <2>2, <2>3, <2>4, <2>5, EventManagedInv
<1>12. CASE ReceiveAnswer
  <2>1. /\ actor.at = "asking" /\ actor' = [actor EXCEPT !.at = "turn"] /\ answer[actor.op] # "open"
        /\ answer' = [answer EXCEPT ![actor.op] = IF @ = "allow" THEN "granted" ELSE @]
        /\ UNCHANGED <<commands, events, cancelled>>
    BY <1>12 DEF ReceiveAnswer, Moves
  <2>2. actor.op \in Operations
    BY <1>1, <2>1 DEF Live
  <2>3. /\ answer' \in [Operations -> {"unasked", "open", "allow", "cancel", "granted"}]
        /\ \A o \in Operations : answer[o] = "open" => answer'[o] = "open"
    BY <1>1, <2>1, <2>2
  <2> QED
    BY <1>1, <1>6, <2>1, <2>3 DEF Live
<1>13. CASE InterruptTurn \/ EndTurn
  BY <1>1, <1>6, <1>13 DEF InterruptTurn, EndTurn, Moves, Live
<1>14. CASE Notify
  <2>1. UNCHANGED <<commands, cancelled, answer>> /\ actor.at \in {"turn", "interrupting"}
    BY <1>14 DEF Notify
  <2>2. CASE Room(events, EventCapacity) /\ events' = Append(events, Note) /\ UNCHANGED actor
    <3>1. actor' = [actor EXCEPT !.at = actor.at]
      BY <1>1, <2>2 DEF ActorType
    <3> QED
      BY <1>8, <2>1, <2>2, <3>1 DEF Live
  <2>3. CASE Moves({"turn", "interrupting"}, "ending") /\ UNCHANGED events
    BY <1>1, <1>6, <2>1, <2>3 DEF Moves, Live
  <2> QED
    BY <1>14, <2>2, <2>3 DEF Notify
<1>15. CASE SendEvent
  <2>1. UNCHANGED <<commands, cancelled, answer>> /\ actor.at \in {"ending", "clearing"}
    BY <1>15 DEF SendEvent
  <2>2. CASE actor' = [at |-> "ended", op |-> None] /\ UNCHANGED events
    BY <1>7, <2>1, <2>2
  <2>3. CASE /\ Room(events, EventCapacity) /\ actor' = Idle
             /\ events' = Append(events, IF actor.at = "ending" THEN Finished(actor.op) ELSE Note)
    <3> DEFINE e == IF actor.at = "ending" THEN Finished(actor.op) ELSE Note
    <3>1. e \in EventType /\ e.kind # "approval" /\ (e = Finished(actor.op) \/ actor.at = "clearing")
      BY <1>1, <1>5, <2>1 DEF Finished, Event, EventType, Maybe, ActorType
    <3>2. Idle \in ActorType /\ Idle.at = "idle" /\ "idle" \notin Live \cup {"starting", "ending"}
      BY DEF Idle, ActorType, Maybe, Live
    <3>3. events' = Append(events, e)
      BY <2>3
    <3> HIDE DEF e
    <3> QED
      BY <1>2, <2>1, <2>3, <3>1, <3>2, <3>3, EventManagedInv
  <2> QED
    BY <1>15, <2>2, <2>3 DEF SendEvent
<1>16. CASE ActorFails
  BY <1>7, <1>16 DEF ActorFails
<1> QED
  BY <1>9, <1>10, <1>11, <1>12, <1>13, <1>14, <1>15, <1>16

\* The command that the actor takes becomes its work.
LEMMA TakeCommandManagedInv == ManagedInv /\ TakeCommand => ManagedInv'
<1> SUFFICES ASSUME ManagedInv, TakeCommand PROVE ManagedInv'
  OBVIOUS
<1>1. ActorAside /\ actor.at = "idle" /\ UNCHANGED <<events, cancelled, answer>>
  BY DEF TakeCommand, ActorAside, ActorOnly, clients, owner
<1> USE DEF ActorAside
<1>2. CASE commands = <<>>
  <2>1. actor' = [at |-> "ended", op |-> None] /\ commands' = commands
    BY <1>2 DEF TakeCommand
  <2>2. actor' \in ActorType /\ actor'.at = "ended"
    BY <2>1 DEF ActorType, Maybe
  <2>3. TypeOK'
    BY <1>1, <2>1, <2>2 DEF ManagedInv, TypeOK, ActorType
  <2>4. TurnsAreNamed' /\ QueuedAreOpen' /\ HeldAreOpen'
    BY <1>1, <2>1, <2>2 DEF ManagedInv, TurnsAreNamed, QueuedAreOpen, HeldAreOpen, IsApproval, Live
  <2> QED
    BY <2>2, <2>3, <2>4 DEF ManagedInv, NoForgottenApproval, ApprovalsComeFirst, PendingWillClear,
                            ActiveWillFinish
<1>3. CASE commands # <<>>
  <2> DEFINE c == Head(commands)
  <2>1. commands \in Seq(CommandType)
    BY DEF ManagedInv, TypeOK, CommandType
  <2>2. /\ c \in CommandType /\ c = commands[1] /\ commands' \in Seq(CommandType)
        /\ Len(commands) \in Nat /\ Len(commands) > 0 /\ Len(commands') = Len(commands) - 1
        /\ \A i \in 1..Len(commands') : i + 1 \in 1..Len(commands) /\ commands'[i] = commands[i + 1]
        /\ \A x : Contains(commands, x) <=> x = c \/ Contains(commands', x)
    <3>1. commands' = Tail(commands)
      BY <1>3 DEF TakeCommand
    <3>2. \A x : Contains(commands, x) <=> x = c \/ Contains(Tail(commands), x)
      BY <1>3, <2>1, ContainsTail, Zenon
    <3> QED
      BY <1>3, <2>1, <3>1, <3>2, TailQueue
  <2>3. c.kind \in {"submit", "clear", "shutdown"} /\ c.op \in Maybe(Operations)
    BY <2>2 DEF CommandType
  <2>4. c.kind = "submit" => c.op \in Operations
    BY <2>2 DEF ManagedInv, TurnsAreNamed
  <2>5. /\ c.kind = "submit" => actor' = [at |-> "starting", op |-> c.op]
        /\ c.kind = "clear" => actor' = [at |-> "clearing", op |-> None]
        /\ c.kind = "shutdown" => actor' = [at |-> "ended", op |-> None]
    BY <1>3, <2>3 DEF TakeCommand
  <2> HIDE DEF c
  <2>6. /\ actor' \in ActorType /\ actor'.at \in {"starting", "clearing", "ended"}
        /\ actor'.at = "starting" => actor'.op \in Operations
        /\ actor'.at = "clearing" => actor'.op = None
    BY <2>3, <2>4, <2>5 DEF ActorType, Maybe
  <2>7. TypeOK'
    <3>1. Len(commands') <= CommandCapacity
      BY <2>2, ManagedAssumption DEF ManagedInv, TypeOK
    <3> QED
      BY <1>1, <2>2, <2>6, <3>1 DEF ManagedInv, TypeOK, ActorType, CommandType
  <2>8. TurnsAreNamed'
    BY <1>1, <2>2, <2>6 DEF ManagedInv, TurnsAreNamed, Live
  <2>9. QueuedAreOpen' /\ HeldAreOpen' /\ NoForgottenApproval'
    BY <1>1, <2>6 DEF ManagedInv, QueuedAreOpen, HeldAreOpen, NoForgottenApproval, IsApproval
  <2>10. \A o : ~Works(o)
    BY <1>1 DEF Works
  <2>11. ApprovalsComeFirst' /\ PendingWillClear'
    BY <1>1, <2>10 DEF ManagedInv, ApprovalsComeFirst, PendingWillClear, IsApproval, Reports
  <2>12. ActiveWillFinish'
    <3> SUFFICES ASSUME loop = "run", active # None, actor'.at # "ended"
                 PROVE  Contains(commands', Command("submit", active)) \/ Works(active)' \/ Reports(active)'
      BY <1>1 DEF ActiveWillFinish
    <3>1. Contains(commands, Command("submit", active)) \/ Reports(active)
      BY <1>1, <2>10 DEF ManagedInv, ActiveWillFinish
    <3>2. CASE c = Command("submit", active)
      <4>1. c.kind = "submit" /\ c.op = active
        BY <3>2 DEF Command
      <4> QED
        BY <1>1, <2>5, <4>1 DEF Works
    <3>3. CASE c # Command("submit", active)
      BY <1>1, <2>2, <3>1, <3>3 DEF Reports
    <3> QED
      BY <3>2, <3>3
  <2> QED
    BY <2>7, <2>8, <2>9, <2>11, <2>12 DEF ManagedInv
<1> QED
  BY <1>2, <1>3

-----------------------------------------------------------------------------
(* The loop.                                                               *)

\* A request that is answered leaves the queue.
LEMMA RepliedQueue ==
    ASSUME ManagedInv, requests # <<>>, Replied
    PROVE  /\ requests' \in Seq(RequestType) /\ Head(requests) \in RequestType
           /\ \A i \in 1..Len(requests') : requests'[i].kind = "submit" => requests'[i].op \in Operations
           /\ Head(requests).kind = "submit" => Head(requests).op \in Operations
           /\ waiting' \subseteq Clients /\ UNCHANGED <<controller, closing, stop>>
<1>1. requests \in Seq(RequestType)
  BY DEF ManagedInv, TypeOK, RequestType
<1>2. /\ Head(requests) \in RequestType /\ Head(requests) = requests[1]
      /\ Tail(requests) \in Seq(RequestType) /\ 1 \in 1..Len(requests)
      /\ \A i \in 1..Len(Tail(requests)) :
            i + 1 \in 1..Len(requests) /\ Tail(requests)[i] = requests[i + 1]
  BY <1>1, TailQueue
<1>3. requests' = Tail(requests) /\ waiting' = waiting \ {Head(requests).from}
      /\ UNCHANGED <<controller, closing, stop>>
  BY DEF Replied
<1> QED
  BY <1>2, <1>3 DEF ManagedInv, TypeOK, TurnsAreNamed

\* A command is queued, unless the actor has ended.
LEMMA SentCommand ==
    ASSUME ManagedInv, NEW c \in CommandType, SendCommand(c), c.kind = "submit" => c.op \in Operations
    PROVE  /\ commands' \in Seq(CommandType) /\ Len(commands') <= CommandCapacity
           /\ \A i \in 1..Len(commands') : commands'[i].kind = "submit" => commands'[i].op \in Operations
           /\ \A x : Contains(commands, x) => Contains(commands', x)
           /\ actor.at # "ended" => Contains(commands', c)
<1>1. commands \in Seq(CommandType) /\ Len(commands) \in Nat
  BY DEF ManagedInv, TypeOK, CommandType
<1>2. CASE commands' = Append(commands, c) /\ Room(commands, CommandCapacity)
  <2>1. /\ commands' \in Seq(CommandType) /\ Len(commands') = Len(commands) + 1
        /\ \A i \in 1..Len(commands') : i \in 1..Len(commands) \/ i = Len(commands) + 1
        /\ \A i \in 1..Len(commands) : commands'[i] = commands[i]
        /\ commands'[Len(commands) + 1] = c
    BY <1>1, <1>2, AppendQueue
  <2>2. \A x : Contains(commands', x) <=> Contains(commands, x) \/ x = c
    BY <1>1, <1>2, ContainsAppend
  <2>3. Len(commands') <= CommandCapacity
    BY <1>1, <1>2, <2>1, ManagedAssumption DEF Room
  <2>4. \A i \in 1..Len(commands') : commands'[i].kind = "submit" => commands'[i].op \in Operations
    BY <2>1 DEF ManagedInv, TurnsAreNamed
  <2> QED
    BY <2>1, <2>2, <2>3, <2>4
<1>3. CASE actor.at = "ended" /\ commands' = commands
  BY <1>1, <1>3 DEF ManagedInv, TypeOK, TurnsAreNamed
<1> QED
  BY <1>2, <1>3 DEF SendCommand

\* A loop that takes no event keeps the order of the events.
LEMMA NoEventManagedInv ==
    ASSUME ManagedInv, UNCHANGED <<events, actor>>,
           controller' \in Maybe(Clients), waiting' \subseteq Clients, closing' \in BOOLEAN,
           stop' \in BOOLEAN, submitted' \subseteq Operations,
           requests' \in Seq(RequestType),
           \A i \in 1..Len(requests') : requests'[i].kind = "submit" => requests'[i].op \in Operations,
           commands' \in Seq(CommandType), Len(commands') <= CommandCapacity,
           \A i \in 1..Len(commands') : commands'[i].kind = "submit" => commands'[i].op \in Operations,
           \A x : Contains(commands, x) => Contains(commands', x),
           loop' \in {"run", "stopping", "joining", "ended"}, loop' = "run" => loop = "run",
           loop = "ended" => loop' = "ended", cancelled' \in BOOLEAN,
           active' \in Maybe(Operations),
           active' \in {active, None} \/ actor.at = "ended" \/ Contains(commands', Command("submit", active')),
           approvals' \subseteq approvals, pending' \subseteq pending,
           answer' \in [Operations -> {"unasked", "open", "allow", "cancel", "granted"}],
           \A o \in Operations \ approvals : answer'[o] = answer[o],
           \A o \in approvals' : answer'[o] = "open",
           \A o \in approvals \ approvals' : answer'[o] # "open"
    PROVE  ManagedInv'
<1>1. TypeOK'
  BY DEF ManagedInv, TypeOK, RequestType, CommandType
<1>2. TurnsAreNamed'
  BY DEF ManagedInv, TurnsAreNamed
<1>3. QueuedAreOpen'
  BY DEF ManagedInv, TypeOK, QueuedAreOpen, IsApproval
<1>4. HeldAreOpen'
  BY DEF HeldAreOpen
<1>5. NoForgottenApproval'
  <2>1. actor.at = "asking" => actor.op \in Operations
    BY DEF ManagedInv, TurnsAreNamed, Live
  <2> QED
    BY <2>1 DEF ManagedInv, NoForgottenApproval
<1>6. ApprovalsComeFirst'
  BY DEF ManagedInv, ApprovalsComeFirst, IsApproval, Works
<1>7. PendingWillClear' /\ ActiveWillFinish'
  BY DEF ManagedInv, PendingWillClear, ActiveWillFinish, Works, Reports
<1> QED
  BY <1>1, <1>2, <1>3, <1>4, <1>5, <1>6, <1>7 DEF ManagedInv

\* The requests that the loop answers, and its way out.
LEMMA RequestsManagedInv ==
    ASSUME ManagedInv,
           \/ HandleSubmit \/ HandleControl \/ HandleDecision \/ HandleFailClosed \/ HandleShutdown
           \/ ShutDownDriver \/ LoopEnds \/ Abort
    PROVE  ManagedInv'
<1>1. /\ controller \in Maybe(Clients) /\ waiting \subseteq Clients /\ closing \in BOOLEAN
      /\ stop \in BOOLEAN /\ submitted \subseteq Operations /\ requests \in Seq(RequestType)
      /\ commands \in Seq(CommandType) /\ Len(commands) <= CommandCapacity
      /\ active \in Maybe(Operations) /\ approvals \subseteq Operations /\ cancelled \in BOOLEAN
      /\ answer \in [Operations -> {"unasked", "open", "allow", "cancel", "granted"}]
      /\ \A i \in 1..Len(requests) : requests[i].kind = "submit" => requests[i].op \in Operations
      /\ \A i \in 1..Len(commands) : commands[i].kind = "submit" => commands[i].op \in Operations
      /\ \A o \in approvals : answer[o] = "open"
  BY DEF ManagedInv, TypeOK, RequestType, CommandType, TurnsAreNamed, HeldAreOpen
<1>2. ASSUME NEW kinds, Handles(kinds), Replied
      PROVE  /\ requests' \in Seq(RequestType) /\ Head(requests) \in RequestType /\ loop = "run"
             /\ \A i \in 1..Len(requests') : requests'[i].kind = "submit" => requests'[i].op \in Operations
             /\ Head(requests).kind = "submit" => Head(requests).op \in Operations
             /\ waiting' \subseteq Clients /\ controller' \in Maybe(Clients)
             /\ closing' \in BOOLEAN /\ stop' \in BOOLEAN
  BY <1>1, <1>2, RepliedQueue DEF Handles
<1>3. \A o : Interrupt(o) => cancelled' \in BOOLEAN
  BY DEF Interrupt
<1>4. CASE HandleSubmit
  <2>1. Handles({"submit"}) /\ Replied
    BY <1>4 DEF HandleSubmit
  <2>2. UNCHANGED <<loop, approvals, events, actor, cancelled, answer, pending, submitted>>
    BY <1>4 DEF HandleSubmit, driver
  <2>3. CASE active # None \/ actor.at = "ended"
    <3>1. UNCHANGED <<active, commands>>
      BY <1>4, <2>3 DEF HandleSubmit
    <3> QED
      BY <1>1, <1>2, <2>1, <2>2, <3>1, NoEventManagedInv
  <2>4. CASE ~(active # None \/ actor.at = "ended")
    <3> DEFINE o == Head(requests).op
               c == Command("submit", o)
    <3>1. SendCommand(c) /\ active' = o
      BY <1>4, <2>4 DEF HandleSubmit
    <3>2. o \in Operations
      BY <1>2, <2>1 DEF Handles
    <3>3. c \in CommandType /\ c.kind = "submit" /\ c.op = o
      BY <3>2 DEF Command, CommandType, Maybe
    <3>4. /\ commands' \in Seq(CommandType) /\ Len(commands') <= CommandCapacity
          /\ \A i \in 1..Len(commands') : commands'[i].kind = "submit" => commands'[i].op \in Operations
          /\ \A x : Contains(commands, x) => Contains(commands', x)
          /\ Contains(commands', c)
      BY <2>4, <3>1, <3>2, <3>3, SentCommand
    <3>5. Contains(commands', Command("submit", active'))
      BY <3>1, <3>4
    <3>6. active' \in Maybe(Operations)
      BY <3>1, <3>2 DEF Maybe
    <3> HIDE DEF c, o
    <3> QED
      BY <1>1, <1>2, <2>1, <2>2, <3>4, <3>5, <3>6, NoEventManagedInv
  <2> QED
    BY <2>3, <2>4
<1>5. CASE HandleControl
  <2>1. Handles({"interrupt", "clear"}) /\ Replied
    BY <1>5 DEF HandleControl
  <2>2. UNCHANGED <<loop, active, approvals, events, actor, answer, pending, submitted>>
    BY <1>5 DEF HandleControl, owner
  <2>3. cancelled' \in BOOLEAN
    BY <1>1, <1>3, <1>5 DEF HandleControl
  <2>4. Command("clear", None) \in CommandType /\ Command("clear", None).kind = "clear"
    BY DEF Command, CommandType, Maybe
  <2>5. commands' = commands \/ SendCommand(Command("clear", None))
    BY <1>5 DEF HandleControl
  <2>6. /\ commands' \in Seq(CommandType) /\ Len(commands') <= CommandCapacity
        /\ \A i \in 1..Len(commands') : commands'[i].kind = "submit" => commands'[i].op \in Operations
        /\ \A x : Contains(commands, x) => Contains(commands', x)
    BY <1>1, <2>4, <2>5, SentCommand
  <2> QED
    BY <1>1, <1>2, <2>1, <2>2, <2>3, <2>6, NoEventManagedInv
<1>6. CASE HandleDecision
  <2> DEFINE o == Head(requests).op
  <2>1. Handles({"allow", "refuse"}) /\ Replied
    BY <1>6 DEF HandleDecision
  <2>2. /\ approvals' = approvals \ {o} /\ pending' = pending \ {o}
        /\ answer' = IF o \notin approvals THEN answer
                     ELSE [answer EXCEPT ![o] = IF Head(requests).kind = "allow" THEN "allow" ELSE "cancel"]
        /\ UNCHANGED <<loop, active, commands, events, actor, cancelled, submitted>>
    BY <1>6 DEF HandleDecision, driver
  <2> HIDE DEF o
  <2>3. /\ answer' \in [Operations -> {"unasked", "open", "allow", "cancel", "granted"}]
        /\ \A x \in Operations \ approvals : answer'[x] = answer[x]
        /\ \A x \in approvals' : answer'[x] = "open"
        /\ \A x \in approvals \ approvals' : answer'[x] # "open"
    BY <1>1, <2>2
  <2> QED
    BY <1>1, <1>2, <2>1, <2>2, <2>3, NoEventManagedInv
<1>7. CASE HandleFailClosed \/ HandleShutdown
  <2>1. PICK kind : Handles({kind}) /\ Replied
    BY <1>7 DEF HandleFailClosed, HandleShutdown
  <2>2. /\ Cancel(approvals) /\ approvals' = {} /\ active' = None /\ cancelled' \in BOOLEAN
        /\ loop' \in {loop, "stopping"} /\ UNCHANGED <<commands, events, actor, pending, submitted>>
    BY <1>1, <1>3, <1>7 DEF HandleFailClosed, HandleShutdown, FailClosed
  <2>3. /\ answer' \in [Operations -> {"unasked", "open", "allow", "cancel", "granted"}]
        /\ \A x \in Operations \ approvals : answer'[x] = answer[x]
        /\ \A x \in approvals : answer'[x] # "open"
    BY <1>1, <2>2 DEF Cancel
  <2> QED
    BY <1>1, <1>2, <2>1, <2>2, <2>3, NoEventManagedInv DEF Maybe
<1>8. CASE ShutDownDriver
  <2>1. Command("shutdown", None) \in CommandType /\ Command("shutdown", None).kind = "shutdown"
    BY DEF Command, CommandType, Maybe
  <2>2. /\ commands' \in Seq(CommandType) /\ Len(commands') <= CommandCapacity
        /\ \A i \in 1..Len(commands') : commands'[i].kind = "submit" => commands'[i].op \in Operations
        /\ \A x : Contains(commands, x) => Contains(commands', x)
    BY <1>8, <2>1, SentCommand DEF ShutDownDriver
  <2>3. /\ loop = "stopping" /\ loop' = "joining"
        /\ UNCHANGED <<controller, waiting, closing, stop, requests, active, approvals, events, actor,
                       cancelled, answer, pending, submitted>>
    BY <1>8 DEF ShutDownDriver, clients, driver
  <2> QED
    BY <1>1, <2>2, <2>3, NoEventManagedInv
<1>9. CASE LoopEnds \/ Abort
  <2>1. /\ loop' = "ended"
        /\ UNCHANGED <<controller, waiting, closing, stop, requests, active, approvals, commands, events,
                       actor, cancelled, answer, pending, submitted>>
    BY <1>9 DEF LoopEnds, Abort, clients, driver
  <2> QED
    BY <1>1, <2>1, NoEventManagedInv
<1> QED
  BY <1>4, <1>5, <1>6, <1>7, <1>8, <1>9

\* The event that the loop takes is the first one.
LEMMA TakenEvent ==
    ASSUME ManagedInv, events # <<>>, events' = Tail(events)
    PROVE  /\ events' \in Seq(EventType) /\ Head(events) \in EventType /\ Head(events) = events[1]
           /\ 1 \in 1..Len(events) /\ Len(events') <= EventCapacity
           /\ \A i \in 1..Len(events') : i + 1 \in 1..Len(events) /\ events'[i] = events[i + 1]
           /\ \A i \in 1..Len(events) : i = 1 \/ (i - 1 \in 1..Len(events') /\ events[i] = events'[i - 1])
           /\ \A x : Contains(events, x) <=> x = Head(events) \/ Contains(events', x)
<1>1. events \in Seq(EventType)
  BY DEF ManagedInv, TypeOK, EventType
<1>2. \A x : Contains(events, x) <=> x = Head(events) \/ Contains(Tail(events), x)
  BY <1>1, ContainsTail, Zenon
<1>3. Len(Tail(events)) = Len(events) - 1 /\ Len(events) \in Nat /\ Len(events) > 0
  BY <1>1, TailQueue
<1>4. Len(Tail(events)) <= EventCapacity
  BY <1>3, ManagedAssumption DEF ManagedInv, TypeOK
<1> QED
  BY <1>1, <1>2, <1>3, <1>4, TailQueue

\* The events that the loop takes: an approval passes from the queue to the
\* loop, and the end of a turn clears what is held.
LEMMA EventsManagedInv ==
    ASSUME ManagedInv, HandleApproval \/ HandleFinished \/ HandleNote
    PROVE  ManagedInv'
<1> DEFINE e == Head(events)
<1>1. /\ loop = "run" /\ events # <<>> /\ events' = Tail(events)
      /\ UNCHANGED <<controller, waiting, closing, stop, requests, loop, commands, actor, cancelled, submitted>>
  BY DEF HandleApproval, HandleFinished, HandleNote, Receives, clients, driver, owner
<1>2. /\ events' \in Seq(EventType) /\ e \in EventType /\ e = events[1]
      /\ 1 \in 1..Len(events) /\ Len(events') <= EventCapacity
      /\ \A i \in 1..Len(events') : i + 1 \in 1..Len(events) /\ events'[i] = events[i + 1]
      /\ \A i \in 1..Len(events) : i = 1 \/ (i - 1 \in 1..Len(events') /\ events[i] = events'[i - 1])
      /\ \A x : Contains(events, x) <=> x = e \/ Contains(events', x)
  BY <1>1, TakenEvent
<1>3. /\ e.kind = "approval" => HandleApproval
      /\ e.kind = "finished" => HandleFinished
      /\ e.kind = "note" => HandleNote
      /\ e.kind \in {"approval", "finished", "note"} /\ e.op \in Maybe(Operations)
  BY <1>2 DEF HandleApproval, HandleFinished, HandleNote, Receives, EventType
<1> HIDE DEF e
<1>4. /\ active \in Maybe(Operations) /\ approvals \subseteq Operations /\ pending \subseteq Operations
      /\ answer \in [Operations -> {"unasked", "open", "allow", "cancel", "granted"}]
      /\ \A o \in approvals : answer[o] = "open"
  BY DEF ManagedInv, TypeOK, HeldAreOpen
<1>5. e.kind = "approval" => e.op \in Operations \ approvals /\ answer[e.op] = "open"
  BY <1>2 DEF ManagedInv, QueuedAreOpen, IsApproval
\* What happens to the approvals.
<1>6. /\ approvals' \subseteq Operations /\ pending' \subseteq Operations /\ active' \in {active, None}
      /\ answer' \in [Operations -> {"unasked", "open", "allow", "cancel", "granted"}]
      /\ \A o \in approvals' : answer'[o] = "open"
      /\ approvals' \subseteq approvals \cup (IF e.kind = "approval" THEN {e.op} ELSE {})
      /\ \A o \in Operations \ approvals :
            answer'[o] = answer[o] \/ (e.kind = "approval" /\ o = e.op /\ answer'[o] # "open")
      /\ \A o \in approvals \cup (IF e.kind = "approval" THEN {e.op} ELSE {}) :
            o \in approvals' \/ answer'[o] # "open"
      /\ pending' \subseteq (IF e.kind = "finished" THEN {} ELSE pending)
                             \cup (IF e.kind = "approval" THEN {e.op} ELSE {})
      /\ e.kind = "finished" /\ active = e.op => active' = None
  <2>1. CASE e.kind = "approval" /\ active = None
    BY <1>3, <1>4, <1>5, <2>1 DEF HandleApproval, Cancel, e
  <2>2. CASE e.kind = "approval" /\ active # None
    BY <1>3, <1>4, <1>5, <2>2 DEF HandleApproval, e
  <2>3. CASE e.kind = "finished"
    BY <1>3, <1>4, <2>3 DEF HandleFinished, Cancel, e
  <2>4. CASE e.kind = "note"
    BY <1>3, <1>4, <2>4 DEF HandleNote, owner
  <2> QED
    BY <1>3, <2>1, <2>2, <2>3, <2>4
<1>7. TypeOK'
  BY <1>1, <1>2, <1>6 DEF ManagedInv, TypeOK, Maybe, EventType
<1>8. TurnsAreNamed' /\ HeldAreOpen'
  BY <1>1, <1>6 DEF ManagedInv, TurnsAreNamed, HeldAreOpen
<1>9. QueuedAreOpen'
  <2> SUFFICES ASSUME NEW i \in 1..Len(events'), events'[i].kind = "approval"
               PROVE  /\ events'[i].op \in Operations \ approvals' /\ answer'[events'[i].op] = "open"
                      /\ \A j \in 1..Len(events') :
                            events'[j].kind = "approval" /\ events'[j].op = events'[i].op => i = j
    BY DEF QueuedAreOpen, IsApproval
  <2>1. /\ events[i + 1].op \in Operations \ approvals /\ answer[events[i + 1].op] = "open"
        /\ \A j \in 1..Len(events) :
              events[j].kind = "approval" /\ events[j].op = events[i + 1].op => i + 1 = j
    BY <1>2 DEF ManagedInv, QueuedAreOpen, IsApproval
  <2>2. e.kind = "approval" => e.op # events[i + 1].op
    BY <1>2, <2>1
  <2>3. events[i + 1].op \notin approvals' /\ answer'[events[i + 1].op] = "open"
    BY <1>6, <2>1, <2>2
  <2>4. \A j \in 1..Len(events') :
          events'[j].kind = "approval" /\ events'[j].op = events'[i].op => i = j
    BY <1>2, <2>1
  <2> QED
    BY <1>2, <2>1, <2>3, <2>4
<1>10. NoForgottenApproval'
  <2> SUFFICES ASSUME actor.at = "asking", answer'[actor.op] = "open"
               PROVE  actor.op \in approvals' \/ Contains(events', Event("approval", actor.op))
    BY <1>1 DEF NoForgottenApproval
  <2>1. actor.op \in Operations
    BY DEF ManagedInv, TurnsAreNamed, Live
  <2>2. Event("approval", actor.op).kind = "approval" /\ Event("approval", actor.op).op = actor.op
    BY DEF Event
  <2>3. CASE actor.op \in approvals
    BY <1>6, <2>3
  <2>4. CASE actor.op \notin approvals
    <3>1. answer[actor.op] = "open"
      BY <1>6, <2>1, <2>4
    <3>2. Contains(events, Event("approval", actor.op))
      BY <1>1, <2>4, <3>1 DEF ManagedInv, NoForgottenApproval
    <3>3. e # Event("approval", actor.op) \/ actor.op \in approvals'
      BY <1>6, <2>2
    <3> QED
      BY <1>2, <3>2, <3>3
  <2> QED
    BY <2>3, <2>4
<1>11. \A o : Finished(o).kind = "finished" /\ Finished(o).op = o
  BY DEF Finished, Event
<1>12. ApprovalsComeFirst'
  <2> SUFFICES ASSUME actor.at # "ended", NEW i \in 1..Len(events'), events'[i].kind = "approval"
               PROVE  \/ actor.op = events'[i].op /\ actor.at # "idle"
                      \/ \E j \in 1..Len(events') : i < j /\ events'[j] = Finished(events'[i].op)
    BY <1>1 DEF ApprovalsComeFirst, IsApproval, Works
  <2>1. events'[i] = events[i + 1] /\ i + 1 \in 1..Len(events)
    BY <1>2
  <2>2. \/ Works(events[i + 1].op)
        \/ \E j \in 1..Len(events) : i + 1 < j /\ events[j] = Finished(events[i + 1].op)
    BY <2>1 DEF ManagedInv, ApprovalsComeFirst, IsApproval
  <2>3. CASE Works(events[i + 1].op)
    BY <2>1, <2>3 DEF Works
  <2>4. CASE \E j \in 1..Len(events) : i + 1 < j /\ events[j] = Finished(events[i + 1].op)
    <3>1. PICK j \in 1..Len(events) : i + 1 < j /\ events[j] = Finished(events[i + 1].op)
      BY <2>4
    <3>2. j - 1 \in 1..Len(events') /\ events[j] = events'[j - 1] /\ i < j - 1
      BY <1>2, <3>1
    <3> QED
      BY <2>1, <3>1, <3>2
  <2> QED
    BY <2>2, <2>3, <2>4
<1>13. PendingWillClear'
  <2> SUFFICES ASSUME actor.at # "ended", NEW o \in pending'
               PROVE  Works(o) \/ Contains(events', Finished(o))
    BY <1>1 DEF PendingWillClear, Works, Reports
  <2>1. CASE e.kind = "approval" /\ o = e.op
    <3>1. Works(o) \/ \E j \in 1..Len(events) : 1 < j /\ events[j] = Finished(o)
      BY <1>2, <2>1 DEF ManagedInv, ApprovalsComeFirst, IsApproval
    <3>2. ASSUME NEW j \in 1..Len(events), 1 < j, events[j] = Finished(o)
          PROVE  Contains(events', Finished(o))
      <4>1. j - 1 \in 1..Len(events') /\ events'[j - 1] = Finished(o)
        BY <1>2, <3>2
      <4> QED
        BY <4>1 DEF Contains
    <3> QED
      BY <3>1, <3>2
  <2>2. CASE o \in pending /\ e.kind # "finished"
    BY <1>1, <1>2, <1>11, <2>2 DEF ManagedInv, PendingWillClear, Reports
  <2> QED
    BY <1>6, <2>1, <2>2
<1>14. ActiveWillFinish'
  <2> SUFFICES ASSUME active' # None, actor.at # "ended"
               PROVE  \/ Contains(commands, Command("submit", active)) \/ Works(active)
                      \/ Contains(events', Finished(active))
    BY <1>1, <1>6 DEF ActiveWillFinish, Works, Reports
  <2>1. active' = active /\ ~(e.kind = "finished" /\ active = e.op)
    BY <1>6
  <2> QED
    BY <1>1, <1>2, <1>11, <2>1 DEF ManagedInv, ActiveWillFinish, Reports
<1> QED
  BY <1>7, <1>8, <1>9, <1>10, <1>12, <1>13, <1>14 DEF ManagedInv

\* Every step preserves the invariant.
LEMMA NextManagedInv == ManagedInv /\ [Next]_vars => ManagedInv'
<1> SUFFICES ASSUME ManagedInv, [Next]_vars PROVE ManagedInv'
  OBVIOUS
<1>1. CASE UNCHANGED vars
  <2>1. UNCHANGED <<controller, waiting, closing, stop, requests, loop, active, approvals, commands, events,
                    actor, cancelled, answer, pending, submitted>>
    BY <1>1 DEF vars, clients, owner, driver
  <2> QED
    BY <2>1, ClientManagedInv DEF ManagedInv, TypeOK, TurnsAreNamed, RequestType
<1>2. CASE Next
  BY <1>2, ClientStepsManagedInv, RequestsManagedInv, EventsManagedInv, TakeCommandManagedInv, TurnManagedInv
     DEF Next, LoopStep, ActorStep
<1> QED
  BY <1>1, <1>2

\* The invariant holds in every behaviour.
THEOREM ManagedInvariant == Spec => []ManagedInv
<1> QED
  BY InitManagedInv, NextManagedInv, PTL DEF Spec

\* ApprovalsAreKept: no order of requests, events, cancellations and aborts
\* makes run_managed_execution forget the reply that a turn waits for, or hold
\* one that was answered.
THEOREM KeptApprovals == Spec => []ApprovalsAreKept
<1>1. ManagedInv => ApprovalsAreKept
  BY DEF ManagedInv, ApprovalsAreKept
<1> QED
  BY <1>1, ManagedInvariant, PTL

\* ActiveWillFinish: the operation that makes the loop refuse other turns is
\* queued, running or about to be reported.
THEOREM FinishingActive == Spec => []ActiveWillFinish
<1>1. ManagedInv => ActiveWillFinish
  BY DEF ManagedInv
<1> QED
  BY <1>1, ManagedInvariant, PTL

\* PendingWillClear: what blocks a takeover belongs to a turn whose end is
\* still to come.
THEOREM ClearingPending == Spec => []PendingWillClear
<1>1. ManagedInv => PendingWillClear
  BY DEF ManagedInv
<1> QED
  BY <1>1, ManagedInvariant, PTL
=============================================================================
