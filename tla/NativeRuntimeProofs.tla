------------------------ MODULE NativeRuntimeProofs ------------------------
(***************************************************************************)
(* TLAPS proofs about the foreground runtime, for any operations, calls,   *)
(* rounds, commands and failed appends, and for both readings of the       *)
(* select's order.                                                         *)
(***************************************************************************)
EXTENDS NativeRuntime, FiniteSetTheorems, SequenceTheorems, TLAPS

-----------------------------------------------------------------------------
(* The inductive invariant.                                                *)

Kinds == {"assistant", "step", "audit", "intent", "result", "reply"}
Verdicts == {"none", "allow", "deny"}
Request ==
    [op : Operations, kind : Kinds, call : 0 .. MaxCalls, step : Nat, verdict : Verdicts]
Completion == [op : Operations, result : {"completed", "rounds", "failed"}]
BrokerCommand ==
    [type : {"authorize", "cancel"}, op : Operations, call : Calls]
    \cup [type : {"shutdown", "controller_lost"}]
BrokerEvent ==
    [op : Operations, kind : {"suspended", "running"}]
    \cup [op : Operations, kind : {"requested"}, call : Calls]

\* The messages of the channels, in full.
ChannelTypes ==
    /\ requests \in Seq(Request) /\ completions \in Seq(Completion)
    /\ brokerQ \in Seq(BrokerCommand) /\ brokerEvents \in Seq(BrokerEvent)

\* What the actor knows where its loop is: a turn is being prepared only when
\* nothing runs, and nothing of the journal is open when it is admitted.
LoopInv ==
    /\ pc = "top" => deferred # None
    /\ pc \in {"refresh", "compact", "commit"} =>
         turn \in [op : Operations, manual : BOOLEAN] /\ active = None /\ budget = None
    /\ pc \in {"refresh", "commit"} \/ (pc = "compact" /\ ~turn.manual) => Unfinished = {}
    /\ pc = "exited" => active = None

\* The one run: it is active, or waits for the decision on its rounds.
RunInv ==
    /\ \A a, b \in Unfinished : a = b
    /\ active # None => active \in Unfinished /\ budget = None /\ task[active] # "aborted"
    /\ budget # None => /\ task[budget.op] = "done" /\ budget.op \in Unfinished
                        /\ consumed[budget.op] = budget.at /\ round[budget.op] = 0
    /\ \A op \in Operations : Live(op) => active = op

\* A completion that waits is the only one and of the run, or of a run that was
\* interrupted and will never be succeeded by another.
CompletionsInv ==
    \A i \in DOMAIN completions :
        LET op == completions[i].op IN
        /\ Len(completions) = 1 /\ task[op] \in {"done", "aborted"} /\ op \in Unfinished
        /\ budget = None /\ active \in {None, op}
        /\ completions[i].result = "rounds" => round[op] > 0

\* How far the task of an operation is, and what the journal has of its
\* current call by then: `t' is the point, `c' the call, `v' its verdict, `n'
\* and `m' the rounds of this and of earlier tranches.
OpOK(op, t, c, v, n, m, j, did) ==
    /\ j.state = "absent" => t = "none"
    /\ t = "none" => c = 0 /\ n = 0 /\ m = 0
    /\ \A i \in j.intents : i <= c
    /\ Answered(j) \subseteq j.intents
    /\ t \in {"ask", "answered", "audit", "audited", "intent"} => c > 0 /\ c \notin j.intents
    /\ t \in {"answered", "audit", "audited", "intent", "intended", "effected", "result"} =>
         v # "none"
    /\ t \in {"audited", "intent", "intended", "effected"} =>
         [call |-> c, allow |-> v = "allow"] \in j.audits
    /\ t \in {"intended", "effected", "result"} => c \in j.intents /\ c \notin Answered(j)
    /\ t = "intended" => [op |-> op, call |-> c] \notin did
    /\ t = "effected" => [op |-> op, call |-> c] \in did /\ v = "allow"
    /\ t = "result" => (v = "allow" <=> [op |-> op, call |-> c] \in did)
    /\ t \notin {"none", "done", "aborted"} => m + n < HardRounds /\ n < SoftRounds
    /\ m + n <= HardRounds
OpInv(op) ==
    OpOK(op, task[op], call[op], verdict[op], round[op], consumed[op], journal[op], effects)
OpsInv == \A op \in Operations : OpInv(op)

\* A request in the channel is the one its task waits for, or was left by a
\* task that was aborted.
RequestOK(r) ==
    /\ \/ task[r.op] = "aborted"
       \/ task[r.op] = r.kind /\ call[r.op] = r.call /\ verdict[r.op] = r.verdict
    /\ r.kind \in {"audit", "intent", "result"} => r.call \in Calls /\ r.call <= call[r.op]
    /\ r.kind = "result" =>
         (r.verdict = "allow" <=> [op |-> r.op, call |-> r.call] \in effects)
RequestsInv ==
    \A i \in DOMAIN requests :
        /\ RequestOK(requests[i])
        /\ \A k \in DOMAIN requests : requests[k].op = requests[i].op => k = i

\* What waits, and what is about to wait, at the broker is waited for or will
\* be cancelled or denied.
Asks(k) == task[k.op] = "ask" /\ call[k.op] = k.call
Stops(m, k) ==
    \/ m = [type |-> "cancel", op |-> k.op, call |-> k.call]
    \/ m.type \in {"shutdown", "controller_lost"}
PendingInv ==
    \A k \in pending :
        /\ k.call <= call[k.op]
        /\ Asks(k) \/ \E i \in DOMAIN brokerQ : Stops(brokerQ[i], k)
AuthorizeOK(i) ==
    LET k == Key(brokerQ[i]) IN
    /\ k.call <= call[k.op] /\ k \notin pending
    /\ Asks(k) \/ \E m \in DOMAIN brokerQ : m > i /\ Stops(brokerQ[m], k)
    /\ \A m \in DOMAIN brokerQ : brokerQ[m] = brokerQ[i] => m = i
AuthorizeInv == \A i \in DOMAIN brokerQ : brokerQ[i].type = "authorize" => AuthorizeOK(i)
EventsInv == \A i \in DOMAIN brokerEvents : journal[brokerEvents[i].op].state # "absent"

RuntimeInv ==
    /\ TypeOK /\ ChannelTypes /\ LoopInv /\ RunInv /\ CompletionsInv
    /\ OpsInv /\ RequestsInv /\ PendingInv /\ AuthorizeInv /\ EventsInv /\ JournalIsTruthful

-----------------------------------------------------------------------------
(* Channels.                                                               *)

\* Putting a message at the end of a channel.
LEMMA AppendChannel ==
    ASSUME NEW S, NEW q \in Seq(S), NEW m \in S
    PROVE  /\ Append(q, m) \in Seq(S)
           /\ Len(Append(q, m)) = Len(q) + 1 /\ Len(q) \in Nat
           /\ DOMAIN Append(q, m) = DOMAIN q \cup {Len(q) + 1}
           /\ \A i \in DOMAIN q : Append(q, m)[i] = q[i] /\ i \in Nat /\ i <= Len(q)
           /\ Append(q, m)[Len(q) + 1] = m
           /\ Len(q) + 1 \notin DOMAIN q
OBVIOUS

\* Taking the message at the head of a channel.
LEMMA TailChannel ==
    ASSUME NEW S, NEW q \in Seq(S), q # <<>>
    PROVE  /\ Tail(q) \in Seq(S) /\ Head(q) \in S /\ Head(q) = q[1]
           /\ 1 \in DOMAIN q
           /\ Len(Tail(q)) = Len(q) - 1
           /\ \A i \in DOMAIN Tail(q) :
                i \in Nat /\ i + 1 \in DOMAIN q /\ Tail(q)[i] = q[i + 1] /\ i + 1 # 1
           /\ \A i \in DOMAIN q : i \in Nat /\ (i = 1 \/ i - 1 \in DOMAIN Tail(q))
OBVIOUS

\* A message of a channel.
LEMMA MessageType ==
    ASSUME NEW S, NEW q \in Seq(S), NEW i \in DOMAIN q
    PROVE  q[i] \in S
OBVIOUS

\* A channel without messages.
LEMMA NoMessage ==
    ASSUME NEW S, NEW q \in Seq(S), \A i \in DOMAIN q : FALSE
    PROVE  q = <<>>
<1>1. q # <<>> => 1 \in DOMAIN q
  BY TailChannel
<1> QED
  BY <1>1

-----------------------------------------------------------------------------
(* What the operators of the model that choose by cases yield.             *)

\* The moves of an operation that the reducer accepts.
LEMMA CanMoveToCases ==
    ASSUME NEW op
    PROVE  /\ CanMoveTo(op, "running") <=> journal[op].state \in {"absent", "suspended"}
           /\ CanMoveTo(op, "suspended") <=> journal[op].state = "running"
           /\ CanMoveTo(op, "finished") <=> /\ journal[op].state \in {"running", "suspended"}
                                            /\ ~HasPending(op)
BY Zenon DEF CanMoveTo

\* When the reducer accepts a record of a task, and what it makes of it.
LEMMA AcceptsCases ==
    ASSUME NEW r, Accepts(r)
    PROVE  /\ r.kind = "intent" => journal[r.op].state # "finished" /\ r.call \notin journal[r.op].intents
           /\ r.kind = "result" =>
                /\ journal[r.op].state # "finished"
                /\ r.call \in journal[r.op].intents /\ r.call \notin Answered(journal[r.op])
<1>1. r.kind = "intent" => journal[r.op].state # "finished" /\ r.call \notin journal[r.op].intents
  BY Zenon DEF Accepts
<1>2. r.kind = "result" =>
                /\ journal[r.op].state # "finished"
                /\ r.call \in journal[r.op].intents /\ r.call \notin Answered(journal[r.op])
  BY Zenon DEF Accepts
<1> QED
  BY <1>1, <1>2

\* What each kind of record makes of the journal of its operation.
LEMMA RecordsCases ==
    ASSUME NEW r
    PROVE  /\ r.kind \in {"assistant", "reply"} => Records(r) = journal[r.op]
           /\ r.kind = "step" => Records(r) = [journal[r.op] EXCEPT !.steps = @ + 1]
           /\ r.kind = "audit" =>
                Records(r) = [journal[r.op] EXCEPT !.audits = @ \cup
                                {[call |-> r.call, allow |-> r.verdict = "allow"]}]
           /\ r.kind = "intent" =>
                Records(r) = [journal[r.op] EXCEPT !.intents = @ \cup {r.call}]
           /\ r.kind = "result" =>
                Records(r) = [journal[r.op] EXCEPT !.results = @ \cup
                                {[call |-> r.call,
                                  outcome |-> IF r.verdict = "allow"
                                              THEN "performed" ELSE "declined"]}]
<1>1. r.kind \in {"assistant", "reply"} => Records(r) = journal[r.op]
  BY Zenon DEF Records
<1>2. r.kind = "step" => Records(r) = [journal[r.op] EXCEPT !.steps = @ + 1]
  BY Zenon DEF Records
<1>3. r.kind = "audit" =>
        Records(r) = [journal[r.op] EXCEPT !.audits = @ \cup
                        {[call |-> r.call, allow |-> r.verdict = "allow"]}]
  BY Zenon DEF Records
<1>4. r.kind = "intent" => Records(r) = [journal[r.op] EXCEPT !.intents = @ \cup {r.call}]
  BY Zenon DEF Records
<1>5. r.kind = "result" =>
        Records(r) = [journal[r.op] EXCEPT !.results = @ \cup
                        {[call |-> r.call,
                          outcome |-> IF r.verdict = "allow" THEN "performed" ELSE "declined"]}]
  BY Zenon DEF Records
<1> QED
  BY <1>1, <1>2, <1>3, <1>4, <1>5


-----------------------------------------------------------------------------
(* The kinds of steps, by what they do to the run.                         *)

\* Nothing but the position of the loop, the clients' side or the view moves.
Still == UNCHANGED <<active, budget, taskVars, brokerVars, journal, completions, requests>>

\* The run is aborted, if there is one; the broker gets the cancellation of
\* what it asked for.
QueueExtended ==
    /\ brokerQ' \in Seq(BrokerCommand)
    /\ \A i \in DOMAIN brokerQ : i \in DOMAIN brokerQ' /\ brokerQ'[i] = brokerQ[i]
    /\ \A i \in DOMAIN brokerQ' \ DOMAIN brokerQ :
          brokerQ'[i].type # "authorize" /\ \A k \in DOMAIN brokerQ : i > k
AskCancelled ==
    \E i \in DOMAIN brokerQ' \ DOMAIN brokerQ :
        brokerQ'[i] = [type |-> "cancel", op |-> active, call |-> call[active]]
Aborts ==
    /\ active' = None /\ QueueExtended
    /\ UNCHANGED <<budget, call, round, consumed, verdict, effects,
                   completions, requests, brokerEvents, pending>>
    /\ \/ active = None /\ UNCHANGED <<task, journal>>
       \/ /\ active # None /\ task' = [task EXCEPT ![active] = "aborted"]
          /\ task[active] = "ask" => AskCancelled
          /\ \/ journal' = journal
             \/ journal[active].state = "running" /\ journal' = Moved(active, "suspended")

\* The controller answers a request that waits.
Decides ==
    \E k \in pending, v \in {"allow", "deny"} :
        /\ brokerQ = <<>> /\ pending' = pending \ {k} /\ Replies(k, v)
        /\ brokerEvents' = Append(brokerEvents, [op |-> k.op, kind |-> "running"])
        /\ UNCHANGED <<active, budget, call, round, consumed, effects, brokerQ, journal,
                       completions, requests>>

\* The decision on a reached round budget is recorded.
Resolves ==
    \E continue \in BOOLEAN :
        /\ budget # None /\ active = None /\ journal[budget.op].state = "suspended"
        /\ IF continue THEN Remaining(budget.op) # 0 ELSE ~HasPending(budget.op)
        /\ budget' = None
        /\ journal' = [journal EXCEPT
              ![budget.op].state = IF continue THEN "running" ELSE "finished",
              ![budget.op].decided = @ \cup {budget.at}]
        /\ IF continue
           THEN active' = budget.op /\ task' = [task EXCEPT ![budget.op] = "model"]
           ELSE UNCHANGED <<active, task>>
        /\ UNCHANGED <<call, round, verdict, effects, consumed, brokerVars, completions, requests>>

\* The end of a queue that an interrupt leaves behind.
LEMMA ExtendedQueue ==
    ASSUME brokerQ \in Seq(BrokerCommand), NEW tail \in Seq(BrokerCommand),
           \A i \in DOMAIN tail : tail[i].type # "authorize",
           brokerQ' = brokerQ \o tail
    PROVE  /\ QueueExtended
           /\ \A i \in DOMAIN tail : \E m \in DOMAIN brokerQ' \ DOMAIN brokerQ : brokerQ'[m] = tail[i]
<1> DEFINE S == BrokerCommand
<1> HIDE DEF S
<1>1. brokerQ \in Seq(S) /\ tail \in Seq(S)
  BY DEF S
<1>2. /\ brokerQ' \in Seq(S)
      /\ Len(brokerQ') = Len(brokerQ) + Len(tail) /\ Len(brokerQ) \in Nat /\ Len(tail) \in Nat
      /\ \A i \in 1 .. Len(brokerQ) + Len(tail) :
            brokerQ'[i] = IF i <= Len(brokerQ) THEN brokerQ[i] ELSE tail[i - Len(brokerQ)]
  BY <1>1, ConcatProperties
<1>3. DOMAIN brokerQ = 1 .. Len(brokerQ) /\ DOMAIN tail = 1 .. Len(tail)
      /\ DOMAIN brokerQ' = 1 .. Len(brokerQ')
  BY <1>1, <1>2
<1>4. \A i \in DOMAIN brokerQ : i \in DOMAIN brokerQ' /\ brokerQ'[i] = brokerQ[i]
  BY <1>2, <1>3
<1>5. \A i \in DOMAIN brokerQ' \ DOMAIN brokerQ :
         i - Len(brokerQ) \in DOMAIN tail /\ brokerQ'[i] = tail[i - Len(brokerQ)]
         /\ \A k \in DOMAIN brokerQ : i > k
  BY <1>2, <1>3
<1>6. \A i \in DOMAIN tail : /\ i + Len(brokerQ) \in DOMAIN brokerQ' \ DOMAIN brokerQ
                             /\ brokerQ'[i + Len(brokerQ)] = tail[i]
  BY <1>2, <1>3
<1> QED
  BY <1>2, <1>4, <1>5, <1>6 DEF QueueExtended, S

\* interrupt_active aborts the run.
LEMMA InterruptAborts ==
    ASSUME TypeOK, ChannelTypes, OpsInv, NEW extra, InterruptActive(extra),
           extra \in {<<>>, <<[type |-> "shutdown"]>>, <<[type |-> "controller_lost"]>>}
    PROVE  Aborts
<1>1. brokerQ \in Seq(BrokerCommand) /\ active \in Operations \cup {None}
      /\ call \in [Operations -> 0 .. MaxCalls]
  BY DEF TypeOK, ChannelTypes
<1>2. brokerQ' = brokerQ \o extra \o GuardDropped
  BY DEF InterruptActive
<1>3. extra \in Seq(BrokerCommand) /\ \A i \in DOMAIN extra : extra[i].type # "authorize"
  <2>1. \A s \in {[type |-> "shutdown"], [type |-> "controller_lost"]} :
           s \in BrokerCommand /\ s.type # "authorize"
    BY DEF BrokerCommand
  <2>2. CASE extra = <<>>
    BY <2>2
  <2>3. CASE extra # <<>>
    <3>1. PICK s \in {[type |-> "shutdown"], [type |-> "controller_lost"]} : extra = <<s>>
      BY <2>3
    <3>2. s \in BrokerCommand /\ s.type # "authorize"
      BY <2>1
    <3> QED
      BY <3>1, <3>2
  <2> QED
    BY <2>2, <2>3
<1>4. CASE GuardDropped = <<>>
  <2>1. brokerQ' = brokerQ \o extra
    BY <1>1, <1>2, <1>3, <1>4
  <2>2. QueueExtended
    BY <1>1, <1>3, <2>1, ExtendedQueue
  <2>3. active # None => task[active] # "ask"
    BY <1>4 DEF GuardDropped
  <2> QED
    BY <2>2, <2>3, CanMoveToCases DEF InterruptActive, Aborts, TaskAborted, Stored
<1>5. CASE GuardDropped # <<>>
  <2> DEFINE m == [type |-> "cancel", op |-> active, call |-> call[active]]
             tail == extra \o <<m>>
  <2>1. active \in Operations /\ GuardDropped = <<m>> /\ task[active] \in {"ask", "answered"}
        /\ active # None
    BY <1>1, <1>5 DEF GuardDropped
  <2>2. m \in BrokerCommand /\ m.type # "authorize"
    <3>1. call[active] > 0
      BY <2>1 DEF OpsInv, OpInv, OpOK
    <3>2. call[active] \in Calls
      BY <1>1, <2>1, <3>1, BoundsAssumption DEF Calls
    <3> QED
      BY <2>1, <3>2 DEF BrokerCommand
  <2> HIDE DEF m
  <2>3. <<m>> \in Seq(BrokerCommand)
    BY <2>2
  <2>4. tail \in Seq(BrokerCommand) /\ brokerQ' = brokerQ \o tail
    BY <1>1, <1>2, <1>3, <2>1, <2>3, ConcatAssociative, ConcatProperties
  <2>5. /\ \A i \in DOMAIN tail : tail[i].type # "authorize"
        /\ \E i \in DOMAIN tail : tail[i] = m
    <3>1. /\ Len(extra) \in Nat /\ Len(<<m>>) = 1 /\ <<m>>[1] = m /\ Len(tail) = Len(extra) + 1
          /\ DOMAIN extra = 1 .. Len(extra) /\ DOMAIN tail = 1 .. Len(tail)
          /\ \A i \in 1 .. Len(extra) + 1 :
                tail[i] = IF i <= Len(extra) THEN extra[i] ELSE <<m>>[i - Len(extra)]
      BY <1>3, <2>3, <2>4, ConcatProperties
    <3> HIDE DEF tail
    <3>2. \A i \in DOMAIN tail : (i \in DOMAIN extra /\ tail[i] = extra[i]) \/ i = Len(extra) + 1
      BY <3>1
    <3>3. Len(extra) + 1 \in DOMAIN tail /\ tail[Len(extra) + 1] = m
      BY <3>1
    <3> QED
      BY <1>3, <2>2, <3>2, <3>3
  <2> HIDE DEF tail
  <2>6. PICK i \in DOMAIN tail : tail[i] = m
    BY <2>5
  <2>7. /\ QueueExtended
        /\ \A j \in DOMAIN tail : \E k \in DOMAIN brokerQ' \ DOMAIN brokerQ : brokerQ'[k] = tail[j]
    BY <1>1, <2>4, <2>5, ExtendedQueue
  <2>8. AskCancelled
    BY <2>6, <2>7 DEF AskCancelled, m
  <2> QED
    BY <2>1, <2>7, <2>8, CanMoveToCases DEF InterruptActive, Aborts, TaskAborted, Stored
<1> QED
  BY <1>4, <1>5

\* The command that the loop takes is there and well typed.
LEMMA TakenCommand ==
    ASSUME TypeOK, LoopInv, NEW type, Take(type)
    PROVE  /\ NextCommand \in Command /\ NextCommand.type = type
           /\ commands' \in Seq(Command) /\ deferred' \in Command \cup {None}
           /\ pc \in {"top", "select"} /\ UNCHANGED <<closed, sent, submitted>>
           /\ pc = "select" => deferred' = deferred
<1>1. commands \in Seq(Command) /\ deferred \in Command \cup {None}
  BY DEF TypeOK
<1>2. CASE pc = "top"
  BY <1>1, <1>2 DEF Take, NextCommand, LoopInv
<1>3. CASE pc = "select"
  <2>1. commands # <<>> /\ commands' = Tail(commands) /\ deferred' = deferred
    BY <1>3 DEF Take
  <2>2. Head(commands) \in Command /\ Tail(commands) \in Seq(Command)
    BY <1>1, <2>1, TailChannel
  <2> QED
    BY <1>1, <1>3, <2>1, <2>2 DEF Take, NextCommand
<1> QED
  BY <1>2, <1>3 DEF Take

\* The fields of a command.
LEMMA CommandFields ==
    ASSUME NEW c \in Command
    PROVE  /\ c.type \in {"submit", "compact", "interrupt"} => c.op \in Operations
           /\ c.type = "decide" => c.op \in Operations /\ c.call \in Calls /\ c.allow \in BOOLEAN
           /\ c.type = "budget" =>
                c.op \in Operations /\ c.at \in 1 .. HardRounds /\ c.continue \in BOOLEAN
BY DEF Command

\* A message for the broker that asks for nothing.
LEMMA StopQueued ==
    ASSUME brokerQ \in Seq(BrokerCommand), brokerQ' = Append(brokerQ, [type |-> "shutdown"])
    PROVE  QueueExtended
<1> DEFINE m == [type |-> "shutdown"]
<1>1. m \in BrokerCommand /\ m.type # "authorize"
  BY DEF BrokerCommand
<1> HIDE DEF m
<1>2. brokerQ' = Append(brokerQ, m)
  BY DEF m
<1>3. /\ brokerQ' \in Seq(BrokerCommand) /\ Len(brokerQ) \in Nat
      /\ DOMAIN brokerQ' = DOMAIN brokerQ \cup {Len(brokerQ) + 1}
      /\ \A i \in DOMAIN brokerQ : brokerQ'[i] = brokerQ[i] /\ i \in Nat /\ i <= Len(brokerQ)
      /\ brokerQ'[Len(brokerQ) + 1] = m
  BY <1>1, <1>2, AppendChannel
<1>4. \A i \in DOMAIN brokerQ' \ DOMAIN brokerQ : i = Len(brokerQ) + 1
  BY <1>3
<1>5. \A i \in DOMAIN brokerQ : i \in DOMAIN brokerQ' /\ brokerQ'[i] = brokerQ[i]
  BY <1>3
<1>6. \A k \in DOMAIN brokerQ : Len(brokerQ) + 1 > k
  BY <1>3
<1> QED
  BY <1>1, <1>3, <1>4, <1>5, <1>6 DEF QueueExtended

\* A decision on the rounds that is recorded.
LEMMA DecisionResolves ==
    ASSUME TypeOK, LoopInv, DecideRoundBudget
    PROVE  Still \/ Resolves
<1>1. NextCommand \in Command /\ NextCommand.type = "budget"
  BY TakenCommand DEF DecideRoundBudget
<1> DEFINE c == NextCommand
<1>2. c.op \in Operations /\ c.at \in 1 .. HardRounds /\ c.continue \in BOOLEAN
  BY <1>1, CommandFields
<1> HIDE DEF c
<1>3. CASE Rejected
  BY <1>3 DEF Rejected, Still, storeVars
<1>4. CASE /\ ~BudgetRefuses(c) /\ CommitDecision(c)
           /\ UNCHANGED <<call, round, verdict, effects, consumed, brokerVars,
                          completions, requests>>
  <2>1. budget = [op |-> c.op, at |-> c.at] /\ active = None
        /\ ~(c.continue /\ Remaining(c.op) = 0)
    BY <1>4 DEF BudgetRefuses
  <2>2. budget # None
    BY <1>2, <2>1, NoneAssumption
  <2>3. PICK ok \in BOOLEAN :
          /\ Stored(/\ journal[c.op].state = "suspended"
                    /\ c.at \notin journal[c.op].decided
                    /\ \A b \in journal[c.op].budgets : b <= c.at
                    /\ c.continue \/ ~HasPending(c.op), ok)
          /\ IF ~ok
             THEN UNCHANGED <<budget, active, task, journal, view>>
             ELSE /\ budget' = None
                  /\ journal' = [journal EXCEPT
                       ![c.op].state = IF c.continue THEN "running" ELSE "finished",
                       ![c.op].decided = @ \cup {c.at}]
                  /\ IF c.continue
                     THEN /\ active' = c.op /\ view' = Shows(c.op)
                          /\ task' = [task EXCEPT ![c.op] = "model"]
                     ELSE view' = ShowsIdle /\ UNCHANGED <<active, task>>
    BY <1>4 DEF CommitDecision
  <2>4. CASE ~ok
    BY <1>4, <2>3, <2>4 DEF Still, taskVars, brokerVars
  <2>5. CASE ok
    <3>1. journal[c.op].state = "suspended" /\ (c.continue \/ ~HasPending(c.op))
      BY <2>3, <2>5 DEF Stored
    <3>2. budget.op = c.op /\ budget.at = c.at
      BY <2>1
    <3> QED
      BY <1>2, <1>4, <2>1, <2>2, <2>3, <2>5, <3>1, <3>2 DEF Resolves
  <2> QED
    BY <2>4, <2>5
<1> QED
  BY <1>3, <1>4 DEF DecideRoundBudget, c

\* Every step is of one of these kinds.
LEMMA StepClasses ==
    ASSUME RuntimeInv, Next
    PROVE  \/ Still \/ Aborts \/ CommitTurn \/ Decides \/ Resolves
           \/ HandleCompletion \/ HandleBrokerEvent \/ HandleRequest
           \/ BrokerStep \/ \E op \in Operations : TaskStep(op)
<1>0. TypeOK /\ ChannelTypes /\ LoopInv /\ OpsInv
  BY DEF RuntimeInv
<1>1. ASSUME Rejected PROVE Still
  BY <1>1 DEF Rejected, Still, storeVars
<1>2. CASE SubmitTurn
  BY <1>1, <1>2 DEF SubmitTurn, Still, storeVars
<1>3. CASE RefreshInterrupted \/ TurnUnprepared \/ TurnPrepared \/ CompactionEnds
           \/ MaintenanceTick
  BY <1>3 DEF RefreshInterrupted, TurnUnprepared, TurnPrepared, CompactionEnds, MaintenanceTick,
              Still, storeVars
<1>4. CASE CompactConversation
  BY <1>1, <1>4 DEF CompactConversation, Still, storeVars
<1>5. CASE CompactionCommand
  <2>1. active = None /\ brokerQ \in Seq(BrokerCommand)
    BY <1>0, <1>5 DEF CompactionCommand, LoopInv, ChannelTypes
  <2>2. CASE Head(commands).type = "shutdown"
    <3>1. QueueExtended
      BY <1>5, <2>1, <2>2, StopQueued DEF CompactionCommand
    <3> QED
      BY <1>5, <2>1, <2>2, <3>1 DEF CompactionCommand, Aborts
  <2>3. CASE Head(commands).type # "shutdown"
    BY <1>5, <2>3 DEF CompactionCommand, Still, taskVars, brokerVars
  <2> QED
    BY <2>2, <2>3
<1>6. CASE CompactionOrphaned
  <2>1. active = None /\ brokerQ \in Seq(BrokerCommand)
    BY <1>0, <1>6 DEF CompactionOrphaned, LoopInv, ChannelTypes
  <2>2. QueueExtended
    BY <1>6, <2>1, StopQueued DEF CompactionOrphaned
  <2> QED
    BY <1>6, <2>1, <2>2 DEF CompactionOrphaned, Aborts, taskVars, storeVars
<1>7. CASE ClearConversation
  BY <1>7 DEF ClearConversation, Still
<1>8. CASE InterruptOperation
  <2>1. CASE InterruptActive(<<>>)
    BY <1>0, <2>1, InterruptAborts
  <2> QED
    BY <1>1, <1>8, <2>1 DEF InterruptOperation
<1>9. CASE DecidePermission
  <2> DEFINE k == [op |-> NextCommand.op, call |-> NextCommand.call]
  <2>1. CASE k \notin pending
    BY <1>1, <1>9, <2>1 DEF DecidePermission
  <2>2. CASE k \in pending
    <3>1. k.op = NextCommand.op /\ k.call = NextCommand.call
      OBVIOUS
    <3> HIDE DEF k
    <3> DEFINE v == IF NextCommand.allow THEN "allow" ELSE "deny"
    <3>2. Replies(k, v)
      BY <1>9, <2>2, <3>1 DEF DecidePermission, Replies, k
    <3>3. v \in {"allow", "deny"}
      OBVIOUS
    <3> HIDE DEF v
    <3>4. /\ brokerQ = <<>> /\ pending' = pending \ {k}
          /\ brokerEvents' = Append(brokerEvents, [op |-> k.op, kind |-> "running"])
          /\ UNCHANGED <<active, budget, call, round, consumed, effects, brokerQ, journal,
                         completions, requests>>
      BY <1>9, <2>2, <3>1 DEF DecidePermission, k, storeVars
    <3> QED
      BY <2>2, <3>2, <3>3, <3>4 DEF Decides
  <2> QED
    BY <2>1, <2>2
<1>10. CASE DecideRoundBudget
  BY <1>0, <1>10, DecisionResolves
<1>11. CASE Shutdown
  BY <1>0, <1>11, InterruptAborts DEF Shutdown
<1>12. CASE ControllerDropped
  BY <1>0, <1>12, InterruptAborts DEF ControllerDropped
<1>13. CASE ClientStep
  BY <1>13 DEF ClientStep, DropController, Send, actorVars, storeVars, Still
<1> QED
  BY <1>2, <1>3, <1>4, <1>5, <1>6, <1>7, <1>8, <1>9, <1>10, <1>11, <1>12, <1>13
     DEF Next, ActorStep

-----------------------------------------------------------------------------
(* The handlers that change the journal.                                   *)

\* handle_completion: the completion is of the run; it finishes the operation,
\* suspends it, or leaves it as it is because the append failed.
Ends(op) ==
    /\ active = op /\ active' = None /\ UNCHANGED <<task, budget, consumed, round>>
    /\ \/ journal' = journal
       \/ journal[op].state = "running" /\ journal' = Moved(op, "suspended")
       \/ /\ journal[op].state \in {"running", "suspended"} /\ ~HasPending(op)
          /\ journal' = Moved(op, "finished")
UsesUp(op) ==
    LET total == consumed[op] + round[op] IN
    /\ active = op /\ active' = None /\ UNCHANGED task
    /\ round[op] > 0 /\ journal[op].state = "running"
    /\ journal' = [Moved(op, "suspended") EXCEPT ![op].budgets = @ \cup {total}]
    /\ budget' = [op |-> op, at |-> total]
    /\ consumed' = [consumed EXCEPT ![op] = total]
    /\ round' = [round EXCEPT ![op] = 0]
Completed ==
    /\ \E op \in Operations :
          /\ task[op] = "done" /\ op \in Unfinished
          /\ Ends(op) \/ UsesUp(op)
    /\ completions' = <<>> /\ budget = None
    /\ UNCHANGED <<call, verdict, effects, brokerVars, requests>>

\* handle_completion closes the active run, and says how.
LEMMA CompletionCases ==
    ASSUME RuntimeInv, HandleCompletion
    PROVE  Completed
<1> DEFINE c == Head(completions)
           op == c.op
           total == consumed[op] + round[op]
<1>1. completions \in Seq(Completion) /\ completions # <<>> /\ active # None
  BY DEF RuntimeInv, ChannelTypes, HandleCompletion, CompletionReady
<1>2. /\ c \in Completion /\ 1 \in DOMAIN completions /\ c = completions[1]
      /\ Len(Tail(completions)) = Len(completions) - 1 /\ Tail(completions) \in Seq(Completion)
  BY <1>1, TailChannel
<1>3. op \in Operations /\ c.result \in {"completed", "rounds", "failed"}
  BY <1>2 DEF Completion
<1>4. /\ Len(completions) = 1 /\ task[op] = "done" /\ op \in Unfinished
      /\ budget = None /\ active = op
      /\ c.result = "rounds" => round[op] > 0
  BY <1>1, <1>2 DEF RuntimeInv, CompletionsInv, RunInv
<1> HIDE DEF c
<1>5. completions' = <<>>
  <2>1. completions' = Tail(completions)
    BY DEF HandleCompletion
  <2> QED
    BY <1>2, <1>4, <2>1
<1>6. /\ active' = None /\ UNCHANGED <<call, verdict, effects, brokerVars, requests, task>>
      /\ c.result = "completed" => FinishOperation(op) /\ UNCHANGED <<budget, consumed, round>>
      /\ c.result = "rounds" =>
           \E ok \in BOOLEAN :
             /\ Stored(CanMoveTo(op, "suspended"), ok)
             /\ IF ok
                THEN /\ journal' = [Moved(op, "suspended") EXCEPT
                                      ![op].budgets = @ \cup {total}]
                     /\ budget' = [op |-> op, at |-> total]
                     /\ consumed' = [consumed EXCEPT ![op] = total]
                     /\ round' = [round EXCEPT ![op] = 0]
                     /\ view' = Shows(op)
                ELSE /\ UNCHANGED <<journal, budget, consumed, round>>
                     /\ view' = ShowsIdle
      /\ c.result = "failed" =>
           /\ UNCHANGED <<budget, consumed, round>>
           /\ IF HasPending(op)
              THEN \E ok \in BOOLEAN :
                     /\ Stored(CanMoveTo(op, "suspended"), ok)
                     /\ journal' = IF ok THEN Moved(op, "suspended") ELSE journal
                     /\ view' = IF ok THEN Shows(op) ELSE ShowsIdle
              ELSE FinishOperation(op)
  BY <1>4, Zenon DEF HandleCompletion, c
<1>7. ASSUME FinishOperation(op), UNCHANGED <<budget, consumed, round>> PROVE Ends(op)
  BY <1>4, <1>6, <1>7, CanMoveToCases DEF FinishOperation, Stored, Ends
<1>8. Ends(op) \/ UsesUp(op)
  <2>1. CASE c.result = "completed"
    BY <1>6, <1>7, <2>1
  <2>2. CASE c.result = "rounds"
    <3>1. PICK ok \in BOOLEAN :
             /\ Stored(CanMoveTo(op, "suspended"), ok)
             /\ IF ok
                THEN /\ journal' = [Moved(op, "suspended") EXCEPT
                                      ![op].budgets = @ \cup {total}]
                     /\ budget' = [op |-> op, at |-> total]
                     /\ consumed' = [consumed EXCEPT ![op] = total]
                     /\ round' = [round EXCEPT ![op] = 0]
                     /\ view' = Shows(op)
                ELSE /\ UNCHANGED <<journal, budget, consumed, round>>
                     /\ view' = ShowsIdle
      BY <1>6, <2>2
    <3>2. CASE ok
      <4>1. journal[op].state = "running"
        BY <3>1, <3>2, CanMoveToCases DEF Stored
      <4> QED
        BY <1>4, <1>6, <2>2, <3>1, <3>2, <4>1 DEF UsesUp
    <3>3. CASE ~ok
      BY <1>4, <1>6, <3>1, <3>3 DEF Ends
    <3> QED
      BY <3>2, <3>3
  <2>3. CASE c.result = "failed"
    <3>1. CASE HasPending(op)
      BY <1>4, <1>6, <2>3, <3>1, CanMoveToCases DEF Stored, Ends
    <3>2. CASE ~HasPending(op)
      BY <1>6, <1>7, <2>3, <3>2
    <3> QED
      BY <3>1, <3>2
  <2> QED
    BY <1>3, <2>1, <2>2, <2>3
<1> QED
  BY <1>3, <1>4, <1>5, <1>6, <1>8 DEF Completed

-----------------------------------------------------------------------------
(* The parts of the invariant about the run, and what leaves them alone.   *)

RunTypes ==
    /\ active \in Operations \cup {None}
    /\ budget \in [op : Operations, at : 1 .. HardRounds] \cup {None}
    /\ task \in [Operations -> TaskPoint]
    /\ call \in [Operations -> 0 .. MaxCalls]
    /\ round \in [Operations -> 0 .. SoftRounds]
    /\ consumed \in [Operations -> Nat]
    /\ verdict \in [Operations -> Verdicts]
    /\ pending \in SUBSET Invocation
    /\ journal \in [Operations -> Journal]
    /\ effects \in SUBSET Invocation
    /\ ChannelTypes
RunParts ==
    /\ RunInv /\ CompletionsInv /\ OpsInv /\ RequestsInv /\ PendingInv /\ AuthorizeInv
    /\ EventsInv /\ JournalIsTruthful

\* Every run part of a state of the invariant.
LEMMA RuntimeParts ==
    ASSUME RuntimeInv
    PROVE  RunTypes /\ RunParts
BY DEF RuntimeInv, TypeOK, RunTypes, RunParts, Verdicts

\* A step that leaves run, broker and journal alone keeps their part.
LEMMA StillParts ==
    ASSUME RunTypes, RunParts, Still
    PROVE  RunTypes' /\ RunParts'
<1>1. UNCHANGED <<active, budget, task, call, round, consumed, verdict, effects, brokerQ,
                  brokerEvents, pending, journal, completions, requests>>
  BY DEF Still, taskVars, brokerVars
<1>2. RunTypes' /\ RunInv' /\ CompletionsInv'
  BY <1>1 DEF RunTypes, ChannelTypes, RunParts, RunInv, CompletionsInv, Unfinished, Live
<1>3. OpsInv' /\ RequestsInv' /\ PendingInv'
  BY <1>1 DEF RunParts, OpsInv, OpInv, RequestsInv, RequestOK, PendingInv, Asks, Stops
<1>4. AuthorizeInv' /\ EventsInv'
  BY <1>1 DEF RunParts, AuthorizeInv, AuthorizeOK, Asks, Stops, EventsInv
<1>5. JournalIsTruthful'
  BY <1>1 DEF RunParts, JournalIsTruthful, EffectsHaveIntents, ResultsAreTruthful,
              FinishedIsReconciled
<1> QED
  BY <1>2, <1>3, <1>4, <1>5 DEF RunParts

\* What the records of a projection say of effects.
SameBooks(j, k) == k.audits = j.audits /\ k.intents = j.intents /\ k.results = j.results

\* The projection of an operation whose state moves.
LEMMA MovedJournal ==
    ASSUME NEW F, F = [Operations -> Journal], NEW op \in Operations,
           NEW s \in {"absent", "running", "suspended", "finished"},
           journal \in F, journal' = Moved(op, s)
    PROVE  /\ journal' \in F
           /\ journal'[op].state = s
           /\ \A o \in Operations : o # op => journal'[o] = journal[o]
           /\ \A o \in Operations : SameBooks(journal[o], journal'[o])
           /\ journal'[op].steps = journal[op].steps /\ journal'[op].budgets = journal[op].budgets
           /\ journal'[op].decided = journal[op].decided
BY DEF Moved, Journal, SameBooks

\* One operation moves and keeps to the discipline of its task: all do.
LEMMA OpsFrame ==
    ASSUME OpsInv, NEW a,
           \A op \in Operations : op # a =>
              /\ task'[op] = task[op] /\ call'[op] = call[op] /\ verdict'[op] = verdict[op]
              /\ round'[op] = round[op] /\ consumed'[op] = consumed[op]
              /\ journal'[op] = journal[op]
              /\ \A n : [op |-> op, call |-> n] \in effects' <=> [op |-> op, call |-> n] \in effects,
           a \in Operations =>
              OpOK(a, task'[a], call'[a], verdict'[a], round'[a], consumed'[a], journal'[a], effects')
    PROVE  OpsInv'
<1> SUFFICES ASSUME NEW op \in Operations, op # a
             PROVE  OpOK(op, task'[op], call'[op], verdict'[op], round'[op], consumed'[op],
                         journal'[op], effects')
  BY DEF OpsInv, OpInv
<1>1. OpOK(op, task[op], call[op], verdict[op], round[op], consumed[op], journal[op], effects)
  BY DEF OpsInv, OpInv
<1>2. [op |-> op, call |-> call[op]] \in effects' <=> [op |-> op, call |-> call[op]] \in effects
  OBVIOUS
<1> QED
  BY <1>1, <1>2 DEF OpOK

\* The books are unchanged and nothing is closed that is open.
LEMMA TruthFrame ==
    ASSUME JournalIsTruthful, effects \in SUBSET Invocation, effects' = effects,
           \A op \in Operations : SameBooks(journal[op], journal'[op]),
           \A op \in Operations :
              journal'[op].state = "finished" => journal[op].state = "finished" \/ ~HasPending(op)
    PROVE  JournalIsTruthful'
<1>1. \A e \in effects : e.op \in Operations
  BY DEF Invocation
<1>2. \A op \in Operations : /\ journal'[op].audits = journal[op].audits
                             /\ journal'[op].intents = journal[op].intents
                             /\ journal'[op].results = journal[op].results
  BY DEF SameBooks
<1>3. \A op \in Operations : Answered(journal'[op]) = Answered(journal[op])
  BY <1>2 DEF Answered
<1>4. EffectsHaveIntents'
  BY <1>1, <1>2 DEF JournalIsTruthful, EffectsHaveIntents
<1>5. ResultsAreTruthful'
  BY <1>2 DEF JournalIsTruthful, ResultsAreTruthful
<1>6. FinishedIsReconciled'
  BY <1>2, <1>3 DEF JournalIsTruthful, FinishedIsReconciled, HasPending
<1> QED
  BY <1>4, <1>5, <1>6 DEF JournalIsTruthful

\* The requests are left alone, and the task of every operation that may have
\* one is left alone or aborted.
LEMMA RequestsFrame ==
    ASSUME RequestsInv, requests \in Seq(Request), requests' = requests,
           \A op \in Operations :
              \/ task[op] \notin Kinds \cup {"aborted"}
              \/ /\ \/ task'[op] = "aborted"
                    \/ task'[op] = task[op] /\ verdict'[op] = verdict[op]
                 /\ call'[op] = call[op]
                 /\ \A n : [op |-> op, call |-> n] \in effects'
                           <=> [op |-> op, call |-> n] \in effects
    PROVE  RequestsInv'
<1> SUFFICES ASSUME NEW i \in DOMAIN requests
             PROVE  RequestOK(requests[i])'
  BY DEF RequestsInv
<1>1. requests[i] \in Request
  BY MessageType
<1> DEFINE r == requests[i]
<1>2. r.op \in Operations /\ r.kind \in Kinds
  BY <1>1 DEF Request
<1>3. RequestOK(r)
  BY DEF RequestsInv
<1>4. \/ task'[r.op] = "aborted"
      \/ task'[r.op] = task[r.op] /\ verdict'[r.op] = verdict[r.op]
  BY <1>2, <1>3 DEF RequestOK
<1>5. /\ call'[r.op] = call[r.op]
      /\ [op |-> r.op, call |-> r.call] \in effects' <=> [op |-> r.op, call |-> r.call] \in effects
  BY <1>2, <1>3 DEF RequestOK
<1> QED
  BY <1>2, <1>3, <1>4, <1>5 DEF RequestOK

\* A live task that waits for no acknowledgement has no request.
LEMMA NoRequestOf ==
    ASSUME RequestsInv, requests \in Seq(Request), NEW op \in Operations,
           task[op] \notin Kinds \cup {"aborted"}
    PROVE  \A i \in DOMAIN requests : requests[i].op # op
<1> TAKE i \in DOMAIN requests
<1>1. requests[i] \in Request /\ RequestOK(requests[i])
  BY MessageType DEF RequestsInv
<1> QED
  BY <1>1 DEF Request, RequestOK

\* The messages that wait in the channels.
LEMMA ChannelMessages ==
    ASSUME RunTypes
    PROVE  /\ \A i \in DOMAIN completions :
                completions[i].op \in Operations
                /\ completions[i].result \in {"completed", "rounds", "failed"}
           /\ \A i \in DOMAIN brokerEvents :
                /\ brokerEvents[i].op \in Operations
                /\ brokerEvents[i].kind \in {"suspended", "running", "requested"}
                /\ brokerEvents[i].kind = "requested" => brokerEvents[i].call \in Calls
           /\ \A i \in DOMAIN brokerQ :
                /\ brokerQ[i].type \in {"authorize", "cancel", "shutdown", "controller_lost"}
                /\ brokerQ[i].type \in {"authorize", "cancel"} =>
                     brokerQ[i].op \in Operations /\ brokerQ[i].call \in Calls
           /\ \A i \in DOMAIN requests : requests[i] \in Request
<1>1. /\ \A i \in DOMAIN completions : completions[i] \in Completion
      /\ \A i \in DOMAIN brokerEvents : brokerEvents[i] \in BrokerEvent
      /\ \A i \in DOMAIN brokerQ : brokerQ[i] \in BrokerCommand
      /\ \A i \in DOMAIN requests : requests[i] \in Request
  BY MessageType DEF RunTypes, ChannelTypes
<1>2. \A m \in Completion : m.op \in Operations /\ m.result \in {"completed", "rounds", "failed"}
  BY DEF Completion
<1>3. \A m \in BrokerEvent :
         /\ m.op \in Operations /\ m.kind \in {"suspended", "running", "requested"}
         /\ m.kind = "requested" => m.call \in Calls
  BY DEF BrokerEvent
<1>4. \A m \in BrokerCommand :
         /\ m.type \in {"authorize", "cancel", "shutdown", "controller_lost"}
         /\ m.type \in {"authorize", "cancel"} => m.op \in Operations /\ m.call \in Calls
  BY DEF BrokerCommand
<1> HIDE DEF Completion, BrokerEvent, BrokerCommand, Request
<1>5. \A i \in DOMAIN completions :
         completions[i].op \in Operations
         /\ completions[i].result \in {"completed", "rounds", "failed"}
  BY <1>1, <1>2
<1>6. \A i \in DOMAIN brokerEvents :
         /\ brokerEvents[i].op \in Operations
         /\ brokerEvents[i].kind \in {"suspended", "running", "requested"}
         /\ brokerEvents[i].kind = "requested" => brokerEvents[i].call \in Calls
  BY <1>1, <1>3
<1>7. \A i \in DOMAIN brokerQ :
         /\ brokerQ[i].type \in {"authorize", "cancel", "shutdown", "controller_lost"}
         /\ brokerQ[i].type \in {"authorize", "cancel"} =>
              brokerQ[i].op \in Operations /\ brokerQ[i].call \in Calls
  BY <1>1, <1>4
<1> QED
  BY <1>1, <1>5, <1>6, <1>7

\* No run starts, ends or is aborted.
LEMMA LiveFrame ==
    ASSUME RunTypes, RunInv, CompletionsInv, Unfinished' = Unfinished,
           UNCHANGED <<active, budget, completions, consumed>>,
           \A op \in Operations :
              \/ task'[op] = task[op] /\ round'[op] = round[op]
              \/ Live(op) /\ Live(op)'
    PROVE  RunInv' /\ CompletionsInv'
<1>1. \A op \in Operations : Live(op)' => Live(op)
  BY DEF Live
<1>2. \A op \in Operations :
         task[op] \in {"done", "aborted"} => task'[op] = task[op] /\ round'[op] = round[op]
  BY DEF Live
<1>3. RunInv'
  <2>1. budget # None => task'[budget.op] = task[budget.op] /\ round'[budget.op] = round[budget.op]
    BY <1>2 DEF RunInv, RunTypes
  <2>2. active # None => task'[active] # "aborted"
    BY DEF RunInv, RunTypes, Live
  <2> QED
    BY <1>1, <2>1, <2>2 DEF RunInv
<1>4. CompletionsInv'
  <2>1. \A i \in DOMAIN completions : completions[i].op \in Operations
    BY ChannelMessages
  <2> QED
    BY <1>2, <2>1 DEF CompletionsInv
<1> QED
  BY <1>3, <1>4

-----------------------------------------------------------------------------
(* One lemma per kind of step.                                             *)

\* Aborting the run, or what is left when there is none.
LEMMA AbortsParts ==
    ASSUME RunTypes, RunParts, Aborts
    PROVE  RunTypes' /\ RunParts'
<1>0. /\ UNCHANGED <<budget, call, round, consumed, verdict, effects,
                     completions, requests, brokerEvents, pending>>
      /\ active' = None /\ QueueExtended
      /\ RunInv /\ CompletionsInv /\ OpsInv /\ RequestsInv /\ PendingInv /\ AuthorizeInv
      /\ EventsInv /\ JournalIsTruthful
  BY DEF Aborts, RunParts
<1>1. /\ task' \in [Operations -> TaskPoint] /\ journal' \in [Operations -> Journal]
      /\ \A op \in Operations : op # active => task'[op] = task[op] /\ journal'[op] = journal[op]
      /\ active \in Operations => task'[active] = "aborted"
      /\ \A op \in Operations :
           /\ SameBooks(journal[op], journal'[op])
           /\ journal'[op].state = journal[op].state
              \/ (journal[op].state = "running" /\ journal'[op].state = "suspended")
  <2>1. CASE active = None
    BY <2>1, NoneAssumption DEF Aborts, RunTypes, SameBooks
  <2>2. CASE active # None
    <3>1. active \in Operations /\ task' = [task EXCEPT ![active] = "aborted"]
      BY <2>2 DEF Aborts, RunTypes
    <3>2. CASE journal' = journal
      BY <3>1, <3>2 DEF RunTypes, TaskPoint, SameBooks
    <3>3. CASE journal[active].state = "running" /\ journal' = Moved(active, "suspended")
      <4>1. /\ journal' \in [Operations -> Journal] /\ journal'[active].state = "suspended"
            /\ \A o \in Operations : o # active => journal'[o] = journal[o]
            /\ \A o \in Operations : SameBooks(journal[o], journal'[o])
        BY <3>1, <3>3, MovedJournal DEF RunTypes
      <4> QED
        BY <3>1, <3>3, <4>1 DEF RunTypes, TaskPoint
    <3> QED
      BY <2>2, <3>2, <3>3 DEF Aborts
  <2> QED
    BY <2>1, <2>2
<1>2. RunTypes'
  BY <1>0, <1>1 DEF RunTypes, ChannelTypes, QueueExtended
<1>3. Unfinished' = Unfinished
  BY <1>1 DEF Unfinished
<1>4. RunInv'
  <2>1. budget # None => active = None /\ UNCHANGED task
    BY <1>0 DEF RunInv, Aborts
  <2>2. \A op \in Operations : Live(op)' => FALSE
    BY <1>0, <1>1 DEF RunInv, Live
  <2> QED
    BY <1>0, <1>3, <2>1, <2>2 DEF RunInv
<1>5. CompletionsInv'
  <2> SUFFICES ASSUME NEW i \in DOMAIN completions
               PROVE  LET op == completions[i].op IN
                      /\ Len(completions) = 1 /\ task'[op] \in {"done", "aborted"}
                      /\ op \in Unfinished
                      /\ budget = None
                      /\ completions[i].result = "rounds" => round[op] > 0
    BY <1>0, <1>3 DEF CompletionsInv
  <2>1. completions[i].op \in Operations
    BY ChannelMessages
  <2> QED
    BY <1>0, <1>1, <2>1 DEF CompletionsInv
<1>6. OpsInv'
  <2>1. ASSUME active \in Operations
        PROVE  OpOK(active, "aborted", call[active], verdict[active], round[active],
                    consumed[active], journal'[active], effects)
    <3>1. journal[active].state # "absent"
      BY <1>0, <2>1, NoneAssumption DEF RunInv, Unfinished
    <3>2. OpInv(active)
      BY <1>0, <2>1 DEF OpsInv
    <3> QED
      BY <1>1, <2>1, <3>1, <3>2 DEF OpInv, OpOK, SameBooks, Answered
  <2> QED
    BY <1>0, <1>1, <2>1, OpsFrame
<1>7. RequestsInv'
  BY <1>0, <1>1, RequestsFrame DEF RunTypes, ChannelTypes
<1>8. \A k \in Invocation : Asks(k) =>
         \/ Asks(k)'
         \/ \E m \in DOMAIN brokerQ' : /\ Stops(brokerQ'[m], k)
                                       /\ \A i \in DOMAIN brokerQ : m > i
  <2> SUFFICES ASSUME NEW k \in Invocation, Asks(k)
               PROVE  \/ Asks(k)'
                      \/ \E m \in DOMAIN brokerQ' : /\ Stops(brokerQ'[m], k)
                                                    /\ \A i \in DOMAIN brokerQ : m > i
    OBVIOUS
  <2>1. k.op \in Operations /\ task[k.op] = "ask" /\ call[k.op] = k.call
    BY DEF Asks, Invocation
  <2>2. active = k.op
    BY <1>0, <2>1 DEF RunInv, Live
  <2>3. active # None
    BY <2>1, <2>2, NoneAssumption
  <2>4. AskCancelled
    BY <2>1, <2>2, <2>3 DEF Aborts
  <2>5. PICK m \in DOMAIN brokerQ' \ DOMAIN brokerQ :
          brokerQ'[m] = [type |-> "cancel", op |-> active, call |-> call[active]]
    BY <2>4 DEF AskCancelled
  <2>6. Stops(brokerQ'[m], k)
    BY <2>1, <2>2, <2>5 DEF Stops
  <2> QED
    BY <1>0, <2>5, <2>6 DEF QueueExtended
<1>9. PendingInv'
  <2> SUFFICES ASSUME NEW k \in pending
               PROVE  /\ k.call <= call[k.op]
                      /\ Asks(k)' \/ \E i \in DOMAIN brokerQ' : Stops(brokerQ'[i], k)
    BY <1>0 DEF PendingInv, Stops
  <2>1. k \in Invocation
    BY DEF RunTypes
  <2>2. k.call <= call[k.op]
    BY <1>0 DEF PendingInv
  <2>3. CASE Asks(k)
    BY <1>8, <2>1, <2>2, <2>3
  <2>4. CASE \E i \in DOMAIN brokerQ : Stops(brokerQ[i], k)
    BY <1>0, <2>2, <2>4 DEF QueueExtended
  <2> QED
    BY <1>0, <2>3, <2>4 DEF PendingInv
<1>10. AuthorizeInv'
  <2> SUFFICES ASSUME NEW i \in DOMAIN brokerQ', brokerQ'[i].type = "authorize"
               PROVE  AuthorizeOK(i)'
    BY DEF AuthorizeInv
  <2>1. i \in DOMAIN brokerQ /\ brokerQ'[i] = brokerQ[i]
    BY <1>0 DEF QueueExtended
  <2>2. PICK k \in Invocation : k = Key(brokerQ[i])
    BY <2>1, ChannelMessages DEF Key, Invocation
  <2>3. /\ k.call <= call[k.op] /\ k \notin pending
        /\ Asks(k) \/ \E m \in DOMAIN brokerQ : m > i /\ Stops(brokerQ[m], k)
        /\ \A m \in DOMAIN brokerQ : brokerQ[m] = brokerQ[i] => m = i
    BY <1>0, <2>1, <2>2 DEF AuthorizeInv, AuthorizeOK
  <2>4. Asks(k)' \/ \E m \in DOMAIN brokerQ' : m > i /\ Stops(brokerQ'[m], k)
    <3>1. CASE Asks(k)
      BY <1>8, <2>1, <2>2, <3>1
    <3>2. CASE \E m \in DOMAIN brokerQ : m > i /\ Stops(brokerQ[m], k)
      BY <1>0, <3>2 DEF QueueExtended
    <3> QED
      BY <2>3, <3>1, <3>2
  <2>5. \A m \in DOMAIN brokerQ' : brokerQ'[m] = brokerQ[i] => m = i
    <3> SUFFICES ASSUME NEW m \in DOMAIN brokerQ', brokerQ'[m] = brokerQ[i] PROVE m = i
      OBVIOUS
    <3>1. m \in DOMAIN brokerQ
      BY <1>0, <2>1 DEF QueueExtended
    <3>2. brokerQ[m] = brokerQ[i]
      BY <1>0, <3>1 DEF QueueExtended
    <3> QED
      BY <2>3, <3>1, <3>2
  <2>6. Key(brokerQ'[i]) = k
    BY <2>1, <2>2
  <2> QED
    BY <1>0, <2>1, <2>3, <2>4, <2>5, <2>6 DEF AuthorizeOK, Asks, Stops
<1>11. EventsInv'
  <2> SUFFICES ASSUME NEW i \in DOMAIN brokerEvents
               PROVE  journal'[brokerEvents[i].op].state # "absent"
    BY <1>0 DEF EventsInv
  <2>1. brokerEvents[i].op \in Operations
    BY ChannelMessages
  <2> QED
    BY <1>0, <1>1, <2>1 DEF EventsInv
<1>12. JournalIsTruthful'
  BY <1>0, <1>1, TruthFrame DEF RunTypes
<1> QED
  BY <1>2, <1>4, <1>5, <1>6, <1>7, <1>9, <1>10, <1>11, <1>12 DEF RunParts

\* The broker and its queue are left alone, and who waits for it.
LEMMA BrokerFrame ==
    ASSUME RunTypes, PendingInv, AuthorizeInv,
           UNCHANGED <<brokerQ, pending, call>>,
           \A op \in Operations : task[op] = "ask" => task'[op] = "ask"
    PROVE  PendingInv' /\ AuthorizeInv'
<1>1. \A k \in Invocation : Asks(k) => Asks(k)'
  BY DEF Asks, Invocation
<1>2. PendingInv'
  <2> SUFFICES ASSUME NEW k \in pending
               PROVE  /\ k.call <= call[k.op]
                      /\ Asks(k)' \/ \E i \in DOMAIN brokerQ : Stops(brokerQ[i], k)
    BY DEF PendingInv, Stops
  <2>1. k \in Invocation
    BY DEF RunTypes
  <2> QED
    BY <1>1, <2>1 DEF PendingInv
<1>3. AuthorizeInv'
  <2> SUFFICES ASSUME NEW i \in DOMAIN brokerQ, brokerQ[i].type = "authorize"
               PROVE  AuthorizeOK(i)'
    BY DEF AuthorizeInv
  <2>1. PICK k \in Invocation : k = Key(brokerQ[i])
    BY ChannelMessages DEF Key, Invocation
  <2>2. AuthorizeOK(i)
    BY DEF AuthorizeInv
  <2>3. Asks(k)' \/ \E m \in DOMAIN brokerQ : m > i /\ Stops(brokerQ[m], k)
    BY <1>1, <2>1, <2>2 DEF AuthorizeOK
  <2>4. Key(brokerQ'[i]) = k
    BY <2>1
  <2> QED
    BY <2>1, <2>2, <2>3, <2>4 DEF AuthorizeOK, Asks, Stops
<1> QED
  BY <1>2, <1>3

\* The events of the broker are left alone, and no operation vanishes.
LEMMA EventsFrame ==
    ASSUME RunTypes, EventsInv, brokerEvents' = brokerEvents,
           \A op \in Operations : journal[op].state # "absent" => journal'[op].state # "absent"
    PROVE  EventsInv'
BY ChannelMessages DEF EventsInv

\* The turn is admitted, or its acceptance is all that was recorded.
LEMMA CommitParts ==
    ASSUME RunTypes, RunParts, LoopInv, CommitTurn
    PROVE  RunTypes' /\ RunParts'
<1>0. /\ UNCHANGED <<budget, call, round, consumed, verdict, effects, brokerQ, brokerEvents,
                     pending, completions, requests>>
      /\ RunInv /\ CompletionsInv /\ OpsInv /\ RequestsInv /\ PendingInv /\ AuthorizeInv
      /\ EventsInv /\ JournalIsTruthful
      /\ turn.op \in Operations /\ active = None /\ budget = None /\ Unfinished = {}
  BY DEF CommitTurn, RunParts, LoopInv, brokerVars
<1>1. PICK op \in Operations : op = turn.op
  BY <1>0
<1>2. CASE UNCHANGED <<journal, task, active>>
  <2>1. Still
    BY <1>0, <1>2 DEF Still, taskVars, brokerVars
  <2> QED
    BY <2>1, StillParts
<1>3. CASE ~UNCHANGED <<journal, task, active>>
  <2>1. /\ CanMoveTo(op, "running") /\ journal' = Moved(op, "running")
        /\ \/ task' = [task EXCEPT ![op] = "model"] /\ active' = op
           \/ UNCHANGED <<task, active>>
    BY <1>1, <1>3 DEF CommitTurn, Stored
  <2>2. journal[op].state = "absent"
    BY <1>0, <2>1, CanMoveToCases DEF Unfinished
  <2>3. /\ journal' \in [Operations -> Journal] /\ journal'[op].state = "running"
        /\ \A o \in Operations : o # op => journal'[o] = journal[o]
        /\ \A o \in Operations : SameBooks(journal[o], journal'[o])
    BY <2>1, MovedJournal DEF RunTypes
  <2>4. /\ task' \in [Operations -> TaskPoint] /\ active' \in {None, op}
        /\ \A o \in Operations : o # op => task'[o] = task[o]
        /\ task'[op] \in {task[op], "model"} /\ (task'[op] = task[op] \/ active' = op)
        /\ active' = op => task'[op] = "model"
    BY <1>0, <2>1, NoneAssumption DEF RunTypes, TaskPoint
  <2>5. RunTypes'
    BY <1>0, <2>3, <2>4 DEF RunTypes, ChannelTypes
  <2>6. OpInv(op) /\ task[op] = "none" /\ call[op] = 0 /\ round[op] = 0 /\ consumed[op] = 0
    BY <1>0, <2>2 DEF OpsInv, OpInv, OpOK
  <2>7. Unfinished' = {op}
    BY <1>0, <2>3 DEF Unfinished
  <2>8. RunInv'
    <3>1. \A o \in Operations : ~Live(o)
      BY <1>0, NoneAssumption DEF RunInv
    <3>2. \A o \in Operations : Live(o)' => active' = o
      BY <2>4, <2>6, <3>1 DEF Live
    <3> QED
      BY <1>0, <2>4, <2>7, <3>2, NoneAssumption DEF RunInv
  <2>9. CompletionsInv'
    BY <1>0 DEF CompletionsInv
  <2>10. OpsInv'
    <3>1. /\ 0 < HardRounds /\ 0 < SoftRounds /\ 0 + 0 < HardRounds
      BY RoundsAssumption
    <3>2. OpOK(op, task'[op], call[op], verdict[op], round[op], consumed[op], journal'[op], effects)
      BY <2>3, <2>4, <2>6, <3>1 DEF OpInv, OpOK, SameBooks, Answered
    <3> QED
      BY <1>0, <2>3, <2>4, <3>2, OpsFrame
  <2>11. RequestsInv'
    <3>1. "none" \notin Kinds \cup {"aborted"}
      BY DEF Kinds
    <3> QED
      BY <1>0, <2>4, <2>6, <3>1, RequestsFrame DEF RunTypes, ChannelTypes
  <2>12. PendingInv' /\ AuthorizeInv'
    BY <1>0, <2>4, <2>6, BrokerFrame
  <2>13. EventsInv'
    BY <1>0, <2>3, EventsFrame
  <2>14. JournalIsTruthful'
    BY <1>0, <2>3, TruthFrame DEF RunTypes
  <2> QED
    BY <2>5, <2>8, <2>9, <2>10, <2>11, <2>12, <2>13, <2>14 DEF RunParts
<1> QED
  BY <1>2, <1>3

\* The decision on the rounds resumes the run or finishes it.
LEMMA ResolvesParts ==
    ASSUME RunTypes, RunParts, Resolves
    PROVE  RunTypes' /\ RunParts'
<1>0. /\ UNCHANGED <<call, round, consumed, verdict, effects, brokerQ, brokerEvents,
                     pending, completions, requests>>
      /\ RunInv /\ CompletionsInv /\ OpsInv /\ RequestsInv /\ PendingInv /\ AuthorizeInv
      /\ EventsInv /\ JournalIsTruthful
      /\ budget # None /\ active = None /\ budget' = None
  BY DEF Resolves, RunParts, brokerVars
<1>1. PICK op \in Operations : op = budget.op
  BY <1>0 DEF RunTypes
<1>2. budget.at \in 1 .. HardRounds /\ consumed[op] = budget.at /\ round[op] = 0
      /\ task[op] = "done" /\ op \in Unfinished
  BY <1>0, <1>1 DEF RunTypes, RunInv
<1>3. PICK continue \in BOOLEAN :
        /\ IF continue THEN Remaining(op) # 0 ELSE ~HasPending(op)
        /\ journal' = [journal EXCEPT
              ![op].state = IF continue THEN "running" ELSE "finished",
              ![op].decided = @ \cup {budget.at}]
        /\ IF continue
           THEN active' = op /\ task' = [task EXCEPT ![op] = "model"]
           ELSE UNCHANGED <<active, task>>
  BY <1>1 DEF Resolves
<1>4. /\ journal' \in [Operations -> Journal]
      /\ journal'[op].state = IF continue THEN "running" ELSE "finished"
      /\ \A o \in Operations : o # op => journal'[o] = journal[o]
      /\ \A o \in Operations : SameBooks(journal[o], journal'[o])
  <2> DEFINE s == IF continue THEN "running" ELSE "finished"
             j == [journal[op] EXCEPT !.state = s, !.decided = @ \cup {budget.at}]
  <2>1. journal \in [Operations -> Journal] /\ journal[op] \in Journal
    BY DEF RunTypes
  <2>2. j \in Journal /\ j.state = s /\ SameBooks(journal[op], j)
    BY <1>2, <2>1 DEF Journal, SameBooks
  <2>3. journal' = [journal EXCEPT ![op] = j]
    BY <1>3, <2>1
  <2> HIDE DEF j, s
  <2>4. /\ journal' \in [Operations -> Journal] /\ journal'[op] = j
        /\ \A o \in Operations : o # op => journal'[o] = journal[o]
    BY <2>1, <2>2, <2>3
  <2>5. \A o \in Operations : SameBooks(journal[o], journal'[o])
    BY <2>2, <2>4 DEF SameBooks
  <2> QED
    BY <2>2, <2>4, <2>5 DEF s
<1>5. /\ task' \in [Operations -> TaskPoint]
      /\ \A o \in Operations : o # op => task'[o] = task[o]
      /\ task'[op] = IF continue THEN "model" ELSE "done"
      /\ active' = IF continue THEN op ELSE None
  BY <1>0, <1>2, <1>3 DEF RunTypes, TaskPoint
<1>6. RunTypes'
  BY <1>0, <1>4, <1>5 DEF RunTypes, ChannelTypes
<1>7. \A o \in Unfinished : o = op
  BY <1>0, <1>2 DEF RunInv
<1>8. Unfinished' \subseteq {op} /\ (continue => op \in Unfinished')
  BY <1>4, <1>7 DEF Unfinished
<1>9. RunInv'
  <2>1. \A o \in Operations : ~Live(o)
    BY <1>0, NoneAssumption DEF RunInv
  <2>2. \A o \in Operations : Live(o)' => active' = o
    BY <1>5, <2>1 DEF Live
  <2> QED
    BY <1>0, <1>5, <1>8, <2>2, NoneAssumption DEF RunInv
<1>10. CompletionsInv'
  BY <1>0 DEF CompletionsInv
<1>11. OpsInv'
  <2>1. OpInv(op) /\ journal[op].state # "absent"
    BY <1>0, <1>2 DEF OpsInv, Unfinished
  <2>2. continue => consumed[op] < HardRounds /\ consumed[op] + round[op] < HardRounds
                    /\ round[op] < SoftRounds
    BY <1>2, <1>3, RoundsAssumption DEF Remaining
  <2>3. OpOK(op, task'[op], call[op], verdict[op], round[op], consumed[op], journal'[op], effects)
    BY <1>2, <1>4, <1>5, <2>1, <2>2 DEF OpInv, OpOK, SameBooks, Answered
  <2> QED
    BY <1>0, <1>4, <1>5, <2>3, OpsFrame
<1>12. RequestsInv'
  <2>1. "done" \notin Kinds \cup {"aborted"}
    BY DEF Kinds
  <2> QED
    BY <1>0, <1>2, <1>5, <2>1, RequestsFrame DEF RunTypes, ChannelTypes
<1>13. PendingInv' /\ AuthorizeInv'
  BY <1>0, <1>2, <1>5, BrokerFrame
<1>14. EventsInv'
  BY <1>0, <1>4, EventsFrame
<1>15. JournalIsTruthful'
  BY <1>0, <1>3, <1>4, TruthFrame DEF RunTypes
<1> QED
  BY <1>6, <1>9, <1>10, <1>11, <1>12, <1>13, <1>14, <1>15 DEF RunParts

\* The run ends, or has used up its rounds.
LEMMA CompletedParts ==
    ASSUME RunTypes, RunParts, Completed
    PROVE  RunTypes' /\ RunParts'
<1>0. /\ UNCHANGED <<call, verdict, effects, brokerQ, brokerEvents, pending, requests>>
      /\ completions' = <<>> /\ budget = None
      /\ RunInv /\ CompletionsInv /\ OpsInv /\ RequestsInv /\ PendingInv /\ AuthorizeInv
      /\ EventsInv /\ JournalIsTruthful
  BY DEF Completed, RunParts, brokerVars
<1>1. PICK op \in Operations : /\ task[op] = "done" /\ op \in Unfinished
                               /\ Ends(op) \/ UsesUp(op)
  BY DEF Completed
<1>2. UNCHANGED task /\ active = op /\ active' = None
  BY <1>1 DEF Ends, UsesUp
<1>3. OpInv(op) /\ journal[op].state # "absent"
  BY <1>0, <1>1 DEF OpsInv, Unfinished
<1>4. \A o \in Operations : ~Live(o)
  BY <1>0, <1>1, <1>2 DEF RunInv, Live
<1>5. \A o \in Unfinished : o = op
  BY <1>0, <1>1 DEF RunInv
<1>6. /\ journal' \in [Operations -> Journal]
      /\ \A o \in Operations : o # op => journal'[o] = journal[o]
      /\ \A o \in Operations : SameBooks(journal[o], journal'[o])
      /\ journal'[op].state \in {journal[op].state, "suspended", "finished"}
      /\ journal'[op].state = "finished" => journal[op].state = "finished" \/ ~HasPending(op)
      /\ budget' \in [op : Operations, at : 1 .. HardRounds] \cup {None}
      /\ consumed' \in [Operations -> Nat] /\ round' \in [Operations -> 0 .. SoftRounds]
      /\ \A o \in Operations : o # op => consumed'[o] = consumed[o] /\ round'[o] = round[o]
      /\ consumed'[op] + round'[op] <= HardRounds
      /\ budget' # None => /\ budget'.op = op /\ consumed'[op] = budget'.at /\ round'[op] = 0
                           /\ journal'[op].state = "suspended"
  <2>0. consumed[op] + round[op] <= HardRounds
    BY <1>3 DEF OpInv, OpOK
  <2>1. CASE Ends(op)
    <3>1. UNCHANGED <<budget, consumed, round>>
      BY <2>1 DEF Ends
    <3>2. CASE journal' = journal
      BY <1>0, <2>0, <3>1, <3>2 DEF RunTypes, SameBooks
    <3>3. CASE journal' = Moved(op, "suspended")
      BY <1>0, <2>0, <3>1, <3>3, MovedJournal DEF RunTypes
    <3>4. CASE journal' = Moved(op, "finished") /\ ~HasPending(op)
      BY <1>0, <2>0, <3>1, <3>4, MovedJournal DEF RunTypes
    <3> QED
      BY <2>1, <3>2, <3>3, <3>4 DEF Ends
  <2>2. CASE UsesUp(op)
    <3>1. PICK total \in 1 .. HardRounds : total = consumed[op] + round[op]
      BY <2>0, <2>2, RoundsAssumption DEF UsesUp, RunTypes
    <3>2. /\ journal' = [Moved(op, "suspended") EXCEPT ![op].budgets = @ \cup {total}]
          /\ budget' = [op |-> op, at |-> total]
          /\ consumed' = [consumed EXCEPT ![op] = total]
          /\ round' = [round EXCEPT ![op] = 0]
      BY <2>2, <3>1 DEF UsesUp
    <3>3. /\ journal' \in [Operations -> Journal] /\ journal'[op].state = "suspended"
          /\ \A o \in Operations : o # op => journal'[o] = journal[o]
          /\ \A o \in Operations : SameBooks(journal[o], journal'[o])
      <4> DEFINE j == [journal[op] EXCEPT !.state = "suspended", !.budgets = @ \cup {total}]
      <4>1. journal \in [Operations -> Journal] /\ journal[op] \in Journal
        BY DEF RunTypes
      <4>2. j \in Journal /\ j.state = "suspended" /\ SameBooks(journal[op], j)
        BY <4>1 DEF Journal, SameBooks
      <4>3. journal' = [journal EXCEPT ![op] = j]
        BY <3>2, <4>1 DEF Moved
      <4> HIDE DEF j
      <4>4. /\ journal' \in [Operations -> Journal] /\ journal'[op] = j
            /\ \A o \in Operations : o # op => journal'[o] = journal[o]
        BY <4>1, <4>2, <4>3
      <4>5. \A o \in Operations : SameBooks(journal[o], journal'[o])
        BY <4>2, <4>4 DEF SameBooks
      <4> QED
        BY <4>2, <4>4, <4>5
    <3>4. /\ budget' \in [op : Operations, at : 1 .. HardRounds]
          /\ budget'.op = op /\ budget'.at = total
      BY <3>1, <3>2
    <3>5. /\ consumed' \in [Operations -> Nat] /\ round' \in [Operations -> 0 .. SoftRounds]
          /\ \A o \in Operations : o # op => consumed'[o] = consumed[o] /\ round'[o] = round[o]
          /\ consumed'[op] = total /\ round'[op] = 0
      BY <3>1, <3>2, RoundsAssumption DEF RunTypes
    <3> QED
      BY <2>0, <3>1, <3>3, <3>4, <3>5
  <2> QED
    BY <1>1, <2>1, <2>2
<1>7. RunTypes'
  <2>1. completions' \in Seq(Completion)
    BY <1>0
  <2>2. active' \in Operations \cup {None}
    BY <1>2
  <2> QED
    BY <1>0, <1>2, <1>6, <2>1, <2>2 DEF RunTypes, ChannelTypes
<1>8. RunInv'
  <2>1. Unfinished' \subseteq {op} /\ (journal'[op].state = "suspended" => op \in Unfinished')
    BY <1>5, <1>6 DEF Unfinished
  <2>2. \A o \in Operations : ~Live(o)'
    BY <1>2, <1>4 DEF Live
  <2> QED
    BY <1>1, <1>2, <1>6, <2>1, <2>2 DEF RunInv
<1>9. CompletionsInv'
  BY <1>0 DEF CompletionsInv
<1>10. OpsInv'
  <2>1. OpOK(op, task'[op], call[op], verdict[op], round'[op], consumed'[op], journal'[op], effects)
    BY <1>1, <1>2, <1>3, <1>6 DEF OpInv, OpOK, SameBooks, Answered
  <2> QED
    BY <1>0, <1>2, <1>6, <2>1, OpsFrame
<1>11. RequestsInv'
  BY <1>0, <1>2, RequestsFrame DEF RunTypes, ChannelTypes
<1>12. PendingInv' /\ AuthorizeInv'
  BY <1>0, <1>2, BrokerFrame
<1>13. EventsInv'
  BY <1>0, <1>3, <1>6, EventsFrame
<1>14. JournalIsTruthful'
  BY <1>0, <1>6, TruthFrame DEF RunTypes
<1> QED
  BY <1>7, <1>8, <1>9, <1>10, <1>11, <1>12, <1>13, <1>14 DEF RunParts

\* A state change the broker announced is journaled, or is not.
LEMMA EventParts ==
    ASSUME RunTypes, RunParts, HandleBrokerEvent
    PROVE  RunTypes' /\ RunParts'
<1>0. /\ UNCHANGED <<active, budget, task, call, round, consumed, verdict, effects, brokerQ,
                     pending, completions, requests>>
      /\ brokerEvents # <<>> /\ brokerEvents' = Tail(brokerEvents)
      /\ RunInv /\ CompletionsInv /\ OpsInv /\ RequestsInv /\ PendingInv /\ AuthorizeInv
      /\ EventsInv /\ JournalIsTruthful /\ brokerEvents \in Seq(BrokerEvent)
  BY DEF HandleBrokerEvent, RunParts, RunTypes, ChannelTypes, taskVars
<1>1. /\ brokerEvents' \in Seq(BrokerEvent) /\ Head(brokerEvents) = brokerEvents[1]
      /\ 1 \in DOMAIN brokerEvents
      /\ \A i \in DOMAIN brokerEvents' :
            i + 1 \in DOMAIN brokerEvents /\ brokerEvents'[i] = brokerEvents[i + 1]
  BY <1>0, TailChannel
<1>2. PICK op \in Operations : op = Head(brokerEvents).op
  BY <1>1, ChannelMessages
<1>3. journal[op].state # "absent"
  BY <1>0, <1>1, <1>2 DEF EventsInv
<1>4. \/ journal' = journal
      \/ \E s \in {"running", "suspended"} :
           /\ journal[op].state \in {"running", "suspended"} /\ journal' = Moved(op, s)
  <2>1. Head(brokerEvents).kind \in {"suspended", "running", "requested"}
    BY <1>1, ChannelMessages
  <2>2. CASE Head(brokerEvents).kind = "requested"
    BY <2>2 DEF HandleBrokerEvent, storeVars
  <2>3. CASE Head(brokerEvents).kind = "suspended"
    BY <1>2, <2>3, CanMoveToCases DEF HandleBrokerEvent, Stored
  <2>4. CASE Head(brokerEvents).kind = "running"
    BY <1>2, <1>3, <2>4, CanMoveToCases DEF HandleBrokerEvent, Stored
  <2> QED
    BY <2>1, <2>2, <2>3, <2>4
<1>5. /\ journal' \in [Operations -> Journal]
      /\ \A o \in Operations : o # op => journal'[o] = journal[o]
      /\ \A o \in Operations : SameBooks(journal[o], journal'[o])
      /\ journal'[op].state = journal[op].state
         \/ (journal[op].state \in {"running", "suspended"}
             /\ journal'[op].state \in {"running", "suspended"})
  <2>1. CASE journal' = journal
    BY <2>1 DEF RunTypes, SameBooks
  <2>2. CASE journal' # journal
    <3>1. PICK s \in {"running", "suspended"} :
           /\ journal[op].state \in {"running", "suspended"} /\ journal' = Moved(op, s)
      BY <1>4, <2>2
    <3> QED
      BY <3>1, MovedJournal DEF RunTypes
  <2> QED
    BY <2>1, <2>2
<1>6. RunTypes'
  BY <1>0, <1>1, <1>5 DEF RunTypes, ChannelTypes
<1>7. Unfinished' = Unfinished
  BY <1>5 DEF Unfinished
<1>8. RunInv' /\ CompletionsInv'
  BY <1>0, <1>7 DEF RunInv, CompletionsInv, Live
<1>9. OpsInv'
  <2>1. OpInv(op)
    BY <1>0 DEF OpsInv
  <2>2. OpOK(op, task[op], call[op], verdict[op], round[op], consumed[op], journal'[op], effects)
    BY <1>3, <1>5, <2>1 DEF OpInv, OpOK, SameBooks, Answered
  <2> QED
    BY <1>0, <1>5, <2>2, OpsFrame
<1>10. RequestsInv'
  BY <1>0, RequestsFrame DEF RunTypes, ChannelTypes
<1>11. PendingInv' /\ AuthorizeInv'
  BY <1>0, BrokerFrame
<1>12. EventsInv'
  <2>1. \A o \in Operations : journal[o].state # "absent" => journal'[o].state # "absent"
    BY <1>5
  <2>2. \A i \in DOMAIN brokerEvents : brokerEvents[i].op \in Operations
    BY ChannelMessages
  <2> QED
    BY <1>0, <1>1, <2>1, <2>2 DEF EventsInv
<1>13. JournalIsTruthful'
  BY <1>0, <1>5, TruthFrame DEF RunTypes
<1> QED
  BY <1>6, <1>8, <1>9, <1>10, <1>11, <1>12, <1>13 DEF RunParts

\* An answer of the broker reaches the task that waits for it, if it still does.
LEMMA RepliesParts ==
    ASSUME RunTypes, RunParts, NEW k \in Invocation, NEW v \in {"allow", "deny"}, Replies(k, v),
           UNCHANGED <<active, budget, call, round, consumed, effects, journal,
                       completions, requests>>
    PROVE  /\ task' \in [Operations -> TaskPoint] /\ verdict' \in [Operations -> Verdicts]
           /\ RunInv' /\ CompletionsInv' /\ OpsInv' /\ RequestsInv' /\ JournalIsTruthful'
           /\ \A l \in Invocation : Asks(l) /\ l # k => Asks(l)'
<1>0. RunInv /\ CompletionsInv /\ OpsInv /\ RequestsInv /\ JournalIsTruthful
  BY DEF RunParts
<1>1. k.op \in Operations /\ k.call \in Calls
  BY DEF Invocation
<1>2. /\ task' \in [Operations -> TaskPoint] /\ verdict' \in [Operations -> Verdicts]
      /\ \A o \in Operations : o # k.op => task'[o] = task[o] /\ verdict'[o] = verdict[o]
      /\ \/ task'[k.op] = task[k.op] /\ verdict'[k.op] = verdict[k.op]
         \/ /\ task[k.op] = "ask" /\ call[k.op] = k.call
            /\ task'[k.op] = "answered" /\ verdict'[k.op] = v
  BY <1>1 DEF Replies, RunTypes, TaskPoint, Verdicts
<1>3. Unfinished' = Unfinished
  BY DEF Unfinished
<1>4. RunInv'
  <2>1. \A o \in Operations : Live(o)' => Live(o)
    BY <1>2 DEF Live
  <2>2. budget # None => task'[budget.op] = task[budget.op]
    BY <1>0, <1>2 DEF RunInv, RunTypes
  <2>3. active # None => task'[active] # "aborted"
    BY <1>0, <1>2 DEF RunInv, RunTypes
  <2> QED
    BY <1>0, <1>3, <2>1, <2>2, <2>3 DEF RunInv
<1>5. CompletionsInv'
  <2>1. \A i \in DOMAIN completions : completions[i].op \in Operations
    BY ChannelMessages
  <2>2. \A o \in Operations : task[o] \in {"done", "aborted"} => task'[o] = task[o]
    BY <1>2
  <2> QED
    BY <1>0, <1>3, <2>1, <2>2 DEF CompletionsInv
<1>6. OpsInv'
  <2>1. OpInv(k.op)
    BY <1>0, <1>1 DEF OpsInv
  <2>2. OpOK(k.op, task'[k.op], call[k.op], verdict'[k.op], round[k.op], consumed[k.op],
             journal[k.op], effects)
    <3>1. CASE task'[k.op] = task[k.op] /\ verdict'[k.op] = verdict[k.op]
      BY <2>1, <3>1 DEF OpInv
    <3>2. CASE task[k.op] = "ask" /\ task'[k.op] = "answered" /\ verdict'[k.op] = v
      BY <2>1, <3>2 DEF OpInv, OpOK
    <3> QED
      BY <1>2, <3>1, <3>2
  <2> QED
    BY <1>0, <1>1, <1>2, <2>2, OpsFrame
<1>7. RequestsInv'
  <2>1. "ask" \notin Kinds \cup {"aborted"}
    BY DEF Kinds
  <2> QED
    BY <1>0, <1>2, <2>1, RequestsFrame DEF RunTypes, ChannelTypes
<1>8. JournalIsTruthful'
  BY <1>0, TruthFrame DEF RunTypes, SameBooks
<1>9. \A l \in Invocation : Asks(l) /\ l # k => Asks(l)'
  <2> SUFFICES ASSUME NEW l \in Invocation, Asks(l), l # k PROVE Asks(l)'
    OBVIOUS
  <2>1. l.op \in Operations /\ task[l.op] = "ask" /\ call[l.op] = l.call
    BY DEF Asks, Invocation
  <2>2. l.op = k.op => l.call # k.call
    BY DEF Invocation
  <2> QED
    BY <1>2, <2>1, <2>2 DEF Asks
<1> QED
  BY <1>2, <1>4, <1>5, <1>6, <1>7, <1>8, <1>9

\* A call that was planned belongs to an operation of the journal.
LEMMA PlannedKnown ==
    ASSUME RunTypes, OpsInv, NEW k \in Invocation, k.call <= call[k.op]
    PROVE  journal[k.op].state # "absent"
<1>1. k.op \in Operations /\ k.call \in 1 .. MaxCalls /\ call[k.op] \in 0 .. MaxCalls
  BY DEF Invocation, Calls, RunTypes
<1>2. call[k.op] # 0
  BY <1>1, BoundsAssumption
<1> QED
  BY <1>1, <1>2 DEF OpsInv, OpInv, OpOK

\* The controller's answer.
LEMMA DecidesParts ==
    ASSUME RunTypes, RunParts, Decides
    PROVE  RunTypes' /\ RunParts'
<1>0. RunInv /\ CompletionsInv /\ OpsInv /\ RequestsInv /\ PendingInv /\ AuthorizeInv
      /\ EventsInv /\ JournalIsTruthful
  BY DEF RunParts
<1>1. PICK k \in pending, v \in {"allow", "deny"} :
        /\ brokerQ = <<>> /\ pending' = pending \ {k} /\ Replies(k, v)
        /\ brokerEvents' = Append(brokerEvents, [op |-> k.op, kind |-> "running"])
        /\ UNCHANGED <<active, budget, call, round, consumed, effects, brokerQ, journal,
                       completions, requests>>
  BY DEF Decides
<1>2. k \in Invocation /\ k.op \in Operations
  BY DEF RunTypes, Invocation
<1>3. /\ task' \in [Operations -> TaskPoint] /\ verdict' \in [Operations -> Verdicts]
      /\ RunInv' /\ CompletionsInv' /\ OpsInv' /\ RequestsInv' /\ JournalIsTruthful'
      /\ \A l \in Invocation : Asks(l) /\ l # k => Asks(l)'
  BY <1>1, <1>2, RepliesParts
<1>4. PICK e : e = [op |-> k.op, kind |-> "running"]
  OBVIOUS
<1>5. e \in BrokerEvent /\ e.op = k.op
  BY <1>2, <1>4 DEF BrokerEvent
<1>6. /\ brokerEvents' \in Seq(BrokerEvent)
      /\ \A i \in DOMAIN brokerEvents' :
           (i \in DOMAIN brokerEvents /\ brokerEvents'[i] = brokerEvents[i]) \/ brokerEvents'[i] = e
  <2>1. brokerEvents \in Seq(BrokerEvent) /\ brokerEvents' = Append(brokerEvents, e)
    BY <1>1, <1>4 DEF RunTypes, ChannelTypes
  <2> QED
    BY <1>5, <2>1, AppendChannel
<1>7. RunTypes'
  BY <1>1, <1>3, <1>6 DEF RunTypes, ChannelTypes
<1>8. PendingInv'
  <2> SUFFICES ASSUME NEW l \in pending, l # k
               PROVE  l.call <= call[l.op] /\ Asks(l)'
    BY <1>1 DEF PendingInv
  <2>1. l \in Invocation
    BY DEF RunTypes
  <2>2. l.call <= call[l.op] /\ Asks(l)
    BY <1>0, <1>1 DEF PendingInv
  <2> QED
    BY <1>3, <2>1, <2>2
<1>9. AuthorizeInv'
  BY <1>1 DEF AuthorizeInv
<1>10. EventsInv'
  <2>1. journal[k.op].state # "absent"
    BY <1>0, <1>2, PlannedKnown DEF PendingInv
  <2> QED
    BY <1>0, <1>1, <1>5, <1>6, <2>1 DEF EventsInv
<1> QED
  BY <1>3, <1>7, <1>8, <1>9, <1>10 DEF RunParts

\* Two authorizations in the queue ask for different calls.
LEMMA DistinctKeys ==
    ASSUME RunTypes, AuthorizeInv, NEW i \in DOMAIN brokerQ, NEW m \in DOMAIN brokerQ, i # m,
           brokerQ[i].type = "authorize", brokerQ[m].type = "authorize"
    PROVE  Key(brokerQ[i]) # Key(brokerQ[m])
<1>1. \A c \in BrokerCommand :
         c.type = "authorize" => c = [type |-> "authorize", op |-> c.op, call |-> c.call]
  BY DEF BrokerCommand
<1>2. brokerQ[i] \in BrokerCommand /\ brokerQ[m] \in BrokerCommand
  BY MessageType DEF RunTypes, ChannelTypes
<1>3. brokerQ[m] # brokerQ[i]
  BY DEF AuthorizeInv, AuthorizeOK
<1>4. Key(brokerQ[i]) = Key(brokerQ[m]) =>
        brokerQ[i].op = brokerQ[m].op /\ brokerQ[i].call = brokerQ[m].call
  BY DEF Key
<1> HIDE DEF BrokerCommand
<1> QED
  BY <1>1, <1>2, <1>3, <1>4

\* The broker takes a command: what the others ask for stays owned.
LEMMA QueueTail ==
    ASSUME RunTypes, AuthorizeInv, brokerQ # <<>>, brokerQ' = Tail(brokerQ), call' = call,
           \A i \in DOMAIN brokerQ : i # 1 /\ brokerQ[i].type = "authorize" =>
              LET k == Key(brokerQ[i]) IN
              k \notin pending' /\ (Asks(k) => task'[k.op] = "ask" /\ call'[k.op] = k.call)
    PROVE  AuthorizeInv' /\ brokerQ' \in Seq(BrokerCommand)
<1>1. /\ brokerQ' \in Seq(BrokerCommand)
      /\ \A i \in DOMAIN brokerQ' :
           i \in Nat /\ i + 1 \in DOMAIN brokerQ /\ brokerQ'[i] = brokerQ[i + 1] /\ i + 1 # 1
      /\ \A i \in DOMAIN brokerQ : i \in Nat /\ (i = 1 \/ i - 1 \in DOMAIN brokerQ')
  BY TailChannel DEF RunTypes, ChannelTypes
<1> SUFFICES ASSUME NEW i \in DOMAIN brokerQ', brokerQ'[i].type = "authorize"
             PROVE  AuthorizeOK(i)'
  BY <1>1 DEF AuthorizeInv
<1>2. i + 1 \in DOMAIN brokerQ /\ brokerQ[i + 1].type = "authorize" /\ i + 1 # 1
      /\ brokerQ'[i] = brokerQ[i + 1] /\ i \in Nat
  BY <1>1
<1>3. PICK k \in Invocation : k = Key(brokerQ[i + 1])
  BY <1>2, ChannelMessages DEF Key, Invocation
<1>4. /\ k.call <= call[k.op]
      /\ Asks(k) \/ \E m \in DOMAIN brokerQ : m > i + 1 /\ Stops(brokerQ[m], k)
      /\ \A m \in DOMAIN brokerQ : brokerQ[m] = brokerQ[i + 1] => m = i + 1
  BY <1>2, <1>3 DEF AuthorizeInv, AuthorizeOK
<1>5. k \notin pending' /\ (Asks(k) => Asks(k)')
  BY <1>2, <1>3 DEF Asks
<1>6. Asks(k)' \/ \E m \in DOMAIN brokerQ' : m > i /\ Stops(brokerQ'[m], k)
  <2>1. ASSUME NEW m \in DOMAIN brokerQ, m > i + 1, Stops(brokerQ[m], k)
        PROVE  \E l \in DOMAIN brokerQ' : l > i /\ Stops(brokerQ'[l], k)
    <3>1. m - 1 \in DOMAIN brokerQ' /\ m - 1 > i /\ (m - 1) + 1 = m
      BY <1>1, <1>2, <2>1
    <3>2. brokerQ'[m - 1] = brokerQ[m]
      BY <1>1, <3>1
    <3> QED
      BY <2>1, <3>1, <3>2
  <2> QED
    BY <1>4, <1>5, <2>1
<1>7. \A m \in DOMAIN brokerQ' : brokerQ'[m] = brokerQ'[i] => m = i
  <2> SUFFICES ASSUME NEW m \in DOMAIN brokerQ', brokerQ'[m] = brokerQ'[i] PROVE m = i
    OBVIOUS
  <2>1. m \in Nat /\ m + 1 = i + 1
    BY <1>1, <1>2, <1>4
  <2> QED
    BY <1>2, <2>1
<1>8. Key(brokerQ'[i]) = k
  BY <1>2, <1>3
<1> QED
  BY <1>4, <1>5, <1>6, <1>7, <1>8 DEF AuthorizeOK, Asks, Stops

\* The two events of a request that waits.
LEMMA EventsAppended ==
    ASSUME NEW S, NEW q \in Seq(S), NEW a \in S, NEW b \in S, NEW r, r = q \o <<a, b>>
    PROVE  /\ r \in Seq(S)
           /\ \A i \in DOMAIN r : (i \in DOMAIN q /\ r[i] = q[i]) \/ r[i] \in {a, b}
<1>1. <<a, b>> \in Seq(S) /\ Len(<<a, b>>) = 2 /\ <<a, b>>[1] = a /\ <<a, b>>[2] = b
  OBVIOUS
<1>2. PICK t : t = <<a, b>>
  OBVIOUS
<1>3. /\ r \in Seq(S) /\ Len(r) = Len(q) + 2 /\ Len(q) \in Nat
      /\ \A i \in 1 .. Len(q) + 2 : r[i] = IF i <= Len(q) THEN q[i] ELSE t[i - Len(q)]
  BY <1>1, <1>2, ConcatProperties
<1>4. DOMAIN r = 1 .. Len(r) /\ DOMAIN q = 1 .. Len(q) /\ t[1] = a /\ t[2] = b
  BY <1>1, <1>2, <1>3
<1> SUFFICES ASSUME NEW i \in DOMAIN r
             PROVE  (i \in DOMAIN q /\ r[i] = q[i]) \/ r[i] \in {a, b}
  BY <1>3
<1>5. i \in 1 .. Len(q) \/ i - Len(q) = 1 \/ i - Len(q) = 2
  BY <1>3, <1>4
<1> QED
  BY <1>3, <1>4, <1>5

\* The broker answers at once or lets the request wait.
LEMMA AuthorizeParts ==
    ASSUME RunTypes, RunParts, Authorize
    PROVE  RunTypes' /\ RunParts'
<1>0. /\ UNCHANGED <<active, budget, call, round, consumed, effects, journal, completions, requests>>
      /\ RunInv /\ CompletionsInv /\ OpsInv /\ RequestsInv /\ PendingInv /\ AuthorizeInv
      /\ EventsInv /\ JournalIsTruthful
      /\ brokerQ # <<>> /\ brokerQ' = Tail(brokerQ) /\ Head(brokerQ).type = "authorize"
  BY DEF Authorize, RunParts, brokerFrame, actorVars, storeVars
<1>1. /\ Head(brokerQ) = brokerQ[1] /\ 1 \in DOMAIN brokerQ
      /\ \A i \in DOMAIN brokerQ' : i \in Nat /\ i + 1 \in DOMAIN brokerQ /\ brokerQ'[i] = brokerQ[i + 1]
      /\ \A i \in DOMAIN brokerQ : i \in Nat /\ (i = 1 \/ i - 1 \in DOMAIN brokerQ')
  BY <1>0, TailChannel DEF RunTypes, ChannelTypes
<1>2. PICK k \in Invocation : k = Key(Head(brokerQ))
  BY <1>0, <1>1, ChannelMessages DEF Key, Invocation
<1>3. /\ k.call <= call[k.op] /\ k \notin pending
      /\ Asks(k) \/ \E m \in DOMAIN brokerQ : m > 1 /\ Stops(brokerQ[m], k)
  BY <1>0, <1>1, <1>2 DEF AuthorizeInv, AuthorizeOK
<1>4. \A i \in DOMAIN brokerQ : i # 1 /\ brokerQ[i].type = "authorize" =>
         /\ Key(brokerQ[i]) # k /\ Key(brokerQ[i]) \notin pending
         /\ Key(brokerQ[i]) \in Invocation
  <2> SUFFICES ASSUME NEW i \in DOMAIN brokerQ, i # 1, brokerQ[i].type = "authorize"
               PROVE  /\ Key(brokerQ[i]) # k /\ Key(brokerQ[i]) \notin pending
                      /\ Key(brokerQ[i]) \in Invocation
    OBVIOUS
  <2>1. Key(brokerQ[i]) # k
    BY <1>0, <1>1, <1>2, DistinctKeys
  <2>2. Key(brokerQ[i]) \notin pending
    BY <1>0 DEF AuthorizeInv, AuthorizeOK
  <2> QED
    BY <2>1, <2>2, ChannelMessages DEF Key, Invocation
<1>5. ASSUME NEW m \in DOMAIN brokerQ, NEW l, Stops(brokerQ[m], l)
      PROVE  \E i \in DOMAIN brokerQ' : Stops(brokerQ'[i], l)
  <2>1. brokerQ[m].type # "authorize"
    BY <1>5 DEF Stops
  <2>2. m # 1
    BY <1>0, <1>1, <2>1
  <2>3. m - 1 \in DOMAIN brokerQ' /\ (m - 1) + 1 = m
    BY <1>1, <2>2
  <2>4. brokerQ'[m - 1] = brokerQ[m]
    BY <1>1, <2>3
  <2> QED
    BY <1>5, <2>3, <2>4
<1>6. CASE /\ \E v \in {"allow", "deny"} : Replies(k, v)
           /\ UNCHANGED <<pending, brokerEvents>>
  <2>1. /\ task' \in [Operations -> TaskPoint] /\ verdict' \in [Operations -> Verdicts]
        /\ RunInv' /\ CompletionsInv' /\ OpsInv' /\ RequestsInv' /\ JournalIsTruthful'
        /\ \A l \in Invocation : Asks(l) /\ l # k => Asks(l)'
    BY <1>0, <1>6, RepliesParts
  <2>2. AuthorizeInv' /\ brokerQ' \in Seq(BrokerCommand)
    <3> SUFFICES ASSUME NEW i \in DOMAIN brokerQ, i # 1, brokerQ[i].type = "authorize"
                 PROVE  LET l == Key(brokerQ[i]) IN
                        l \notin pending' /\ (Asks(l) => task'[l.op] = "ask" /\ call'[l.op] = l.call)
      BY <1>0, QueueTail
    <3>1. PICK l \in Invocation : l = Key(brokerQ[i]) /\ l # k /\ l \notin pending
      BY <1>4
    <3>2. Asks(l) => task'[l.op] = "ask" /\ call'[l.op] = l.call
      BY <2>1, <3>1 DEF Asks
    <3> QED
      BY <1>6, <3>1, <3>2
  <2>3. RunTypes'
    BY <1>0, <1>6, <2>1, <2>2 DEF RunTypes, ChannelTypes
  <2>4. PendingInv'
    <3> SUFFICES ASSUME NEW l \in pending
                 PROVE  /\ l.call <= call[l.op]
                        /\ Asks(l)' \/ \E i \in DOMAIN brokerQ' : Stops(brokerQ'[i], l)
      BY <1>0, <1>6 DEF PendingInv, Stops
    <3>1. l \in Invocation /\ l # k
      BY <1>3 DEF RunTypes
    <3> QED
      BY <1>0, <1>5, <2>1, <3>1 DEF PendingInv
  <2>5. EventsInv'
    BY <1>0, <1>6 DEF EventsInv
  <2> QED
    BY <2>1, <2>2, <2>3, <2>4, <2>5 DEF RunParts
<1>7. CASE /\ pending' = pending \cup {k}
           /\ brokerEvents' = brokerEvents \o
                <<[op |-> k.op, kind |-> "suspended"],
                  [op |-> k.op, kind |-> "requested", call |-> k.call]>>
           /\ UNCHANGED <<task, verdict>>
  <2>1. AuthorizeInv' /\ brokerQ' \in Seq(BrokerCommand)
    <3> SUFFICES ASSUME NEW i \in DOMAIN brokerQ, i # 1, brokerQ[i].type = "authorize"
                 PROVE  LET l == Key(brokerQ[i]) IN
                        l \notin pending' /\ (Asks(l) => task'[l.op] = "ask" /\ call'[l.op] = l.call)
      BY <1>0, QueueTail
    <3>1. PICK l \in Invocation : l = Key(brokerQ[i]) /\ l # k /\ l \notin pending
      BY <1>4
    <3> QED
      BY <1>0, <1>7, <3>1 DEF Asks
  <2>2. PICK a, b : a = [op |-> k.op, kind |-> "suspended"]
                    /\ b = [op |-> k.op, kind |-> "requested", call |-> k.call]
    OBVIOUS
  <2>3. a \in BrokerEvent /\ b \in BrokerEvent /\ a.op = k.op /\ b.op = k.op
    BY <2>2 DEF BrokerEvent, Invocation
  <2>4. /\ brokerEvents' \in Seq(BrokerEvent)
        /\ \A i \in DOMAIN brokerEvents' :
             (i \in DOMAIN brokerEvents /\ brokerEvents'[i] = brokerEvents[i])
             \/ brokerEvents'[i] \in {a, b}
    BY <1>7, <2>2, <2>3, EventsAppended DEF RunTypes, ChannelTypes
  <2>5. RunTypes'
    BY <1>0, <1>7, <2>1, <2>4 DEF RunTypes, ChannelTypes
  <2>6. RunInv' /\ CompletionsInv'
    BY <1>0, <1>7 DEF RunInv, CompletionsInv, Unfinished, Live
  <2>7. OpsInv' /\ RequestsInv'
    BY <1>0, <1>7 DEF OpsInv, OpInv, RequestsInv, RequestOK
  <2>8. JournalIsTruthful'
    BY <1>0, TruthFrame DEF RunTypes, SameBooks
  <2>9. PendingInv'
    <3> SUFFICES ASSUME NEW l \in pending \cup {k}
                 PROVE  /\ l.call <= call[l.op]
                        /\ Asks(l)' \/ \E i \in DOMAIN brokerQ' : Stops(brokerQ'[i], l)
      BY <1>0, <1>7 DEF PendingInv, Stops
    <3>1. Asks(l) => Asks(l)'
      BY <1>0, <1>7 DEF Asks
    <3>2. CASE l = k
      BY <1>3, <1>5, <3>1, <3>2
    <3>3. CASE l \in pending
      BY <1>0, <1>5, <3>1, <3>3 DEF PendingInv
    <3> QED
      BY <3>2, <3>3
  <2>10. EventsInv'
    <3>1. journal[k.op].state # "absent"
      BY <1>0, <1>3, PlannedKnown
    <3> QED
      BY <1>0, <2>3, <2>4, <3>1 DEF EventsInv
  <2> QED
    BY <2>1, <2>5, <2>6, <2>7, <2>8, <2>9, <2>10 DEF RunParts
<1> QED
  BY <1>2, <1>6, <1>7 DEF Authorize

\* The broker cancels a request, or denies all that wait.
LEMMA StopParts ==
    ASSUME RunTypes, RunParts, CancelRequest \/ DenyAllPending
    PROVE  RunTypes' /\ RunParts'
<1>0. /\ UNCHANGED <<active, budget, task, call, round, consumed, verdict, effects, journal,
                     brokerEvents, completions, requests>>
      /\ RunInv /\ CompletionsInv /\ OpsInv /\ RequestsInv /\ PendingInv /\ AuthorizeInv
      /\ EventsInv /\ JournalIsTruthful
      /\ brokerQ # <<>> /\ brokerQ' = Tail(brokerQ) /\ pending' \subseteq pending
  BY DEF CancelRequest, DenyAllPending, RunParts, brokerFrame, actorVars, storeVars
<1>1. /\ Head(brokerQ) = brokerQ[1] /\ 1 \in DOMAIN brokerQ
      /\ \A i \in DOMAIN brokerQ' : i \in Nat /\ i + 1 \in DOMAIN brokerQ /\ brokerQ'[i] = brokerQ[i + 1]
      /\ \A i \in DOMAIN brokerQ : i \in Nat /\ (i = 1 \/ i - 1 \in DOMAIN brokerQ')
  BY <1>0, TailChannel DEF RunTypes, ChannelTypes
<1>2. AuthorizeInv' /\ brokerQ' \in Seq(BrokerCommand)
  <2> SUFFICES ASSUME NEW i \in DOMAIN brokerQ, i # 1, brokerQ[i].type = "authorize"
               PROVE  LET l == Key(brokerQ[i]) IN
                      l \notin pending' /\ (Asks(l) => task'[l.op] = "ask" /\ call'[l.op] = l.call)
    BY <1>0, QueueTail
  <2>1. Key(brokerQ[i]) \notin pending
    BY <1>0 DEF AuthorizeInv, AuthorizeOK
  <2> QED
    BY <1>0, <2>1 DEF Asks
<1>3. RunTypes'
  BY <1>0, <1>2 DEF RunTypes, ChannelTypes
<1>4. RunInv' /\ CompletionsInv'
  BY <1>0 DEF RunInv, CompletionsInv, Unfinished, Live
<1>5. OpsInv' /\ RequestsInv' /\ EventsInv'
  BY <1>0 DEF OpsInv, OpInv, RequestsInv, RequestOK, EventsInv
<1>6. JournalIsTruthful'
  BY <1>0, TruthFrame DEF RunTypes, SameBooks
<1>7. PendingInv'
  <2> SUFFICES ASSUME NEW l \in pending'
               PROVE  /\ l.call <= call[l.op]
                      /\ Asks(l)' \/ \E i \in DOMAIN brokerQ' : Stops(brokerQ'[i], l)
    BY <1>0 DEF PendingInv, Stops
  <2>1. l \in pending /\ l \in Invocation
    BY <1>0 DEF RunTypes
  <2>2. Head(brokerQ).type = "cancel" /\ l # Key(Head(brokerQ))
    BY DEF CancelRequest, DenyAllPending
  <2>3. ~Stops(brokerQ[1], l)
    <3>1. brokerQ[1] = [type |-> "cancel", op |-> l.op, call |-> l.call] =>
            Key(brokerQ[1]) = [op |-> l.op, call |-> l.call]
      BY DEF Key
    <3>2. l = [op |-> l.op, call |-> l.call]
      BY <2>1 DEF Invocation
    <3> QED
      BY <1>1, <2>2, <3>1, <3>2 DEF Stops
  <2>4. ASSUME NEW m \in DOMAIN brokerQ, Stops(brokerQ[m], l)
        PROVE  \E i \in DOMAIN brokerQ' : Stops(brokerQ'[i], l)
    <3>1. m - 1 \in DOMAIN brokerQ' /\ (m - 1) + 1 = m
      BY <1>1, <2>3, <2>4
    <3>2. brokerQ'[m - 1] = brokerQ[m]
      BY <1>1, <3>1
    <3> QED
      BY <2>4, <3>1, <3>2
  <2>5. Asks(l) => Asks(l)'
    BY <1>0 DEF Asks
  <2> QED
    BY <1>0, <2>1, <2>4, <2>5 DEF PendingInv
<1> QED
  BY <1>2, <1>3, <1>4, <1>5, <1>6, <1>7 DEF RunParts

\* What a record of a task adds to the projection of its operation.
LEMMA RecordedJournal ==
    ASSUME NEW r \in Request, journal[r.op] \in Journal, Accepts(r),
           r.kind \in {"audit", "intent", "result"} => r.call \in Calls
    PROVE  LET j == journal[r.op]
               k == Records(r) IN
           /\ k \in Journal /\ k.state = j.state
           /\ j.audits \subseteq k.audits
           /\ r.kind = "audit" => [call |-> r.call, allow |-> r.verdict = "allow"] \in k.audits
           /\ k.intents = IF r.kind = "intent" THEN j.intents \cup {r.call} ELSE j.intents
           /\ k.results = IF r.kind = "result"
                          THEN j.results \cup {[call |-> r.call,
                                                outcome |-> IF r.verdict = "allow"
                                                            THEN "performed" ELSE "declined"]}
                          ELSE j.results
           /\ r.kind \in {"intent", "result"} => j.state # "finished"
           /\ r.kind = "result" => r.call \in j.intents
<1> DEFINE j == journal[r.op]
           k == Records(r)
<1>0. r.kind \in Kinds
  BY DEF Request
<1>1. CASE r.kind \in {"assistant", "reply"}
  BY <1>1, RecordsCases
<1>2. CASE r.kind = "step"
  <2>1. k = [j EXCEPT !.steps = @ + 1]
    BY <1>2, RecordsCases
  <2> QED
    BY <1>2, <2>1 DEF Journal
<1>3. CASE r.kind = "audit"
  <2> DEFINE o == [call |-> r.call, allow |-> r.verdict = "allow"]
  <2>1. k = [j EXCEPT !.audits = @ \cup {o}]
    BY <1>3, RecordsCases
  <2>2. o \in [call : Calls, allow : BOOLEAN]
    BY <1>3
  <2> HIDE DEF o
  <2>3. /\ k \in Journal /\ k.state = j.state /\ k.results = j.results /\ k.intents = j.intents
        /\ k.audits = j.audits \cup {o}
    BY <2>1, <2>2 DEF Journal
  <2> QED
    BY <1>3, <2>3 DEF o
<1>4. CASE r.kind = "intent"
  <2>1. k = [j EXCEPT !.intents = @ \cup {r.call}]
    BY <1>4, RecordsCases
  <2> QED
    BY <1>4, <2>1, AcceptsCases DEF Journal
<1>5. CASE r.kind = "result"
  <2> DEFINE o == [call |-> r.call,
                   outcome |-> IF r.verdict = "allow" THEN "performed" ELSE "declined"]
  <2>1. k = [j EXCEPT !.results = @ \cup {o}]
    BY <1>5, RecordsCases
  <2>2. o \in [call : Calls, outcome : {"performed", "declined"}]
    BY <1>5
  <2>3. j.state # "finished" /\ r.call \in j.intents
    BY <1>5, AcceptsCases
  <2> HIDE DEF o
  <2>4. /\ k \in Journal /\ k.state = j.state /\ k.audits = j.audits /\ k.intents = j.intents
        /\ k.results = j.results \cup {o}
    BY <2>1, <2>2 DEF Journal
  <2> QED
    BY <1>5, <2>3, <2>4 DEF o
<1> QED
  BY <1>0, <1>1, <1>2, <1>3, <1>4, <1>5 DEF Kinds

\* Where the acknowledgement of a record takes the task.
LEMMA AcknowledgedPoints ==
    ASSUME NEW k \in Kinds
    PROVE  /\ k = "assistant" => Acknowledged[k] = "assistant_ok"
           /\ k = "step" => Acknowledged[k] = "plan"
           /\ k = "audit" => Acknowledged[k] = "audited"
           /\ k = "intent" => Acknowledged[k] = "intended"
           /\ k = "result" => Acknowledged[k] = "resulted"
           /\ k = "reply" => Acknowledged[k] = "replied"
BY DEF Acknowledged, Kinds

\* A record of a task is appended and acknowledged, or refused.
LEMMA RequestParts ==
    ASSUME RunTypes, RunParts, HandleRequest
    PROVE  RunTypes' /\ RunParts'
<1>0. /\ UNCHANGED <<active, budget, call, round, consumed, verdict, effects, brokerQ,
                     brokerEvents, pending, completions>>
      /\ requests # <<>> /\ requests' = Tail(requests) /\ requests \in Seq(Request)
      /\ RunInv /\ CompletionsInv /\ OpsInv /\ RequestsInv /\ PendingInv /\ AuthorizeInv
      /\ EventsInv /\ JournalIsTruthful
  BY DEF HandleRequest, RunParts, RunTypes, ChannelTypes, brokerVars
<1>1. /\ requests' \in Seq(Request) /\ Head(requests) = requests[1] /\ Head(requests) \in Request
      /\ 1 \in DOMAIN requests
      /\ \A i \in DOMAIN requests' : /\ i \in Nat /\ i + 1 \in DOMAIN requests
                                     /\ requests'[i] = requests[i + 1] /\ i + 1 # 1
  BY <1>0, TailChannel
<1>2. PICK r \in Request : r = Head(requests)
  BY <1>1
<1>3. PICK op \in Operations : op = r.op
  BY DEF Request
<1>4. /\ RequestOK(r) /\ r.kind \in Kinds /\ r.op = op
      /\ \A i \in DOMAIN requests' : requests'[i].op # op
  BY <1>0, <1>1, <1>2, <1>3 DEF RequestsInv, Request
<1>5. PICK ok \in BOOLEAN :
         /\ Stored(Accepts(r), ok)
         /\ journal' = IF ok THEN [journal EXCEPT ![op] = Records(r)] ELSE journal
         /\ task' = IF task[op] = r.kind
                    THEN [task EXCEPT ![op] = IF ok THEN Acknowledged[r.kind] ELSE "failing"]
                    ELSE task
  BY <1>2, <1>3 DEF HandleRequest
<1>6. /\ ok => Accepts(r)
      /\ r.kind \in {"audit", "intent", "result"} => r.call \in Calls /\ r.call <= call[op]
      /\ r.kind = "result" => (r.verdict = "allow" <=> [op |-> op, call |-> r.call] \in effects)
      /\ \/ task[op] = "aborted"
         \/ task[op] = r.kind /\ call[op] = r.call /\ verdict[op] = r.verdict
  BY <1>4, <1>5 DEF Stored, RequestOK
<1>7. /\ Acknowledged[r.kind] \in {"assistant_ok", "plan", "audited", "intended", "resulted", "replied"}
      /\ r.kind \notin {"none", "done", "aborted", "ask"}
  BY <1>4, AcknowledgedPoints DEF Kinds
<1>8. /\ task' \in [Operations -> TaskPoint]
      /\ \A o \in Operations : o # op => task'[o] = task[o]
      /\ task[op] = "aborted" => task'[op] = task[op]
      /\ task[op] = r.kind => task'[op] = IF ok THEN Acknowledged[r.kind] ELSE "failing"
  BY <1>5, <1>7 DEF RunTypes, TaskPoint
<1>9. /\ journal' \in [Operations -> Journal]
      /\ \A o \in Operations : o # op => journal'[o] = journal[o]
      /\ ~ok => journal'[op] = journal[op]
      /\ ok => journal'[op] = Records(r)
  <2>1. ok => Records(r) \in Journal
    <3>1. journal[r.op] \in Journal
      BY <1>3 DEF RunTypes
    <3> QED
      BY <1>6, <3>1, RecordedJournal
  <2> QED
    BY <1>5, <2>1 DEF RunTypes
<1> DEFINE j == journal[op]
           k == journal'[op]
<1>10. /\ k.state = j.state
       /\ j.audits \subseteq k.audits
       /\ ok /\ r.kind = "audit" => [call |-> r.call, allow |-> r.verdict = "allow"] \in k.audits
       /\ k.intents = IF ok /\ r.kind = "intent" THEN j.intents \cup {r.call} ELSE j.intents
       /\ k.results = IF ok /\ r.kind = "result"
                      THEN j.results \cup {[call |-> r.call,
                                            outcome |-> IF r.verdict = "allow"
                                                        THEN "performed" ELSE "declined"]}
                      ELSE j.results
       /\ ok /\ r.kind \in {"intent", "result"} => j.state # "finished"
       /\ ok /\ r.kind = "result" => r.call \in j.intents
  <2>1. journal[r.op] \in Journal
    BY <1>3 DEF RunTypes
  <2>2. CASE ok
    BY <1>3, <1>6, <1>9, <2>1, <2>2, RecordedJournal
  <2>3. CASE ~ok
    BY <1>9, <2>3
  <2> QED
    BY <2>2, <2>3
<1> HIDE DEF j, k
<1>11. RunTypes'
  BY <1>0, <1>1, <1>8, <1>9 DEF RunTypes, ChannelTypes
<1>12. Unfinished' = Unfinished
  BY <1>9, <1>10 DEF Unfinished, j, k
<1>13. RunInv' /\ CompletionsInv'
  <2>1. \A o \in Operations : task'[o] = task[o] \/ (Live(o) /\ Live(o)')
    BY <1>6, <1>7, <1>8 DEF Live
  <2> QED
    BY <1>0, <1>12, <2>1, LiveFrame
<1>14. PendingInv' /\ AuthorizeInv'
  <2>1. \A o \in Operations : task[o] = "ask" => task'[o] = "ask"
    BY <1>6, <1>7, <1>8
  <2> QED
    BY <1>0, <2>1, BrokerFrame
<1>15. EventsInv'
  BY <1>0, <1>9, <1>10, EventsFrame DEF j, k
<1>16. RequestsInv'
  <2> SUFFICES ASSUME NEW i \in DOMAIN requests'
               PROVE  /\ RequestOK(requests[i])'
                      /\ \A m \in DOMAIN requests' : requests'[m].op = requests'[i].op => m = i
    BY DEF RequestsInv
  <2>1. PICK s \in Request : s = requests[i + 1]
    BY <1>0, <1>1, MessageType
  <2>2. s = requests'[i] /\ RequestOK(s) /\ s.op \in Operations /\ s.op # op
        /\ \A m \in DOMAIN requests : requests[m].op = s.op => m = i + 1
    BY <1>0, <1>1, <1>4, <2>1 DEF RequestsInv, Request
  <2>3. RequestOK(s)'
    BY <1>0, <1>8, <2>2 DEF RequestOK
  <2>4. RequestOK(requests[i])'
    BY <2>2, <2>3 DEF RequestOK
  <2>5. ASSUME NEW m \in DOMAIN requests', requests'[m].op = requests'[i].op PROVE m = i
    <3>1. m + 1 = i + 1 /\ m \in Nat /\ i \in Nat
      BY <1>1, <2>2, <2>5
    <3> QED
      BY <3>1
  <2> QED
    BY <2>4, <2>5
<1>17. Answered(k) = IF ok /\ r.kind = "result" THEN Answered(j) \cup {r.call} ELSE Answered(j)
  <2>1. CASE ok /\ r.kind = "result"
    <3>1. PICK s : s = [call |-> r.call,
                        outcome |-> IF r.verdict = "allow" THEN "performed" ELSE "declined"]
      OBVIOUS
    <3>2. k.results = j.results \cup {s} /\ s.call = r.call
      BY <1>10, <2>1, <3>1
    <3>3. {x.call : x \in j.results \cup {s}} = {x.call : x \in j.results} \cup {s.call}
      OBVIOUS
    <3> QED
      BY <2>1, <3>2, <3>3 DEF Answered
  <2>2. CASE ~(ok /\ r.kind = "result")
    <3>1. k.results = j.results
      BY <1>10, <2>2
    <3> QED
      BY <2>2, <3>1 DEF Answered
  <2> QED
    BY <2>1, <2>2
<1>18. OpsInv'
  <2>1. OpOK(op, task[op], call[op], verdict[op], round[op], consumed[op], j, effects)
    BY <1>0 DEF OpsInv, OpInv, j
  <2>2. /\ \A i \in k.intents : i <= call[op]
        /\ Answered(k) \subseteq k.intents
        /\ k.state = "absent" => task[op] = "none"
    BY <1>6, <1>10, <1>17, <2>1 DEF OpOK
  <2>3. CASE task[op] = "aborted"
    <3>1. OpOK(op, "aborted", call[op], verdict[op], round[op], consumed[op], k, effects)
      BY <2>1, <2>2, <2>3 DEF OpOK
    <3> QED
      BY <1>0, <1>8, <1>9, <2>3, <3>1, OpsFrame DEF k
  <2>4. CASE task[op] = r.kind /\ call[op] = r.call /\ verdict[op] = r.verdict
    <3>1. /\ consumed[op] + round[op] < HardRounds /\ round[op] < SoftRounds
          /\ consumed[op] + round[op] <= HardRounds /\ k.state # "absent"
      BY <1>7, <2>1, <2>2, <2>4 DEF OpOK
    <3>2. OpOK(op, task'[op], call[op], verdict[op], round[op], consumed[op], k, effects)
      <4>1. CASE ~ok
        <5>1. task'[op] = "failing"
          BY <1>8, <2>4, <4>1
        <5> QED
          BY <2>2, <3>1, <5>1 DEF OpOK
      <4>2. CASE ok /\ r.kind \in {"assistant", "step", "result", "reply"}
        <5>1. task'[op] \in {"assistant_ok", "plan", "resulted", "replied"}
          BY <1>4, <1>8, <2>4, <4>2, AcknowledgedPoints
        <5> QED
          BY <2>2, <3>1, <5>1 DEF OpOK
      <4>3. CASE ok /\ r.kind = "audit"
        <5>1. task'[op] = "audited" /\ k.intents = j.intents
              /\ [call |-> call[op], allow |-> verdict[op] = "allow"] \in k.audits
          BY <1>4, <1>8, <1>10, <2>4, <4>3, AcknowledgedPoints
        <5>2. call[op] > 0 /\ call[op] \notin k.intents /\ verdict[op] # "none"
          BY <2>1, <2>4, <4>3, <5>1 DEF OpOK
        <5> QED
          BY <2>2, <3>1, <5>1, <5>2 DEF OpOK
      <4>4. CASE ok /\ r.kind = "intent"
        <5>1. task'[op] = "intended" /\ call[op] \in k.intents /\ Answered(k) = Answered(j)
          BY <1>4, <1>8, <1>10, <1>17, <2>4, <4>4, AcknowledgedPoints
        <5>2. /\ call[op] \notin j.intents /\ Answered(j) \subseteq j.intents /\ verdict[op] # "none"
              /\ [call |-> call[op], allow |-> verdict[op] = "allow"] \in k.audits
          BY <1>10, <2>1, <2>4, <4>4 DEF OpOK
        <5>3. [op |-> op, call |-> call[op]] \notin effects
          <6>1. PICK e : e = [op |-> op, call |-> call[op]]
            OBVIOUS
          <6>2. e \in effects => e.call \in journal[e.op].intents
            BY <1>0 DEF JournalIsTruthful, EffectsHaveIntents
          <6> QED
            BY <5>2, <6>1, <6>2 DEF j
        <5> QED
          BY <2>2, <3>1, <5>1, <5>2, <5>3 DEF OpOK
      <4> QED
        BY <1>4, <4>1, <4>2, <4>3, <4>4 DEF Kinds
    <3> QED
      BY <1>0, <1>8, <1>9, <3>2, OpsFrame DEF k
  <2> QED
    BY <1>6, <2>3, <2>4
<1>19. JournalIsTruthful'
  <2>1. EffectsHaveIntents'
    <3> SUFFICES ASSUME NEW e \in effects
                 PROVE  /\ e.call \in journal'[e.op].intents
                        /\ [call |-> e.call, allow |-> TRUE] \in journal'[e.op].audits
      BY <1>0 DEF EffectsHaveIntents
    <3>1. /\ e.call \in journal[e.op].intents /\ e.op \in Operations
          /\ [call |-> e.call, allow |-> TRUE] \in journal[e.op].audits
      BY <1>0 DEF JournalIsTruthful, EffectsHaveIntents, RunTypes, Invocation
    <3>2. CASE e.op # op
      BY <1>9, <3>1, <3>2
    <3>3. CASE e.op = op
      BY <1>10, <3>1, <3>3 DEF j, k
    <3> QED
      BY <3>2, <3>3
  <2>2. ResultsAreTruthful'
    <3> SUFFICES ASSUME NEW o \in Operations, NEW s \in journal'[o].results
                 PROVE  (s.outcome = "performed") <=> ([op |-> o, call |-> s.call] \in effects)
      BY <1>0 DEF ResultsAreTruthful
    <3>1. CASE s \in journal[o].results
      BY <1>0, <3>1 DEF JournalIsTruthful, ResultsAreTruthful
    <3>2. CASE s \notin journal[o].results
      <4>1. o = op
        BY <1>9, <3>2
      <4>2. /\ ok /\ r.kind = "result"
            /\ s = [call |-> r.call,
                    outcome |-> IF r.verdict = "allow" THEN "performed" ELSE "declined"]
        BY <1>10, <3>2, <4>1 DEF j, k
      <4>3. s.call = r.call /\ (s.outcome = "performed" <=> r.verdict = "allow")
        BY <4>2
      <4> QED
        BY <1>6, <4>1, <4>2, <4>3
    <3> QED
      BY <3>1, <3>2
  <2>3. FinishedIsReconciled'
    <3> SUFFICES ASSUME NEW o \in Operations, journal'[o].state = "finished"
                 PROVE  journal'[o].intents \subseteq Answered(journal'[o])
      BY DEF FinishedIsReconciled
    <3>1. CASE o # op
      BY <1>0, <1>9, <3>1 DEF JournalIsTruthful, FinishedIsReconciled
    <3>2. CASE o = op
      <4>1. j.intents \subseteq Answered(j) /\ k.intents = j.intents /\ Answered(k) = Answered(j)
        BY <1>0, <1>10, <1>17, <3>2 DEF JournalIsTruthful, FinishedIsReconciled, j, k
      <4> QED
        BY <3>2, <4>1 DEF k
    <3> QED
      BY <3>1, <3>2
  <2> QED
    BY <2>1, <2>2, <2>3 DEF JournalIsTruthful
<1> QED
  BY <1>11, <1>13, <1>14, <1>15, <1>16, <1>18, <1>19 DEF RunParts

-----------------------------------------------------------------------------
(* The steps of the tranche task.                                          *)

\* A task that can move is the run's.
LEMMA TaskRuns ==
    ASSUME RunTypes, RunParts, NEW op \in Operations, Live(op)
    PROVE  /\ active = op /\ op \in Unfinished /\ budget = None /\ completions = <<>>
           /\ journal[op].state # "absent"
           /\ OpOK(op, task[op], call[op], verdict[op], round[op], consumed[op], journal[op], effects)
           /\ consumed[op] + round[op] < HardRounds /\ round[op] < SoftRounds
           /\ consumed[op] \in Nat /\ round[op] \in Nat /\ call[op] \in 0 .. MaxCalls
<1>1. active = op /\ op # None
  BY NoneAssumption DEF RunParts, RunInv
<1>2. op \in Unfinished /\ budget = None
  BY <1>1 DEF RunParts, RunInv
<1>3. completions = <<>>
  <2>1. ASSUME NEW i \in DOMAIN completions PROVE FALSE
    BY <1>1, <2>1 DEF RunParts, CompletionsInv, Live
  <2> QED
    BY <2>1, NoMessage DEF RunTypes, ChannelTypes
<1>4. journal[op].state # "absent"
  BY <1>2 DEF Unfinished
<1>5. OpOK(op, task[op], call[op], verdict[op], round[op], consumed[op], journal[op], effects)
  BY DEF RunParts, OpsInv, OpInv
<1>6. consumed[op] + round[op] < HardRounds /\ round[op] < SoftRounds
  BY <1>5 DEF OpOK, Live
<1> QED
  BY <1>1, <1>2, <1>3, <1>4, <1>5, <1>6, RoundsAssumption DEF RunTypes

\* The task goes on without a message.
LEMMA MovesParts ==
    ASSUME RunTypes, RunParts, NEW op \in Operations, Live(op), task[op] \notin Kinds \cup {"ask"},
           NEW t \in {"failing", "plan", "model"}, Goes(op, t),
           UNCHANGED <<active, budget, call, consumed, verdict, effects, brokerQ, brokerEvents,
                       pending, journal, completions, requests>>,
           round' \in [Operations -> 0 .. SoftRounds],
           \A o \in Operations : o # op => round'[o] = round[o],
           consumed[op] + round'[op] < HardRounds, round'[op] < SoftRounds
    PROVE  RunTypes' /\ RunParts'
<1>0. RunInv /\ CompletionsInv /\ OpsInv /\ RequestsInv /\ PendingInv /\ AuthorizeInv
      /\ EventsInv /\ JournalIsTruthful
  BY DEF RunParts
<1>1. /\ task' \in [Operations -> TaskPoint] /\ task'[op] = t
      /\ \A o \in Operations : o # op => task'[o] = task[o]
  BY DEF Goes, RunTypes, TaskPoint
<1>2. RunTypes'
  BY <1>1 DEF RunTypes, ChannelTypes
<1>3. RunInv' /\ CompletionsInv'
  <2>1. Unfinished' = Unfinished
    BY DEF Unfinished
  <2>2. Live(op)'
    BY <1>1 DEF Live
  <2> QED
    BY <1>0, <1>1, <2>1, <2>2, LiveFrame
<1>4. OpsInv'
  <2>1. OpOK(op, t, call[op], verdict[op], round'[op], consumed[op], journal[op], effects)
    <3>1. OpOK(op, task[op], call[op], verdict[op], round[op], consumed[op], journal[op], effects)
          /\ journal[op].state # "absent" /\ consumed[op] \in Nat
      BY TaskRuns
    <3>2. consumed[op] + round'[op] <= HardRounds
      BY <3>1, RoundsAssumption
    <3> QED
      BY <3>1, <3>2 DEF OpOK
  <2> QED
    BY <1>0, <1>1, <2>1, OpsFrame
<1>5. RequestsInv'
  BY <1>0, <1>1, RequestsFrame DEF RunTypes, ChannelTypes, Live
<1>6. PendingInv' /\ AuthorizeInv'
  BY <1>0, <1>1, BrokerFrame
<1>7. EventsInv' /\ JournalIsTruthful'
  BY <1>0, TruthFrame DEF EventsInv, RunTypes, SameBooks
<1> QED
  BY <1>2, <1>3, <1>4, <1>5, <1>6, <1>7 DEF RunParts

\* The task sends a record and waits for its acknowledgement.
LEMMA AsksParts ==
    ASSUME RunTypes, RunParts, NEW op \in Operations, Live(op), task[op] \notin Kinds \cup {"ask"},
           NEW kind \in Kinds, Requests(op, kind),
           kind \in {"audit", "intent", "result"} => call[op] > 0,
           OpOK(op, kind, call[op], verdict[op], round[op], consumed[op], journal[op], effects)
    PROVE  RunTypes' /\ RunParts'
<1>0. /\ RunInv /\ CompletionsInv /\ OpsInv /\ RequestsInv /\ PendingInv /\ AuthorizeInv
      /\ EventsInv /\ JournalIsTruthful
      /\ UNCHANGED <<active, budget, call, round, consumed, verdict, effects, brokerQ, brokerEvents,
                     pending, journal, completions>>
      /\ Goes(op, kind) /\ requests \in Seq(Request)
  BY DEF RunParts, Requests, taskFrame, actorVars, RunTypes, ChannelTypes
<1>1. /\ task' \in [Operations -> TaskPoint] /\ task'[op] = kind
      /\ \A o \in Operations : o # op => task'[o] = task[o]
  BY <1>0 DEF Goes, RunTypes, TaskPoint, Kinds
<1>2. PICK r : r = [op |-> op, kind |-> kind, call |-> call[op],
                    step |-> consumed[op] + round[op] + 1, verdict |-> verdict[op]]
  OBVIOUS
<1>3. r \in Request
  <2>1. consumed[op] + round[op] + 1 \in Nat /\ call[op] \in 0 .. MaxCalls /\ verdict[op] \in Verdicts
    BY RoundsAssumption DEF RunTypes
  <2> QED
    BY <1>2, <2>1 DEF Request
<1>4. r.op = op /\ r.kind = kind /\ r.call = call[op] /\ r.verdict = verdict[op]
  BY <1>2
<1>5. /\ requests' \in Seq(Request)
      /\ \A i \in DOMAIN requests' :
           \/ i \in DOMAIN requests /\ requests'[i] = requests[i]
           \/ i = Len(requests) + 1 /\ requests'[i] = r
  <2>1. requests' = Append(requests, r)
    BY <1>2 DEF Requests
  <2> QED
    BY <1>0, <1>3, <2>1, AppendChannel
<1>6. RunTypes'
  BY <1>0, <1>1, <1>5 DEF RunTypes, ChannelTypes
<1>7. RunInv' /\ CompletionsInv'
  <2>1. Unfinished' = Unfinished
    BY <1>0 DEF Unfinished
  <2>2. Live(op)'
    BY <1>1 DEF Live, Kinds
  <2> QED
    BY <1>0, <1>1, <2>1, <2>2, LiveFrame
<1>8. OpsInv'
  BY <1>0, <1>1, OpsFrame
<1>9. RequestsInv'
  <2>1. \A i \in DOMAIN requests : requests[i].op # op
    BY <1>0, NoRequestOf DEF Live
  <2>2. RequestOK(r)'
    <3>1. kind \in {"audit", "intent", "result"} => call[op] \in Calls /\ call[op] <= call[op]
      BY BoundsAssumption DEF Calls, RunTypes
    <3>2. kind = "result" => (verdict[op] = "allow" <=> [op |-> op, call |-> call[op]] \in effects)
      BY DEF OpOK
    <3> QED
      BY <1>0, <1>1, <1>4, <3>1, <3>2 DEF RequestOK
  <2>3. ASSUME NEW i \in DOMAIN requests PROVE RequestOK(requests[i]) /\ requests[i] \in Request
    BY <1>0, <2>3, MessageType DEF RequestsInv
  <2>4. ASSUME NEW s \in Request, RequestOK(s), s.op # op PROVE RequestOK(s)'
    <3>1. s.op \in Operations
      BY DEF Request
    <3> QED
      BY <1>0, <1>1, <2>4, <3>1 DEF RequestOK
  <2>5. ASSUME NEW i \in DOMAIN requests' PROVE RequestOK(requests[i])'
    <3>1. PICK s : s = requests'[i]
      OBVIOUS
    <3>2. RequestOK(s)'
      BY <1>5, <2>1, <2>2, <2>3, <2>4, <2>5, <3>1
    <3> QED
      BY <3>1, <3>2 DEF RequestOK
  <2>6. ASSUME NEW i \in DOMAIN requests', NEW m \in DOMAIN requests',
               requests'[m].op = requests'[i].op
        PROVE  m = i
    BY <1>0, <1>4, <1>5, <2>1, <2>6 DEF RequestsInv
  <2> QED
    BY <2>5, <2>6 DEF RequestsInv
<1>10. PendingInv' /\ AuthorizeInv'
  BY <1>0, <1>1, BrokerFrame
<1>11. EventsInv' /\ JournalIsTruthful'
  BY <1>0, TruthFrame DEF EventsInv, RunTypes, SameBooks
<1> QED
  BY <1>6, <1>7, <1>8, <1>9, <1>10, <1>11 DEF RunParts

\* The tranche ends.
LEMMA EndsParts ==
    ASSUME RunTypes, RunParts, NEW op \in Operations, Live(op), task[op] \notin Kinds \cup {"ask"},
           NEW result \in {"completed", "rounds", "failed"}, Completes(op, result),
           round' \in [Operations -> 0 .. SoftRounds],
           \A o \in Operations : o # op => round'[o] = round[o],
           consumed[op] + round'[op] <= HardRounds, result = "rounds" => round'[op] > 0
    PROVE  RunTypes' /\ RunParts'
<1>0. /\ RunInv /\ CompletionsInv /\ OpsInv /\ RequestsInv /\ PendingInv /\ AuthorizeInv
      /\ EventsInv /\ JournalIsTruthful
      /\ UNCHANGED <<active, budget, call, consumed, verdict, effects, brokerQ, brokerEvents,
                     pending, journal, requests>>
      /\ Goes(op, "done")
  BY DEF RunParts, Completes, taskFrame, actorVars
<1>1. /\ task' \in [Operations -> TaskPoint] /\ task'[op] = "done"
      /\ \A o \in Operations : o # op => task'[o] = task[o]
  BY <1>0 DEF Goes, RunTypes, TaskPoint
<1>2. active = op /\ op \in Unfinished /\ budget = None /\ completions = <<>>
      /\ journal[op].state # "absent" /\ op # None
  BY TaskRuns, NoneAssumption
<1>3. PICK c : c = [op |-> op, result |-> result]
  OBVIOUS
<1>4. c \in Completion /\ c.op = op /\ c.result = result
  BY <1>3 DEF Completion
<1>5. /\ completions' \in Seq(Completion) /\ Len(completions') = 1
      /\ \A i \in DOMAIN completions' : completions'[i] = c
  <2>1. completions' = <<c>>
    BY <1>2, <1>3 DEF Completes
  <2>2. <<c>> \in Seq(Completion) /\ Len(<<c>>) = 1 /\ \A i \in DOMAIN <<c>> : <<c>>[i] = c
    BY <1>4
  <2> QED
    BY <2>1, <2>2
<1>6. RunTypes'
  BY <1>0, <1>1, <1>5 DEF RunTypes, ChannelTypes
<1>7. Unfinished' = Unfinished
  BY <1>0 DEF Unfinished
<1>8. RunInv'
  <2>1. \A o \in Operations : Live(o)' => Live(o)
    BY <1>1 DEF Live
  <2> QED
    BY <1>0, <1>1, <1>2, <1>7, <2>1 DEF RunInv
<1>9. CompletionsInv'
  BY <1>0, <1>1, <1>2, <1>4, <1>5, <1>7 DEF CompletionsInv
<1>10. OpsInv'
  <2>1. OpOK(op, "done", call[op], verdict[op], round'[op], consumed[op], journal[op], effects)
    BY TaskRuns DEF OpOK
  <2> QED
    BY <1>0, <1>1, <2>1, OpsFrame
<1>11. RequestsInv'
  BY <1>0, <1>1, RequestsFrame DEF RunTypes, ChannelTypes, Live
<1>12. PendingInv' /\ AuthorizeInv'
  BY <1>0, <1>1, BrokerFrame
<1>13. EventsInv' /\ JournalIsTruthful'
  BY <1>0, TruthFrame DEF EventsInv, RunTypes, SameBooks
<1> QED
  BY <1>6, <1>8, <1>9, <1>10, <1>11, <1>12, <1>13 DEF RunParts

\* A call is planned: the broker is asked, or it is answered without.
LEMMA PlanParts ==
    ASSUME RunTypes, RunParts, NEW op \in Operations, PlanCall(op)
    PROVE  RunTypes' /\ RunParts'
<1>0. /\ RunInv /\ CompletionsInv /\ OpsInv /\ RequestsInv /\ PendingInv /\ AuthorizeInv
      /\ EventsInv /\ JournalIsTruthful
      /\ UNCHANGED <<active, budget, round, consumed, effects, brokerEvents,
                     pending, journal, completions, requests>>
      /\ task[op] = "plan" /\ call[op] < MaxCalls
      /\ call' = [call EXCEPT ![op] = @ + 1] /\ verdict' = [verdict EXCEPT ![op] = "none"]
      /\ brokerQ \in Seq(BrokerCommand)
  BY DEF RunParts, PlanCall, taskFrame, actorVars, RunTypes, ChannelTypes
<1>1. Live(op)
  BY <1>0 DEF Live
<1>2. PICK c \in Calls : c = call[op] + 1
  BY <1>0, BoundsAssumption DEF RunTypes, Calls
<1>3. /\ call' \in [Operations -> 0 .. MaxCalls] /\ call'[op] = c
      /\ verdict' \in [Operations -> Verdicts] /\ verdict'[op] = "none"
      /\ \A o \in Operations : o # op => call'[o] = call[o] /\ verdict'[o] = verdict[o]
      /\ call[op] \in Nat /\ c > call[op]
  BY <1>0, <1>2, BoundsAssumption DEF RunTypes, Verdicts, Calls
<1>4. PICK k \in Invocation : k = [op |-> op, call |-> c]
  BY DEF Invocation
<1>5. PICK m \in BrokerCommand : m = [type |-> "authorize", op |-> op, call |-> c]
  BY DEF BrokerCommand
<1>6. \/ Goes(op, "ask") /\ brokerQ' = Append(brokerQ, m)
      \/ Goes(op, "resulted") /\ brokerQ' = brokerQ
  BY <1>2, <1>5 DEF PlanCall
<1>7. /\ task' \in [Operations -> TaskPoint] /\ task'[op] \in {"ask", "resulted"}
      /\ \A o \in Operations : o # op => task'[o] = task[o]
      /\ brokerQ' # brokerQ => task'[op] = "ask"
  BY <1>6 DEF Goes, RunTypes, TaskPoint
<1>8. /\ brokerQ' \in Seq(BrokerCommand)
      /\ \A i \in DOMAIN brokerQ : i \in DOMAIN brokerQ' /\ brokerQ'[i] = brokerQ[i]
      /\ \A i \in DOMAIN brokerQ' :
           \/ i \in DOMAIN brokerQ
           \/ i = Len(brokerQ) + 1 /\ brokerQ'[i] = m /\ brokerQ' # brokerQ
  <2>1. CASE brokerQ' = brokerQ
    BY <1>0, <2>1
  <2>2. CASE brokerQ' # brokerQ
    <3>1. brokerQ' = Append(brokerQ, m)
      BY <1>6, <2>2
    <3> QED
      BY <1>0, <2>2, <3>1, AppendChannel
  <2> QED
    BY <2>1, <2>2
<1>9. RunTypes'
  BY <1>0, <1>3, <1>7, <1>8 DEF RunTypes, ChannelTypes
<1>10. RunInv' /\ CompletionsInv'
  <2>1. Unfinished' = Unfinished
    BY <1>0 DEF Unfinished
  <2>2. Live(op)'
    BY <1>7 DEF Live
  <2> QED
    BY <1>0, <1>1, <1>7, <2>1, <2>2, LiveFrame
<1>11. OpsInv'
  <2>1. OpOK(op, "plan", call[op], verdict[op], round[op], consumed[op], journal[op], effects)
        /\ journal[op].state # "absent"
    BY <1>0, <1>1, TaskRuns
  <2>2. (\A i \in journal[op].intents : i <= c) /\ c \notin journal[op].intents /\ c > 0
    <3>1. \A i \in journal[op].intents : i \in Nat /\ i <= call[op]
      BY <2>1 DEF OpOK, RunTypes, Journal, Calls
    <3> QED
      BY <1>3, <3>1
  <2>3. OpOK(op, task'[op], c, "none", round[op], consumed[op], journal[op], effects)
    BY <1>7, <2>1, <2>2 DEF OpOK
  <2> QED
    BY <1>0, <1>3, <1>7, <2>3, OpsFrame
<1>12. RequestsInv'
  <2>1. "plan" \notin Kinds \cup {"aborted"}
    BY DEF Kinds
  <2> QED
    BY <1>0, <1>3, <1>7, <2>1, RequestsFrame DEF RunTypes, ChannelTypes
<1>13. \A l \in Invocation : /\ Asks(l) => Asks(l)'
                             /\ l.call <= call[l.op] => l.call <= call'[l.op] /\ l # k
  <2> SUFFICES ASSUME NEW l \in Invocation
               PROVE  /\ Asks(l) => Asks(l)'
                      /\ l.call <= call[l.op] => l.call <= call'[l.op] /\ l # k
    OBVIOUS
  <2>1. l.op \in Operations /\ l.call \in Nat
    BY DEF Invocation, Calls
  <2>2. CASE l.op = op
    <3>1. ~Asks(l)
      BY <1>0, <2>2 DEF Asks
    <3>2. l.call <= call[op] => l.call <= c /\ l.call # c
      BY <1>3, <2>1
    <3>3. k.call = c /\ k.op = op
      BY <1>4
    <3> QED
      BY <1>3, <2>2, <3>1, <3>2, <3>3
  <2>3. CASE l.op # op
    BY <1>3, <1>4, <1>7, <2>1, <2>3 DEF Asks
  <2> QED
    BY <2>2, <2>3
<1>14. PendingInv'
  <2> SUFFICES ASSUME NEW l \in pending
               PROVE  /\ l.call <= call'[l.op]
                      /\ Asks(l)' \/ \E i \in DOMAIN brokerQ' : Stops(brokerQ'[i], l)
    BY <1>0 DEF PendingInv, Stops
  <2>1. l \in Invocation
    BY DEF RunTypes
  <2> QED
    BY <1>0, <1>8, <1>13, <2>1 DEF PendingInv
<1>15. AuthorizeInv'
  <2>1. Key(m) = k
    BY <1>4, <1>5 DEF Key
  <2>2. ASSUME NEW i \in DOMAIN brokerQ, brokerQ[i].type = "authorize"
        PROVE  /\ Key(brokerQ[i]) \in Invocation /\ brokerQ[i] # m
               /\ Key(brokerQ[i]).call <= call[Key(brokerQ[i]).op]
    <3>1. PICK l \in Invocation : l = Key(brokerQ[i])
      BY <2>2, ChannelMessages DEF Key, Invocation
    <3>2. l.call <= call[l.op]
      BY <1>0, <2>2, <3>1 DEF AuthorizeInv, AuthorizeOK
    <3>3. l # k
      BY <1>13, <3>2
    <3> QED
      BY <2>1, <3>1, <3>2, <3>3
  <2> SUFFICES ASSUME NEW i \in DOMAIN brokerQ', brokerQ'[i].type = "authorize"
               PROVE  AuthorizeOK(i)'
    BY DEF AuthorizeInv
  <2>3. CASE i \in DOMAIN brokerQ
    <3>1. brokerQ'[i] = brokerQ[i] /\ brokerQ[i].type = "authorize"
      BY <1>8, <2>3
    <3>2. PICK l \in Invocation : l = Key(brokerQ[i])
      BY <2>2, <2>3, <3>1
    <3>3. /\ l.call <= call[l.op] /\ l \notin pending
          /\ Asks(l) \/ \E n \in DOMAIN brokerQ : n > i /\ Stops(brokerQ[n], l)
          /\ \A n \in DOMAIN brokerQ : brokerQ[n] = brokerQ[i] => n = i
      BY <1>0, <2>3, <3>1, <3>2 DEF AuthorizeInv, AuthorizeOK
    <3>4. l.call <= call'[l.op] /\ l \notin pending'
      BY <1>0, <1>13, <3>3
    <3>5. Asks(l)' \/ \E n \in DOMAIN brokerQ' : n > i /\ Stops(brokerQ'[n], l)
      BY <1>8, <1>13, <3>3
    <3>6. \A n \in DOMAIN brokerQ' : brokerQ'[n] = brokerQ'[i] => n = i
      BY <1>8, <2>2, <2>3, <3>1, <3>3
    <3>7. Key(brokerQ'[i]) = l
      BY <3>1, <3>2
    <3> QED
      BY <3>4, <3>5, <3>6, <3>7 DEF AuthorizeOK, Asks, Stops
  <2>4. CASE i \notin DOMAIN brokerQ
    <3>1. i = Len(brokerQ) + 1 /\ brokerQ'[i] = m /\ task'[op] = "ask"
      BY <1>7, <1>8, <2>4
    <3>2. k.call = c /\ k.op = op
      BY <1>4
    <3>3. k.call <= call'[k.op] /\ Asks(k)'
      BY <1>3, <3>1, <3>2 DEF Asks, Calls
    <3>4. k \notin pending'
      <4>1. \A l \in pending : l \in Invocation /\ l.call <= call[l.op]
        BY <1>0 DEF PendingInv, RunTypes
      <4> QED
        BY <1>0, <1>13, <4>1
    <3>5. \A n \in DOMAIN brokerQ' : brokerQ'[n] = m => n = i
      <4> SUFFICES ASSUME NEW n \in DOMAIN brokerQ', brokerQ'[n] = m PROVE n = i
        OBVIOUS
      <4>1. m.type = "authorize"
        BY <1>5
      <4>2. n \notin DOMAIN brokerQ
        BY <1>8, <2>2, <4>1
      <4> QED
        BY <1>8, <3>1, <4>2
    <3> QED
      BY <2>1, <3>1, <3>3, <3>4, <3>5 DEF AuthorizeOK, Asks, Stops
  <2> QED
    BY <2>3, <2>4
<1>16. EventsInv' /\ JournalIsTruthful'
  BY <1>0, TruthFrame DEF EventsInv, RunTypes, SameBooks
<1> QED
  BY <1>9, <1>10, <1>11, <1>12, <1>14, <1>15, <1>16 DEF RunParts

\* The effect is dispatched.
LEMMA EffectParts ==
    ASSUME RunTypes, RunParts, NEW op \in Operations, PerformEffect(op)
    PROVE  RunTypes' /\ RunParts'
<1>0. /\ RunInv /\ CompletionsInv /\ OpsInv /\ RequestsInv /\ PendingInv /\ AuthorizeInv
      /\ EventsInv /\ JournalIsTruthful
      /\ UNCHANGED <<active, budget, call, round, consumed, verdict, brokerQ, brokerEvents,
                     pending, journal, completions, requests>>
      /\ task[op] = "intended" /\ verdict[op] = "allow" /\ Goes(op, "effected")
      /\ effects' = effects \cup {[op |-> op, call |-> call[op]]}
  BY DEF RunParts, PerformEffect, EffectReady, taskFrame, actorVars
<1>1. Live(op) /\ task[op] \notin Kinds \cup {"aborted"}
  BY <1>0 DEF Live, Kinds
<1>2. /\ task' \in [Operations -> TaskPoint] /\ task'[op] = "effected"
      /\ \A o \in Operations : o # op => task'[o] = task[o]
  BY <1>0 DEF Goes, RunTypes, TaskPoint
<1>3. OpOK(op, "intended", call[op], "allow", round[op], consumed[op], journal[op], effects)
      /\ journal[op].state # "absent"
  BY <1>0, <1>1, TaskRuns
<1>4. /\ call[op] \in journal[op].intents /\ call[op] \notin Answered(journal[op])
      /\ [call |-> call[op], allow |-> TRUE] \in journal[op].audits
  <2>1. ("allow" = "allow") = TRUE
    OBVIOUS
  <2> QED
    BY <1>3, <2>1 DEF OpOK
<1>5. call[op] \in Calls
  BY <1>4 DEF RunTypes, Journal
<1>6. PICK e \in Invocation : e = [op |-> op, call |-> call[op]]
  BY <1>5 DEF Invocation
<1>7. effects' = effects \cup {e} /\ e.op = op /\ e.call = call[op]
  BY <1>0, <1>6
<1>8. \A o \in Operations : o # op =>
         \A n : [op |-> o, call |-> n] \in effects' <=> [op |-> o, call |-> n] \in effects
  BY <1>0
<1>9. RunTypes'
  BY <1>0, <1>2, <1>7 DEF RunTypes, ChannelTypes
<1>10. RunInv' /\ CompletionsInv'
  <2>1. Unfinished' = Unfinished
    BY <1>0 DEF Unfinished
  <2>2. Live(op)'
    BY <1>2 DEF Live
  <2> QED
    BY <1>0, <1>1, <1>2, <2>1, <2>2, LiveFrame
<1>11. OpsInv'
  <2>1. OpOK(op, "effected", call[op], "allow", round[op], consumed[op], journal[op], effects')
    BY <1>0, <1>3 DEF OpOK
  <2> QED
    BY <1>0, <1>2, <1>8, <2>1, OpsFrame
<1>12. RequestsInv'
  <2>1. \A o \in Operations :
          \/ task[o] \notin Kinds \cup {"aborted"}
          \/ /\ task'[o] = task[o] /\ verdict'[o] = verdict[o] /\ call'[o] = call[o]
             /\ \A n : [op |-> o, call |-> n] \in effects' <=> [op |-> o, call |-> n] \in effects
    BY <1>0, <1>1, <1>2, <1>8
  <2> QED
    BY <1>0, <2>1, RequestsFrame DEF RunTypes, ChannelTypes
<1>13. PendingInv' /\ AuthorizeInv'
  BY <1>0, <1>2, BrokerFrame
<1>14. EventsInv'
  BY <1>0 DEF EventsInv
<1>15. JournalIsTruthful'
  <2>1. EffectsHaveIntents'
    BY <1>0, <1>4, <1>7 DEF JournalIsTruthful, EffectsHaveIntents
  <2>2. ResultsAreTruthful'
    <3> SUFFICES ASSUME NEW o \in Operations, NEW s \in journal[o].results
                 PROVE  (s.outcome = "performed") <=> ([op |-> o, call |-> s.call] \in effects')
      BY <1>0 DEF ResultsAreTruthful
    <3>1. [op |-> o, call |-> s.call] # e
      <4>1. s.call \in Answered(journal[o])
        BY DEF Answered
      <4> QED
        BY <1>4, <1>6, <4>1
    <3>2. (s.outcome = "performed") <=> ([op |-> o, call |-> s.call] \in effects)
      BY <1>0 DEF JournalIsTruthful, ResultsAreTruthful
    <3> QED
      BY <1>7, <3>1, <3>2
  <2>3. FinishedIsReconciled'
    BY <1>0 DEF JournalIsTruthful, FinishedIsReconciled
  <2> QED
    BY <2>1, <2>2, <2>3 DEF JournalIsTruthful
<1> QED
  BY <1>9, <1>10, <1>11, <1>12, <1>13, <1>14, <1>15 DEF RunParts

\* Every step of a task.
LEMMA TaskParts ==
    ASSUME RunTypes, RunParts, NEW op \in Operations, TaskStep(op)
    PROVE  RunTypes' /\ RunParts'
<1> DEFINE At(t, n, m) == OpOK(op, t, call[op], verdict[op], n, m, journal[op], effects)
<1>0. /\ round \in [Operations -> 0 .. SoftRounds]
      /\ Live(op) => /\ At(task[op], round[op], consumed[op]) /\ journal[op].state # "absent"
                     /\ consumed[op] + round[op] < HardRounds /\ round[op] < SoftRounds
                     /\ consumed[op] + round[op] <= HardRounds
                     /\ consumed[op] \in Nat /\ round[op] \in Nat
  <2>1. round \in [Operations -> 0 .. SoftRounds]
    BY DEF RunTypes
  <2>2. ASSUME Live(op)
        PROVE  /\ At(task[op], round[op], consumed[op]) /\ journal[op].state # "absent"
               /\ consumed[op] + round[op] < HardRounds /\ round[op] < SoftRounds
               /\ consumed[op] \in Nat /\ round[op] \in Nat
    BY <2>2, TaskRuns
  <2>3. ASSUME Live(op) PROVE consumed[op] + round[op] <= HardRounds
    BY <2>2, <2>3, RoundsAssumption
  <2> QED
    BY <2>1, <2>2, <2>3
<1>1. CASE ModelFinal(op) \/ TrancheFails(op)
  <2>1. task[op] \in {"model", "failing"} /\ UNCHANGED round
        /\ \E result \in {"completed", "failed"} : Completes(op, result)
    BY <1>1 DEF ModelFinal, TrancheFails
  <2>2. Live(op) /\ task[op] \notin Kinds \cup {"ask"}
    BY <2>1 DEF Live, Kinds
  <2> QED
    BY <1>0, <2>1, <2>2, EndsParts
<1>2. CASE ModelRequestsTools(op) \/ StartStep(op) \/ CommitResult(op)
  <2>1. PICK kind \in {"assistant", "step", "reply"} :
          task[op] \in {"model", "assistant_ok", "resulted"} /\ Requests(op, kind)
    BY <1>2 DEF ModelRequestsTools, StartStep, CommitResult
  <2>2. Live(op) /\ task[op] \notin Kinds \cup {"ask"} /\ kind \in Kinds
    BY <2>1 DEF Live, Kinds
  <2>3. At(kind, round[op], consumed[op])
    BY <1>0, <2>1, <2>2 DEF OpOK
  <2> QED
    BY <2>1, <2>2, <2>3, AsksParts
<1>3. CASE AuditCall(op)
  <2>1. task[op] = "answered" /\ Requests(op, "audit")
    BY <1>3 DEF AuditCall
  <2>2. Live(op) /\ task[op] \notin Kinds \cup {"ask"} /\ "audit" \in Kinds
    BY <2>1 DEF Live, Kinds
  <2>3. At("audit", round[op], consumed[op]) /\ call[op] > 0
    BY <1>0, <2>1, <2>2 DEF OpOK
  <2> QED
    BY <2>1, <2>2, <2>3, AsksParts
<1>4. CASE IntendCall(op)
  <2>1. task[op] = "audited" /\ Requests(op, "intent")
    BY <1>4 DEF IntendCall
  <2>2. Live(op) /\ task[op] \notin Kinds \cup {"ask"} /\ "intent" \in Kinds
    BY <2>1 DEF Live, Kinds
  <2>3. At("intent", round[op], consumed[op]) /\ call[op] > 0
    BY <1>0, <2>1, <2>2 DEF OpOK
  <2> QED
    BY <2>1, <2>2, <2>3, AsksParts
<1>5. CASE RecordResult(op)
  <2>1. /\ Requests(op, "result")
        /\ task[op] = "effected" \/ (task[op] = "intended" /\ verdict[op] = "deny")
    BY <1>5 DEF RecordResult, ResultReady
  <2>2. Live(op) /\ task[op] \notin Kinds \cup {"ask"} /\ "result" \in Kinds
    BY <2>1 DEF Live, Kinds
  <2>3. At("result", round[op], consumed[op])
    <3>1. CASE task[op] = "effected"
      BY <1>0, <2>2, <3>1 DEF OpOK
    <3>2. CASE task[op] = "intended" /\ verdict[op] = "deny"
      BY <1>0, <2>2, <3>2 DEF OpOK
    <3> QED
      BY <2>1, <3>1, <3>2
  <2>4. call[op] > 0
    <3>1. call[op] \in journal[op].intents
      BY <2>3 DEF OpOK
    <3>2. journal[op].intents \subseteq 1 .. MaxCalls
      BY DEF RunTypes, Journal, Calls
    <3> QED
      BY <3>1, <3>2, BoundsAssumption
  <2> QED
    BY <2>1, <2>2, <2>3, <2>4, AsksParts
<1>6. CASE ModelFails(op) \/ StoreOutputFails(op) \/ NextCall(op) \/ ProgressStops(op)
  <2>1. /\ task[op] \in {"model", "effected", "resulted", "replied"}
        /\ \E t \in {"failing", "plan", "model"} : Goes(op, t)
        /\ UNCHANGED <<active, budget, call, round, consumed, verdict, effects, brokerQ,
                       brokerEvents, pending, journal, completions, requests>>
    BY <1>6 DEF ModelFails, StoreOutputFails, NextCall, ProgressStops, taskFrame, actorVars
  <2>2. Live(op) /\ task[op] \notin Kinds \cup {"ask"}
    BY <2>1 DEF Live, Kinds
  <2> QED
    BY <1>0, <2>1, <2>2, MovesParts
<1>7. CASE RoundEnds(op)
  <2>1. task[op] = "replied" /\ round' = [round EXCEPT ![op] = @ + 1]
    BY <1>7 DEF RoundEnds
  <2>2. Live(op) /\ task[op] \notin Kinds \cup {"ask"}
    BY <2>1 DEF Live, Kinds
  <2>3. /\ round' \in [Operations -> 0 .. SoftRounds] /\ round'[op] = round[op] + 1
        /\ \A o \in Operations : o # op => round'[o] = round[o]
    BY <1>0, <2>1, <2>2, RoundsAssumption
  <2>4. CASE Completes(op, "rounds")
    <3>1. consumed[op] + round'[op] <= HardRounds /\ round'[op] > 0
      BY <1>0, <2>2, <2>3, RoundsAssumption
    <3> QED
      BY <2>2, <2>3, <2>4, <3>1, EndsParts
  <2>5. CASE /\ ~(round[op] + 1 >= TrancheLimit(op)) /\ Goes(op, "model")
             /\ UNCHANGED <<active, budget, call, consumed, verdict, effects, brokerQ,
                            brokerEvents, pending, journal, completions, requests>>
    <3>1. consumed[op] + round'[op] < HardRounds /\ round'[op] < SoftRounds
      BY <1>0, <2>2, <2>3, <2>5, RoundsAssumption DEF TrancheLimit, Remaining
    <3> QED
      BY <2>2, <2>3, <2>5, <3>1, MovesParts
  <2> QED
    BY <1>7, <2>4, <2>5 DEF RoundEnds, taskFrame, actorVars
<1> QED
  BY <1>1, <1>2, <1>3, <1>4, <1>5, <1>6, <1>7, PlanParts, EffectParts DEF TaskStep

\* Every step preserves what the invariant says of the run.
LEMMA PartsStep ==
    ASSUME RuntimeInv, Next
    PROVE  RunTypes' /\ RunParts'
<1>1. RunTypes /\ RunParts /\ LoopInv
  BY RuntimeParts DEF RuntimeInv
<1>2. CASE HandleCompletion
  BY <1>1, <1>2, CompletionCases, CompletedParts
<1> QED
  BY <1>1, <1>2, StepClasses, StillParts, AbortsParts, CommitParts, DecidesParts, ResolvesParts,
     EventParts, RequestParts, AuthorizeParts, StopParts, TaskParts DEF BrokerStep

-----------------------------------------------------------------------------
(* The loop of the actor, the clients and the view.                        *)

Points == {"top", "select", "refresh", "compact", "commit", "exited"}
LoopTypes ==
    /\ commands \in Seq(Command) /\ closed \in BOOLEAN
    /\ sent \in 0 .. MaxSent /\ submitted \in SUBSET Operations
    /\ pc \in Points /\ after \in {"top", "select"}
    /\ turn \in [op : Operations, manual : BOOLEAN] \cup {None}
    /\ deferred \in Command \cup {None}
View == [active : Operations \cup {None}, approvals : SUBSET Invocation]
StoreTypes == faults \in 0 .. MaxFaults /\ view \in View

\* A handler returns, or the runtime exits.
LEMMA LoopReturns ==
    ASSUME \/ pc' \in {"top", "select"} /\ (pc' = "top" => deferred' # None)
           \/ pc' = "exited" /\ active' = None
    PROVE  LoopInv'
BY DEF LoopInv

\* What does not touch the loop.
LEMMA LoopSame ==
    ASSUME LoopTypes, LoopInv, UNCHANGED <<pc, after, turn, deferred, active, budget, journal>>
    PROVE  LoopInv' /\ UNCHANGED <<pc, after, turn, deferred>>
BY DEF LoopInv, Unfinished

\* A command is taken and its handler returns or the runtime exits.
LEMMA LoopTakes ==
    ASSUME TypeOK, LoopInv, NEW type, Take(type), UNCHANGED <<after, turn>>,
           \/ \E left \in {deferred, deferred'} : Returns(CallerOf, left)
           \/ pc' = "exited" /\ active' = None
    PROVE  LoopTypes' /\ LoopInv'
<1>1. /\ commands' \in Seq(Command) /\ deferred' \in Command \cup {None}
      /\ pc \in {"top", "select"} /\ UNCHANGED <<closed, sent, submitted>>
      /\ pc = "select" => deferred' = deferred
  BY TakenCommand
<1>2. \/ pc' \in {"top", "select"} /\ (pc' = "top" => deferred' # None)
      \/ pc' = "exited" /\ active' = None
  BY <1>1 DEF Returns, CallerOf
<1>3. LoopInv'
  BY <1>2, LoopReturns
<1> QED
  BY <1>1, <1>2, <1>3 DEF LoopTypes, Points, TypeOK

\* A turn or a compaction is begun.
LEMMA LoopBegins ==
    ASSUME TypeOK, LoopInv, NEW type \in {"submit", "compact"}, Take(type),
           active = None, budget = None, after' = CallerOf,
           \/ /\ type = "submit" /\ Unfinished = {} /\ pc' = "refresh"
              /\ turn' = [op |-> NextCommand.op, manual |-> FALSE]
           \/ /\ type = "compact" /\ pc' = "compact"
              /\ turn' = [op |-> NextCommand.op, manual |-> TRUE],
           UNCHANGED <<active, budget, journal>>
    PROVE  LoopTypes' /\ LoopInv'
<1>1. /\ commands' \in Seq(Command) /\ deferred' \in Command \cup {None}
      /\ NextCommand \in Command /\ NextCommand.type = type
      /\ UNCHANGED <<closed, sent, submitted>>
  BY TakenCommand
<1>2. NextCommand.op \in Operations
  BY <1>1, CommandFields
<1>3. turn' \in [op : Operations, manual : BOOLEAN] /\ pc' \in {"refresh", "compact"}
      /\ (pc' = "compact" => turn'.manual = TRUE)
  <2>1. \A m \in BOOLEAN : /\ [op |-> NextCommand.op, manual |-> m] \in [op : Operations, manual : BOOLEAN]
                           /\ [op |-> NextCommand.op, manual |-> m].manual = m
    BY <1>2
  <2> QED
    BY <2>1
<1>4. Unfinished' = Unfinished
  BY DEF Unfinished
<1>5. LoopInv'
  BY <1>3, <1>4 DEF LoopInv
<1> QED
  BY <1>1, <1>3, <1>5 DEF LoopTypes, Points, TypeOK, CallerOf

\* A command that a client sends is well typed.
LEMMA OfferTypes ==
    ASSUME TypeOK, NEW c \in Offers
    PROVE  c \in Command
<1> DEFINE Plain == [type : {"submit", "compact"}, op : Operations \ submitted]
           Stop == [type : {"interrupt"}, op : submitted]
           Decide == {[type |-> "decide", op |-> v.op, call |-> v.call, allow |-> a] :
                        v \in view.approvals, a \in BOOLEAN}
           BudgetOf(op) == {[type |-> "budget", op |-> op, at |-> b, continue |-> a] :
                              b \in journal[op].budgets, a \in BOOLEAN}
           Budget == UNION {BudgetOf(op) : op \in Operations}
           Bare == [type : {"clear", "shutdown"}]
<1>1. Plain \subseteq Command /\ Stop \subseteq Command /\ Bare \subseteq Command
  BY DEF TypeOK, Command
<1>2. Decide \subseteq Command
  <2> SUFFICES ASSUME NEW v \in view.approvals, NEW a \in BOOLEAN
               PROVE  [type |-> "decide", op |-> v.op, call |-> v.call, allow |-> a] \in Command
    OBVIOUS
  <2>1. v.op \in Operations /\ v.call \in Calls
    BY DEF TypeOK, Invocation
  <2> QED
    BY <2>1 DEF Command
<1>3. ASSUME NEW op \in Operations
      PROVE  BudgetOf(op) \subseteq Command
  <2> SUFFICES ASSUME NEW b \in journal[op].budgets, NEW a \in BOOLEAN
               PROVE  [type |-> "budget", op |-> op, at |-> b, continue |-> a] \in Command
    OBVIOUS
  <2>1. b \in 1 .. HardRounds
    BY DEF TypeOK, Journal
  <2> QED
    BY <2>1 DEF Command
<1>4. Offers = Plain \cup Stop \cup Decide \cup Budget \cup Bare
  BY DEF Offers
<1> HIDE DEF Plain, Stop, Decide, BudgetOf, Bare
<1>5. Budget \subseteq Command
  BY <1>3
<1> HIDE DEF Budget
<1> QED
  BY <1>1, <1>2, <1>4, <1>5

\* The clients' side of the loop.
LEMMA ClientLoop ==
    ASSUME TypeOK, LoopInv, ClientStep
    PROVE  LoopTypes' /\ LoopInv'
<1>0. LoopTypes
  BY DEF TypeOK, LoopTypes, Points
<1>1. UNCHANGED <<pc, after, turn, deferred, active, budget, journal>>
  BY DEF ClientStep, DropController, Send, actorVars, storeVars
<1>2. LoopInv' /\ UNCHANGED <<pc, after, turn, deferred>>
  BY <1>0, <1>1, LoopSame
<1>3. CASE DropController
  BY <1>0, <1>2, <1>3 DEF DropController, LoopTypes
<1>4. ASSUME NEW c \in Offers, Send(c)
      PROVE  LoopTypes'
  <2>1. c \in Command
    BY OfferTypes
  <2>2. commands' \in Seq(Command)
    BY <1>0, <1>4, <2>1, AppendChannel DEF Send, LoopTypes
  <2>3. submitted' \in SUBSET Operations
    BY <1>0, <1>4, <2>1, CommandFields DEF Send, LoopTypes
  <2>4. sent' \in 0 .. MaxSent /\ closed' = closed
    BY <1>0, <1>4, BoundsAssumption DEF Send, LoopTypes
  <2> QED
    BY <1>0, <1>2, <2>2, <2>3, <2>4 DEF LoopTypes
<1> QED
  BY <1>2, <1>3, <1>4 DEF ClientStep

\* The handlers of the actor and its compaction, without those of a command.
LEMMA HandlerLoop ==
    ASSUME TypeOK, LoopInv,
           \/ RefreshInterrupted \/ TurnUnprepared \/ TurnPrepared \/ CompactionCommand
           \/ CompactionOrphaned \/ CompactionEnds \/ CommitTurn \/ ControllerDropped
           \/ HandleCompletion \/ HandleBrokerEvent \/ HandleRequest \/ MaintenanceTick
    PROVE  LoopTypes' /\ LoopInv'
<1>0. LoopTypes /\ active \in Operations \cup {None}
  BY DEF TypeOK, LoopTypes, Points
<1>1. ASSUME \/ pc' \in {"top", "select"} /\ (pc' = "top" => deferred' # None)
             \/ pc' = "exited" /\ active' = None,
             turn' \in {turn, None}, after' = after, UNCHANGED <<closed, sent, submitted>>,
             commands' \in Seq(Command), deferred' \in Command \cup {None}
      PROVE  LoopTypes' /\ LoopInv'
  <2>1. LoopInv'
    BY <1>1, LoopReturns
  <2> QED
    BY <1>0, <1>1, <2>1 DEF LoopTypes, Points
<1>2. commands # <<>> => Head(commands) \in Command /\ Tail(commands) \in Seq(Command)
  BY <1>0, TailChannel DEF LoopTypes
<1>3. ASSUME NEW to, Returns(to, deferred')
      PROVE  pc' \in {"top", "select"} /\ (pc' = "top" => deferred' # None)
  BY <1>3 DEF Returns
<1>4. CASE RefreshInterrupted
  <2>1. [type |-> "shutdown"] \in Command
    BY DEF Command
  <2>2. /\ turn' = None /\ after' = after /\ UNCHANGED <<closed, sent, submitted>>
        /\ Returns(after, deferred')
    BY <1>4 DEF RefreshInterrupted
  <2>3. commands' \in Seq(Command) /\ deferred' \in Command
    <3>1. CASE commands # <<>> /\ deferred' = Head(commands) /\ commands' = Tail(commands)
      BY <1>2, <3>1
    <3>2. CASE deferred' = [type |-> "shutdown"] /\ UNCHANGED commands
      BY <1>0, <2>1, <3>2 DEF LoopTypes
    <3> QED
      BY <1>4, <3>1, <3>2 DEF RefreshInterrupted
  <2> QED
    BY <1>1, <1>3, <2>2, <2>3
<1>5. CASE TurnUnprepared \/ CommitTurn
  <2>1. /\ turn' = None /\ after' = after /\ UNCHANGED <<commands, closed, sent, submitted, deferred>>
        /\ Returns(after, deferred')
    BY <1>5 DEF TurnUnprepared, CommitTurn, clientVars
  <2> QED
    BY <1>0, <1>1, <1>3, <2>1 DEF LoopTypes
<1>6. ASSUME UNCHANGED <<after, deferred, turn, active, budget, journal, closed, sent, submitted>>,
             commands' \in Seq(Command),
             \/ pc = "refresh" /\ pc' \in {"commit", "compact"}
             \/ pc = "compact" /\ ~turn.manual /\ pc' = "commit"
             \/ pc = "compact" /\ pc' = "compact"
      PROVE  LoopTypes' /\ LoopInv'
  <2>1. Unfinished' = Unfinished
    BY <1>6 DEF Unfinished
  <2>2. LoopInv'
    BY <1>6, <2>1 DEF LoopInv
  <2> QED
    BY <1>0, <1>6, <2>2 DEF LoopTypes, Points
<1>7. CASE TurnPrepared
  BY <1>0, <1>6, <1>7 DEF TurnPrepared, clientVars, storeVars, LoopTypes
<1>8. CASE CompactionCommand
  <2>1. /\ pc = "compact" /\ commands # <<>> /\ commands' = Tail(commands)
        /\ UNCHANGED <<closed, sent, submitted, after, deferred, budget>>
    BY <1>8 DEF CompactionCommand
  <2>2. commands' \in Seq(Command) /\ deferred' \in Command \cup {None}
    BY <1>0, <1>2, <2>1 DEF LoopTypes
  <2>3. CASE pc' = "exited" /\ turn' = None /\ active' = None
    BY <1>1, <2>1, <2>2, <2>3
  <2>4. CASE turn' = None /\ Returns(after, deferred)
    <3>1. Returns(after, deferred')
      BY <2>1, <2>4
    <3> QED
      BY <1>1, <1>3, <2>1, <2>2, <2>4, <3>1
  <2>5. CASE UNCHANGED <<pc, turn, active, journal>>
    BY <1>6, <2>1, <2>2, <2>5
  <2> QED
    BY <1>8, <2>3, <2>4, <2>5 DEF CompactionCommand
<1>9. CASE CompactionOrphaned
  <2>1. active = None
    BY <1>9 DEF CompactionOrphaned, LoopInv
  <2> QED
    BY <1>0, <1>1, <1>9, <2>1 DEF CompactionOrphaned, clientVars, LoopTypes
<1>10. CASE CompactionEnds
  <2>1. UNCHANGED <<after, deferred, active, budget, journal, commands, closed, sent, submitted>>
        /\ pc = "compact"
    BY <1>10 DEF CompactionEnds, clientVars, storeVars
  <2>2. CASE turn' = None /\ Returns(after, deferred)
    <3>1. Returns(after, deferred')
      BY <2>1, <2>2
    <3> QED
      BY <1>0, <1>1, <1>3, <2>1, <2>2, <3>1 DEF LoopTypes
  <2>3. CASE ~turn.manual /\ pc' = "commit" /\ UNCHANGED turn
    BY <1>0, <1>6, <2>1, <2>3 DEF LoopTypes
  <2> QED
    BY <1>10, <2>2, <2>3 DEF CompactionEnds
<1>11. CASE ControllerDropped
  BY <1>0, <1>1, <1>11 DEF ControllerDropped, InterruptActive, clientVars, LoopTypes
<1>12. CASE HandleCompletion \/ HandleBrokerEvent \/ HandleRequest
  <2>1. /\ UNCHANGED <<turn, after, deferred, commands, closed, sent, submitted>>
        /\ Returns("top", deferred')
    BY <1>12 DEF HandleCompletion, HandleBrokerEvent, HandleRequest, clientVars, Resumes
  <2> QED
    BY <1>0, <1>1, <1>3, <2>1 DEF LoopTypes
<1>13. CASE MaintenanceTick
  BY <1>0, <1>1, <1>13 DEF MaintenanceTick, clientVars, LoopTypes
<1> QED
  BY <1>4, <1>5, <1>7, <1>8, <1>9, <1>10, <1>11, <1>12, <1>13

\* The handlers of the commands.
LEMMA CommandLoop ==
    ASSUME TypeOK, LoopInv,
           \/ SubmitTurn \/ CompactConversation \/ ClearConversation \/ InterruptOperation
           \/ DecidePermission \/ DecideRoundBudget \/ Shutdown
    PROVE  LoopTypes' /\ LoopInv'
<1>1. ASSUME NEW type, Take(type), Rejected PROVE LoopTypes' /\ LoopInv'
  BY <1>1, LoopTakes DEF Rejected
<1>2. ASSUME NEW type, Take(type), Returns(CallerOf, deferred'), UNCHANGED <<after, turn>>
      PROVE  LoopTypes' /\ LoopInv'
  BY <1>2, LoopTakes
<1>3. CASE SubmitTurn
  <2>1. Take("submit")
    BY <1>3 DEF SubmitTurn
  <2>2. CASE RefusesTurn
    BY <1>1, <1>3, <2>1, <2>2 DEF SubmitTurn
  <2>3. CASE ~RefusesTurn
    <3>1. active = None /\ budget = None /\ Unfinished = {}
      BY <2>3 DEF RefusesTurn
    <3>2. /\ pc' = "refresh" /\ after' = CallerOf
          /\ turn' = [op |-> NextCommand.op, manual |-> FALSE]
          /\ UNCHANGED <<active, budget, journal>>
      BY <1>3, <2>3 DEF SubmitTurn, storeVars
    <3> QED
      BY <2>1, <3>1, <3>2, LoopBegins
  <2> QED
    BY <2>2, <2>3
<1>4. CASE CompactConversation
  <2>1. Take("compact")
    BY <1>4 DEF CompactConversation
  <2>2. CASE active # None \/ budget # None
    BY <1>1, <1>4, <2>1, <2>2 DEF CompactConversation
  <2>3. CASE active = None /\ budget = None
    <3>1. /\ pc' = "compact" /\ after' = CallerOf
          /\ turn' = [op |-> NextCommand.op, manual |-> TRUE]
          /\ UNCHANGED <<active, budget, journal>>
      BY <1>4, <2>3 DEF CompactConversation, storeVars
    <3> QED
      BY <2>1, <2>3, <3>1, LoopBegins
  <2> QED
    BY <2>2, <2>3
<1>5. CASE ClearConversation
  BY <1>2, <1>5 DEF ClearConversation
<1>6. CASE InterruptOperation
  BY <1>1, <1>2, <1>6 DEF InterruptOperation
<1>7. CASE DecidePermission
  BY <1>1, <1>2, <1>7 DEF DecidePermission
<1>8. CASE DecideRoundBudget
  BY <1>1, <1>2, <1>8 DEF DecideRoundBudget
<1>9. CASE Shutdown
  BY <1>9, LoopTakes DEF Shutdown, InterruptActive
<1> QED
  BY <1>3, <1>4, <1>5, <1>6, <1>7, <1>8, <1>9

\* Every step preserves what the invariant says of the loop.
LEMMA LoopStep ==
    ASSUME TypeOK, LoopInv, Next
    PROVE  LoopTypes' /\ LoopInv'
<1>1. CASE BrokerStep \/ \E op \in Operations : TaskStep(op)
  <2>1. UNCHANGED <<commands, closed, sent, submitted, pc, after, turn, deferred, active, budget,
                    journal>>
    <3>1. CASE BrokerStep
      BY <3>1 DEF BrokerStep, Authorize, CancelRequest, DenyAllPending, brokerFrame, clientVars,
                  actorVars, storeVars
    <3>2. ASSUME NEW op \in Operations, TaskStep(op)
          PROVE  UNCHANGED taskFrame
      BY <3>2 DEF TaskStep, ModelFinal, ModelRequestsTools, ModelFails, StartStep, PlanCall, AuditCall,
                  IntendCall, PerformEffect, StoreOutputFails, RecordResult, CommitResult, RoundEnds,
                  NextCall, ProgressStops, TrancheFails, Requests, Completes
    <3> QED
      BY <1>1, <3>1, <3>2 DEF taskFrame, clientVars, actorVars
  <2>2. LoopTypes
    BY DEF TypeOK, LoopTypes, Points
  <2>3. LoopInv'
    BY <2>1, <2>2, LoopSame
  <2> QED
    BY <2>1, <2>2, <2>3 DEF LoopTypes
<1> QED
  BY <1>1, ClientLoop, HandlerLoop, CommandLoop DEF Next, ActorStep

\* What clients are shown.
LEMMA ShownViews ==
    ASSUME view \in View
    PROVE  /\ \A op \in Operations \cup {None} : Shows(op) \in View
           /\ ShowsIdle \in View
           /\ \A S \in SUBSET Invocation : [view EXCEPT !.approvals = @ \cup S] \in View
           /\ \A S : [view EXCEPT !.approvals = @ \ S] \in View
           /\ [active |-> None, approvals |-> {}] \in View
BY DEF Shows, ShowsIdle, View

\* An append counts its failure.
LEMMA StoredFaults ==
    ASSUME faults \in 0 .. MaxFaults, NEW valid, NEW ok, Stored(valid, ok)
    PROVE  faults' \in 0 .. MaxFaults
BY BoundsAssumption DEF Stored

\* Every step keeps the count of failures and the view well typed.
LEMMA StoreStep ==
    ASSUME RuntimeInv, Next
    PROVE  StoreTypes'
<1>0. TypeOK /\ ChannelTypes /\ RunTypes /\ LoopInv /\ StoreTypes
  BY RuntimeParts DEF RuntimeInv, TypeOK, StoreTypes, View
<1>1. faults \in 0 .. MaxFaults /\ view \in View /\ active \in Operations \cup {None}
  BY <1>0 DEF StoreTypes, RunTypes
<1>2. ASSUME UNCHANGED <<faults, view>> PROVE StoreTypes'
  BY <1>1, <1>2 DEF StoreTypes
<1>3. ASSUME NEW valid, NEW ok, Stored(valid, ok),
             \/ view' = view \/ view' = ShowsIdle \/ (\E op \in Operations : view' = Shows(op))
             \/ view' = [active |-> None, approvals |-> {}]
             \/ \E S : view' = [view EXCEPT !.approvals = @ \ S]
      PROVE  StoreTypes'
  <2>1. view' \in View
    BY <1>1, <1>3, ShownViews
  <2>2. faults' \in 0 .. MaxFaults
    BY <1>1, <1>3, StoredFaults
  <2> QED
    BY <2>1, <2>2 DEF StoreTypes
<1>4. ASSUME Rejected PROVE StoreTypes'
  BY <1>2, <1>4 DEF Rejected, storeVars
<1>5. ASSUME NEW extra, InterruptActive(extra) PROVE StoreTypes'
  <2>1. CASE active = None
    BY <1>2, <1>5, <2>1 DEF InterruptActive
  <2>2. CASE active # None
    <3>1. PICK ok \in BOOLEAN : Stored(CanMoveTo(active, "suspended"), ok)
      BY <1>5, <2>2 DEF InterruptActive
    <3>2. view' = Shows(active) /\ active \in Operations
      BY <1>1, <1>5, <2>2 DEF InterruptActive
    <3> QED
      BY <1>3, <3>1, <3>2
  <2> QED
    BY <2>1, <2>2
<1>6. CASE SubmitTurn \/ RefreshInterrupted \/ TurnUnprepared \/ TurnPrepared
           \/ CompactConversation \/ CompactionCommand \/ CompactionOrphaned
           \/ CompactionEnds \/ DecidePermission \/ MaintenanceTick
  BY <1>2, <1>4, <1>6
     DEF SubmitTurn, RefreshInterrupted, TurnUnprepared, TurnPrepared, CompactConversation,
         CompactionCommand, CompactionOrphaned, CompactionEnds, DecidePermission,
         MaintenanceTick, storeVars
<1>7. CASE InterruptOperation \/ Shutdown \/ ControllerDropped
  BY <1>4, <1>5, <1>7 DEF InterruptOperation, Shutdown, ControllerDropped
<1>8. CASE CommitTurn
  <2>1. turn.op \in Operations
    BY <1>0, <1>8 DEF CommitTurn, LoopInv
  <2>2. PICK ok \in BOOLEAN : /\ Stored(CanMoveTo(turn.op, "running"), ok)
                              /\ view' = view \/ view' = Shows(turn.op)
    BY <1>8 DEF CommitTurn
  <2> QED
    BY <1>3, <2>1, <2>2
<1>9. CASE ClearConversation
  <2>1. PICK ok \in BOOLEAN :
           /\ Stored(active = None /\ budget = None, ok)
           /\ view' = view \/ view' = [active |-> None, approvals |-> {}]
    BY <1>9 DEF ClearConversation
  <2> QED
    BY <1>3, <2>1
<1>10. CASE DecideRoundBudget
  <2>1. CASE Rejected
    BY <1>4, <2>1
  <2>2. CASE CommitDecision(NextCommand)
    <3>1. NextCommand \in Command /\ NextCommand.type = "budget"
      BY <1>0, <1>10, TakenCommand DEF DecideRoundBudget
    <3>2. NextCommand.op \in Operations
      BY <3>1, CommandFields
    <3>3. \E ok \in BOOLEAN : \E valid :
             /\ Stored(valid, ok)
             /\ view' = view \/ view' = ShowsIdle \/ view' = Shows(NextCommand.op)
      BY <2>2 DEF CommitDecision
    <3> QED
      BY <1>3, <3>2, <3>3
  <2> QED
    BY <1>10, <2>1, <2>2 DEF DecideRoundBudget
<1>11. ASSUME NEW op \in Operations, FinishOperation(op) PROVE StoreTypes'
  <2>1. PICK ok \in BOOLEAN : Stored(CanMoveTo(op, "finished"), ok) /\ view' = ShowsIdle
    BY <1>11 DEF FinishOperation
  <2> QED
    BY <1>3, <2>1
<1>12. CASE HandleCompletion
  <2> DEFINE op == Head(completions).op
  <2>1. op \in Operations /\ Head(completions).result \in {"completed", "rounds", "failed"}
    <3>1. completions # <<>> /\ completions \in Seq(Completion)
      BY <1>0, <1>12 DEF HandleCompletion, CompletionReady, ChannelTypes
    <3>2. Head(completions) = completions[1] /\ 1 \in DOMAIN completions
      BY <3>1, TailChannel
    <3> QED
      BY <1>0, <3>2, ChannelMessages
  <2> HIDE DEF op
  <2>2. \/ UNCHANGED <<faults, view>>
        \/ FinishOperation(op)
        \/ \E ok \in BOOLEAN : /\ Stored(CanMoveTo(op, "suspended"), ok)
                               /\ view' = ShowsIdle \/ view' = Shows(op)
    <3>1. CASE op # active
      BY <1>12, <3>1 DEF HandleCompletion, storeVars, op
    <3>2. CASE op = active
      <4>1. CASE Head(completions).result = "completed"
        BY <1>12, <3>2, <4>1, Zenon DEF HandleCompletion, op
      <4>2. CASE Head(completions).result = "rounds"
        <5>1. \E ok \in BOOLEAN : /\ Stored(CanMoveTo(op, "suspended"), ok)
                                  /\ IF ok THEN view' = Shows(op) ELSE view' = ShowsIdle
          BY <1>12, <3>2, <4>2, Zenon DEF HandleCompletion, op
        <5> QED
          BY <5>1
      <4>3. CASE Head(completions).result = "failed"
        <5>1. \/ FinishOperation(op)
              \/ \E ok \in BOOLEAN : /\ Stored(CanMoveTo(op, "suspended"), ok)
                                     /\ view' = IF ok THEN Shows(op) ELSE ShowsIdle
          BY <1>12, <3>2, <4>3, Zenon DEF HandleCompletion, op
        <5> QED
          BY <5>1
      <4> QED
        BY <2>1, <4>1, <4>2, <4>3
    <3> QED
      BY <3>1, <3>2
  <2> QED
    BY <1>2, <1>3, <1>11, <2>1, <2>2
<1>13. CASE HandleBrokerEvent
  <2> DEFINE e == Head(brokerEvents)
  <2>1. e.op \in Operations /\ (e.kind = "requested" => e.call \in Calls)
    <3>1. brokerEvents # <<>> /\ brokerEvents \in Seq(BrokerEvent)
      BY <1>0, <1>13 DEF HandleBrokerEvent, ChannelTypes
    <3>2. e = brokerEvents[1] /\ 1 \in DOMAIN brokerEvents
      BY <3>1, TailChannel
    <3> HIDE DEF e
    <3> QED
      BY <1>0, <3>2, ChannelMessages
  <2> HIDE DEF e
  <2>2. CASE e.kind = "requested"
    <3>1. {[op |-> e.op, call |-> e.call]} \in SUBSET Invocation
      BY <2>1, <2>2 DEF Invocation
    <3>2. /\ view' = [view EXCEPT !.approvals = @ \cup {[op |-> e.op, call |-> e.call]}]
          /\ faults' = faults
      BY <1>13, <2>2 DEF HandleBrokerEvent, storeVars, e
    <3>3. view' \in View
      BY <1>1, <3>1, <3>2, ShownViews
    <3> QED
      BY <1>1, <3>2, <3>3 DEF StoreTypes
  <2>3. CASE e.kind # "requested"
    <3>1. PICK ok \in BOOLEAN : /\ Stored(CanMoveTo(e.op, e.kind), ok)
                                /\ view' = ShowsIdle \/ view' = Shows(e.op)
      BY <1>13, <2>3 DEF HandleBrokerEvent, e
    <3> QED
      BY <1>3, <2>1, <3>1
  <2> QED
    BY <2>2, <2>3
<1>14. CASE HandleRequest
  <2>1. PICK ok \in BOOLEAN :
          /\ Stored(Accepts(Head(requests)), ok)
          /\ view' = view
             \/ view' = [view EXCEPT !.approvals =
                           @ \ {[op |-> Head(requests).op, call |-> Head(requests).call]}]
    BY <1>14 DEF HandleRequest
  <2> QED
    BY <1>3, <2>1
<1>15. CASE BrokerStep \/ ClientStep
  BY <1>2, <1>15 DEF BrokerStep, Authorize, CancelRequest, DenyAllPending, brokerFrame, storeVars,
                     ClientStep, DropController, Send
<1>16. ASSUME NEW op \in Operations, TaskStep(op) PROVE StoreTypes'
  <2>1. view' = view /\ (faults' = faults \/ (faults < MaxFaults /\ faults' = faults + 1))
    BY <1>16 DEF TaskStep, ModelFinal, ModelRequestsTools, ModelFails, StartStep, PlanCall, AuditCall,
                 IntendCall, PerformEffect, StoreOutputFails, RecordResult, CommitResult, RoundEnds,
                 NextCall, ProgressStops, TrancheFails, Requests, Completes, taskFrame
  <2>2. faults' \in 0 .. MaxFaults
    BY <1>1, <2>1, BoundsAssumption
  <2> QED
    BY <1>1, <2>1, <2>2 DEF StoreTypes
<1> QED
  BY <1>6, <1>7, <1>8, <1>9, <1>10, <1>12, <1>13, <1>14, <1>15, <1>16 DEF Next, ActorStep

-----------------------------------------------------------------------------
(* The invariant and its theorems.                                         *)

\* The invariant is made of its parts.
LEMMA InvariantParts ==
    ASSUME RunTypes', RunParts', LoopTypes', LoopInv', StoreTypes'
    PROVE  RuntimeInv'
<1>1. ChannelTypes'
  BY DEF RunTypes
<1>2. /\ \A i \in 1 .. Len(completions') :
            /\ completions'[i].op \in Operations
            /\ completions'[i].result \in {"completed", "rounds", "failed"}
      /\ \A i \in 1 .. Len(requests') :
            requests'[i].op \in Operations /\ requests'[i].kind \in TaskPoint
      /\ \A i \in 1 .. Len(brokerQ') :
            brokerQ'[i].type \in {"authorize", "cancel", "shutdown", "controller_lost"}
      /\ \A i \in 1 .. Len(brokerEvents') :
            /\ brokerEvents'[i].op \in Operations
            /\ brokerEvents'[i].kind \in {"suspended", "requested", "running"}
  <2>1. /\ \A m \in Completion : m.op \in Operations /\ m.result \in {"completed", "rounds", "failed"}
        /\ \A m \in BrokerEvent : m.op \in Operations /\ m.kind \in {"suspended", "running", "requested"}
        /\ \A m \in BrokerCommand : m.type \in {"authorize", "cancel", "shutdown", "controller_lost"}
        /\ \A m \in Request : m.op \in Operations /\ m.kind \in TaskPoint
    BY DEF Completion, BrokerEvent, BrokerCommand, Request, Kinds, TaskPoint
  <2> HIDE DEF Completion, BrokerEvent, BrokerCommand, Request
  <2>2. /\ completions' \in Seq(Completion) /\ brokerEvents' \in Seq(BrokerEvent)
        /\ brokerQ' \in Seq(BrokerCommand) /\ requests' \in Seq(Request)
    BY <1>1 DEF ChannelTypes
  <2>3. /\ \A i \in 1 .. Len(completions') : completions'[i] \in Completion
        /\ \A i \in 1 .. Len(brokerEvents') : brokerEvents'[i] \in BrokerEvent
        /\ \A i \in 1 .. Len(brokerQ') : brokerQ'[i] \in BrokerCommand
        /\ \A i \in 1 .. Len(requests') : requests'[i] \in Request
    BY <2>2
  <2> QED
    BY <2>1, <2>3
<1>3. TypeOK'
  BY <1>2 DEF TypeOK, RunTypes, LoopTypes, StoreTypes, Points, View, Verdicts
<1> QED
  BY <1>1, <1>3 DEF RuntimeInv, RunParts

\* The first state.
LEMMA RuntimeInit ==
    ASSUME Init
    PROVE  RuntimeInv
<1>1. TypeOK
  <2>1. /\ [state |-> "absent", steps |-> 0, audits |-> {}, intents |-> {}, results |-> {},
            budgets |-> {}, decided |-> {}] \in Journal
    BY DEF Journal
  <2>2. journal \in [Operations -> Journal]
    BY <2>1 DEF Init
  <2>3. /\ task \in [Operations -> TaskPoint] /\ call \in [Operations -> 0 .. MaxCalls]
        /\ round \in [Operations -> 0 .. SoftRounds] /\ consumed \in [Operations -> Nat]
        /\ verdict \in [Operations -> {"none", "allow", "deny"}]
        /\ faults \in 0 .. MaxFaults /\ sent \in 0 .. MaxSent
    BY BoundsAssumption, RoundsAssumption DEF Init, TaskPoint
  <2>4. \A i \in 1 .. Len(<<>>) : FALSE
    OBVIOUS
  <2>5. /\ (\A i \in 1 .. Len(completions) : FALSE) /\ (\A i \in 1 .. Len(requests) : FALSE)
        /\ (\A i \in 1 .. Len(brokerQ) : FALSE) /\ (\A i \in 1 .. Len(brokerEvents) : FALSE)
    BY <2>4 DEF Init
  <2>6. /\ commands \in Seq(Command) /\ view \in [active : Operations \cup {None}, approvals : SUBSET Invocation]
    BY DEF Init
  <2>7. /\ closed \in BOOLEAN /\ submitted \in SUBSET Operations
        /\ pc \in {"top", "select", "refresh", "compact", "commit", "exited"}
        /\ after \in {"top", "select"} /\ pending \in SUBSET Invocation /\ effects \in SUBSET Invocation
        /\ turn = None /\ deferred = None /\ active = None /\ budget = None
    BY DEF Init
  <2> QED
    BY <2>2, <2>3, <2>5, <2>6, <2>7 DEF TypeOK
<1>2. ChannelTypes
  BY DEF Init, ChannelTypes
<1>3. \A op \in Operations : /\ journal[op].state = "absent" /\ journal[op].intents = {}
                             /\ journal[op].results = {} /\ task[op] = "none"
                             /\ call[op] = 0 /\ round[op] = 0 /\ consumed[op] = 0
  BY DEF Init
<1>4. LoopInv /\ RunInv
  BY <1>3 DEF Init, LoopInv, RunInv, Unfinished, Live
<1>5. CompletionsInv /\ RequestsInv /\ PendingInv /\ AuthorizeInv /\ EventsInv
  BY DEF Init, CompletionsInv, RequestsInv, PendingInv, AuthorizeInv, EventsInv
<1>6. OpsInv
  <2>1. 0 + 0 <= HardRounds
    BY RoundsAssumption
  <2> QED
    BY <1>3, <2>1 DEF OpsInv, OpInv, OpOK, Answered
<1>7. JournalIsTruthful
  BY <1>3 DEF Init, JournalIsTruthful, EffectsHaveIntents, ResultsAreTruthful, FinishedIsReconciled
<1> QED
  BY <1>1, <1>2, <1>4, <1>5, <1>6, <1>7 DEF RuntimeInv

\* Steps outside the model.
LEMMA RuntimeStutters ==
    ASSUME RuntimeInv, UNCHANGED vars
    PROVE  RuntimeInv'
<1>1. Still /\ UNCHANGED <<pc, after, turn, deferred, commands, closed, sent, submitted, faults, view>>
  BY DEF vars, actorVars, clientVars, storeVars, Still
<1>2. RunTypes' /\ RunParts'
  BY <1>1, RuntimeParts, StillParts
<1>3. LoopTypes /\ LoopInv /\ StoreTypes
  BY DEF RuntimeInv, TypeOK, LoopTypes, Points, StoreTypes, View
<1>4. LoopInv'
  BY <1>1, <1>3, LoopSame DEF Still
<1>5. LoopTypes' /\ StoreTypes'
  BY <1>1, <1>3 DEF LoopTypes, StoreTypes
<1> QED
  BY <1>2, <1>4, <1>5, InvariantParts

\* Every state of the runtime satisfies the inductive invariant.
THEOREM RuntimeInvariant == Spec => []RuntimeInv
<1>1. Init => RuntimeInv
  BY RuntimeInit
<1>2. RuntimeInv /\ [Next]_vars => RuntimeInv'
  <2>1. ASSUME RuntimeInv, Next PROVE RuntimeInv'
    BY <2>1, PartsStep, LoopStep, StoreStep, InvariantParts DEF RuntimeInv
  <2> QED
    BY <2>1, RuntimeStutters
<1> QED
  BY <1>1, <1>2, PTL DEF Spec

\* The one run: a tranche task that can move is the active operation's and dies
\* with the runtime, the journal never has two operations open, and a completion
\* that handle_completion receives is of the run that is active.
THEOREM OneRunAtATime == Spec => []OneRun
<1>1. RuntimeInv => OneRun
  <2> SUFFICES ASSUME RuntimeInv PROVE OneRun
    OBVIOUS
  <2>0. TypeOK /\ ChannelTypes /\ LoopInv /\ RunInv /\ CompletionsInv
    BY DEF RuntimeInv
  <2>1. OneLiveTask
    <3> SUFFICES ASSUME NEW op \in Operations, Live(op) PROVE active = op /\ pc # "exited"
      BY DEF OneLiveTask
    <3> QED
      BY <2>0, NoneAssumption DEF RunInv, LoopInv
  <2>2. OneUnfinishedOperation
    <3>1. CASE Unfinished = {}
      BY <3>1, FS_EmptySet DEF OneUnfinishedOperation
    <3>2. CASE Unfinished # {}
      <4>1. PICK op : op \in Unfinished
        BY <3>2
      <4>2. Unfinished = {op}
        BY <2>0, <4>1 DEF RunInv
      <4> QED
        <5>1. Cardinality({op}) = 1
          BY FS_Singleton
        <5> QED
          BY <4>2, <5>1 DEF OneUnfinishedOperation
    <3> QED
      BY <3>1, <3>2
  <2>3. CompletionsMatch
    <3> SUFFICES ASSUME active # None, completions # <<>>
                 PROVE  Head(completions).op = active
      BY DEF CompletionsMatch, CompletionReady
    <3>1. Head(completions) = completions[1] /\ 1 \in DOMAIN completions
      BY <2>0, TailChannel DEF ChannelTypes
    <3> QED
      BY <2>0, <3>1 DEF CompletionsInv
  <2> QED
    BY <2>0, <2>1, <2>2, <2>3 DEF OneRun
<1> QED
  BY <1>1, RuntimeInvariant, PTL

\* The journal that invoke_tool and the durable commits leave: every dispatched
\* effect had its allowing audit and its intent, a result tells what happened,
\* and no operation is closed with an effect of unknown outcome.
THEOREM TruthfulJournal == Spec => []JournalIsTruthful
<1>1. RuntimeInv => JournalIsTruthful
  BY DEF RuntimeInv
<1> QED
  BY <1>1, RuntimeInvariant, PTL

\* A request waits at the broker only for a task that waits for it, or its
\* cancellation or a shutdown is queued.
THEOREM OwnedRequests == Spec => []PendingIsOwned
<1>1. RuntimeInv => PendingIsOwned
  <2> SUFFICES ASSUME RuntimeInv, NEW k \in pending
               PROVE  \/ task[k.op] = "ask" /\ call[k.op] = k.call
                      \/ \E i \in 1 .. Len(brokerQ) :
                            \/ brokerQ[i] = [type |-> "cancel", op |-> k.op, call |-> k.call]
                            \/ brokerQ[i].type \in {"shutdown", "controller_lost"}
    BY DEF PendingIsOwned
  <2>1. Asks(k) \/ \E i \in DOMAIN brokerQ : Stops(brokerQ[i], k)
    BY DEF RuntimeInv, PendingInv
  <2>2. DOMAIN brokerQ = 1 .. Len(brokerQ)
    BY DEF RuntimeInv, ChannelTypes
  <2> QED
    BY <2>1, <2>2 DEF Asks, Stops
<1> QED
  BY <1>1, RuntimeInvariant, PTL

\* Continuations never take an operation over the hard ceiling of rounds.
THEOREM CeilingHolds == Spec => []RoundsWithinCeiling
<1>1. RuntimeInv => RoundsWithinCeiling
  BY DEF RuntimeInv, OpsInv, OpInv, OpOK, RoundsWithinCeiling
<1> QED
  BY <1>1, RuntimeInvariant, PTL
=============================================================================
