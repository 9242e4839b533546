----------------------- MODULE ChildSupervisorProofs -----------------------
(***************************************************************************)
(* Proofs about the child supervisor, for any number of children, plans,   *)
(* callers, failed appends and crashes, and any limits.                    *)
(***************************************************************************)
EXTENDS ChildSupervisor, FiniteSetTheorems, SequenceTheorems, TLAPS

-----------------------------------------------------------------------------
(* The inductive invariant.                                                *)

Open == {"admitted", "queued", "running"}

\* The points at which the actor awaits the acknowledgement of a record.
Awaits == {"admit", "queue", "plan", "batch", "run", "evidence", "report", "interrupt"}

\* Ids are drawn one after another, within max_descendants, and a plan's
\* children carry the id of a plan that was started.
SessionInv ==
    /\ Drawn = 1 .. Cardinality(Drawn)
    /\ Cardinality(Drawn) <= MaxDescendants
    /\ \A c \in Children :
         /\ durable[c] = "none" => planOf[c] = None
         /\ planOf[c] \in plans \cup {None}
    /\ PlanAdmittedOnce

\* What the memory says of a child agrees with its tasks and the session.
ChildrenInv ==
    \A c \in Children :
        /\ durable[c] = "none" => child[c] = Absent
        /\ child[c].task # "none" => child[c].reserved
        /\ child[c].reserved => child[c].life = "running" /\ child[c].report = None
        /\ child[c].task = "live" => durable[c] = "running"
        /\ child[c].report # None =>
             /\ child[c].life = child[c].report
             /\ \/ durable[c] = child[c].report
                \/ durable[c] \in Open /\ child[c].report = "interrupted"

\* The ledger's slots are the reservations that children hold.
Reserved == {c \in Children : child[c].reserved}
SlotsInv ==
    /\ ledger.running = Cardinality(Reserved)
    /\ ledger.running <= MaxConcurrency
    /\ pc.at \in {"run", "evidence"} => ledger.running < MaxConcurrency

\* A reservation that has no durable child yet belongs to the admission that
\* the actor awaits.
Unsettled == IF pc.at \in {"admit", "batch"} /\ reply # "ok" THEN Cardinality(pc.cs) ELSE 0
BudgetInv ==
    pc.at # "down" => /\ ledger.admitted = Cardinality(Drawn) + Unsettled
                      /\ ledger.admitted <= MaxDescendants

\* What the actor relies on at the point it has reached.
AdmissionInv ==
    /\ pc.at \in {"admit", "plan", "batch"} =>
         \E b \in 0 .. MaxChildren : pc.cs = b + 1 .. b + Cardinality(pc.cs)
    /\ (pc.at \in {"admit", "batch"} /\ reply # "ok") \/ pc.at = "plan" =>
         pc.cs = Cardinality(Drawn) + 1 .. Cardinality(Drawn) + Cardinality(pc.cs)
    /\ pc.at \in {"admit", "batch"} =>
         \A c \in pc.cs : child[c] = Absent /\ (reply = "ok" => durable[c] # "none")
    /\ pc.at = "queue" =>
         \A c \in pc.cs : child[c] = Admitted("admitted")
    /\ pc.at \in {"admit", "queue", "run", "evidence"} => \E c \in Children : pc.cs = {c}
PlanInv ==
    /\ pc.at = "plan" => pc.plan \in Plans /\ Cardinality(pc.cs) = PlanSize
    /\ pc.at = "batch" /\ pc.plan # None => Cardinality(pc.cs) = PlanSize
    /\ (pc.at = "plan" /\ reply = "ok") \/ (pc.at = "batch" /\ reply # "ok" /\ pc.plan # None) =>
         \A c \in Children : planOf[c] # pc.plan
StartInv ==
    /\ pc.at \in {"run", "evidence"} =>
         \A c \in pc.cs : child[c].life = "queued" /\ ~child[c].error
    /\ (pc.at = "run" /\ reply = "ok") \/ pc.at = "evidence" =>
         \A c \in pc.cs : durable[c] = "running"
ReportInv ==
    /\ pc.at \in {"report", "interrupt"} =>
         /\ pc.c \in Children /\ child[pc.c].report = None /\ child[pc.c].task # "live"
         /\ durable[pc.c] # "none"
    /\ pc.at = "report" =>
         /\ pc.status \in Terminal
         /\ pc.then \in {"schedule", "expire", "stopping", "draining"}
         /\ reply = "ok" => durable[pc.c] = pc.status
    /\ pc.at = "interrupt" /\ reply = "ok" => durable[pc.c] = "interrupted"
    /\ pc.at \in {"interrupting", "interrupt"} =>
         \A c \in pc.cs : c # pc.c /\ child[c].report = None /\ durable[c] # "none"

\* The record that the actor awaits.
Expected(rec) ==
    \/ pc.at = "admit" /\ \E c \in pc.cs : rec = [kind |-> "life", c |-> c, to |-> "admitted"]
    \/ pc.at = "queue" /\ \E c \in pc.cs : rec = [kind |-> "life", c |-> c, to |-> "queued"]
    \/ pc.at = "run" /\ \E c \in pc.cs : rec = [kind |-> "life", c |-> c, to |-> "running"]
    \/ pc.at = "evidence" /\ \E c \in pc.cs : rec = [kind |-> "evidence", c |-> c]
    \/ pc.at = "plan" /\ rec = [kind |-> "plan", plan |-> pc.plan]
    \/ pc.at = "batch" /\ rec = [kind |-> "batch", cs |-> pc.cs, plan |-> pc.plan]
    \/ pc.at = "report" /\ rec = [kind |-> "report", c |-> pc.c, status |-> pc.status]
    \/ pc.at = "interrupt" /\ rec = [kind |-> "report", c |-> pc.c, status |-> "interrupted"]

\* A report in the channel is about a child that no longer runs and whose
\* callers were told nothing that the report could contradict.
Harmless(rec) ==
    rec.kind = "report" =>
        /\ child[rec.c].task # "live" /\ durable[rec.c] # "none"
        /\ child[rec.c].report = None \/ durable[rec.c] \in Terminal

\* Only the last record of the channel may still be awaited; one whose wait
\* was dropped is a report of a child that is being interrupted.
ChannelInv ==
    /\ \A i \in DOMAIN commitQ :
         /\ commitQ[i].live => i = Len(commitQ) /\ reply = None /\ Expected(commitQ[i].rec)
         /\ ~commitQ[i].live =>
              pc.at \in {"interrupting", "interrupt"} /\ commitQ[i].rec.kind = "report"
         /\ Harmless(commitQ[i].rec)
    /\ pc.at \notin Awaits => reply = None

\* A completion is of a child that has run, and runs no longer.
CompletionsInv ==
    \A i \in DOMAIN completions :
        LET c == completions[i].c
        IN child[c].task # "live" /\ child[c].life \notin {"none", "admitted", "queued"}

DownInv ==
    pc.at = "down" =>
        /\ child = [c \in Children |-> Absent] /\ ledger = [admitted |-> 0, running |-> 0]
        /\ completions = <<>> /\ commitQ = <<>>

StageInv == AdmissionInv /\ PlanInv /\ StartInv /\ ReportInv

SupervisorInv ==
    /\ TypeOK /\ SessionInv /\ ChildrenInv /\ SlotsInv /\ BudgetInv /\ StageInv
    /\ ChannelInv /\ CompletionsInv /\ DownInv

-----------------------------------------------------------------------------
(* Sets of children, and the order of ids.                                 *)

\* A set of children is finite.
LEMMA FiniteChildren ==
    ASSUME NEW S \in SUBSET Children
    PROVE  IsFiniteSet(S) /\ Cardinality(S) \in Nat
<1>1. IsFiniteSet(Children)
  BY ChildrenAssumption, FS_Interval DEF Children
<1> QED
  BY <1>1, FS_Subset, FS_CardinalityType

\* The number of ids in an interval.
LEMMA IntervalSize ==
    ASSUME NEW a \in Nat, NEW k \in Nat
    PROVE  IsFiniteSet(a + 1 .. a + k) /\ Cardinality(a + 1 .. a + k) = k
<1>1. a + 1 \in Int /\ a + k \in Int
  OBVIOUS
<1>2. /\ IsFiniteSet(a + 1 .. a + k)
      /\ Cardinality(a + 1 .. a + k) = IF a + 1 > a + k THEN 0 ELSE (a + k) - (a + 1) + 1
  BY <1>1, FS_Interval
<1> QED
  BY <1>2

\* A nonempty set of natural numbers has a least one.
LEMMA LeastNatural ==
    ASSUME NEW S \in SUBSET Nat, S # {}
    PROVE  \E m \in S : \A k \in S : m =< k
<1> DEFINE R == OpToRel(<, Nat)
<1>1. IsWellFoundedOn(R, Nat)
  BY NatLessThanWellFounded
<1>2. \A a, b \in Nat : <<a, b>> \in R <=> a < b
  BY DEF OpToRel
<1> HIDE DEF R
<1>3. PICK m \in S : \A k \in S : ~(<<k, m>> \in R)
  BY <1>1, WFMin
<1>4. \A k \in S : k \in Nat
  OBVIOUS
<1>5. \A k \in S : ~(k < m)
  BY <1>2, <1>3, <1>4, Zenon
<1> QED
  BY <1>4, <1>5

\* The loops over children take one of the children in hand.
LEMMA LeastChild ==
    ASSUME NEW S \in SUBSET Children, S # {}
    PROVE  Min(S) \in S /\ \A c \in S : Min(S) <= c
<1>1. S \in SUBSET Nat
  BY ChildrenAssumption DEF Children
<1>2. \E m \in S : \A k \in S : m =< k
  BY <1>1, LeastNatural
<1> QED
  BY <1>2 DEF Min

\* The ids of a full batch follow the ids in use.
LEMMA FreshIds ==
    ASSUME TypeOK, NEW k \in Nat, Cardinality(Fresh(k)) = k
    PROVE  Fresh(k) = Cardinality(Drawn) + 1 .. Cardinality(Drawn) + k
<1> DEFINE n == Cardinality(Drawn)
<1>1. Drawn \in SUBSET Children
  BY DEF Drawn
<1>2. n \in Nat
  BY <1>1, FiniteChildren
<1> HIDE DEF n
<1>3. IsFiniteSet(n + 1 .. n + k) /\ Cardinality(n + 1 .. n + k) = k
  BY <1>2, IntervalSize
<1>4. Fresh(k) \in SUBSET (n + 1 .. n + k)
  BY DEF Fresh, n
<1> QED
  BY <1>3, <1>4, FS_Subset DEF n

\* A batch joins the queue as a sequence of its children.
LEMMA InOrderType ==
    ASSUME NEW cs \in SUBSET Children,
           NEW b \in 0 .. MaxChildren, cs = b + 1 .. b + Cardinality(cs)
    PROVE  InOrder(cs) \in Seq(Children)
<1>1. Cardinality(cs) \in Nat /\ b \in Nat
  BY FiniteChildren, ChildrenAssumption
<1>2. CASE cs = {}
  <2>1. Cardinality(cs) = 0
    BY <1>2, FS_EmptySet
  <2> QED
    BY <2>1 DEF InOrder
<1>3. CASE cs # {}
  <2>1. Min(cs) \in cs /\ \A c \in cs : Min(cs) <= c
    BY <1>3, LeastChild
  <2>2. Cardinality(cs) >= 1
    BY <1>1, <1>3
  <2>3. b + 1 \in cs
    BY <1>1, <2>2
  <2>4. Min(cs) = b + 1
    BY <1>1, <2>1, <2>3
  <2>5. \A i \in 1 .. Cardinality(cs) : Min(cs) + (i - 1) \in cs
    BY <1>1, <2>4
  <2> QED
    BY <1>1, <2>5 DEF InOrder
<1> QED
  BY <1>2, <1>3

-----------------------------------------------------------------------------
(* Channels.                                                               *)

\* Putting a message at the end of a channel.
LEMMA AppendChannel ==
    ASSUME NEW S, NEW q \in Seq(S), NEW m \in S
    PROVE  /\ Append(q, m) \in Seq(S)
           /\ Len(Append(q, m)) = Len(q) + 1
           /\ DOMAIN Append(q, m) = DOMAIN q \cup {Len(q) + 1}
           /\ \A i \in DOMAIN q : Append(q, m)[i] = q[i]
           /\ Append(q, m)[Len(q) + 1] = m
           /\ Len(q) + 1 \notin DOMAIN q
OBVIOUS

\* Taking the message at the head of a channel.
LEMMA TailChannel ==
    ASSUME NEW S, NEW q \in Seq(S), q # <<>>
    PROVE  /\ Tail(q) \in Seq(S) /\ Head(q) \in S /\ Head(q) = q[1]
           /\ 1 \in DOMAIN q
           /\ Len(Tail(q)) = Len(q) - 1
           /\ \A i \in DOMAIN Tail(q) :
                i + 1 \in DOMAIN q /\ Tail(q)[i] = q[i + 1] /\ i + 1 # 1
OBVIOUS

-----------------------------------------------------------------------------
(* Types.                                                                  *)

PointSet ==
    [at : Labels, cs : SUBSET Children, plan : Plans \cup {None}, c : Children \cup {None},
     status : Terminal \cup {None}, then : Labels \cup {None}]
ChannelType ==
    /\ commitQ \in Seq([rec : Record, live : BOOLEAN]) /\ reply \in {"ok", "err", None}

\* Every point of the actor's code is well typed.
LEMMA PointType ==
    ASSUME NEW at \in Labels, NEW cs \in SUBSET Children, NEW plan \in Plans \cup {None}
    PROVE  Point(at, cs, plan) \in PointSet
BY DEF Point, PointSet

\* Sending a record keeps the channel well typed.
LEMMA SendType ==
    ASSUME ChannelType, NEW rec \in Record, SendRecord(rec)
    PROVE  ChannelType'
<1>1. [rec |-> rec, live |-> TRUE] \in [rec : Record, live : BOOLEAN]
  OBVIOUS
<1> QED
  BY <1>1, AppendChannel DEF ChannelType, SendRecord

\* What commit_terminal_report does up to its append.
LEMMA ReportType ==
    ASSUME ChannelType, NEW kids, NEW c \in Children, NEW status \in Terminal,
           NEW then \in Labels, NEW rest \in SUBSET Children,
           CommitTerminalReport(kids, c, status, then, rest)
    PROVE  pc' \in PointSet /\ ChannelType'
<1>1. CASE kids[c].report # None \/ kids[c].error
  <2>1. pc' = Point(then, rest, None) /\ UNCHANGED <<commitQ, reply>>
    BY <1>1 DEF CommitTerminalReport
  <2> QED
    BY <2>1, PointType DEF ChannelType
<1>2. CASE ~(kids[c].report # None \/ kids[c].error)
  <2>1. /\ pc' = [Point("report", rest, None) EXCEPT !.c = c, !.status = status, !.then = then]
        /\ SendRecord([kind |-> "report", c |-> c, status |-> status])
    BY <1>2 DEF CommitTerminalReport
  <2>2. [kind |-> "report", c |-> c, status |-> status] \in Record
    BY DEF Record
  <2>3. "report" \in Labels
    BY DEF Labels
  <2>4. Point("report", rest, None) \in PointSet
    BY <2>3, PointType
  <2>5. pc' \in PointSet
    BY <2>1, <2>4 DEF PointSet
  <2> QED
    BY <2>1, <2>2, <2>5, SendType
<1> QED
  BY <1>1, <1>2

\* commit_terminal_report returns at once for a child that is settled, and
\* otherwise sends the report.
LEMMA ReportOutcome ==
    ASSUME NEW kids, NEW c, NEW status, NEW then, NEW rest,
           CommitTerminalReport(kids, c, status, then, rest)
    PROVE  \/ /\ pc' = Point(then, rest, None) /\ UNCHANGED <<commitQ, reply>>
              /\ kids[c].report # None \/ kids[c].error
           \/ /\ pc' = [at |-> "report", cs |-> rest, plan |-> None, c |-> c,
                        status |-> status, then |-> then]
              /\ SendRecord([kind |-> "report", c |-> c, status |-> status])
              /\ kids[c].report = None /\ ~kids[c].error
BY DEF CommitTerminalReport, Point

\* What a record makes of the session, by its kind.
LEMMA ApplyPlan ==
    ASSUME NEW rec, Apply(rec), Accepts(rec), rec.kind = "plan"
    PROVE  /\ plans' = plans \cup {rec.plan} /\ UNCHANGED <<planOf, durable>>
           /\ rec.plan \notin plans
<1>1. durable' = durable
  BY Zenon DEF Apply
<1>2. planOf' = planOf
  BY DEF Apply
<1>3. rec.plan \notin plans
  BY Zenon DEF Accepts
<1> QED
  BY <1>1, <1>2, <1>3 DEF Apply

\* What a batch of admissions changes: its children, none of which was drawn.
LEMMA ApplyBatch ==
    ASSUME NEW rec, Apply(rec), Accepts(rec), rec.kind = "batch"
    PROVE  /\ plans' = plans
           /\ planOf' = [c \in Children |-> IF c \in rec.cs THEN rec.plan ELSE planOf[c]]
           /\ durable' = [c \in Children |-> IF c \in rec.cs THEN "queued" ELSE durable[c]]
           /\ \A c \in rec.cs : durable[c] = "none"
           /\ rec.plan \in plans \cup {None}
<1>1. durable' = [c \in Children |-> IF c \in rec.cs THEN "queued" ELSE durable[c]]
  BY Zenon DEF Apply
<1>2. /\ plans' = plans
      /\ planOf' = [c \in Children |-> IF c \in rec.cs THEN rec.plan ELSE planOf[c]]
  BY DEF Apply
<1>3. (\A c \in rec.cs : durable[c] = "none") /\ rec.plan \in plans \cup {None}
  BY Zenon DEF Accepts
<1> QED
  BY <1>1, <1>2, <1>3

\* What a change of life changes: one child moves on by one stage.
LEMMA ApplyLife ==
    ASSUME NEW rec, Apply(rec), Accepts(rec), rec.kind = "life"
    PROVE  /\ UNCHANGED <<plans, planOf>>
           /\ durable' = [durable EXCEPT ![rec.c] = rec.to]
           /\ <<durable[rec.c], rec.to>> \in
                {<<"none", "admitted">>, <<"admitted", "queued">>, <<"queued", "running">>}
<1>1. durable' = [durable EXCEPT ![rec.c] = rec.to]
  BY Zenon DEF Apply
<1>2. UNCHANGED <<plans, planOf>>
  BY DEF Apply
<1>3. <<durable[rec.c], rec.to>> \in
        {<<"none", "admitted">>, <<"admitted", "queued">>, <<"queued", "running">>}
  BY Zenon DEF Accepts
<1> QED
  BY <1>1, <1>2, <1>3

\* What a report changes: the status of a child that is still open.
LEMMA ApplyReport ==
    ASSUME NEW rec, Apply(rec), Accepts(rec), rec.kind = "report"
    PROVE  /\ UNCHANGED <<plans, planOf>>
           /\ durable' = [durable EXCEPT ![rec.c] = rec.status]
           /\ durable[rec.c] \in Open
<1>1. durable' = [durable EXCEPT ![rec.c] = rec.status]
  BY Zenon DEF Apply
<1>2. UNCHANGED <<plans, planOf>>
  BY DEF Apply
<1>3. durable[rec.c] \in {"admitted", "queued", "running"}
  BY Zenon DEF Accepts
<1> QED
  BY <1>1, <1>2, <1>3 DEF Open

\* A record of evidence changes nothing that restore reads.
LEMMA ApplyEvidence ==
    ASSUME NEW rec, Apply(rec), rec.kind = "evidence"
    PROVE  UNCHANGED sessionVars
<1>1. durable' = durable
  BY Zenon DEF Apply
<1> QED
  BY <1>1 DEF Apply, sessionVars

\* The kinds of records.
LEMMA RecordKinds ==
    ASSUME NEW rec \in Record
    PROVE  \/ rec.kind = "plan" /\ rec.plan \in Plans
           \/ /\ rec.kind = "batch" /\ rec.cs \in SUBSET Children
              /\ rec.plan \in Plans \cup {None}
           \/ rec.kind = "life" /\ rec.c \in Children /\ rec.to \in Open
           \/ rec.kind = "evidence" /\ rec.c \in Children
           \/ rec.kind = "report" /\ rec.c \in Children /\ rec.status \in Terminal
BY DEF Record, Open

SessionType ==
    /\ durable \in [Children -> Lifecycle]
    /\ planOf \in [Children -> Plans \cup {None}]
    /\ plans \subseteq Plans
MemoryType ==
    /\ child \in [Children -> ActiveChild]
    /\ ledger \in [admitted : Nat, running : Nat]
    /\ queue \in Seq(Children) /\ started \subseteq Plans
WorldType ==
    /\ completions \in Seq([c : Children, status : Terminal])
    /\ client \in [Clients -> Children \cup {None}]
    /\ told \in [Children -> SUBSET Terminal]
    /\ faults \in 0 .. MaxFaults /\ crashes \in 0 .. MaxCrashes

\* The type invariant, by the process that owns each part of the state.
LEMMA TypeParts ==
    TypeOK <=> SessionType /\ pc \in PointSet /\ ChannelType /\ MemoryType /\ WorldType
BY Zenon DEF TypeOK, SessionType, PointSet, ChannelType, MemoryType, WorldType

\* The session stays well typed under every record.
LEMMA ApplyType ==
    ASSUME SessionType, NEW rec \in Record, Apply(rec), Accepts(rec)
    PROVE  SessionType'
<1>1. CASE rec.kind = "plan" /\ rec.plan \in Plans
  BY <1>1, ApplyPlan DEF SessionType
<1>2. CASE rec.kind = "batch" /\ rec.cs \in SUBSET Children /\ rec.plan \in Plans \cup {None}
  BY <1>2, ApplyBatch DEF SessionType, Lifecycle
<1>3. CASE rec.kind = "life" /\ rec.c \in Children /\ rec.to \in Open
  BY <1>3, ApplyLife DEF SessionType, Lifecycle, Open
<1>4. CASE rec.kind = "evidence"
  BY <1>4, ApplyEvidence DEF SessionType, sessionVars
<1>5. CASE rec.kind = "report" /\ rec.c \in Children /\ rec.status \in Terminal
  BY <1>5, ApplyReport DEF SessionType, Lifecycle
<1> QED
  BY <1>1, <1>2, <1>3, <1>4, <1>5, RecordKinds

\* A cancellation, of a command or of one of the loops, is of a child.
LEMMA CancelSteps ==
    ASSUME TypeOK, CancelNext \/ \E c \in Children : Cancel(c)
    PROVE  /\ \E c \in Children, then \in {"expire", "stopping", "schedule"},
                 rest \in SUBSET Children : RequestCancellation(c, then, rest)
           /\ pc.at \in {"expire", "stopping", "idle"}
           /\ UNCHANGED <<sessionVars, ledger, queue, started, completions, worldVars>>
<1>1. CASE CancelNext
  <2>1. pc.cs \in SUBSET Children
    BY DEF TypeOK
  <2>2. Min(pc.cs) \in Children /\ pc.cs \ {Min(pc.cs)} \in SUBSET Children
    BY <1>1, <2>1, LeastChild DEF CancelNext
  <2> QED
    BY <1>1, <2>2 DEF CancelNext
<1>2. CASE \E c \in Children : Cancel(c)
  BY <1>2 DEF Cancel
<1> QED
  BY <1>1, <1>2

\* The actor stays at a point of its code, and the channel well typed.
LEMMA ActorTypeStep ==
    ASSUME TypeOK, StageInv, Next
    PROVE  pc' \in PointSet /\ ChannelType'
<1> USE TypeParts
<1>1. CASE Reported
  <2>1. pc.then \in Labels /\ pc.cs \in SUBSET Children
    BY <1>1 DEF Reported, StageInv, ReportInv, PointSet, Labels
  <2>2. pc' \in PointSet
    BY <1>1, <2>1, PointType DEF Reported
  <2> QED
    BY <1>1, <2>2 DEF Reported, ChannelType
<1>2. CASE ChildAdmitted
  <2>1. CASE reply = "ok"
    <3>1. PICK c \in pc.cs : SendRecord([kind |-> "life", c |-> c, to |-> "queued"])
      BY <1>2, <2>1 DEF ChildAdmitted
    <3>2. [kind |-> "life", c |-> c, to |-> "queued"] \in Record
      BY DEF Record, PointSet
    <3>3. pc' \in PointSet
      BY <1>2, <2>1 DEF ChildAdmitted, PointSet, Labels
    <3> QED
      BY <3>1, <3>2, <3>3, SendType
  <2>2. CASE reply = "err"
    <3>1. pc' = Point("schedule", {}, None) /\ reply' = None /\ commitQ' = commitQ
      BY <1>2, <2>2 DEF ChildAdmitted, At
    <3> QED
      BY <3>1, PointType DEF ChannelType, Labels
  <2> QED
    BY <1>2, <2>1, <2>2 DEF ChildAdmitted
<1>3. CASE ChildQueued
  <2>1. PICK c \in pc.cs :
           \/ pc' = At("schedule") /\ reply' = None /\ commitQ' = commitQ
           \/ CommitTerminalReport(child, c, "failed", "schedule", {})
    BY <1>3 DEF ChildQueued
  <2>2. c \in Children /\ "schedule" \in Labels /\ "failed" \in Terminal
    BY DEF PointSet, Labels, Terminal
  <2>3. CASE pc' = At("schedule") /\ reply' = None /\ commitQ' = commitQ
    <3>1. pc' = Point("schedule", {}, None)
      BY <2>3 DEF At
    <3> QED
      BY <2>2, <2>3, <3>1, PointType DEF ChannelType
  <2>4. CASE CommitTerminalReport(child, c, "failed", "schedule", {})
    BY <2>2, <2>4, ReportType
  <2> QED
    BY <2>1, <2>3, <2>4
<1>4. CASE PlanStarted
  <2>1. CASE reply = "ok"
    <3>1. SendRecord([kind |-> "batch", cs |-> pc.cs, plan |-> pc.plan])
      BY <1>4, <2>1 DEF PlanStarted
    <3>2. [kind |-> "batch", cs |-> pc.cs, plan |-> pc.plan] \in Record
      BY DEF Record, PointSet
    <3>3. pc' \in PointSet
      BY <1>4, <2>1 DEF PlanStarted, PointSet, Labels
    <3> QED
      BY <3>1, <3>2, <3>3, SendType
  <2>2. CASE reply = "err"
    <3>1. pc' = Point("schedule", {}, None) /\ reply' = None /\ commitQ' = commitQ
      BY <1>4, <2>2 DEF PlanStarted, At
    <3> QED
      BY <3>1, PointType DEF ChannelType, Labels
  <2> QED
    BY <1>4, <2>1, <2>2 DEF PlanStarted
<1>5. CASE BatchAdmitted
  <2>1. pc' = Point("schedule", {}, None) /\ reply' = None /\ commitQ' = commitQ
    BY <1>5 DEF BatchAdmitted, At
  <2> QED
    BY <2>1, PointType DEF ChannelType, Labels
<1>6. CASE StartQueued
  <2>1. CASE CanStart /\ queue # <<>> /\ Eligible(Head(queue))
    <3>1. /\ pc' = Point("run", {Head(queue)}, None)
          /\ SendRecord([kind |-> "life", c |-> Head(queue), to |-> "running"])
      BY <1>6, <2>1 DEF StartQueued
    <3>2. Head(queue) \in Children
      BY <2>1 DEF MemoryType
    <3>3. [kind |-> "life", c |-> Head(queue), to |-> "running"] \in Record
      BY <3>2 DEF Record
    <3>4. pc' \in PointSet
      BY <3>1, <3>2, PointType DEF Labels
    <3> QED
      BY <3>1, <3>3, <3>4, SendType
  <2>2. CASE ~(CanStart /\ queue # <<>> /\ Eligible(Head(queue)))
    <3>1. (pc' = pc \/ pc' = Point("idle", {}, None)) /\ UNCHANGED <<commitQ, reply>>
      BY <1>6, <2>2 DEF StartQueued, At
    <3> QED
      BY <3>1, PointType DEF ChannelType, Labels
  <2> QED
    BY <2>1, <2>2
<1>7. CASE ChildRunning
  <2>1. PICK c \in pc.cs :
           \/ pc' = [pc EXCEPT !.at = "evidence"] /\ SendRecord([kind |-> "evidence", c |-> c])
           \/ CommitTerminalReport(child, c, "failed", "schedule", {})
    BY <1>7 DEF ChildRunning
  <2>2. c \in Children /\ "schedule" \in Labels /\ "failed" \in Terminal
    BY DEF PointSet, Labels, Terminal
  <2>3. CASE pc' = [pc EXCEPT !.at = "evidence"] /\ SendRecord([kind |-> "evidence", c |-> c])
    <3>1. [kind |-> "evidence", c |-> c] \in Record
      BY <2>2 DEF Record
    <3>2. pc' \in PointSet
      BY <2>3 DEF PointSet, Labels
    <3> QED
      BY <2>3, <3>1, <3>2, SendType
  <2> QED
    BY <2>1, <2>2, <2>3, ReportType
<1>8. CASE EvidenceRecorded
  <2>1. PICK c \in pc.cs :
           \/ pc' = At("schedule") /\ reply' = None /\ commitQ' = commitQ
           \/ CommitTerminalReport(child, c, "failed", "schedule", {})
    BY <1>8 DEF EvidenceRecorded
  <2>2. c \in Children /\ "schedule" \in Labels /\ "failed" \in Terminal
    BY DEF PointSet, Labels, Terminal
  <2>3. CASE pc' = At("schedule") /\ reply' = None /\ commitQ' = commitQ
    <3>1. pc' = Point("schedule", {}, None)
      BY <2>3 DEF At
    <3> QED
      BY <2>2, <2>3, <3>1, PointType DEF ChannelType
  <2>4. CASE CommitTerminalReport(child, c, "failed", "schedule", {})
    BY <2>2, <2>4, ReportType
  <2> QED
    BY <2>1, <2>3, <2>4
<1>9. CASE HandleCompletion
  <2>1. Head(completions) \in [c : Children, status : Terminal]
    BY <1>9, TailChannel DEF HandleCompletion, WorldType
  <2>2. PICK then \in Labels :
           CommitTerminalReport(child, Head(completions).c, Head(completions).status, then, {})
    BY <1>9 DEF HandleCompletion, Labels
  <2> QED
    BY <2>1, <2>2, ReportType
<1>10. CASE CancelNext \/ \E c \in Children : Cancel(c)
  <2>1. PICK c \in Children, then \in Labels, rest \in SUBSET Children :
           RequestCancellation(c, then, rest)
    BY <1>10, CancelSteps DEF Labels
  <2>2. \/ CommitTerminalReport([child EXCEPT ![c].cancelled = TRUE], c, "cancelled", then, rest)
        \/ pc' = Point(then, rest, None) /\ UNCHANGED <<commitQ, reply>>
    BY <2>1 DEF RequestCancellation
  <2>3. "cancelled" \in Terminal
    BY DEF Terminal
  <2> QED
    BY <2>2, <2>3, PointType, ReportType DEF ChannelType
<1>11. CASE InterruptChild
  <2> DEFINE c == Min(pc.cs)
  <2>1. c \in pc.cs /\ pc.cs \in SUBSET Children
    BY <1>11, LeastChild DEF InterruptChild, PointSet
  <2>2. /\ pc' = [Point("interrupt", pc.cs \ {c}, None) EXCEPT !.c = c]
        /\ SendRecord([kind |-> "report", c |-> c, status |-> "interrupted"])
    BY <1>11 DEF InterruptChild
  <2> HIDE DEF c
  <2>3. [kind |-> "report", c |-> c, status |-> "interrupted"] \in Record
    BY <2>1 DEF Record, Terminal
  <2>4. Point("interrupt", pc.cs \ {c}, None) \in PointSet
    BY <2>1, PointType DEF Labels
  <2>5. pc' \in PointSet
    BY <2>1, <2>2, <2>4 DEF PointSet
  <2> QED
    BY <2>2, <2>3, <2>5, SendType
<1>12. CASE ChildInterrupted
  <2>1. pc.cs \in SUBSET Children
    BY DEF PointSet
  <2>2. pc' \in PointSet
    BY <1>12, <2>1, PointType DEF ChildInterrupted, Labels
  <2> QED
    BY <1>12, <2>2 DEF ChildInterrupted, ChannelType
<1>13. CASE \E ok \in BOOLEAN : HandleChildCommit(ok)
  <2>1. commitQ' \in Seq([rec : Record, live : BOOLEAN])
    BY <1>13, TailChannel DEF HandleChildCommit, ChannelType
  <2>2. reply' \in {"ok", "err", None}
    BY <1>13 DEF HandleChildCommit, ChannelType
  <2>3. pc' = pc
    BY <1>13 DEF HandleChildCommit
  <2> QED
    BY <2>1, <2>2, <2>3 DEF ChannelType
<1>14. CASE SpawnChild
  <2>1. PICK c \in Fresh(1) : /\ pc' = Point("admit", {c}, None)
                              /\ SendRecord([kind |-> "life", c |-> c, to |-> "admitted"])
    BY <1>14 DEF SpawnChild
  <2>2. c \in Children
    BY DEF Fresh
  <2>3. [kind |-> "life", c |-> c, to |-> "admitted"] \in Record
    BY <2>2 DEF Record
  <2>4. pc' \in PointSet
    BY <2>1, <2>2, PointType DEF Labels
  <2> QED
    BY <2>1, <2>3, <2>4, SendType
<1>15. CASE SpawnMany
  <2>1. PICK k \in 1 .. MaxFanOut :
           /\ pc' = Point("batch", Fresh(k), None)
           /\ SendRecord([kind |-> "batch", cs |-> Fresh(k), plan |-> None])
    BY <1>15 DEF SpawnMany
  <2>2. Fresh(k) \in SUBSET Children
    BY DEF Fresh
  <2>3. [kind |-> "batch", cs |-> Fresh(k), plan |-> None] \in Record
    BY <2>2 DEF Record
  <2>4. pc' \in PointSet
    BY <2>1, <2>2, PointType DEF Labels
  <2> QED
    BY <2>1, <2>3, <2>4, SendType
<1>16. CASE \E p \in Plans : StartPlan(p)
  <2>1. PICK p \in Plans : /\ pc' = Point("plan", Fresh(PlanSize), p)
                           /\ SendRecord([kind |-> "plan", plan |-> p])
    BY <1>16 DEF StartPlan
  <2>2. Fresh(PlanSize) \in SUBSET Children
    BY DEF Fresh
  <2>3. [kind |-> "plan", plan |-> p] \in Record
    BY DEF Record
  <2>4. pc' \in PointSet
    BY <2>1, <2>2, PointType DEF Labels
  <2> QED
    BY <2>1, <2>3, <2>4, SendType
<1>17. CASE GraceEnds
  <2>1. pc' \in PointSet
    <3>1. {c \in Children : Active(c)} \in SUBSET Children /\ "interrupting" \in Labels
      BY DEF Labels
    <3> QED
      BY <1>17, <3>1, PointType DEF GraceEnds
  <2>2. commitQ' \in Seq([rec : Record, live : BOOLEAN])
    <3> DEFINE S == [rec : Record, live : BOOLEAN]
               dropped == [i \in DOMAIN commitQ |-> [commitQ[i] EXCEPT !.live = FALSE]]
    <3>1. commitQ \in Seq(S)
      BY DEF ChannelType
    <3> HIDE DEF S
    <3>2. /\ DOMAIN commitQ = 1 .. Len(commitQ) /\ Len(commitQ) \in Nat
          /\ \A i \in DOMAIN commitQ : commitQ[i] \in S
      BY <3>1
    <3>3. \A i \in DOMAIN commitQ : [commitQ[i] EXCEPT !.live = FALSE] \in S
      BY <3>2 DEF S
    <3>4. dropped \in [1 .. Len(commitQ) -> S]
      BY <3>2, <3>3
    <3>5. dropped \in Seq(S) /\ <<>> \in Seq(S)
      BY <3>2, <3>4, SeqDef
    <3>6. commitQ' \in {dropped, <<>>}
      BY <1>17 DEF GraceEnds
    <3> QED
      BY <3>5, <3>6 DEF S
  <2> QED
    BY <1>17, <2>1, <2>2 DEF GraceEnds, ChannelType
<1>18. CASE ShutdownDone \/ Crash
  <2>1. pc' = Point("down", {}, None) /\ commitQ' = <<>> /\ reply' = None
    BY <1>18 DEF ShutdownDone, Crash, Leave, At
  <2> QED
    BY <2>1, PointType DEF ChannelType, Labels
<1>19. CASE \/ CancelDone \/ Shutdown \/ Restart
            \/ \E cs \in SUBSET Children : ExpireDeadlines(cs)
  <2>1. PICK at \in Labels, cs \in SUBSET Children : pc' = Point(at, cs, None)
    <3>1. {c \in Children : Active(c)} \in SUBSET Children /\ {} \in SUBSET Children
      OBVIOUS
    <3> QED
      BY <1>19, <3>1 DEF CancelDone, Shutdown, Restart, ExpireDeadlines, At, Labels
  <2>2. UNCHANGED channelVars
    BY <1>19 DEF CancelDone, Shutdown, Restart, ExpireDeadlines
  <2> QED
    BY <2>1, <2>2, PointType DEF ChannelType, channelVars
<1>20. CASE \/ \E w \in Clients, c \in Children : Await(w, c)
            \/ \E w \in Clients : AwaitTimesOut(w)
            \/ \E c \in Children, status \in Terminal \ {"interrupted"} : ChildEnds(c, status)
  <2>1. UNCHANGED <<pc, commitQ, reply>>
    BY <1>20 DEF Await, AwaitTimesOut, ChildEnds, channelVars
  <2> QED
    BY <2>1 DEF ChannelType
<1> QED
  BY <1>1, <1>2, <1>3, <1>4, <1>5, <1>6, <1>7, <1>8, <1>9, <1>10, <1>11, <1>12, <1>13, <1>14,
     <1>15, <1>16, <1>17, <1>18, <1>19, <1>20, Zenon DEF Next, Supervisor

-----------------------------------------------------------------------------
(* What the tail of commit_terminal_report does.                           *)

\* The child is settled, with its report or with the error, its slot is given
\* back if it holds one, and everybody who waits for it is answered.
Settles(c) ==
    /\ \E life \in Lifecycle, report \in Terminal \cup {None}, error \in BOOLEAN :
         child' = [child EXCEPT ![c] = [@ EXCEPT !.life = life, !.report = report,
                       !.error = error, !.waiters = {}, !.task = "none", !.reserved = FALSE]]
    /\ client' = [w \in Clients |-> IF w \in Waiting(c) THEN None ELSE client[w]]
    /\ Release(c)

\* settle with a status is a settlement.
LEMMA SettleSettles ==
    ASSUME TypeOK, NEW c \in Children, NEW status \in Terminal, Settle(c, status)
    PROVE  Settles(c)
<1>1. child[c] \in ActiveChild /\ status \in Lifecycle
  BY DEF TypeOK, Lifecycle
<1>2. [child[c] EXCEPT !.life = status, !.report = status, !.waiters = {},
                       !.task = "none", !.reserved = FALSE]
      = [child[c] EXCEPT !.life = status, !.report = status, !.error = child[c].error,
                       !.waiters = {}, !.task = "none", !.reserved = FALSE]
  BY <1>1 DEF ActiveChild
<1>3. child[c].error \in BOOLEAN
  BY <1>1 DEF ActiveChild
<1>4. child' = [child EXCEPT ![c] = [child[c] EXCEPT !.life = status, !.report = status,
                     !.error = child[c].error, !.waiters = {}, !.task = "none",
                     !.reserved = FALSE]]
  BY <1>2 DEF Settle
<1>5. \E life \in Lifecycle, report \in Terminal \cup {None}, error \in BOOLEAN :
         child' = [child EXCEPT ![c] = [@ EXCEPT !.life = life, !.report = report,
                       !.error = error, !.waiters = {}, !.task = "none", !.reserved = FALSE]]
  BY <1>1, <1>3, <1>4, Zenon
<1> QED
  BY <1>5 DEF Settle, Settles

\* So is a settlement with an error.
LEMMA SettleWithErrorSettles ==
    ASSUME TypeOK, NEW c \in Children, NEW life \in Lifecycle, SettleWithError(c, life)
    PROVE  Settles(c)
<1>1. child[c] \in ActiveChild
  BY DEF TypeOK
<1>2. [child[c] EXCEPT !.life = life, !.error = TRUE, !.waiters = {},
                       !.task = "none", !.reserved = FALSE]
      = [child[c] EXCEPT !.life = life, !.report = child[c].report, !.error = TRUE,
                       !.waiters = {}, !.task = "none", !.reserved = FALSE]
  BY <1>1 DEF ActiveChild
<1>3. child[c].report \in Terminal \cup {None}
  BY <1>1 DEF ActiveChild
<1> QED
  BY <1>2, <1>3 DEF SettleWithError, Settles

\* Both handlers settle the child whose report they awaited.
LEMMA ReportsSettle ==
    ASSUME TypeOK, ReportInv, Reported \/ ChildInterrupted
    PROVE  /\ pc.c \in Children /\ Settles(pc.c)
           /\ UNCHANGED <<sessionVars, queue, started, completions, commitQ, faults, crashes>>
<1>1. pc.c \in Children
  BY DEF ReportInv, Reported, ChildInterrupted
<1>2. child[pc.c].life \in Lifecycle
  BY <1>1 DEF TypeOK, ActiveChild
<1>3. "interrupted" \in Terminal /\ "interrupted" \in Lifecycle
  BY DEF Terminal, Lifecycle
<1>4. Reported => pc.status \in Terminal
  BY DEF ReportInv, Reported
<1>5. \/ \E status \in Terminal : Settle(pc.c, status)
      \/ \E life \in Lifecycle : SettleWithError(pc.c, life)
  BY <1>2, <1>3, <1>4 DEF Reported, ChildInterrupted
<1>6. Settles(pc.c)
  BY <1>1, <1>5, SettleSettles, SettleWithErrorSettles
<1> QED
  BY <1>1, <1>6 DEF Reported, ChildInterrupted

\* A settled child has given its slot back, once.
LEMMA SettledSlots ==
    ASSUME TypeOK, SlotsInv, NEW c \in Children, Settles(c)
    PROVE  /\ child' \in [Children -> ActiveChild]
           /\ child'[c].task = "none" /\ ~child'[c].reserved
           /\ \A d \in Children \ {c} : child'[d] = child[d]
           /\ ledger' \in [admitted : Nat, running : Nat]
           /\ ledger'.admitted = ledger.admitted
           /\ ledger'.running <= ledger.running
           /\ ledger'.running = Cardinality(Reserved')
<1>1. child \in [Children -> ActiveChild] /\ ledger \in [admitted : Nat, running : Nat]
  BY DEF TypeOK
<1>2. PICK life \in Lifecycle, report \in Terminal \cup {None}, error \in BOOLEAN :
         child' = [child EXCEPT ![c] = [@ EXCEPT !.life = life, !.report = report,
                       !.error = error, !.waiters = {}, !.task = "none", !.reserved = FALSE]]
  BY DEF Settles
<1>3. child' \in [Children -> ActiveChild]
  <2>1. child[c] \in ActiveChild
    BY <1>1
  <2>2. [child[c] EXCEPT !.life = life, !.report = report, !.error = error,
                        !.waiters = {}, !.task = "none", !.reserved = FALSE] \in ActiveChild
    BY <2>1 DEF ActiveChild
  <2> QED
    BY <1>1, <1>2, <2>2
<1>4. child'[c].task = "none" /\ ~child'[c].reserved
  <2>1. child'[c] = [child[c] EXCEPT !.life = life, !.report = report, !.error = error,
                        !.waiters = {}, !.task = "none", !.reserved = FALSE]
    BY <1>1, <1>2
  <2>2. child[c] \in ActiveChild
    BY <1>1
  <2> QED
    BY <2>1, <2>2 DEF ActiveChild
<1>5. \A d \in Children \ {c} : child'[d] = child[d]
  BY <1>1, <1>2
<1>6. Reserved' = Reserved \ {c}
  BY <1>4, <1>5 DEF Reserved
<1>7. Reserved \in SUBSET Children
  BY DEF Reserved
<1>8. IsFiniteSet(Reserved) /\ Cardinality(Reserved) \in Nat
  BY <1>7, FiniteChildren
<1>9. /\ Cardinality(Reserved') =
           IF c \in Reserved THEN Cardinality(Reserved) - 1 ELSE Cardinality(Reserved)
      /\ Cardinality(Reserved') \in Nat
  <2>1. Reserved' \in SUBSET Children
    BY <1>6, <1>7
  <2> QED
    BY <1>6, <1>8, <2>1, FS_RemoveElement, FiniteChildren
<1>10. c \in Reserved <=> child[c].reserved
  BY DEF Reserved
<1>11. ledger' = [ledger EXCEPT !.running = IF child[c].reserved THEN @ - 1 ELSE @]
  BY DEF Settles, Release
<1>12. ledger'.running = Cardinality(Reserved')
  BY <1>1, <1>9, <1>10, <1>11 DEF SlotsInv
<1>13. ledger'.running <= ledger.running
  BY <1>1, <1>8, <1>9, <1>12 DEF SlotsInv
<1>14. ledger'.admitted = ledger.admitted /\ ledger' \in [admitted : Nat, running : Nat]
  BY <1>1, <1>9, <1>11, <1>12
<1> QED
  BY <1>3, <1>4, <1>5, <1>12, <1>13, <1>14

\* Cancelling a child changes only its mark.
LEMMA CancelMarks ==
    ASSUME TypeOK, NEW c \in Children, NEW then, NEW rest, RequestCancellation(c, then, rest)
    PROVE  /\ child' \in [Children -> ActiveChild]
           /\ \A d \in Children : child'[d] = child[d]
                                  \/ child'[d] = [child[d] EXCEPT !.cancelled = TRUE]
           /\ child' = child \/ (child' = [child EXCEPT ![c].cancelled = TRUE] /\ Active(c))
<1>1. child \in [Children -> ActiveChild]
  BY DEF TypeOK
<1>2. (child' = [child EXCEPT ![c].cancelled = TRUE] /\ Active(c)) \/ child' = child
  BY DEF RequestCancellation
<1>3. CASE child' = [child EXCEPT ![c].cancelled = TRUE] /\ Active(c)
  <2>1. [child[c] EXCEPT !.cancelled = TRUE] \in ActiveChild
    BY <1>1 DEF ActiveChild
  <2>2. child' \in [Children -> ActiveChild]
    BY <1>1, <1>3, <2>1
  <2>3. \A d \in Children :
           child'[d] = child[d] \/ child'[d] = [child[d] EXCEPT !.cancelled = TRUE]
    BY <1>1, <1>3
  <2> QED
    BY <1>3, <2>2, <2>3, Zenon
<1>4. CASE child' = child
  BY <1>1, <1>4, Zenon
<1> QED
  BY <1>2, <1>3, <1>4

-----------------------------------------------------------------------------
(* The session, the memory and the world stay well typed.                  *)

\* The steps by which a child is told, settled or cancelled, or the process
\* ends and starts, and what they leave alone.
LEMMA AbsentType == Absent \in ActiveChild /\ \A life \in Lifecycle : Admitted(life) \in ActiveChild
BY DEF Absent, Admitted, ActiveChild, Lifecycle, Terminal

\* What a restart makes of a child is well typed.
LEMMA InspectionType ==
    ASSUME TypeOK, NEW c \in Children
    PROVE  Inspection(c) \in ActiveChild
<1>1. durable[c] \in Terminal \/ "interrupted" \in Terminal
  BY DEF Terminal
<1>2. \A status \in Terminal :
         [Absent EXCEPT !.life = status, !.report = status] \in ActiveChild
  BY DEF Absent, ActiveChild, Lifecycle, Terminal
<1> QED
  BY <1>1, <1>2, AbsentType DEF Inspection, Terminal

\* Every step keeps the table of children well typed.
LEMMA ChildTypeStep ==
    ASSUME SupervisorInv, Next
    PROVE  child' \in [Children -> ActiveChild]
<1>1. TypeOK /\ child \in [Children -> ActiveChild]
  BY DEF SupervisorInv, TypeOK
<1>2. CASE Reported \/ ChildInterrupted
  BY <1>2, ReportsSettle, SettledSlots DEF SupervisorInv, StageInv
<1>3. CASE CancelNext \/ \E c \in Children : Cancel(c)
  <2>1. PICK c \in Children, then \in {"expire", "stopping", "schedule"},
             rest \in SUBSET Children : RequestCancellation(c, then, rest)
    BY <1>1, <1>3, CancelSteps
  <2> QED
    BY <1>1, <2>1, CancelMarks
<1>4. CASE \/ ChildAdmitted \/ BatchAdmitted \/ ShutdownDone \/ Crash \/ Restart
  BY <1>1, <1>4, AbsentType, InspectionType
     DEF ChildAdmitted, BatchAdmitted, ShutdownDone, Crash, Leave, Restart, Lifecycle
<1>5. CASE ChildQueued
  <2>1. PICK c \in pc.cs : child' = [child EXCEPT ![c].life = "queued"] \/ child' = child
    BY <1>5 DEF ChildQueued
  <2>2. c \in Children
    BY <1>1 DEF TypeOK
  <2>3. [child[c] EXCEPT !.life = "queued"] \in ActiveChild
    BY <1>1, <2>2 DEF ActiveChild, Lifecycle
  <2> QED
    BY <1>1, <2>1, <2>2, <2>3
<1>6. CASE EvidenceRecorded
  <2>1. PICK c \in pc.cs :
           \/ child' = [child EXCEPT ![c] = [@ EXCEPT !.life = "running", !.task = "live",
                                                        !.reserved = TRUE]]
           \/ child' = child
    BY <1>6 DEF EvidenceRecorded
  <2>2. c \in Children
    BY <1>1 DEF TypeOK
  <2>3. [child[c] EXCEPT !.life = "running", !.task = "live", !.reserved = TRUE] \in ActiveChild
    BY <1>1, <2>2 DEF ActiveChild, Lifecycle
  <2> QED
    BY <1>1, <2>1, <2>2, <2>3
<1>7. CASE InterruptChild
  <2>1. Min(pc.cs) \in Children
    BY <1>1, <1>7, LeastChild DEF InterruptChild, TypeOK
  <2>2. [child[Min(pc.cs)] EXCEPT !.task = "none"] \in ActiveChild
    BY <1>1, <2>1 DEF ActiveChild
  <2> QED
    BY <1>1, <1>7, <2>1, <2>2 DEF InterruptChild
<1>8. CASE \E c \in Children, status \in Terminal \ {"interrupted"} : ChildEnds(c, status)
  <2>1. PICK c \in Children : child' = [child EXCEPT ![c].task = "done"]
    BY <1>8 DEF ChildEnds
  <2>2. [child[c] EXCEPT !.task = "done"] \in ActiveChild
    BY <1>1 DEF ActiveChild
  <2> QED
    BY <1>1, <2>1, <2>2
<1>9. CASE \E w \in Clients, c \in Children : Await(w, c)
  <2>1. PICK w \in Clients, c \in Children :
           child' = [child EXCEPT ![c].waiters = Waiting(c) \cup {w}] \/ child' = child
    BY <1>9 DEF Await
  <2>2. Waiting(c) \cup {w} \in SUBSET Clients
    BY <1>1 DEF Waiting, ActiveChild
  <2>3. [child[c] EXCEPT !.waiters = Waiting(c) \cup {w}] \in ActiveChild
    BY <1>1, <2>2 DEF ActiveChild
  <2> QED
    BY <1>1, <2>1, <2>3
<1>10. CASE \/ PlanStarted \/ StartQueued \/ ChildRunning \/ HandleCompletion \/ CancelDone
            \/ \E ok \in BOOLEAN : HandleChildCommit(ok)
            \/ SpawnChild \/ SpawnMany \/ \E p \in Plans : StartPlan(p)
            \/ \E cs \in SUBSET Children : ExpireDeadlines(cs)
            \/ Shutdown \/ GraceEnds \/ \E w \in Clients : AwaitTimesOut(w)
  <2>1. child' = child
    BY <1>10 DEF PlanStarted, StartQueued, ChildRunning, HandleCompletion, CancelDone,
       HandleChildCommit, SpawnChild, SpawnMany, StartPlan, ExpireDeadlines, Shutdown, GraceEnds,
       AwaitTimesOut, memoryVars
  <2> QED
    BY <1>1, <2>1
<1> QED
  BY <1>2, <1>3, <1>4, <1>5, <1>6, <1>7, <1>8, <1>9, <1>10, Zenon DEF Next, Supervisor

-----------------------------------------------------------------------------
(* Most steps leave a child's life, report and slot alone.                 *)

Mild ==
    \A d \in Children :
        /\ child'[d].life = child[d].life /\ child'[d].report = child[d].report
        /\ child'[d].error = child[d].error /\ child'[d].reserved = child[d].reserved
        /\ \/ child'[d].task = child[d].task
           \/ child'[d].task = "none"
           \/ child[d].task = "live" /\ child'[d].task = "done"
        /\ durable[d] = "none" => child'[d] = child[d]

\* The steps of the actor after which a child is in another state.
Decisive ==
    \/ Reported \/ ChildInterrupted \/ ChildAdmitted \/ ChildQueued \/ BatchAdmitted
    \/ EvidenceRecorded \/ ShutdownDone \/ Crash \/ Restart

\* The steps that mark, end, abort or await a child.
Touches ==
    \/ CancelNext \/ InterruptChild
    \/ \E c \in Children : Cancel(c)
    \/ \E c \in Children, status \in Terminal \ {"interrupted"} : ChildEnds(c, status)
    \/ \E w \in Clients, c \in Children : Await(w, c)

\* The steps of the actor that leave the children alone, and of the others.
ActorQuiet ==
    \/ PlanStarted \/ StartQueued \/ ChildRunning \/ HandleCompletion \/ CancelDone
    \/ SpawnChild \/ SpawnMany \/ \E p \in Plans : StartPlan(p)
    \/ \E cs \in SUBSET Children : ExpireDeadlines(cs)
    \/ Shutdown \/ GraceEnds
OthersQuiet ==
    \/ \E ok \in BOOLEAN : HandleChildCommit(ok)
    \/ \E w \in Clients : AwaitTimesOut(w)

\* The four kinds of steps, by what they do to the children.
LEMMA StepKinds == Next => Decisive \/ Touches \/ ActorQuiet \/ OthersQuiet
BY Zenon DEF Next, Supervisor, Decisive, Touches, ActorQuiet, OthersQuiet

\* The quiet ones leave the table of children alone.
LEMMA QuietChildren == ActorQuiet \/ OthersQuiet => child' = child
<1>1. ActorQuiet => child' = child
  BY DEF ActorQuiet, PlanStarted, StartQueued, ChildRunning, HandleCompletion, CancelDone,
     SpawnChild, SpawnMany, StartPlan, ExpireDeadlines, Shutdown, GraceEnds, memoryVars
<1>2. OthersQuiet => child' = child
  BY DEF OthersQuiet, HandleChildCommit, AwaitTimesOut, memoryVars
<1> QED
  BY <1>1, <1>2

\* The other steps leave the reservations and the reports alone.
LEMMA MildTouches ==
    ASSUME SupervisorInv, Touches \/ ActorQuiet \/ OthersQuiet
    PROVE  Mild
<1>1. TypeOK /\ child \in [Children -> ActiveChild] /\ ChildrenInv
  BY DEF SupervisorInv, TypeOK
<1>2. CASE child' = child
  BY <1>2 DEF Mild
<1>3. CASE CancelNext \/ \E c \in Children : Cancel(c)
  <2>1. PICK c \in Children, then \in {"expire", "stopping", "schedule"},
             rest \in SUBSET Children : RequestCancellation(c, then, rest)
    BY <1>1, <1>3, CancelSteps
  <2>2. child' = child \/ (child' = [child EXCEPT ![c].cancelled = TRUE] /\ Active(c))
    BY <1>1, <2>1, CancelMarks
  <2>3. CASE child' = [child EXCEPT ![c].cancelled = TRUE] /\ Active(c)
    <3>1. durable[c] # "none"
      BY <1>1, <2>3 DEF ChildrenInv, Active, Absent
    <3>2. \A d \in Children : d # c => child'[d] = child[d]
      BY <1>1, <2>3
    <3>3. child'[c] = [child[c] EXCEPT !.cancelled = TRUE] /\ child[c] \in ActiveChild
      BY <1>1, <2>3
    <3>4. /\ child'[c].life = child[c].life /\ child'[c].report = child[c].report
          /\ child'[c].error = child[c].error /\ child'[c].reserved = child[c].reserved
          /\ child'[c].task = child[c].task
      BY <3>3 DEF ActiveChild
    <3> QED
      BY <3>1, <3>2, <3>4, Zenon DEF Mild
  <2> QED
    BY <1>2, <2>2, <2>3
<1>4. CASE InterruptChild
  <2> DEFINE c == Min(pc.cs)
  <2>1. c \in pc.cs /\ c \in Children
    BY <1>1, <1>4, LeastChild DEF InterruptChild, TypeOK
  <2>2. child' = [child EXCEPT ![c].task = "none"] /\ pc.at = "interrupting"
    BY <1>4 DEF InterruptChild
  <2> HIDE DEF c
  <2>3. durable[c] # "none"
    BY <2>1, <2>2 DEF SupervisorInv, StageInv, ReportInv
  <2>4. \A d \in Children : d # c => child'[d] = child[d]
    BY <1>1, <2>2
  <2>5. child'[c] = [child[c] EXCEPT !.task = "none"] /\ child[c] \in ActiveChild
    BY <1>1, <2>1, <2>2
  <2>6. /\ child'[c].life = child[c].life /\ child'[c].report = child[c].report
        /\ child'[c].error = child[c].error /\ child'[c].reserved = child[c].reserved
        /\ child'[c].task = "none"
    BY <2>5 DEF ActiveChild
  <2> QED
    BY <2>3, <2>4, <2>6, Zenon DEF Mild
<1>5. CASE \E c \in Children, status \in Terminal \ {"interrupted"} : ChildEnds(c, status)
  <2>1. PICK c \in Children : child' = [child EXCEPT ![c].task = "done"] /\ child[c].task = "live"
    BY <1>5 DEF ChildEnds
  <2>2. durable[c] # "none"
    BY <1>1, <2>1 DEF ChildrenInv, Absent
  <2>3. \A d \in Children : d # c => child'[d] = child[d]
    BY <1>1, <2>1
  <2>4. child'[c] = [child[c] EXCEPT !.task = "done"] /\ child[c] \in ActiveChild
    BY <1>1, <2>1
  <2>5. /\ child'[c].life = child[c].life /\ child'[c].report = child[c].report
        /\ child'[c].error = child[c].error /\ child'[c].reserved = child[c].reserved
        /\ child'[c].task = "done"
    BY <2>4 DEF ActiveChild
  <2> QED
    BY <2>1, <2>2, <2>3, <2>5, Zenon DEF Mild
<1>6. CASE \E w \in Clients, c \in Children : Await(w, c)
  <2>1. PICK w \in Clients, c \in Children :
           /\ child' = [child EXCEPT ![c].waiters = Waiting(c) \cup {w}] \/ child' = child
           /\ child[c].life # "none"
    BY <1>6 DEF Await
  <2>2. CASE child' = [child EXCEPT ![c].waiters = Waiting(c) \cup {w}]
    <3>1. durable[c] # "none"
      BY <1>1, <2>1 DEF ChildrenInv, Absent
    <3>2. \A d \in Children : d # c => child'[d] = child[d]
      BY <1>1, <2>2
    <3>3. child'[c] = [child[c] EXCEPT !.waiters = Waiting(c) \cup {w}] /\ child[c] \in ActiveChild
      BY <1>1, <2>2
    <3>4. /\ child'[c].life = child[c].life /\ child'[c].report = child[c].report
          /\ child'[c].error = child[c].error /\ child'[c].reserved = child[c].reserved
          /\ child'[c].task = child[c].task
      BY <3>3 DEF ActiveChild
    <3> QED
      BY <3>1, <3>2, <3>4, Zenon DEF Mild
  <2> QED
    BY <1>2, <2>1, <2>2
<1> QED
  BY <1>2, <1>3, <1>4, <1>5, <1>6, QuietChildren DEF Touches

\* So every step that is not decisive is mild.
LEMMA MildSteps ==
    ASSUME SupervisorInv, Next, ~Decisive
    PROVE  Mild
BY MildTouches, StepKinds

-----------------------------------------------------------------------------
(* The ledger's slots.                                                     *)

\* A step that changes no reservation keeps the count.
LEMMA SameSlots ==
    ASSUME SlotsInv, \A d \in Children : child'[d].reserved = child[d].reserved,
           ledger'.running = ledger.running,
           pc'.at \in {"run", "evidence"} => ledger.running < MaxConcurrency
    PROVE  SlotsInv'
<1>1. Reserved' = Reserved
  BY DEF Reserved
<1> QED
  BY <1>1 DEF SlotsInv

\* The points where a slot is held back for the child being started are reached
\* only when a slot is free.
LEMMA StartingHasSlot ==
    ASSUME SupervisorInv, Next, pc'.at \in {"run", "evidence"}
    PROVE  ledger'.running = ledger.running /\ ledger.running < MaxConcurrency
<1>1. pc \in PointSet /\ SlotsInv /\ ReportInv /\ ledger \in [admitted : Nat, running : Nat]
  BY TypeParts DEF SupervisorInv, StageInv, MemoryType
<1>2. CASE StartQueued \/ ChildRunning
  <2>1. ledger' = ledger
    BY <1>2 DEF StartQueued, ChildRunning, memoryVars
  <2>2. CASE StartQueued
    BY <2>1, <2>2 DEF StartQueued, CanStart, At, Point
  <2>3. CASE ChildRunning
    BY <1>1, <2>1, <2>3 DEF ChildRunning, SlotsInv
  <2> QED
    BY <1>2, <2>2, <2>3
<1>3. CASE pc' = pc /\ ledger' = ledger
  BY <1>1, <1>3 DEF SlotsInv
<1>4. \A at, cs, plan : Point(at, cs, plan).at = at
  BY DEF Point
<1>5. ASSUME NEW kids, NEW c, NEW status, NEW then, NEW rest,
             CommitTerminalReport(kids, c, status, then, rest)
      PROVE  pc'.at \in {then, "report"}
  <2>1. \/ pc' = Point(then, rest, None)
        \/ pc' = [at |-> "report", cs |-> rest, plan |-> None, c |-> c,
                  status |-> status, then |-> then]
    BY <1>5, ReportOutcome
  <2> QED
    BY <2>1 DEF Point
<1>6. CASE Reported
  <2>1. pc'.at = pc.then
    BY <1>4, <1>6 DEF Reported
  <2> QED
    BY <1>1, <1>6, <2>1 DEF Reported, ReportInv
<1>7. CASE ChildAdmitted \/ PlanStarted
  BY <1>1, <1>4, <1>7 DEF ChildAdmitted, PlanStarted, At, PointSet
<1>8. CASE ChildQueued \/ EvidenceRecorded
  <2>1. PICK c \in pc.cs : \/ pc' = At("schedule")
                           \/ CommitTerminalReport(child, c, "failed", "schedule", {})
    BY <1>8 DEF ChildQueued, EvidenceRecorded
  <2> QED
    BY <1>4, <1>5, <2>1 DEF At
<1>9. CASE HandleCompletion
  <2> DEFINE then == IF pc.at = "idle" THEN "schedule" ELSE "draining"
  <2>1. CommitTerminalReport(child, Head(completions).c, Head(completions).status, then, {})
    BY <1>9 DEF HandleCompletion
  <2>2. then \in {"schedule", "draining"}
    OBVIOUS
  <2> HIDE DEF then
  <2> QED
    BY <1>5, <2>1, <2>2
<1>10. CASE CancelNext \/ \E c \in Children : Cancel(c)
  <2>1. PICK c \in Children, then \in {"expire", "stopping", "schedule"},
             rest \in SUBSET Children : RequestCancellation(c, then, rest)
    BY <1>10, CancelSteps DEF SupervisorInv
  <2>2. \/ pc' = Point(then, rest, None)
        \/ CommitTerminalReport([child EXCEPT ![c].cancelled = TRUE], c, "cancelled", then, rest)
    BY <2>1 DEF RequestCancellation
  <2> QED
    BY <1>4, <1>5, <2>1, <2>2
<1>11. CASE InterruptChild
  BY <1>11 DEF InterruptChild, Point
<1>12. CASE \/ BatchAdmitted \/ CancelDone \/ ShutdownDone \/ ChildInterrupted \/ SpawnChild
            \/ SpawnMany \/ \E p \in Plans : StartPlan(p)
            \/ \E cs \in SUBSET Children : ExpireDeadlines(cs)
            \/ Shutdown \/ GraceEnds \/ Crash \/ Restart
  <2>1. \E at \in Labels \ {"run", "evidence"} : \E cs, plan : pc' = Point(at, cs, plan)
    BY <1>12 DEF BatchAdmitted, CancelDone, ShutdownDone, ChildInterrupted, SpawnChild,
       SpawnMany, StartPlan, ExpireDeadlines, Shutdown, GraceEnds, Crash, Restart, Leave, At, Labels
  <2> QED
    BY <1>4, <2>1
<1>13. CASE \/ OthersQuiet
            \/ \E c \in Children, status \in Terminal \ {"interrupted"} : ChildEnds(c, status)
            \/ \E w \in Clients, c \in Children : Await(w, c)
  <2>1. pc' = pc /\ ledger' = ledger
    BY <1>13 DEF OthersQuiet, ChildEnds, Await, HandleChildCommit, AwaitTimesOut, memoryVars
  <2> QED
    BY <1>3, <2>1
<1> QED
  BY <1>2, <1>6, <1>7, <1>8, <1>9, <1>10, <1>11, <1>12, <1>13, Zenon
     DEF Next, Supervisor, OthersQuiet

\* Slots are taken and given back one at a time, and no more than there are.
LEMMA SlotsStep ==
    ASSUME SupervisorInv, Next
    PROVE  SlotsInv' /\ ledger'.running \in Nat
<1>1. /\ TypeOK /\ child \in [Children -> ActiveChild] /\ SlotsInv /\ StageInv /\ ChildrenInv
      /\ ledger \in [admitted : Nat, running : Nat] /\ pc \in PointSet
  BY TypeParts DEF SupervisorInv, MemoryType
<1>2. CASE Reported \/ ChildInterrupted
  <2>1. /\ ledger'.running <= ledger.running /\ ledger'.running = Cardinality(Reserved')
        /\ ledger' \in [admitted : Nat, running : Nat]
    BY <1>1, <1>2, ReportsSettle, SettledSlots DEF StageInv
  <2>2. ledger'.running \in Nat /\ ledger'.running <= MaxConcurrency
    BY <1>1, <2>1, LimitsAssumption DEF SlotsInv
  <2> QED
    BY <2>1, <2>2, StartingHasSlot DEF SlotsInv
<1>3. CASE \/ ChildAdmitted \/ BatchAdmitted \/ ChildQueued \/ ~Decisive
           \/ EvidenceRecorded /\ child' = child /\ ledger' = ledger
  <2>1. \A d \in Children : child'[d].reserved = child[d].reserved
    <3>1. CASE ChildAdmitted \/ BatchAdmitted
      <4>1. \A c \in pc.cs : child[c] = Absent
        BY <1>1, <3>1 DEF ChildAdmitted, BatchAdmitted, StageInv, AdmissionInv
      <4>2. ~Absent.reserved /\ ~Admitted("admitted").reserved /\ ~Admitted("queued").reserved
        BY DEF Absent, Admitted
      <4>3. PICK life \in {"admitted", "queued"} :
               child' = child \/ child' = [c \in Children |-> IF c \in pc.cs THEN Admitted(life)
                                                              ELSE child[c]]
        BY <3>1 DEF ChildAdmitted, BatchAdmitted
      <4>4. \A d \in pc.cs : child[d].reserved = FALSE /\ Admitted(life).reserved = FALSE
        BY <4>1 DEF Absent, Admitted
      <4> QED
        BY <4>3, <4>4
    <3>2. CASE ChildQueued
      <4>1. PICK c \in pc.cs : child' = [child EXCEPT ![c].life = "queued"] \/ child' = child
        BY <3>2 DEF ChildQueued
      <4>2. c \in Children /\ child[c] \in ActiveChild
        BY <1>1 DEF PointSet
      <4>3. [child[c] EXCEPT !.life = "queued"].reserved = child[c].reserved
        BY <4>2 DEF ActiveChild
      <4> QED
        BY <1>1, <4>1, <4>2, <4>3
    <3> QED
      BY <1>3, <3>1, <3>2, MildSteps DEF Mild
  <2>2. ledger'.running = ledger.running
    <3>1. CASE ActorQuiet
      BY <1>1, <3>1 DEF ActorQuiet, PlanStarted, StartQueued, ChildRunning, HandleCompletion,
         CancelDone, SpawnChild, SpawnMany, StartPlan, ExpireDeadlines, Shutdown, GraceEnds,
         memoryVars, Reserve
    <3>2. CASE OthersQuiet \/ Touches
      BY <3>2 DEF OthersQuiet, Touches, HandleChildCommit, AwaitTimesOut, memoryVars, CancelNext,
         InterruptChild, Cancel, ChildEnds, Await
    <3>3. CASE ChildAdmitted \/ BatchAdmitted \/ ChildQueued
      BY <1>1, <3>3 DEF ChildAdmitted, BatchAdmitted, ChildQueued, Rollback
    <3> QED
      BY <1>3, <3>1, <3>2, <3>3, StepKinds
  <2> QED
    BY <1>1, <2>1, <2>2, SameSlots, StartingHasSlot
<1>4. CASE EvidenceRecorded /\ ~(child' = child /\ ledger' = ledger)
  <2>1. PICK c \in pc.cs :
           /\ ledger' = [ledger EXCEPT !.running = @ + 1]
           /\ child' = [child EXCEPT ![c] = [@ EXCEPT !.life = "running", !.task = "live",
                                                        !.reserved = TRUE]]
    BY <1>4 DEF EvidenceRecorded
  <2>2. c \in Children /\ child[c] \in ActiveChild
    BY <1>1 DEF PointSet
  <2>3. child[c].life = "queued" /\ ledger.running < MaxConcurrency
    BY <1>1, <1>4 DEF EvidenceRecorded, StageInv, StartInv, SlotsInv
  <2>4. c \notin Reserved
    BY <1>1, <2>3 DEF ChildrenInv, Reserved
  <2>5. child'[c].reserved /\ \A d \in Children : d # c => child'[d] = child[d]
    BY <1>1, <2>1, <2>2 DEF ActiveChild
  <2>6. Reserved' = Reserved \cup {c}
    BY <2>2, <2>5 DEF Reserved
  <2>7. Reserved \in SUBSET Children
    BY DEF Reserved
  <2>8. IsFiniteSet(Reserved) /\ Cardinality(Reserved) \in Nat
    BY <2>7, FiniteChildren
  <2>9. Cardinality(Reserved') = Cardinality(Reserved) + 1
    BY <2>4, <2>6, <2>8, FS_AddElement
  <2>10. ledger'.running = ledger.running + 1
    BY <1>1, <2>1
  <2>11. /\ ledger'.running = Cardinality(Reserved') /\ ledger'.running <= MaxConcurrency
         /\ ledger'.running \in Nat
    BY <1>1, <2>3, <2>9, <2>10, LimitsAssumption DEF SlotsInv
  <2> QED
    BY <2>11, StartingHasSlot DEF SlotsInv
<1>5. CASE ShutdownDone \/ Crash \/ Restart
  <2>1. \A c \in Children : ~child'[c].reserved
    <3>1. ~Absent.reserved
      BY DEF Absent
    <3>2. \A c \in Children : ~Inspection(c).reserved
      BY DEF Inspection, Absent
    <3> QED
      BY <1>5, <3>1, <3>2 DEF ShutdownDone, Crash, Leave, Restart
  <2>2. Reserved' = {}
    BY <2>1 DEF Reserved
  <2>3. ledger'.running = 0
    BY <1>5 DEF ShutdownDone, Crash, Leave, Restart
  <2>4. 0 <= MaxConcurrency
    BY LimitsAssumption
  <2> QED
    BY <2>2, <2>3, <2>4, FS_EmptySet, StartingHasSlot DEF SlotsInv
<1> QED
  BY <1>2, <1>3, <1>4, <1>5 DEF Decisive

-----------------------------------------------------------------------------
(* What the runtime does with the record at the head of the channel.       *)

\* The record is the one the actor awaits, and then the only one, or a report
\* whose wait was dropped.
LEMMA CommitHead ==
    ASSUME TypeOK, ChannelInv, NEW ok \in BOOLEAN, HandleChildCommit(ok)
    PROVE  /\ commitQ # <<>> /\ Head(commitQ) = commitQ[1] /\ 1 \in DOMAIN commitQ
           /\ Head(commitQ).rec \in Record /\ Head(commitQ).live \in BOOLEAN
           /\ Harmless(Head(commitQ).rec)
           /\ UNCHANGED <<pc, memoryVars, completions, client, told, crashes>>
           /\ Head(commitQ).live =>
                /\ Expected(Head(commitQ).rec) /\ reply = None
                /\ reply' = (IF ok THEN "ok" ELSE "err") /\ commitQ' = <<>>
           /\ ~Head(commitQ).live =>
                /\ pc.at \in {"interrupting", "interrupt"} /\ Head(commitQ).rec.kind = "report"
                /\ reply' = reply
           /\ ok => Accepts(Head(commitQ).rec) /\ Apply(Head(commitQ).rec)
           /\ ~ok => UNCHANGED sessionVars
<1> DEFINE S == [rec : Record, live : BOOLEAN]
<1>1. commitQ \in Seq(S) /\ commitQ # <<>> /\ commitQ' = Tail(commitQ)
  BY DEF TypeOK, HandleChildCommit
<1> HIDE DEF S
<1>2. Head(commitQ) \in S
  BY <1>1, TailChannel
<1>3. Head(commitQ).rec \in Record /\ Head(commitQ).live \in BOOLEAN
  BY <1>2 DEF S
<1>4. Head(commitQ) = commitQ[1] /\ 1 \in DOMAIN commitQ
  BY <1>1, TailChannel
<1>5. Head(commitQ).live =>
        Expected(Head(commitQ).rec) /\ reply = None /\ Len(commitQ) = 1
  BY <1>4 DEF ChannelInv
<1>6. Head(commitQ).live => commitQ' = <<>>
  BY <1>1, <1>5
<1>7. ~Head(commitQ).live =>
        pc.at \in {"interrupting", "interrupt"} /\ Head(commitQ).rec.kind = "report"
  BY <1>4 DEF ChannelInv
<1>8. Harmless(Head(commitQ).rec)
  BY <1>4 DEF ChannelInv
<1>9. /\ ok => Accepts(Head(commitQ).rec) /\ Apply(Head(commitQ).rec)
      /\ ~ok => UNCHANGED sessionVars
  BY DEF HandleChildCommit
<1>10. reply' = IF Head(commitQ).live THEN (IF ok THEN "ok" ELSE "err") ELSE reply
  BY DEF HandleChildCommit
<1>11. UNCHANGED <<pc, memoryVars, completions, client, told, crashes>>
  BY DEF HandleChildCommit
<1> QED
  BY <1>1, <1>3, <1>4, <1>5, <1>6, <1>7, <1>8, <1>9, <1>10, <1>11

\* Only the runtime writes the session.
LEMMA SessionWriter ==
    ASSUME Next, ~ \E ok \in BOOLEAN : HandleChildCommit(ok)
    PROVE  UNCHANGED sessionVars
<1>1. Decisive => UNCHANGED sessionVars
  BY DEF Decisive, Reported, ChildInterrupted, ChildAdmitted, ChildQueued, BatchAdmitted,
     EvidenceRecorded, ShutdownDone, Crash, Restart
<1>2. Touches => UNCHANGED sessionVars
  BY DEF Touches, CancelNext, InterruptChild, Cancel, ChildEnds, Await
<1>3. ActorQuiet => UNCHANGED sessionVars
  BY DEF ActorQuiet, PlanStarted, StartQueued, ChildRunning, HandleCompletion, CancelDone,
     SpawnChild, SpawnMany, StartPlan, ExpireDeadlines, Shutdown, GraceEnds
<1>4. OthersQuiet => UNCHANGED sessionVars
  BY DEF OthersQuiet, AwaitTimesOut
<1> QED
  BY <1>1, <1>2, <1>3, <1>4, StepKinds

\* How one record moves the children of the session.
LEMMA DurableMoves ==
    ASSUME SupervisorInv, HandleChildCommit(TRUE), NEW d \in Children
    PROVE  \/ durable'[d] = durable[d]
           \/ /\ durable[d] = "none" /\ durable'[d] \in {"admitted", "queued"}
              /\ pc.at \in {"admit", "batch"} /\ d \in pc.cs
           \/ /\ durable[d] \in {"admitted", "queued"} /\ durable'[d] \in {"queued", "running"}
              /\ pc.at \in {"queue", "run"} /\ d \in pc.cs
           \/ /\ durable[d] \in Open /\ durable'[d] \in Terminal
              /\ child[d].task # "live" /\ child[d].report = None
              /\ pc.at \in {"report", "interrupt", "interrupting"}
<1>1. TypeOK /\ ChannelInv /\ durable \in [Children -> Lifecycle]
  BY DEF SupervisorInv, TypeOK
<1> DEFINE rec == Head(commitQ).rec
<1>2. /\ rec \in Record /\ Harmless(rec) /\ Apply(rec) /\ Accepts(rec)
      /\ Expected(rec) \/ (pc.at \in {"interrupting", "interrupt"} /\ rec.kind = "report")
  BY <1>1, CommitHead
<1> HIDE DEF rec
<1>3. CASE rec.kind \in {"plan", "evidence"}
  BY <1>2, <1>3, ApplyPlan, ApplyEvidence DEF sessionVars
<1>4. CASE rec.kind = "batch"
  <2>1. pc.at = "batch" /\ rec.cs = pc.cs
    BY <1>2, <1>4 DEF Expected
  <2> QED
    BY <1>2, <1>4, <2>1, ApplyBatch
<1>5. CASE rec.kind = "life" /\ rec.c \in Children
  <2>1. /\ rec.c \in pc.cs
        /\ \/ pc.at = "admit" /\ rec.to = "admitted"
           \/ pc.at = "queue" /\ rec.to = "queued"
           \/ pc.at = "run" /\ rec.to = "running"
    BY <1>2, <1>5 DEF Expected
  <2> QED
    BY <1>1, <1>2, <1>5, <2>1, ApplyLife
<1>6. CASE rec.kind = "report" /\ rec.c \in Children /\ rec.status \in Terminal
  <2>1. pc.at \in {"report", "interrupt", "interrupting"}
    BY <1>2, <1>6 DEF Expected
  <2>2. durable' = [durable EXCEPT ![rec.c] = rec.status] /\ durable[rec.c] \in Open
    BY <1>2, <1>6, ApplyReport
  <2>3. child[rec.c].task # "live" /\ child[rec.c].report = None
    BY <1>2, <1>6, <2>2 DEF Harmless, Open, Terminal
  <2> QED
    BY <1>1, <1>6, <2>1, <2>2, <2>3
<1> QED
  BY <1>2, <1>3, <1>4, <1>5, <1>6, RecordKinds

-----------------------------------------------------------------------------
(* The children agree with the session.                                    *)

\* What the invariant says of one child.
ChildOK(d) ==
    /\ durable[d] = "none" => child[d] = Absent
    /\ child[d].task # "none" => child[d].reserved
    /\ child[d].reserved => child[d].life = "running" /\ child[d].report = None
    /\ child[d].task = "live" => durable[d] = "running"
    /\ child[d].report # None =>
         /\ child[d].life = child[d].report
         /\ \/ durable[d] = child[d].report
            \/ durable[d] \in Open /\ child[d].report = "interrupted"

\* A child that has just been admitted.
LEMMA FreshChild ==
    ASSUME NEW r, r = Absent \/ \E life \in Lifecycle : r = Admitted(life)
    PROVE  r.task = "none" /\ ~r.reserved /\ r.report = None /\ ~r.error
BY DEF Absent, Admitted

\* The report of a settled child is the durable one.
LEMMA SettledAgrees ==
    ASSUME SupervisorInv, Reported \/ ChildInterrupted
    PROVE  /\ pc.c \in Children /\ durable[pc.c] # "none"
           /\ child'[pc.c].task = "none" /\ ~child'[pc.c].reserved
           /\ child'[pc.c].report # None =>
                child'[pc.c].life = child'[pc.c].report /\ durable[pc.c] = child'[pc.c].report
           /\ \A d \in Children \ {pc.c} : child'[d] = child[d]
<1>1. /\ TypeOK /\ SlotsInv /\ ReportInv /\ child \in [Children -> ActiveChild]
  BY DEF SupervisorInv, StageInv, TypeOK
<1>2. pc.c \in Children /\ Settles(pc.c) /\ durable[pc.c] # "none" /\ child[pc.c].report = None
  BY <1>1, ReportsSettle DEF ReportInv, Reported, ChildInterrupted
<1>3. /\ child'[pc.c].task = "none" /\ ~child'[pc.c].reserved
      /\ \A d \in Children \ {pc.c} : child'[d] = child[d]
  BY <1>1, <1>2, SettledSlots
<1>4. child[pc.c] \in ActiveChild
  BY <1>1, <1>2
<1>5. CASE \E status \in Terminal : Settle(pc.c, status) /\ durable[pc.c] = status
  <2>1. PICK status \in Terminal : Settle(pc.c, status) /\ durable[pc.c] = status
    BY <1>5
  <2>2. child'[pc.c] = [child[pc.c] EXCEPT !.life = status, !.report = status,
                           !.waiters = {}, !.task = "none", !.reserved = FALSE]
    BY <1>1, <1>2, <2>1 DEF Settle
  <2>3. child'[pc.c].life = status /\ child'[pc.c].report = status
    BY <1>4, <2>2 DEF ActiveChild
  <2> QED
    BY <1>2, <1>3, <2>1, <2>3
<1>6. CASE \E life : SettleWithError(pc.c, life)
  <2>1. PICK life : SettleWithError(pc.c, life)
    BY <1>6
  <2>2. child'[pc.c] = [child[pc.c] EXCEPT !.life = life, !.error = TRUE,
                           !.waiters = {}, !.task = "none", !.reserved = FALSE]
    BY <1>1, <1>2, <2>1 DEF SettleWithError
  <2>3. child'[pc.c].report = None
    BY <1>2, <1>4, <2>2 DEF ActiveChild
  <2> QED
    BY <1>2, <1>3, <2>3
<1>7. "interrupted" \in Terminal
  BY DEF Terminal
<1> QED
  BY <1>1, <1>5, <1>6, <1>7 DEF Reported, ChildInterrupted, ReportInv

\* Every step keeps the invariant of each child.
LEMMA ChildrenStep ==
    ASSUME SupervisorInv, Next
    PROVE  ChildrenInv'
<1> SUFFICES ASSUME NEW d \in Children PROVE ChildOK(d)'
  BY DEF ChildrenInv, ChildOK
<1>1. /\ TypeOK /\ ChildOK(d) /\ child \in [Children -> ActiveChild] /\ child[d] \in ActiveChild
      /\ pc \in PointSet /\ StageInv
  BY TypeParts DEF SupervisorInv, TypeOK, ChildrenInv, ChildOK
<1>2. CASE \E ok \in BOOLEAN : HandleChildCommit(ok)
  <2>1. child' = child
    BY <1>2, QuietChildren DEF OthersQuiet
  <2>2. CASE HandleChildCommit(TRUE)
    <3>1. durable'[d] # "none" \/ durable[d] = "none"
      BY <2>2, DurableMoves DEF Open, Terminal
    <3>2. CASE durable'[d] = durable[d]
      BY <1>1, <2>1, <3>2 DEF ChildOK
    <3>3. CASE durable[d] = "none" /\ durable'[d] \in {"admitted", "queued"}
      BY <1>1, <2>1, <3>3, FreshChild DEF ChildOK
    <3>4. CASE /\ durable[d] \in {"admitted", "queued"} /\ durable'[d] \in {"queued", "running"}
      BY <1>1, <2>1, <3>4, NoneAssumption DEF ChildOK, Open, ActiveChild, Terminal
    <3>5. CASE /\ durable[d] \in Open /\ durable'[d] \in Terminal
               /\ child[d].task # "live" /\ child[d].report = None
      BY <1>1, <2>1, <3>5 DEF ChildOK, Terminal
    <3> QED
      BY <2>2, <3>2, <3>3, <3>4, <3>5, DurableMoves
  <2>3. CASE HandleChildCommit(FALSE)
    <3>1. durable' = durable
      BY <2>3 DEF HandleChildCommit, sessionVars
    <3> QED
      BY <1>1, <2>1, <3>1 DEF ChildOK
  <2> QED
    BY <1>2, <2>2, <2>3
<1>3. CASE ~Decisive /\ durable' = durable
  <2>1. /\ child'[d].life = child[d].life /\ child'[d].report = child[d].report
        /\ child'[d].reserved = child[d].reserved
        /\ \/ child'[d].task = child[d].task \/ child'[d].task = "none"
           \/ child[d].task = "live" /\ child'[d].task = "done"
        /\ durable[d] = "none" => child'[d] = child[d]
    BY <1>3, MildSteps DEF Mild
  <2> QED
    BY <1>1, <1>3, <2>1 DEF ChildOK
<1>4. CASE Reported \/ ChildInterrupted
  <2>1. durable' = durable
    BY <1>4 DEF Reported, ChildInterrupted, sessionVars
  <2>2. CASE d = pc.c
    BY <1>4, <2>1, <2>2, SettledAgrees DEF ChildOK
  <2>3. CASE d # pc.c
    BY <1>1, <1>4, <2>1, <2>3, SettledAgrees DEF ChildOK
  <2> QED
    BY <2>2, <2>3
<1>5. CASE ChildAdmitted \/ BatchAdmitted
  <2>1. durable' = durable
    BY <1>5 DEF ChildAdmitted, BatchAdmitted, sessionVars
  <2>2. \/ child'[d] = child[d]
        \/ /\ \E life \in Lifecycle : child'[d] = Admitted(life)
           /\ d \in pc.cs /\ reply = "ok"
    BY <1>5 DEF ChildAdmitted, BatchAdmitted, Lifecycle
  <2>3. d \in pc.cs /\ reply = "ok" => durable[d] # "none"
    BY <1>1, <1>5 DEF ChildAdmitted, BatchAdmitted, StageInv, AdmissionInv
  <2>4. CASE child'[d] = child[d]
    BY <1>1, <2>1, <2>4 DEF ChildOK
  <2>5. CASE (\E life \in Lifecycle : child'[d] = Admitted(life)) /\ d \in pc.cs /\ reply = "ok"
    BY <2>1, <2>3, <2>5, FreshChild DEF ChildOK
  <2> QED
    BY <2>2, <2>4, <2>5
<1>6. CASE ChildQueued
  <2>1. durable' = durable
    BY <1>6 DEF ChildQueued, sessionVars
  <2>2. PICK c \in pc.cs : child' = [child EXCEPT ![c].life = "queued"] \/ child' = child
    BY <1>6 DEF ChildQueued
  <2>3. child[c] = Admitted("admitted") /\ c \in Children
    BY <1>1, <1>6 DEF ChildQueued, StageInv, AdmissionInv, PointSet
  <2>4. CASE child'[d] = child[d]
    BY <1>1, <2>1, <2>4 DEF ChildOK
  <2>5. CASE child' = [child EXCEPT ![c].life = "queued"] /\ d = c
    <3>1. durable[d] # "none"
      BY <1>1, <2>3, <2>5 DEF ChildOK, Admitted, Absent
    <3>2. child'[d] = [Admitted("admitted") EXCEPT !.life = "queued"]
      BY <1>1, <2>3, <2>5
    <3>3. child'[d].task = "none" /\ ~child'[d].reserved /\ child'[d].report = None
      BY <3>2 DEF Admitted, Absent
    <3> QED
      BY <2>1, <3>1, <3>3 DEF ChildOK
  <2> QED
    BY <1>1, <2>2, <2>4, <2>5
<1>7. CASE EvidenceRecorded
  <2>1. durable' = durable
    BY <1>7 DEF EvidenceRecorded, sessionVars
  <2>2. PICK c \in pc.cs :
           \/ child' = [child EXCEPT ![c] = [@ EXCEPT !.life = "running", !.task = "live",
                                                        !.reserved = TRUE]]
           \/ child' = child
    BY <1>7 DEF EvidenceRecorded
  <2>3. c \in Children /\ child[c].life = "queued" /\ durable[c] = "running"
    BY <1>1, <1>7 DEF EvidenceRecorded, StageInv, StartInv, PointSet
  <2>4. CASE child'[d] = child[d]
    BY <1>1, <2>1, <2>4 DEF ChildOK
  <2>5. CASE /\ child' = [child EXCEPT ![c] = [@ EXCEPT !.life = "running", !.task = "live",
                                                          !.reserved = TRUE]]
             /\ d = c
    <3>1. child[d].report = None
      BY <1>1, <2>3, <2>5 DEF ChildOK, ActiveChild, Terminal
    <3>2. child'[d] = [child[d] EXCEPT !.life = "running", !.task = "live", !.reserved = TRUE]
      BY <1>1, <2>3, <2>5
    <3>3. /\ child'[d].life = "running" /\ child'[d].report = None
          /\ child'[d].task = "live" /\ child'[d].reserved
      BY <1>1, <3>1, <3>2 DEF ActiveChild
    <3> QED
      BY <2>1, <2>3, <2>5, <3>3 DEF ChildOK
  <2> QED
    BY <1>1, <2>2, <2>4, <2>5
<1>8. CASE ShutdownDone \/ Crash
  <2>1. child'[d] = Absent
    BY <1>8 DEF ShutdownDone, Crash, Leave
  <2> QED
    BY <2>1, FreshChild DEF ChildOK
<1>9. CASE Restart
  <2>1. child'[d] = Inspection(d) /\ durable' = durable
    BY <1>9 DEF Restart, sessionVars
  <2>2. durable[d] \in Lifecycle
    BY <1>1 DEF TypeOK
  <2>3. CASE durable[d] = "none"
    BY <2>1, <2>3, FreshChild DEF ChildOK, Inspection
  <2>4. CASE durable[d] \in Terminal
    <3>1. child'[d] = [Absent EXCEPT !.life = durable[d], !.report = durable[d]]
      BY <2>1, <2>4 DEF Inspection, Terminal
    <3>2. /\ child'[d].life = durable[d] /\ child'[d].report = durable[d]
          /\ child'[d].task = "none" /\ ~child'[d].reserved
      BY <3>1 DEF Absent
    <3> QED
      BY <2>1, <2>4, <3>2 DEF ChildOK, Terminal
  <2>5. CASE durable[d] \in Open
    <3>1. child'[d] = [Absent EXCEPT !.life = "interrupted", !.report = "interrupted"]
      BY <2>1, <2>5 DEF Inspection, Terminal, Open
    <3>2. /\ child'[d].life = "interrupted" /\ child'[d].report = "interrupted"
          /\ child'[d].task = "none" /\ ~child'[d].reserved
      BY <3>1 DEF Absent
    <3> QED
      BY <2>1, <2>5, <3>2 DEF ChildOK, Open
  <2> QED
    BY <2>2, <2>3, <2>4, <2>5 DEF Lifecycle, Open
<1> QED
  BY <1>2, <1>3, <1>4, <1>5, <1>6, <1>7, <1>8, <1>9, SessionWriter DEF Decisive, sessionVars

-----------------------------------------------------------------------------
(* The session and the budget.                                             *)

\* An admission draws the next ids, as many as the ledger has reserved.
LEMMA DrawnGrows ==
    ASSUME SupervisorInv, pc.at \in {"admit", "batch"}, reply # "ok",
           Drawn' = Drawn \cup pc.cs
    PROVE  /\ Cardinality(Drawn') = Cardinality(Drawn) + Cardinality(pc.cs)
           /\ Drawn' = 1 .. Cardinality(Drawn') /\ Cardinality(Drawn') <= MaxDescendants
<1> DEFINE n == Cardinality(Drawn)
           k == Cardinality(pc.cs)
<1>1. Drawn \in SUBSET Children /\ pc.cs \in SUBSET Children
  BY TypeParts DEF SupervisorInv, PointSet, Drawn
<1>2. n \in Nat /\ k \in Nat
  BY <1>1, FiniteChildren
<1>3. Drawn = 1 .. n /\ pc.cs = n + 1 .. n + k
  BY DEF SupervisorInv, SessionInv, StageInv, AdmissionInv
<1>4. n + k <= MaxDescendants
  BY DEF SupervisorInv, BudgetInv, Unsettled
<1> HIDE DEF n, k
<1>5. Drawn' = 1 .. n + k
  BY <1>2, <1>3
<1>6. 1 \in Int /\ n + k \in Int /\ n + k \in Nat
  BY <1>2
<1>7. Cardinality(Drawn') = IF 1 > n + k THEN 0 ELSE (n + k) - 1 + 1
  BY <1>5, <1>6, FS_Interval
<1>8. Cardinality(Drawn') = n + k
  BY <1>6, <1>7
<1>9. Drawn' = 1 .. Cardinality(Drawn') /\ Cardinality(Drawn') <= MaxDescendants
  BY <1>4, <1>5, <1>8
<1> QED
  BY <1>8, <1>9 DEF n, k

\* What one record adds to the ids in use.
LEMMA DrawnStep ==
    ASSUME SupervisorInv, HandleChildCommit(TRUE)
    PROVE  \/ /\ Drawn' = Drawn
              /\ pc.at \notin {"admit", "batch"}
           \/ /\ pc.at \in {"admit", "batch"} /\ reply = None /\ reply' = "ok"
              /\ Drawn' = Drawn \cup pc.cs
              /\ \A c \in pc.cs : durable'[c] # "none"
<1>1. TypeOK /\ ChannelInv /\ durable \in [Children -> Lifecycle] /\ pc \in PointSet
  BY TypeParts DEF SupervisorInv, TypeOK
<1> DEFINE rec == Head(commitQ).rec
<1>2. /\ rec \in Record /\ Apply(rec) /\ Accepts(rec)
      /\ \/ Expected(rec) /\ reply = None /\ reply' = "ok"
         \/ pc.at \in {"interrupting", "interrupt"} /\ rec.kind = "report"
  BY <1>1, CommitHead
<1> HIDE DEF rec
<1>3. CASE pc.at = "batch"
  <2>1. rec.kind = "batch" /\ rec.cs = pc.cs /\ reply = None /\ reply' = "ok"
    BY <1>2, <1>3 DEF Expected
  <2>2. durable' = [c \in Children |-> IF c \in pc.cs THEN "queued" ELSE durable[c]]
    BY <1>2, <2>1, ApplyBatch
  <2>3. pc.cs \in SUBSET Children
    BY <1>1 DEF PointSet
  <2> QED
    BY <1>3, <2>1, <2>2, <2>3 DEF Drawn
<1>4. CASE pc.at = "admit"
  <2>1. PICK c \in pc.cs : rec = [kind |-> "life", c |-> c, to |-> "admitted"]
    BY <1>2, <1>4 DEF Expected
  <2>2. reply = None /\ reply' = "ok"
    BY <1>2, <1>4
  <2>3. pc.cs = {c} /\ c \in Children
    BY <1>1, <1>4 DEF SupervisorInv, StageInv, AdmissionInv, PointSet
  <2>4. durable' = [durable EXCEPT ![c] = "admitted"]
    BY <1>2, <2>1, ApplyLife
  <2> QED
    BY <1>1, <1>4, <2>2, <2>3, <2>4 DEF Drawn
<1>5. CASE pc.at \notin {"admit", "batch"}
  <2>1. \A d \in Children : durable'[d] = "none" <=> durable[d] = "none"
    BY <1>5, DurableMoves DEF Open, Terminal
  <2> QED
    BY <1>5, <2>1 DEF Drawn
<1> QED
  BY <1>3, <1>4, <1>5

\* A plan's children are admitted by one record.
LEMMA PlansStep ==
    ASSUME SupervisorInv, HandleChildCommit(TRUE)
    PROVE  /\ PlanAdmittedOnce'
           /\ \A c \in Children : /\ durable'[c] = "none" => planOf'[c] = None
                                  /\ planOf'[c] \in plans' \cup {None}
<1>1. /\ TypeOK /\ ChannelInv /\ SessionInv /\ durable \in [Children -> Lifecycle]
      /\ pc \in PointSet /\ planOf \in [Children -> Plans \cup {None}]
  BY TypeParts DEF SupervisorInv, TypeOK
<1> DEFINE rec == Head(commitQ).rec
<1>2. /\ rec \in Record /\ Apply(rec) /\ Accepts(rec)
      /\ \/ Expected(rec) /\ reply = None
         \/ pc.at \in {"interrupting", "interrupt"} /\ rec.kind = "report"
  BY <1>1, CommitHead
<1> HIDE DEF rec
<1>3. \A c \in Children : durable'[c] = "none" => durable[c] = "none"
  BY DurableMoves DEF Open, Terminal
<1>4. CASE planOf' = planOf /\ plans \subseteq plans'
  BY <1>1, <1>3, <1>4 DEF SessionInv, PlanAdmittedOnce
<1>5. CASE rec.kind = "batch"
  <2>1. pc.at = "batch" /\ rec.cs = pc.cs /\ rec.plan = pc.plan /\ reply = None
    BY <1>2, <1>5 DEF Expected
  <2>2. /\ plans' = plans
        /\ planOf' = [c \in Children |-> IF c \in pc.cs THEN pc.plan ELSE planOf[c]]
        /\ durable' = [c \in Children |-> IF c \in pc.cs THEN "queued" ELSE durable[c]]
        /\ \A c \in pc.cs : durable[c] = "none"
        /\ pc.plan \in plans \cup {None}
    BY <1>2, <1>5, <2>1, ApplyBatch
  <2>3. pc.cs \in SUBSET Children
    BY <1>1 DEF PointSet
  <2>4. \A c \in Children : /\ durable'[c] = "none" => planOf'[c] = None
                            /\ planOf'[c] \in plans' \cup {None}
    BY <1>1, <2>2 DEF SessionInv
  <2>5. ASSUME NEW p \in Plans
        PROVE  Cardinality({c \in Children : planOf'[c] = p}) \in {0, PlanSize}
    <3>1. CASE p = pc.plan
      <4>1. pc.plan # None
        BY <3>1, NoneAssumption
      <4>2. Cardinality(pc.cs) = PlanSize /\ \A c \in Children : planOf[c] # p
        BY <2>1, <3>1, <4>1, NoneAssumption DEF SupervisorInv, StageInv, PlanInv
      <4>3. {c \in Children : planOf'[c] = p} = pc.cs
        BY <2>2, <2>3, <3>1, <4>2
      <4> QED
        BY <4>2, <4>3
    <3>2. CASE p # pc.plan
      <4>1. \A c \in pc.cs : planOf[c] # p
        BY <1>1, <2>2, <2>3, NoneAssumption DEF SessionInv
      <4>2. {c \in Children : planOf'[c] = p} = {c \in Children : planOf[c] = p}
        BY <2>2, <3>2, <4>1
      <4> QED
        BY <1>1, <4>2 DEF SessionInv, PlanAdmittedOnce
    <3> QED
      BY <3>1, <3>2
  <2> QED
    BY <2>4, <2>5 DEF PlanAdmittedOnce
<1>6. CASE rec.kind # "batch"
  BY <1>2, <1>4, <1>6, RecordKinds, ApplyPlan, ApplyLife, ApplyReport, ApplyEvidence DEF sessionVars
<1> QED
  BY <1>5, <1>6

\* Every step keeps the invariant of the session.
LEMMA SessionStep ==
    ASSUME SupervisorInv, Next
    PROVE  SessionInv'
<1>1. CASE UNCHANGED sessionVars
  BY <1>1 DEF SupervisorInv, SessionInv, sessionVars, Drawn, PlanAdmittedOnce
<1>2. CASE HandleChildCommit(TRUE)
  <2>1. Drawn' = 1 .. Cardinality(Drawn') /\ Cardinality(Drawn') <= MaxDescendants
    BY <1>2, DrawnStep, DrawnGrows, NoneAssumption DEF SupervisorInv, SessionInv
  <2> QED
    BY <1>2, <2>1, PlansStep DEF SessionInv
<1>3. CASE HandleChildCommit(FALSE)
  BY <1>1, <1>3 DEF HandleChildCommit
<1> QED
  BY <1>1, <1>2, <1>3, SessionWriter

-----------------------------------------------------------------------------
(* Where the actor goes.                                                   *)

Loops == {"idle", "schedule", "expire", "stopping", "draining"}

\* The actor goes on without a record, or sends the report of a child.
Moves == pc'.at \in Loops /\ reply' = None /\ commitQ' = commitQ
Reports ==
    \E c \in Children, status \in Terminal, then \in Loops \ {"idle"}, rest \in SUBSET Children :
        /\ pc' = [at |-> "report", cs |-> rest, plan |-> None, c |-> c,
                  status |-> status, then |-> then]
        /\ SendRecord([kind |-> "report", c |-> c, status |-> status])
        /\ child'[c].report = None /\ child'[c].task # "live" /\ durable[c] # "none"

\* The steps after which the actor is in one of its loops or reports a child.
Loopers ==
    \/ Reported \/ ChildQueued \/ EvidenceRecorded \/ HandleCompletion \/ BatchAdmitted
    \/ ChildRunning /\ reply = "err"
    \/ ChildAdmitted /\ reply = "err"
    \/ PlanStarted /\ reply = "err"
    \/ StartQueued /\ ~(CanStart /\ queue # <<>> /\ Eligible(Head(queue)))
    \/ CancelNext \/ CancelDone \/ Shutdown
    \/ \E c \in Children : Cancel(c)
    \/ \E cs \in SUBSET Children : ExpireDeadlines(cs)

\* A channel without a message is empty.
LEMMA NoMessage ==
    ASSUME NEW S, NEW q \in Seq(S), \A i \in DOMAIN q : FALSE
    PROVE  q = <<>>
<1>1. Len(q) \in Nat /\ DOMAIN q = 1 .. Len(q)
  OBVIOUS
<1>2. Len(q) = 0
  BY <1>1
<1> QED
  BY <1>2

\* Outside a shutdown that ran out of grace the channel is empty whenever the
\* actor is not waiting.
LEMMA EmptyChannel ==
    ASSUME TypeOK, ChannelInv, pc.at \notin {"interrupting", "interrupt"},
           reply # None \/ pc.at \notin Awaits
    PROVE  commitQ = <<>>
<1>1. commitQ \in Seq([rec : Record, live : BOOLEAN])
  BY DEF TypeOK
<1>2. \A i \in DOMAIN commitQ : FALSE
  BY DEF ChannelInv, Expected, Awaits
<1> QED
  BY <1>1, <1>2, NoMessage, Zenon

\* A report is committed for a child of the session that does not run.
LEMMA ReportGoes ==
    ASSUME TypeOK, NEW c \in Children, NEW status \in Terminal,
           NEW then \in Loops \ {"idle"}, NEW rest \in SUBSET Children,
           NEW kids, CommitTerminalReport(kids, c, status, then, rest),
           kids[c].report = None => child'[c].report = None /\ child'[c].task # "live",
           durable[c] # "none",
           reply = None \/ (kids[c].report = None /\ ~kids[c].error)
    PROVE  Moves \/ Reports
<1>1. CASE /\ pc' = Point(then, rest, None) /\ UNCHANGED <<commitQ, reply>>
           /\ kids[c].report # None \/ kids[c].error
  BY <1>1 DEF Moves, Point
<1>2. CASE /\ pc' = [at |-> "report", cs |-> rest, plan |-> None, c |-> c,
                     status |-> status, then |-> then]
           /\ SendRecord([kind |-> "report", c |-> c, status |-> status])
           /\ kids[c].report = None /\ ~kids[c].error
  BY <1>2 DEF Reports
<1> QED
  BY <1>1, <1>2, ReportOutcome

\* Such a step finds the commit channel empty and leads to a loop or a report.
LEMMA LoopersGo ==
    ASSUME SupervisorInv, Loopers
    PROVE  commitQ = <<>> /\ (Moves \/ Reports)
<1>1. /\ TypeOK /\ pc \in PointSet /\ StageInv /\ ChannelInv /\ ChildrenInv /\ CompletionsInv
      /\ child \in [Children -> ActiveChild]
  BY TypeParts DEF SupervisorInv, MemoryType
<1>2. commitQ = <<>>
  <2>1. reply # None \/ pc.at \notin Awaits
    BY NoneAssumption DEF Loopers, Reported, ChildQueued, EvidenceRecorded, HandleCompletion,
       BatchAdmitted, ChildRunning, ChildAdmitted, PlanStarted, StartQueued, CancelNext, CancelDone,
       Shutdown, Cancel, ExpireDeadlines, Awaits
  <2>2. pc.at \notin {"interrupting", "interrupt"}
    BY DEF Loopers, Reported, ChildQueued, EvidenceRecorded, HandleCompletion,
       BatchAdmitted, ChildRunning, ChildAdmitted, PlanStarted, StartQueued, CancelNext, CancelDone,
       Shutdown, Cancel, ExpireDeadlines
  <2> QED
    BY <1>1, <2>1, <2>2, EmptyChannel
<1>3. pc.at \notin Awaits => reply = None
  BY <1>1 DEF ChannelInv
<1>4. pc.cs \in SUBSET Children /\ {} \in SUBSET Children
  BY <1>1 DEF PointSet
<1>5. CASE Reported
  <2>1. pc.then \in Loops
    BY <1>1, <1>5 DEF Reported, StageInv, ReportInv, Loops
  <2> QED
    BY <1>2, <1>5, <2>1 DEF Reported, Moves, Point
<1>6. CASE ChildQueued \/ EvidenceRecorded \/ (ChildRunning /\ reply = "err")
  <2>1. PICK c \in pc.cs :
           \/ pc' = At("schedule") /\ reply' = None /\ commitQ' = commitQ
           \/ CommitTerminalReport(child, c, "failed", "schedule", {}) /\ child' = child
    BY <1>6, NoneAssumption DEF ChildQueued, EvidenceRecorded, ChildRunning, memoryVars
  <2>2. c \in Children /\ child[c] \in ActiveChild
    BY <1>1, <1>4
  <2>3. child[c].life \in {"admitted", "queued"} /\ ~child[c].error
    BY <1>1, <1>6
       DEF ChildQueued, EvidenceRecorded, ChildRunning, StageInv, AdmissionInv, StartInv,
           Admitted, Absent
  <2>4. child[c].report = None /\ child[c].task # "live" /\ durable[c] # "none"
    BY <1>1, <2>2, <2>3 DEF ChildrenInv, Absent, ActiveChild, Terminal
  <2>5. CASE pc' = At("schedule") /\ reply' = None /\ commitQ' = commitQ
    BY <1>2, <2>5 DEF Moves, At, Point, Loops
  <2>6. CASE CommitTerminalReport(child, c, "failed", "schedule", {}) /\ child' = child
    <3>1. "failed" \in Terminal /\ "schedule" \in Loops \ {"idle"}
      BY DEF Terminal, Loops
    <3> QED
      BY <1>1, <1>2, <1>4, <2>2, <2>3, <2>4, <2>6, <3>1, ReportGoes
  <2> QED
    BY <1>2, <2>1, <2>5, <2>6
<1>7. CASE HandleCompletion
  <2> DEFINE then == IF pc.at = "idle" THEN "schedule" ELSE "draining"
             done == Head(completions)
  <2>1. CommitTerminalReport(child, done.c, done.status, then, {}) /\ child' = child
    BY <1>7 DEF HandleCompletion, memoryVars
  <2>2. completions \in Seq([c : Children, status : Terminal]) /\ completions # <<>>
    BY <1>1, <1>7 DEF TypeOK, HandleCompletion
  <2>3. done = completions[1] /\ 1 \in DOMAIN completions
        /\ done \in [c : Children, status : Terminal]
    BY <2>2, TailChannel
  <2>4. child[done.c].task # "live" /\ child[done.c].life # "none"
    BY <1>1, <2>3 DEF CompletionsInv
  <2>5. then \in Loops \ {"idle"}
    BY DEF Loops
  <2>6. reply = None
    BY <1>3, <1>7 DEF HandleCompletion, Awaits
  <2> HIDE DEF then, done
  <2>7. done.c \in Children /\ done.status \in Terminal
    BY <2>3
  <2>8. durable[done.c] # "none"
    BY <1>1, <2>4, <2>7 DEF ChildrenInv, Absent
  <2> QED
    BY <1>1, <1>2, <1>4, <2>1, <2>4, <2>5, <2>6, <2>7, <2>8, ReportGoes
<1>8. CASE CancelNext \/ \E c \in Children : Cancel(c)
  <2>1. PICK c \in Children, then \in {"expire", "stopping", "schedule"},
             rest \in SUBSET Children : RequestCancellation(c, then, rest)
    BY <1>1, <1>8, CancelSteps
  <2>2. reply = None /\ then \in Loops \ {"idle"} /\ then \in Loops
    BY <1>1, <1>3, <1>8, CancelSteps DEF Awaits, Loops
  <2>3. CASE pc' = Point(then, rest, None) /\ UNCHANGED <<commitQ, reply>>
    BY <1>2, <2>2, <2>3 DEF Moves, Point
  <2> DEFINE kids == [child EXCEPT ![c].cancelled = TRUE]
  <2>4. CASE /\ CommitTerminalReport(kids, c, "cancelled", then, rest)
             /\ child' = kids /\ Active(c) /\ child[c].life = "queued"
    <3>1. child[c] \in ActiveChild /\ kids[c] = [child[c] EXCEPT !.cancelled = TRUE]
      BY <1>1
    <3>2. kids[c].report = child[c].report /\ kids[c].task = child[c].task
      BY <3>1 DEF ActiveChild
    <3>3. durable[c] # "none" /\ child[c].task # "live"
      BY <1>1, <2>4 DEF ChildrenInv, Absent
    <3>4. kids[c].report = None => child'[c].report = None /\ child'[c].task # "live"
      BY <2>4, <3>2, <3>3
    <3>5. "cancelled" \in Terminal
      BY DEF Terminal
    <3> HIDE DEF kids
    <3> QED
      BY <1>1, <1>2, <2>2, <2>4, <3>3, <3>4, <3>5, ReportGoes
  <2>5. \/ pc' = Point(then, rest, None) /\ UNCHANGED <<commitQ, reply>>
        \/ /\ CommitTerminalReport(kids, c, "cancelled", then, rest)
           /\ child' = kids /\ Active(c) /\ child[c].life = "queued"
    BY <2>1 DEF RequestCancellation
  <2> QED
    BY <1>2, <2>3, <2>4, <2>5
<1>9. CASE BatchAdmitted \/ (ChildAdmitted /\ reply = "err") \/ (PlanStarted /\ reply = "err")
  <2>1. pc' = At("schedule") /\ reply' = None /\ commitQ' = commitQ
    BY <1>9 DEF BatchAdmitted, ChildAdmitted, PlanStarted
  <2> QED
    BY <1>2, <2>1 DEF Moves, At, Point, Loops
<1>10. CASE StartQueued /\ ~(CanStart /\ queue # <<>> /\ Eligible(Head(queue)))
  <2>1. pc.at = "schedule" /\ UNCHANGED <<commitQ, reply>> /\ (pc' = pc \/ pc' = At("idle"))
    BY <1>10 DEF StartQueued
  <2>2. reply = None
    BY <1>3, <2>1 DEF Awaits
  <2> QED
    BY <1>2, <2>1, <2>2 DEF Moves, At, Point, Loops
<1>11. CASE \/ CancelDone \/ Shutdown \/ \E cs \in SUBSET Children : ExpireDeadlines(cs)
  <2>1. UNCHANGED <<commitQ, reply>> /\ reply = None
    BY <1>3, <1>11 DEF CancelDone, Shutdown, ExpireDeadlines, channelVars, Awaits
  <2>2. pc'.at \in Loops
    BY <1>11 DEF CancelDone, Shutdown, ExpireDeadlines, At, Point, Loops
  <2> QED
    BY <1>2, <2>1, <2>2 DEF Moves
<1> QED
  BY <1>5, <1>6, <1>7, <1>8, <1>9, <1>10, <1>11 DEF Loopers

\* It waits for no reply then.
LEMMA LooperLabels ==
    ASSUME SupervisorInv, Loopers
    PROVE  pc'.at \in Loops \cup {"report"} /\ reply' = None
<1>1. CASE Moves
  BY <1>1 DEF Moves
<1>2. CASE Reports
  <2>1. PICK c \in Children, status \in Terminal, then \in Loops \ {"idle"},
             rest \in SUBSET Children :
           /\ pc' = [at |-> "report", cs |-> rest, plan |-> None, c |-> c,
                     status |-> status, then |-> then]
           /\ SendRecord([kind |-> "report", c |-> c, status |-> status])
    BY <1>2 DEF Reports
  <2> QED
    BY <2>1 DEF SendRecord
<1> QED
  BY <1>1, <1>2, LoopersGo

\* The other steps of the actor.
Bystanders ==
    \/ \E w \in Clients : AwaitTimesOut(w)
    \/ \E c \in Children, status \in Terminal \ {"interrupted"} : ChildEnds(c, status)
    \/ \E w \in Clients, c \in Children : Await(w, c)
Admits ==
    \/ SpawnChild \/ SpawnMany \/ \E p \in Plans : StartPlan(p)
    \/ ChildAdmitted /\ reply = "ok"
    \/ PlanStarted /\ reply = "ok"
Starts ==
    \/ StartQueued /\ CanStart /\ queue # <<>> /\ Eligible(Head(queue))
    \/ ChildRunning /\ reply = "ok"
Interrupts == GraceEnds \/ InterruptChild \/ ChildInterrupted
Ends == ShutdownDone \/ Crash \/ Restart

\* Every step is of one of these kinds.
LEMMA StepPlaces ==
    Next => \/ Loopers \/ Bystanders \/ Admits \/ Starts \/ Interrupts \/ Ends
            \/ \E ok \in BOOLEAN : HandleChildCommit(ok)
<1>1. ChildAdmitted \/ PlanStarted \/ ChildRunning => reply = "ok" \/ reply = "err"
  BY DEF ChildAdmitted, PlanStarted, ChildRunning
<1> QED
  BY <1>1, Zenon DEF Next, Supervisor, Loopers, Bystanders, Admits, Starts, Interrupts, Ends

\* Every admission starts from ids that are not in use, one after another.
LEMMA AdmitPlaces ==
    ASSUME SupervisorInv, Admits
    PROVE  /\ SpawnChild => \E c \in Children : /\ pc' = Point("admit", {c}, None)
                                                /\ c = Cardinality(Drawn) + 1
                                                /\ SendRecord([kind |-> "life", c |-> c,
                                                               to |-> "admitted"])
           /\ SpawnMany => \E k \in 1 .. MaxFanOut :
                             /\ pc' = Point("batch", Fresh(k), None)
                             /\ Fresh(k) = Cardinality(Drawn) + 1 .. Cardinality(Drawn) + k
                             /\ Cardinality(Fresh(k)) = k
           /\ (\E p \in Plans : StartPlan(p)) =>
                /\ Fresh(PlanSize) = Cardinality(Drawn) + 1 .. Cardinality(Drawn) + PlanSize
                /\ Cardinality(Fresh(PlanSize)) = PlanSize
           /\ Cardinality(Drawn) \in 0 .. MaxChildren
<1>1. TypeOK
  BY DEF SupervisorInv
<1>2. PlanSize \in Nat /\ \A k \in 1 .. MaxFanOut : k \in Nat
  BY PlanAssumption, LimitsAssumption
<1>3. Cardinality(Drawn) \in Nat /\ Drawn \in SUBSET Children
  BY FiniteChildren DEF Drawn
<1>4. Cardinality(Drawn) \in 0 .. MaxChildren
  <2>1. Drawn = 1 .. Cardinality(Drawn)
    BY DEF SupervisorInv, SessionInv
  <2>2. Cardinality(Drawn) = 0 \/ Cardinality(Drawn) \in Drawn
    BY <1>3, <2>1
  <2> QED
    BY <1>3, <2>2, ChildrenAssumption DEF Children
<1>5. SpawnChild => \E c \in Children : /\ pc' = Point("admit", {c}, None)
                                        /\ c = Cardinality(Drawn) + 1
                                        /\ SendRecord([kind |-> "life", c |-> c,
                                                       to |-> "admitted"])
  <2> SUFFICES ASSUME SpawnChild
               PROVE  \E c \in Children : /\ pc' = Point("admit", {c}, None)
                                          /\ c = Cardinality(Drawn) + 1
                                          /\ SendRecord([kind |-> "life", c |-> c,
                                                         to |-> "admitted"])
    OBVIOUS
  <2>1. PICK c \in Fresh(1) : /\ pc' = Point("admit", {c}, None)
                              /\ SendRecord([kind |-> "life", c |-> c, to |-> "admitted"])
    BY DEF SpawnChild
  <2>2. c \in Children /\ c = Cardinality(Drawn) + 1
    BY <1>3 DEF Fresh
  <2> QED
    BY <2>1, <2>2
<1>6. SpawnMany => \E k \in 1 .. MaxFanOut :
                     /\ pc' = Point("batch", Fresh(k), None)
                     /\ Fresh(k) = Cardinality(Drawn) + 1 .. Cardinality(Drawn) + k
                     /\ Cardinality(Fresh(k)) = k
  BY <1>1, <1>2, FreshIds DEF SpawnMany
<1>7. (\E p \in Plans : StartPlan(p)) =>
        /\ Fresh(PlanSize) = Cardinality(Drawn) + 1 .. Cardinality(Drawn) + PlanSize
        /\ Cardinality(Fresh(PlanSize)) = PlanSize
  BY <1>1, <1>2, FreshIds DEF StartPlan
<1> QED
  BY <1>4, <1>5, <1>6, <1>7

\* The ledger never falls behind the session, and never runs ahead of it but
\* for the admission that is under way.
LEMMA BudgetStep ==
    ASSUME SupervisorInv, Next
    PROVE  BudgetInv' /\ ledger'.admitted \in Nat
<1> DEFINE n == Cardinality(Drawn)
<1>1. /\ TypeOK /\ pc \in PointSet /\ ledger \in [admitted : Nat, running : Nat]
      /\ StageInv /\ BudgetInv /\ SlotsInv
  BY TypeParts DEF SupervisorInv, MemoryType
<1>2. n \in Nat /\ Drawn \in SUBSET Children
  BY FiniteChildren DEF Drawn
<1>3. pc.cs \in SUBSET Children /\ Cardinality(pc.cs) \in Nat
  BY <1>1, FiniteChildren DEF PointSet
<1>4. CASE \E ok \in BOOLEAN : HandleChildCommit(ok)
  <2>1. PICK ok \in BOOLEAN : HandleChildCommit(ok)
    BY <1>4
  <2>2. ledger' = ledger /\ pc' = pc /\ pc.at # "down"
    BY <2>1 DEF HandleChildCommit, memoryVars
  <2>3. CASE ok = TRUE
    <3>1. Cardinality(Drawn') + Unsettled' = Cardinality(Drawn) + Unsettled
      BY <1>2, <1>3, <2>1, <2>2, <2>3, DrawnStep, DrawnGrows, NoneAssumption DEF Unsettled
    <3> QED
      BY <1>1, <2>2, <3>1 DEF BudgetInv
  <2>4. CASE ok = FALSE
    <3>1. Drawn' = Drawn
      BY <2>1, <2>4 DEF HandleChildCommit, sessionVars, Drawn
    <3>2. (reply' = "err" /\ reply # "ok") \/ reply' = reply
      BY <1>1, <2>1, <2>4, CommitHead, NoneAssumption DEF SupervisorInv
    <3>3. Unsettled' = Unsettled
      BY <2>2, <3>2 DEF Unsettled
    <3> QED
      BY <1>1, <2>2, <3>1, <3>3 DEF BudgetInv
  <2> QED
    BY <2>1, <2>3, <2>4
<1>5. CASE ~ \E ok \in BOOLEAN : HandleChildCommit(ok)
  <2>1. durable' = durable /\ Drawn' = Drawn
    BY <1>5, SessionWriter DEF sessionVars, Drawn
  <2>2. CASE Loopers
    <3>1. pc'.at \notin {"admit", "batch"}
      BY <2>2, LooperLabels DEF Loops
    <3>2. Unsettled' = 0
      BY <3>1 DEF Unsettled
    <3>3. CASE ChildAdmitted /\ reply = "err"
      <4>1. Cardinality(pc.cs) = 1
        BY <1>1, <3>3, FS_Singleton DEF ChildAdmitted, StageInv, AdmissionInv
      <4>2. ledger.admitted = n + 1 /\ ledger.admitted <= MaxDescendants
        BY <1>1, <3>3, <4>1 DEF ChildAdmitted, BudgetInv, Unsettled
      <4>3. ledger' = [ledger EXCEPT !.admitted = @ - 1]
        BY <3>3, NoneAssumption DEF ChildAdmitted, Rollback
      <4>4. ledger'.admitted = n /\ n <= MaxDescendants
        BY <1>1, <1>2, <4>2, <4>3, LimitsAssumption
      <4> QED
        BY <1>2, <2>1, <3>2, <4>4 DEF BudgetInv
    <3>4. CASE BatchAdmitted
      <4>1. CASE reply = "ok"
        <5>1. ledger' = ledger /\ Unsettled = 0 /\ pc.at # "down"
          BY <3>4, <4>1 DEF BatchAdmitted, Unsettled
        <5> QED
          BY <1>1, <2>1, <3>2, <5>1 DEF BudgetInv
      <4>2. CASE reply = "err"
        <5>1. ledger.admitted = n + Cardinality(pc.cs) /\ ledger.admitted <= MaxDescendants
          BY <1>1, <3>4, <4>2 DEF BatchAdmitted, BudgetInv, Unsettled
        <5>2. ledger' = [ledger EXCEPT !.admitted = @ - Cardinality(pc.cs)]
          BY <3>4, <4>2 DEF BatchAdmitted, Rollback
        <5>3. ledger'.admitted = n /\ n <= MaxDescendants
          BY <1>1, <1>2, <1>3, <5>1, <5>2, LimitsAssumption
        <5> QED
          BY <1>2, <2>1, <3>2, <5>3 DEF BudgetInv
      <4> QED
        BY <3>4, <4>1, <4>2 DEF BatchAdmitted
    <3>5. CASE pc.at \notin {"admit", "batch"}
      <4>1. ledger'.admitted = ledger.admitted
        <5>1. CASE Reported
          BY <1>1, <5>1, ReportsSettle, SettledSlots DEF StageInv
        <5>2. CASE EvidenceRecorded
          BY <1>1, <5>2 DEF EvidenceRecorded
        <5>3. CASE ~Reported /\ ~EvidenceRecorded
          BY <2>2, <3>5, <5>3, NoneAssumption
             DEF Loopers, ChildQueued, HandleCompletion, BatchAdmitted, ChildRunning, ChildAdmitted,
                 PlanStarted, StartQueued, CancelNext, CancelDone, Shutdown, Cancel, ExpireDeadlines,
                 memoryVars
        <5> QED
          BY <5>1, <5>2, <5>3
      <4>2. pc.at # "down" /\ Unsettled = 0
        BY <2>2, <3>5
           DEF Unsettled, Loopers, Reported, EvidenceRecorded, ChildQueued, HandleCompletion,
               BatchAdmitted, ChildRunning, ChildAdmitted, PlanStarted, StartQueued, CancelNext,
               CancelDone, Shutdown, Cancel, ExpireDeadlines
      <4> QED
        BY <1>1, <2>1, <3>2, <4>1, <4>2 DEF BudgetInv
    <3> QED
      BY <2>2, <3>3, <3>4, <3>5
         DEF Loopers, Reported, EvidenceRecorded, ChildQueued, HandleCompletion,
             ChildRunning, PlanStarted, StartQueued, CancelNext, CancelDone, Shutdown, Cancel,
             ExpireDeadlines
  <2>3. CASE Bystanders
    <3>1. UNCHANGED <<pc, ledger, reply>>
      BY <2>3 DEF Bystanders, AwaitTimesOut, ChildEnds, Await, memoryVars, channelVars
    <3> QED
      BY <1>1, <2>1, <3>1 DEF BudgetInv, Unsettled
  <2>4. CASE Admits
    <3>1. CASE SpawnChild \/ SpawnMany
      <4>1. PICK k \in Nat : /\ ledger' = [ledger EXCEPT !.admitted = @ + k]
                             /\ k <= MaxDescendants - ledger.admitted
                             /\ pc'.at \in {"admit", "batch"} /\ Cardinality(pc'.cs) = k
                             /\ reply' = None /\ pc.at = "idle"
        <5>1. CASE SpawnChild
          <6>1. PICK c : pc' = Point("admit", {c}, None)
            BY <2>4, <5>1, AdmitPlaces
          <6>2. pc'.at = "admit" /\ pc'.cs = {c}
            BY <6>1 DEF Point
          <6>3. Cardinality(pc'.cs) = 1
            BY <6>2, FS_Singleton
          <6>4. /\ ledger' = [ledger EXCEPT !.admitted = @ + 1] /\ pc.at = "idle"
                /\ 1 <= MaxDescendants - ledger.admitted /\ reply' = None
            BY <5>1 DEF SpawnChild, CanReserve, Reserve, SendRecord
          <6> QED
            BY <6>2, <6>3, <6>4
        <5>2. CASE SpawnMany
          <6>1. PICK k \in 1 .. MaxFanOut :
                   /\ CanReserve(k) /\ Cardinality(Fresh(k)) = k /\ Reserve(k)
                   /\ pc' = Point("batch", Fresh(k), None)
                   /\ SendRecord([kind |-> "batch", cs |-> Fresh(k), plan |-> None])
            BY <5>2 DEF SpawnMany
          <6>2. k \in Nat /\ pc.at = "idle"
            BY <5>2, LimitsAssumption DEF SpawnMany
          <6>3. pc'.at = "batch" /\ pc'.cs = Fresh(k)
            BY <6>1 DEF Point
          <6> QED
            BY <6>1, <6>2, <6>3 DEF CanReserve, Reserve, SendRecord
        <5> QED
          BY <3>1, <5>1, <5>2
      <4>2. Unsettled' = k
        BY <4>1, NoneAssumption DEF Unsettled
      <4>3. ledger.admitted = n
        BY <1>1, <1>2, <4>1 DEF BudgetInv, Unsettled
      <4>4. ledger'.admitted = n + k /\ n + k <= MaxDescendants
        BY <1>1, <1>2, <4>1, <4>3, LimitsAssumption
      <4> QED
        BY <1>2, <2>1, <4>1, <4>2, <4>4 DEF BudgetInv
    <3>2. CASE \E p \in Plans : StartPlan(p)
      <4>1. ledger' = ledger /\ pc'.at = "plan" /\ pc.at = "idle"
        BY <3>2 DEF StartPlan, memoryVars, Point
      <4> QED
        BY <1>1, <2>1, <4>1 DEF BudgetInv, Unsettled
    <3>3. CASE ChildAdmitted /\ reply = "ok"
      <4>1. ledger' = ledger /\ pc'.at = "queue" /\ pc.at = "admit"
        BY <1>1, <3>3 DEF ChildAdmitted, PointSet
      <4> QED
        BY <1>1, <2>1, <3>3, <4>1 DEF BudgetInv, Unsettled
    <3>4. CASE PlanStarted /\ reply = "ok"
      <4>1. /\ ledger' = [ledger EXCEPT !.admitted = @ + Cardinality(pc.cs)]
            /\ Cardinality(pc.cs) <= MaxDescendants - ledger.admitted
            /\ pc'.at = "batch" /\ pc'.cs = pc.cs /\ reply' = None /\ pc.at = "plan"
        BY <1>1, <3>4 DEF PlanStarted, PointSet, CanReserve, Reserve, SendRecord
      <4>2. Unsettled' = Cardinality(pc.cs)
        BY <4>1, NoneAssumption DEF Unsettled
      <4>3. ledger.admitted = n
        BY <1>1, <1>2, <4>1 DEF BudgetInv, Unsettled
      <4>4. ledger'.admitted = n + Cardinality(pc.cs) /\ n + Cardinality(pc.cs) <= MaxDescendants
        BY <1>1, <1>2, <1>3, <4>1, <4>3, LimitsAssumption
      <4> QED
        BY <1>2, <1>3, <2>1, <4>2, <4>4 DEF BudgetInv
    <3> QED
      BY <2>4, <3>1, <3>2, <3>3, <3>4 DEF Admits
  <2>5. CASE Starts
    <3>1. ledger' = ledger /\ pc.at \in {"schedule", "run"} /\ pc'.at \in {"run", "evidence"}
      <4>1. CASE StartQueued /\ CanStart /\ queue # <<>> /\ Eligible(Head(queue))
        BY <4>1 DEF StartQueued, Point
      <4>2. CASE ChildRunning /\ reply = "ok"
        BY <1>1, <4>2 DEF ChildRunning, memoryVars, PointSet
      <4> QED
        BY <2>5, <4>1, <4>2 DEF Starts
    <3> QED
      BY <1>1, <2>1, <3>1 DEF BudgetInv, Unsettled
  <2>6. CASE Interrupts
    <3>1. ledger'.admitted = ledger.admitted
      BY <1>1, <2>6, ReportsSettle, SettledSlots
         DEF Interrupts, GraceEnds, InterruptChild, memoryVars, StageInv
    <3>2. /\ pc.at \in {"draining", "report", "interrupting", "interrupt"}
          /\ pc'.at \in {"interrupting", "interrupt"}
      BY <2>6 DEF Interrupts, GraceEnds, InterruptChild, ChildInterrupted, Point
    <3> QED
      BY <1>1, <2>1, <3>1, <3>2 DEF BudgetInv, Unsettled
  <2>7. CASE Ends
    <3>1. CASE Restart
      <4>1. ledger'.admitted = n /\ pc'.at = "idle"
        BY <3>1 DEF Restart, At, Point
      <4>2. n <= MaxDescendants
        BY DEF SupervisorInv, SessionInv
      <4> QED
        BY <1>2, <2>1, <4>1, <4>2 DEF BudgetInv, Unsettled
    <3>2. CASE ShutdownDone \/ Crash
      BY <3>2 DEF ShutdownDone, Crash, Leave, At, Point, BudgetInv
    <3> QED
      BY <2>7, <3>1, <3>2 DEF Ends
  <2> QED
    BY <1>5, <2>2, <2>3, <2>4, <2>5, <2>6, <2>7, StepPlaces
<1> QED
  BY <1>4, <1>5

-----------------------------------------------------------------------------
(* What the actor relies on at each of its points.                         *)

\* The runtime's answer tells the actor what is durable.
LEMMA StageCommit ==
    ASSUME SupervisorInv, NEW ok \in BOOLEAN, HandleChildCommit(ok)
    PROVE  StageInv'
<1>1. /\ TypeOK /\ ChannelInv /\ SessionInv /\ pc \in PointSet
      /\ durable \in [Children -> Lifecycle] /\ planOf \in [Children -> Plans \cup {None}]
      /\ AdmissionInv /\ PlanInv /\ StartInv /\ ReportInv
  BY TypeParts DEF SupervisorInv, TypeOK, StageInv
<1>2. pc' = pc /\ child' = child
  BY <1>1, CommitHead DEF memoryVars
<1>3. pc.cs \in SUBSET Children
  BY <1>1 DEF PointSet
<1> DEFINE rec == Head(commitQ).rec
<1>4. /\ rec \in Record
      /\ \/ /\ Expected(rec) /\ reply = None /\ reply' = (IF ok THEN "ok" ELSE "err")
         \/ /\ pc.at \in {"interrupting", "interrupt"} /\ rec.kind = "report" /\ reply' = reply
      /\ ok => Accepts(rec) /\ Apply(rec)
      /\ ~ok => UNCHANGED sessionVars
  BY <1>1, CommitHead
<1> HIDE DEF rec
<1>5. CASE ok = FALSE
  <2>1. /\ UNCHANGED <<durable, planOf, plans>> /\ Drawn' = Drawn
        /\ (reply = None /\ reply' = "err") \/ reply' = reply
    BY <1>4, <1>5 DEF sessionVars, Drawn
  <2>2. AdmissionInv'
    BY <1>1, <1>2, <2>1, NoneAssumption DEF AdmissionInv
  <2>3. PlanInv'
    BY <1>1, <1>2, <2>1, NoneAssumption DEF PlanInv
  <2>4. StartInv'
    BY <1>1, <1>2, <2>1 DEF StartInv
  <2>5. ReportInv'
    BY <1>1, <1>2, <2>1 DEF ReportInv
  <2> QED
    BY <2>2, <2>3, <2>4, <2>5 DEF StageInv
<1>6. CASE ok = TRUE
  <2>1. Accepts(rec) /\ Apply(rec) /\ HandleChildCommit(TRUE)
    BY <1>4, <1>6
  <2>2. pc.at \notin {"interrupting", "interrupt"} => Expected(rec) /\ reply' = "ok"
    BY <1>4, <1>6
  <2>3. \A d \in Children : durable[d] # "none" => durable'[d] # "none"
    BY <2>1, DurableMoves DEF Open, Terminal
  <2>4. AdmissionInv'
    <3>1. pc.at \in {"admit", "batch"} =>
             reply' = "ok" /\ \A c \in pc.cs : durable'[c] # "none"
      BY <2>1, <2>2, DrawnStep
    <3>2. pc.at = "plan" => Drawn' = Drawn
      BY <2>1, DrawnStep
    <3> QED
      BY <1>1, <1>2, <3>1, <3>2 DEF AdmissionInv
  <2>5. PlanInv'
    <3>1. pc.at = "batch" => reply' = "ok"
      BY <2>2
    <3>2. ASSUME pc.at = "plan" PROVE \A c \in Children : planOf'[c] # pc.plan
      <4>1. rec.kind = "plan" /\ rec.plan = pc.plan
        BY <2>2, <3>2 DEF Expected
      <4>2. planOf' = planOf /\ pc.plan \notin plans
        BY <2>1, <4>1, ApplyPlan
      <4>3. pc.plan # None
        BY <1>1, <3>2, NoneAssumption DEF PlanInv
      <4> QED
        BY <1>1, <4>2, <4>3 DEF SessionInv
    <3> QED
      BY <1>1, <1>2, <3>1, <3>2 DEF PlanInv
  <2>6. StartInv'
    <3>1. ASSUME pc.at = "run" PROVE \A c \in pc.cs : durable'[c] = "running"
      <4>1. PICK c \in pc.cs : rec = [kind |-> "life", c |-> c, to |-> "running"]
        BY <2>2, <3>1 DEF Expected
      <4>2. pc.cs = {c} /\ c \in Children
        BY <1>1, <1>3, <3>1 DEF AdmissionInv
      <4>3. durable' = [durable EXCEPT ![c] = "running"]
        BY <2>1, <4>1, ApplyLife
      <4> QED
        BY <1>1, <4>2, <4>3
    <3>2. pc.at = "evidence" => \A c \in Children : durable'[c] = durable[c]
      BY <2>1, DurableMoves
    <3> QED
      BY <1>1, <1>2, <1>3, <3>1, <3>2 DEF StartInv
  <2>7. ReportInv'
    <3>1. ASSUME pc.at = "report" PROVE durable'[pc.c] = pc.status
      <4>1. rec.kind = "report" /\ rec.c = pc.c /\ rec.status = pc.status
        BY <2>2, <3>1 DEF Expected
      <4>2. durable' = [durable EXCEPT ![pc.c] = pc.status] /\ pc.c \in Children
        BY <1>1, <2>1, <3>1, <4>1, ApplyReport DEF ReportInv
      <4> QED
        BY <1>1, <4>2
    <3>2. ASSUME pc.at = "interrupt", reply' = "ok" PROVE durable'[pc.c] = "interrupted"
      <4>1. pc.c \in Children
        BY <1>1, <3>2 DEF ReportInv
      <4>2. CASE Expected(rec)
        <5>1. rec.kind = "report" /\ rec.c = pc.c /\ rec.status = "interrupted"
          BY <3>2, <4>2 DEF Expected
        <5>2. durable' = [durable EXCEPT ![pc.c] = "interrupted"]
          BY <2>1, <5>1, ApplyReport
        <5> QED
          BY <1>1, <4>1, <5>2
      <4>3. CASE reply' = reply
        <5>1. durable[pc.c] = "interrupted"
          BY <1>1, <3>2, <4>3 DEF ReportInv
        <5> QED
          BY <2>1, <4>1, <5>1, DurableMoves DEF Open
      <4> QED
        BY <1>4, <4>2, <4>3
    <3>3. pc.at \in {"report", "interrupt"} => durable'[pc.c] # "none"
      BY <1>1, <2>3 DEF ReportInv
    <3>4. pc.at \in {"interrupting", "interrupt"} => \A c \in pc.cs : durable'[c] # "none"
      BY <1>1, <1>3, <2>3 DEF ReportInv
    <3> QED
      BY <1>1, <1>2, <3>1, <3>2, <3>3, <3>4 DEF ReportInv
  <2> QED
    BY <2>4, <2>5, <2>6, <2>7 DEF StageInv
<1> QED
  BY <1>5, <1>6

\* Callers and child tasks do not disturb what the actor has in hand.
LEMMA StageBystanders ==
    ASSUME SupervisorInv, Bystanders
    PROVE  StageInv'
<1>1. /\ TypeOK /\ AdmissionInv /\ PlanInv /\ StartInv /\ ReportInv
      /\ child \in [Children -> ActiveChild] /\ pc.cs \in SUBSET Children
  BY TypeParts DEF SupervisorInv, StageInv, MemoryType, PointSet
<1>2. UNCHANGED <<pc, reply, durable, planOf>> /\ Drawn' = Drawn
  BY DEF Bystanders, AwaitTimesOut, ChildEnds, Await, memoryVars, channelVars, sessionVars, Drawn
<1>3. Mild
  BY MildTouches DEF Bystanders, Touches, OthersQuiet
<1>4. pc.at = "idle" \/ \A d \in Children : child[d].task # "live" => child'[d] = child[d]
  <2>1. CASE \E c \in Children, status \in Terminal \ {"interrupted"} : ChildEnds(c, status)
    BY <1>1, <2>1 DEF ChildEnds
  <2>2. CASE \E w \in Clients : AwaitTimesOut(w)
    BY <2>2 DEF AwaitTimesOut, memoryVars
  <2>3. CASE \E w \in Clients, c \in Children : Await(w, c)
    BY <2>3 DEF Await
  <2> QED
    BY <2>1, <2>2, <2>3 DEF Bystanders
<1>5. AdmissionInv'
  <2>1. Absent.task # "live" /\ Admitted("admitted").task # "live"
    BY DEF Absent, Admitted
  <2>2. ASSUME pc.at \in {"admit", "batch", "queue"} PROVE \A c \in pc.cs : child'[c] = child[c]
    BY <1>1, <1>4, <2>1, <2>2 DEF AdmissionInv
  <2> QED
    BY <1>1, <1>2, <2>2 DEF AdmissionInv
<1>6. PlanInv'
  BY <1>1, <1>2 DEF PlanInv
<1>7. StartInv'
  BY <1>1, <1>2, <1>3 DEF StartInv, Mild
<1>8. ReportInv'
  BY <1>1, <1>2, <1>3 DEF ReportInv, Mild
<1> QED
  BY <1>5, <1>6, <1>7, <1>8 DEF StageInv

\* The stage of the actor after a step of a loop.
LEMMA StageLoopers ==
    ASSUME SupervisorInv, Loopers, Next
    PROVE  StageInv'
<1>1. pc'.at \in Loops \cup {"report"}
  BY LooperLabels
<1>2. AdmissionInv' /\ PlanInv' /\ StartInv'
  BY <1>1 DEF AdmissionInv, PlanInv, StartInv, Loops
<1>3. ReportInv'
  <2>1. CASE pc'.at # "report"
    BY <1>1, <2>1 DEF ReportInv, Loops
  <2>2. CASE pc'.at = "report"
    <3>1. Reports
      BY <2>2, LoopersGo DEF Moves, Loops
    <3>2. PICK c \in Children, status \in Terminal, then \in Loops \ {"idle"},
               rest \in SUBSET Children :
             /\ pc' = [at |-> "report", cs |-> rest, plan |-> None, c |-> c,
                       status |-> status, then |-> then]
             /\ SendRecord([kind |-> "report", c |-> c, status |-> status])
             /\ child'[c].report = None /\ child'[c].task # "live" /\ durable[c] # "none"
      BY <3>1 DEF Reports
    <3>3. pc'.c = c /\ pc'.status = status /\ pc'.then = then
      BY <3>2
    <3>4. durable' = durable
      <4>1. commitQ = <<>>
        BY LoopersGo
      <4> QED
        BY <4>1, SessionWriter DEF HandleChildCommit, sessionVars
    <3>5. reply' = None
      BY <3>2 DEF SendRecord
    <3> QED
      BY <2>2, <3>2, <3>3, <3>4, <3>5, NoneAssumption DEF ReportInv, Loops
  <2> QED
    BY <2>1, <2>2
<1> QED
  BY <1>2, <1>3 DEF StageInv

\* The stage of the actor after a step of an admission.
LEMMA StageAdmits ==
    ASSUME SupervisorInv, Admits
    PROVE  StageInv'
<1> DEFINE n == Cardinality(Drawn)
<1>1. /\ TypeOK /\ pc \in PointSet /\ AdmissionInv /\ PlanInv /\ SessionInv /\ ChildrenInv
      /\ child \in [Children -> ActiveChild]
  BY TypeParts DEF SupervisorInv, StageInv, MemoryType
<1>2. UNCHANGED <<durable, planOf>> /\ Drawn' = Drawn
  BY DEF Admits, SpawnChild, SpawnMany, StartPlan, ChildAdmitted, PlanStarted, sessionVars, Drawn
<1>3. reply' = None
  BY NoneAssumption
     DEF Admits, SpawnChild, SpawnMany, StartPlan, ChildAdmitted, PlanStarted, SendRecord
<1>4. n \in Nat /\ n \in 0 .. MaxChildren
  BY AdmitPlaces, ChildrenAssumption
<1>5. Drawn = 1 .. n
  BY <1>1 DEF SessionInv
<1>6. ASSUME NEW c \in Children, c > n PROVE child[c] = Absent
  <2>1. c \notin Drawn
    <3>1. c \in Nat
      BY ChildrenAssumption DEF Children
    <3> QED
      BY <1>4, <1>5, <1>6, <3>1
  <2>2. durable[c] = "none"
    BY <2>1 DEF Drawn
  <2> QED
    BY <1>1, <2>2 DEF ChildrenInv
<1> HIDE DEF n
<1>7. pc'.at \in {"admit", "batch", "plan", "queue"} => StartInv' /\ ReportInv'
  BY DEF StartInv, ReportInv
<1>8. CASE SpawnChild
  <2>1. PICK c \in Children : pc' = Point("admit", {c}, None) /\ c = n + 1
    BY <1>8, AdmitPlaces DEF n
  <2>2. pc'.at = "admit" /\ pc'.cs = {c}
    BY <2>1 DEF Point
  <2>3. Cardinality(pc'.cs) = 1
    BY <2>2, FS_Singleton
  <2>4. pc'.cs = n + 1 .. n + 1
    BY <1>4, <2>1, <2>2
  <2>5. child' = child
    BY <1>8 DEF SpawnChild
  <2>6. child'[c] = Absent
    BY <1>4, <1>6, <2>1, <2>5
  <2>7. AdmissionInv'
    BY <1>2, <1>3, <1>4, <2>2, <2>3, <2>4, <2>6, NoneAssumption DEF AdmissionInv, n
  <2> QED
    BY <1>7, <2>2, <2>7 DEF StageInv, PlanInv
<1>9. CASE SpawnMany
  <2>1. PICK k \in 1 .. MaxFanOut : /\ pc' = Point("batch", Fresh(k), None)
                                    /\ Fresh(k) = n + 1 .. n + k /\ Cardinality(Fresh(k)) = k
    BY <1>9, AdmitPlaces DEF n
  <2>2. pc'.at = "batch" /\ pc'.cs = Fresh(k) /\ pc'.plan = None
    BY <2>1 DEF Point
  <2>3. child' = child
    BY <1>9 DEF SpawnMany
  <2>4. \A c \in pc'.cs : c \in Children /\ c > n
    BY <1>4, <2>1, <2>2, LimitsAssumption DEF Fresh
  <2>5. \A c \in pc'.cs : child'[c] = Absent
    BY <1>6, <2>3, <2>4
  <2>6. AdmissionInv'
    BY <1>2, <1>3, <1>4, <2>1, <2>2, <2>5, NoneAssumption DEF AdmissionInv, n
  <2> QED
    BY <1>7, <2>2, <2>6 DEF StageInv, PlanInv
<1>10. CASE \E p \in Plans : StartPlan(p)
  <2>1. PICK p \in Plans : StartPlan(p)
    BY <1>10
  <2>2. Fresh(PlanSize) = n + 1 .. n + PlanSize /\ Cardinality(Fresh(PlanSize)) = PlanSize
    BY <1>10, AdmitPlaces DEF n
  <2>3. pc'.at = "plan" /\ pc'.cs = Fresh(PlanSize) /\ pc'.plan = p
    BY <2>1 DEF StartPlan, Point
  <2>4. AdmissionInv'
    BY <1>2, <1>3, <1>4, <2>2, <2>3 DEF AdmissionInv, n
  <2>5. PlanInv'
    BY <1>3, <2>2, <2>3, NoneAssumption DEF PlanInv
  <2> QED
    BY <1>7, <2>3, <2>4, <2>5 DEF StageInv
<1>11. CASE ChildAdmitted /\ reply = "ok"
  <2>1. pc'.at = "queue" /\ pc'.cs = pc.cs /\ pc.at = "admit"
    BY <1>1, <1>11 DEF ChildAdmitted, PointSet
  <2>2. pc.cs \in SUBSET Children
    BY <1>1 DEF PointSet
  <2>3. \A c \in pc.cs : child'[c] = Admitted("admitted")
    BY <1>11, <2>2 DEF ChildAdmitted
  <2>4. \E c \in Children : pc.cs = {c}
    BY <1>1, <2>1 DEF AdmissionInv
  <2>5. AdmissionInv'
    BY <2>1, <2>3, <2>4 DEF AdmissionInv
  <2> QED
    BY <1>7, <2>1, <2>5 DEF StageInv, PlanInv
<1>12. CASE PlanStarted /\ reply = "ok"
  <2>1. pc'.at = "batch" /\ pc'.cs = pc.cs /\ pc'.plan = pc.plan /\ pc.at = "plan"
    BY <1>1, <1>12 DEF PlanStarted, PointSet
  <2>2. child' = child
    BY <1>12 DEF PlanStarted
  <2>3. pc.cs = n + 1 .. n + Cardinality(pc.cs)
    BY <1>1, <2>1 DEF AdmissionInv, n
  <2>4. pc.cs \in SUBSET Children /\ Cardinality(pc.cs) \in Nat
    BY <1>1, FiniteChildren DEF PointSet
  <2>5. \A c \in pc.cs : c \in Children /\ c > n
    BY <1>4, <2>3, <2>4
  <2>6. \A c \in pc.cs : child'[c] = Absent
    BY <1>6, <2>2, <2>5
  <2>7. AdmissionInv'
    BY <1>2, <1>3, <1>4, <2>1, <2>3, <2>6, NoneAssumption DEF AdmissionInv, n
  <2>8. PlanInv'
    BY <1>1, <1>2, <1>12, <2>1 DEF PlanInv
  <2> QED
    BY <1>7, <2>1, <2>7, <2>8 DEF StageInv
<1> QED
  BY <1>8, <1>9, <1>10, <1>11, <1>12 DEF Admits

\* The stage of the actor after it starts a queued child.
LEMMA StageStarts ==
    ASSUME SupervisorInv, Starts
    PROVE  StageInv'
<1>1. /\ TypeOK /\ pc \in PointSet /\ AdmissionInv /\ StartInv
      /\ queue \in Seq(Children)
  BY TypeParts DEF SupervisorInv, StageInv, MemoryType
<1>2. /\ UNCHANGED <<durable, child>> /\ reply' = None
  BY NoneAssumption DEF Starts, StartQueued, ChildRunning, sessionVars, memoryVars, SendRecord
<1>3. CASE StartQueued /\ CanStart /\ queue # <<>> /\ Eligible(Head(queue))
  <2>1. pc' = Point("run", {Head(queue)}, None)
    BY <1>3 DEF StartQueued
  <2>2. pc'.at = "run" /\ pc'.cs = {Head(queue)} /\ Head(queue) \in Children
    BY <1>1, <1>3, <2>1 DEF Point
  <2>3. StartInv'
    BY <1>2, <1>3, <2>2, NoneAssumption DEF StartInv, Eligible
  <2> QED
    BY <2>2, <2>3 DEF StageInv, AdmissionInv, PlanInv, ReportInv
<1>4. CASE ChildRunning /\ reply = "ok"
  <2>1. pc.at = "run" /\ pc'.at = "evidence" /\ pc'.cs = pc.cs
    BY <1>1, <1>4 DEF ChildRunning, PointSet
  <2>2. StartInv'
    BY <1>1, <1>2, <1>4, <2>1 DEF StartInv
  <2>3. \E c \in Children : pc.cs = {c}
    BY <1>1, <2>1 DEF AdmissionInv
  <2> QED
    BY <2>1, <2>2, <2>3 DEF StageInv, AdmissionInv, PlanInv, ReportInv
<1> QED
  BY <1>3, <1>4 DEF Starts

\* The stage of the actor after it interrupts a child.
LEMMA StageInterrupts ==
    ASSUME SupervisorInv, Interrupts
    PROVE  StageInv'
<1>1. /\ TypeOK /\ pc \in PointSet /\ ReportInv /\ ChildrenInv
      /\ child \in [Children -> ActiveChild]
  BY TypeParts DEF SupervisorInv, StageInv, MemoryType
<1>2. durable' = durable
  BY DEF Interrupts, GraceEnds, InterruptChild, ChildInterrupted, sessionVars
<1>3. pc.cs \in SUBSET Children
  BY <1>1 DEF PointSet
<1>4. pc'.at \in {"interrupting", "interrupt"}
  BY DEF Interrupts, GraceEnds, InterruptChild, ChildInterrupted, Point
<1>5. AdmissionInv' /\ PlanInv' /\ StartInv'
  BY <1>4 DEF AdmissionInv, PlanInv, StartInv
<1>6. CASE GraceEnds
  <2>1. pc'.at = "interrupting" /\ pc'.cs = {c \in Children : Active(c)} /\ pc'.c = None
    BY <1>6 DEF GraceEnds, Point
  <2>2. child' = child
    BY <1>6 DEF GraceEnds, memoryVars
  <2>3. \A c \in Children : Active(c) => child[c].report = None /\ durable[c] # "none"
    BY <1>1 DEF Active, ChildrenInv, Absent, ActiveChild, Terminal
  <2>4. ReportInv'
    BY <1>2, <2>1, <2>2, <2>3, NoneAssumption DEF ReportInv
  <2> QED
    BY <1>5, <2>4 DEF StageInv
<1>7. CASE InterruptChild
  <2> DEFINE c == Min(pc.cs)
  <2>1. c \in pc.cs
    BY <1>3, <1>7, LeastChild DEF InterruptChild
  <2>2. /\ pc' = [Point("interrupt", pc.cs \ {c}, None) EXCEPT !.c = c]
        /\ child' = [child EXCEPT ![c].task = "none"] /\ pc.at = "interrupting" /\ reply' = None
    BY <1>7 DEF InterruptChild, SendRecord
  <2> HIDE DEF c
  <2>3. pc'.at = "interrupt" /\ pc'.c = c /\ pc'.cs = pc.cs \ {c}
    BY <2>2 DEF Point
  <2>4. \A d \in pc.cs : d \in Children /\ child[d].report = None /\ durable[d] # "none"
    BY <1>1, <1>3, <2>2 DEF ReportInv
  <2>5. child'[c] = [child[c] EXCEPT !.task = "none"] /\ child[c] \in ActiveChild
    BY <1>1, <2>1, <2>2, <2>4
  <2>6. child'[c].report = None /\ child'[c].task = "none"
    BY <2>1, <2>4, <2>5 DEF ActiveChild
  <2>7. \A d \in pc.cs \ {c} : child'[d] = child[d]
    BY <1>1, <2>2, <2>4
  <2>8. ReportInv'
    BY <1>2, <2>1, <2>2, <2>3, <2>4, <2>6, <2>7, NoneAssumption DEF ReportInv
  <2> QED
    BY <1>5, <2>8 DEF StageInv
<1>8. CASE ChildInterrupted
  <2>1. pc'.at = "interrupting" /\ pc'.cs = pc.cs /\ pc'.c = None /\ pc.at = "interrupt"
    BY <1>8 DEF ChildInterrupted, Point
  <2>2. \A d \in pc.cs : d \in Children \ {pc.c} /\ child[d].report = None /\ durable[d] # "none"
    BY <1>1, <1>3, <2>1 DEF ReportInv
  <2>3. \A d \in pc.cs : child'[d] = child[d]
    BY <1>8, <2>2, SettledAgrees
  <2>4. ReportInv'
    BY <1>2, <2>1, <2>2, <2>3, NoneAssumption DEF ReportInv
  <2> QED
    BY <1>5, <2>4 DEF StageInv
<1> QED
  BY <1>6, <1>7, <1>8 DEF Interrupts

\* Every step keeps what the stage of the actor says.
LEMMA StageStep ==
    ASSUME SupervisorInv, Next
    PROVE  StageInv'
<1>1. CASE Ends
  <2>1. pc'.at \in {"down", "idle"}
    BY <1>1 DEF Ends, ShutdownDone, Crash, Restart, Leave, At, Point
  <2> QED
    BY <2>1 DEF StageInv, AdmissionInv, PlanInv, StartInv, ReportInv
<1> QED
  BY <1>1, StepPlaces, StageLoopers, StageBystanders, StageAdmits, StageStarts, StageInterrupts,
     StageCommit

-----------------------------------------------------------------------------
(* The channels.                                                           *)

\* The messages of a channel are of its type.
LEMMA MessageType ==
    ASSUME NEW S, NEW q \in Seq(S), NEW i \in DOMAIN q
    PROVE  q[i] \in S
OBVIOUS

\* A message in the commit channel carries a record.
LEMMA RecordsInChannel ==
    ASSUME TypeOK, NEW i \in DOMAIN commitQ
    PROVE  commitQ[i].rec \in Record /\ commitQ[i].live \in BOOLEAN
<1> DEFINE S == [rec : Record, live : BOOLEAN]
<1>1. commitQ \in Seq(S)
  BY DEF TypeOK
<1> HIDE DEF S
<1>2. commitQ[i] \in S
  BY <1>1, MessageType
<1> QED
  BY <1>2 DEF S

\* What the invariant says of one record after a step.
HarmlessNext(rec) ==
    rec.kind = "report" =>
        /\ child'[rec.c].task # "live" /\ durable'[rec.c] # "none"
        /\ child'[rec.c].report = None \/ durable'[rec.c] \in Terminal
ExpectedNext(rec) ==
    \/ pc'.at = "admit" /\ \E c \in pc'.cs : rec = [kind |-> "life", c |-> c, to |-> "admitted"]
    \/ pc'.at = "queue" /\ \E c \in pc'.cs : rec = [kind |-> "life", c |-> c, to |-> "queued"]
    \/ pc'.at = "run" /\ \E c \in pc'.cs : rec = [kind |-> "life", c |-> c, to |-> "running"]
    \/ pc'.at = "evidence" /\ \E c \in pc'.cs : rec = [kind |-> "evidence", c |-> c]
    \/ pc'.at = "plan" /\ rec = [kind |-> "plan", plan |-> pc'.plan]
    \/ pc'.at = "batch" /\ rec = [kind |-> "batch", cs |-> pc'.cs, plan |-> pc'.plan]
    \/ pc'.at = "report" /\ rec = [kind |-> "report", c |-> pc'.c, status |-> pc'.status]
    \/ pc'.at = "interrupt" /\ rec = [kind |-> "report", c |-> pc'.c, status |-> "interrupted"]
MessageNext(i) ==
    /\ commitQ'[i].live => i = Len(commitQ') /\ reply' = None /\ ExpectedNext(commitQ'[i].rec)
    /\ ~commitQ'[i].live =>
         pc'.at \in {"interrupting", "interrupt"} /\ commitQ'[i].rec.kind = "report"
    /\ HarmlessNext(commitQ'[i].rec)

\* The invariant of the channel after a step, message by message.
LEMMA ChannelNext ==
    ASSUME \A i \in DOMAIN commitQ' : MessageNext(i), pc'.at \notin Awaits => reply' = None
    PROVE  ChannelInv'
BY Zenon DEF ChannelInv, MessageNext, HarmlessNext, ExpectedNext, Harmless, Expected

\* A report in the channel stays harmless while its child neither starts nor
\* learns a report.
LEMMA HarmlessStays ==
    ASSUME SupervisorInv, NEW rec \in Record, Harmless(rec),
           \A d \in Children : durable[d] # "none" => durable'[d] # "none",
           \A d \in Children : durable[d] \in Terminal => durable'[d] \in Terminal,
           \A d \in Children : child'[d].task = "live" => child[d].task = "live",
           \A d \in Children : child'[d].report = child[d].report \/ durable'[d] \in Terminal
    PROVE  HarmlessNext(rec)
BY RecordKinds DEF Harmless, HarmlessNext

\* The actor sends its record into an empty channel.
LEMMA FirstRecord ==
    ASSUME TypeOK, commitQ = <<>>, NEW rec \in Record, SendRecord(rec),
           ExpectedNext(rec), HarmlessNext(rec), pc'.at \in Awaits
    PROVE  ChannelInv'
<1>1. commitQ' = <<[rec |-> rec, live |-> TRUE]>> /\ reply' = None
  BY DEF SendRecord
<1>2. Len(commitQ') = 1 /\ DOMAIN commitQ' = {1} /\ commitQ'[1].rec = rec /\ commitQ'[1].live
  BY <1>1
<1> QED
  BY <1>1, <1>2, ChannelNext, Zenon DEF MessageNext

\* Every step keeps the invariant of the channel.
LEMMA ChannelStep ==
    ASSUME SupervisorInv, Next
    PROVE  ChannelInv'
<1>1. TypeOK /\ ChannelInv /\ pc \in PointSet /\ ChildrenInv /\ StageInv
  BY TypeParts DEF SupervisorInv
<1>2. CASE commitQ' = <<>> /\ (pc'.at \notin Awaits => reply' = None)
  BY <1>2 DEF ChannelInv
<1>3. CASE Loopers
  <2>1. commitQ = <<>> /\ reply' = None
    BY <1>3, LoopersGo, LooperLabels
  <2>2. CASE Moves
    BY <1>2, <2>1, <2>2 DEF Moves
  <2>3. CASE Reports
    <3>1. PICK c \in Children, status \in Terminal, then \in Loops \ {"idle"},
               rest \in SUBSET Children :
             /\ pc' = [at |-> "report", cs |-> rest, plan |-> None, c |-> c,
                       status |-> status, then |-> then]
             /\ SendRecord([kind |-> "report", c |-> c, status |-> status])
             /\ child'[c].report = None /\ child'[c].task # "live" /\ durable[c] # "none"
      BY <2>3 DEF Reports
    <3>2. durable' = durable
      BY <2>1, SessionWriter DEF HandleChildCommit, sessionVars
    <3> DEFINE rec == [kind |-> "report", c |-> c, status |-> status]
    <3>3. rec \in Record
      BY DEF Record
    <3>4. ExpectedNext(rec)
      BY <3>1 DEF ExpectedNext
    <3>5. HarmlessNext(rec)
      BY <3>1, <3>2 DEF HarmlessNext
    <3>6. pc'.at \in Awaits
      BY <3>1 DEF Awaits
    <3> QED
      BY <1>1, <2>1, <3>1, <3>3, <3>4, <3>5, <3>6, FirstRecord
  <2> QED
    BY <1>3, <2>2, <2>3, LoopersGo
<1>4. CASE Bystanders
  <2>1. UNCHANGED <<pc, commitQ, reply, durable>>
    BY <1>4 DEF Bystanders, AwaitTimesOut, ChildEnds, Await, channelVars, sessionVars
  <2>2. Mild
    BY <1>4, MildTouches DEF Bystanders, Touches, OthersQuiet
  <2>3. \A rec \in Record : Harmless(rec) => HarmlessNext(rec)
    BY <2>1, <2>2, HarmlessStays DEF Mild
  <2>4. \A rec : Expected(rec) => ExpectedNext(rec)
    BY <2>1 DEF Expected, ExpectedNext
  <2>5. ASSUME NEW i \in DOMAIN commitQ PROVE MessageNext(i)
    <3>1. commitQ[i].rec \in Record
      BY <1>1, RecordsInChannel
    <3> QED
      BY <1>1, <2>1, <2>3, <2>4, <3>1 DEF ChannelInv, MessageNext
  <2> QED
    BY <1>1, <2>1, <2>5, ChannelNext DEF ChannelInv
<1>5. CASE Admits \/ Starts
  <2>1. commitQ = <<>>
    <3>1. /\ pc.at \in {"idle", "admit", "plan", "schedule", "run"}
          /\ reply # None \/ pc.at \notin Awaits
      BY <1>5, NoneAssumption
         DEF Admits, Starts, SpawnChild, SpawnMany, StartPlan, ChildAdmitted, PlanStarted,
             StartQueued, ChildRunning, Awaits
    <3> QED
      BY <1>1, <3>1, EmptyChannel
  <2>2. PICK rec \in Record : SendRecord(rec) /\ rec.kind # "report" /\ ExpectedNext(rec)
    <3>1. CASE SpawnChild
      <4>1. PICK c \in Children : /\ pc' = Point("admit", {c}, None)
                                  /\ SendRecord([kind |-> "life", c |-> c, to |-> "admitted"])
        BY <3>1, AdmitPlaces DEF Admits
      <4>2. [kind |-> "life", c |-> c, to |-> "admitted"] \in Record
        BY DEF Record
      <4>3. pc'.at = "admit" /\ pc'.cs = {c}
        BY <4>1 DEF Point
      <4> QED
        BY <4>1, <4>2, <4>3 DEF ExpectedNext
    <3>2. CASE SpawnMany
      <4>1. PICK k \in 1 .. MaxFanOut :
               /\ pc' = Point("batch", Fresh(k), None)
               /\ SendRecord([kind |-> "batch", cs |-> Fresh(k), plan |-> None])
        BY <3>2 DEF SpawnMany
      <4>2. [kind |-> "batch", cs |-> Fresh(k), plan |-> None] \in Record
        BY DEF Record, Fresh
      <4>3. pc'.at = "batch" /\ pc'.cs = Fresh(k) /\ pc'.plan = None
        BY <4>1 DEF Point
      <4> QED
        BY <4>1, <4>2, <4>3 DEF ExpectedNext
    <3>3. CASE \E p \in Plans : StartPlan(p)
      <4>1. PICK p \in Plans : /\ pc' = Point("plan", Fresh(PlanSize), p)
                               /\ SendRecord([kind |-> "plan", plan |-> p])
        BY <3>3 DEF StartPlan
      <4>2. [kind |-> "plan", plan |-> p] \in Record
        BY DEF Record
      <4>3. pc'.at = "plan" /\ pc'.plan = p
        BY <4>1 DEF Point
      <4> QED
        BY <4>1, <4>2, <4>3 DEF ExpectedNext
    <3>4. CASE ChildAdmitted /\ reply = "ok"
      <4>1. PICK c \in pc.cs : SendRecord([kind |-> "life", c |-> c, to |-> "queued"])
        BY <3>4 DEF ChildAdmitted
      <4>2. [kind |-> "life", c |-> c, to |-> "queued"] \in Record
        BY <1>1 DEF Record, PointSet
      <4>3. pc'.at = "queue" /\ pc'.cs = pc.cs
        BY <1>1, <3>4 DEF ChildAdmitted, PointSet
      <4> QED
        BY <4>1, <4>2, <4>3 DEF ExpectedNext
    <3>5. CASE PlanStarted /\ reply = "ok"
      <4>1. SendRecord([kind |-> "batch", cs |-> pc.cs, plan |-> pc.plan])
        BY <3>5 DEF PlanStarted
      <4>2. [kind |-> "batch", cs |-> pc.cs, plan |-> pc.plan] \in Record
        BY <1>1 DEF Record, PointSet
      <4>3. pc'.at = "batch" /\ pc'.cs = pc.cs /\ pc'.plan = pc.plan
        BY <1>1, <3>5 DEF PlanStarted, PointSet
      <4> QED
        BY <4>1, <4>2, <4>3 DEF ExpectedNext
    <3>6. CASE StartQueued /\ CanStart /\ queue # <<>> /\ Eligible(Head(queue))
      <4>1. /\ pc' = Point("run", {Head(queue)}, None)
            /\ SendRecord([kind |-> "life", c |-> Head(queue), to |-> "running"])
        BY <3>6 DEF StartQueued
      <4>2. [kind |-> "life", c |-> Head(queue), to |-> "running"] \in Record
        BY <1>1, <3>6 DEF Record, TypeOK
      <4>3. pc'.at = "run" /\ pc'.cs = {Head(queue)}
        BY <4>1 DEF Point
      <4> QED
        BY <4>1, <4>2, <4>3 DEF ExpectedNext
    <3>7. CASE ChildRunning /\ reply = "ok"
      <4>1. PICK c \in pc.cs :
               pc' = [pc EXCEPT !.at = "evidence"] /\ SendRecord([kind |-> "evidence", c |-> c])
        BY <3>7 DEF ChildRunning
      <4>2. [kind |-> "evidence", c |-> c] \in Record
        BY <1>1 DEF Record, PointSet
      <4>3. pc'.at = "evidence" /\ pc'.cs = pc.cs
        BY <1>1, <4>1 DEF PointSet
      <4> QED
        BY <4>1, <4>2, <4>3 DEF ExpectedNext
    <3> QED
      BY <1>5, <3>1, <3>2, <3>3, <3>4, <3>5, <3>6, <3>7 DEF Admits, Starts
  <2>3. HarmlessNext(rec) /\ pc'.at \in Awaits
    BY <2>2 DEF HarmlessNext, ExpectedNext, Awaits
  <2> QED
    BY <1>1, <2>1, <2>2, <2>3, FirstRecord
<1>6. CASE Ends
  <2>1. CASE Restart
    <3>1. commitQ = <<>> /\ reply = None /\ UNCHANGED <<commitQ, reply>>
      BY <1>1, <2>1 DEF Restart, channelVars, SupervisorInv, DownInv, ChannelInv, Awaits
    <3> QED
      BY <1>2, <3>1
  <2>2. CASE ShutdownDone \/ Crash
    BY <1>2, <2>2 DEF ShutdownDone, Crash, Leave
  <2> QED
    BY <1>6, <2>1, <2>2 DEF Ends
<1>7. CASE \E ok \in BOOLEAN : HandleChildCommit(ok)
  <2>1. PICK ok \in BOOLEAN : HandleChildCommit(ok)
    BY <1>7
  <2>2. pc' = pc /\ child' = child
    BY <1>1, <2>1, CommitHead DEF memoryVars
  <2>3. CASE Head(commitQ).live
    <3>1. Expected(Head(commitQ).rec) /\ commitQ' = <<>>
      BY <1>1, <2>1, <2>3, CommitHead
    <3>2. pc.at \in Awaits
      BY <3>1 DEF Expected, Awaits
    <3> QED
      BY <1>2, <2>2, <3>1, <3>2
  <2>4. CASE ~Head(commitQ).live
    <3>1. pc.at \in {"interrupting", "interrupt"} /\ reply' = reply /\ commitQ # <<>>
      BY <1>1, <2>1, <2>4, CommitHead
    <3>2. commitQ' = Tail(commitQ) /\ commitQ \in Seq([rec : Record, live : BOOLEAN])
      BY <1>1, <2>1 DEF HandleChildCommit, TypeOK
    <3>3. /\ Len(commitQ') = Len(commitQ) - 1 /\ Len(commitQ) \in Nat
          /\ \A i \in DOMAIN commitQ' : i + 1 \in DOMAIN commitQ /\ commitQ'[i] = commitQ[i + 1]
      BY <3>1, <3>2, TailChannel, LenProperties
    <3>4. DOMAIN commitQ' \subseteq Nat
      BY <3>1, <3>2
    <3>5. /\ \A d \in Children : durable[d] # "none" => durable'[d] # "none"
          /\ \A d \in Children : durable[d] \in Terminal => durable'[d] \in Terminal
      <4>1. CASE ok = TRUE
        BY <2>1, <4>1, DurableMoves DEF Open, Terminal
      <4>2. CASE ok = FALSE
        BY <2>1, <4>2 DEF HandleChildCommit, sessionVars
      <4> QED
        BY <4>1, <4>2
    <3>6. \A rec \in Record : Harmless(rec) => HarmlessNext(rec)
      BY <2>2, <3>5, HarmlessStays
    <3>7. \A rec : Expected(rec) => ExpectedNext(rec)
      BY <2>2 DEF Expected, ExpectedNext
    <3>8. ASSUME NEW i \in DOMAIN commitQ' PROVE MessageNext(i)
      <4>1. i + 1 \in DOMAIN commitQ /\ commitQ'[i] = commitQ[i + 1] /\ i \in Nat
        BY <3>3, <3>4
      <4>2. commitQ[i + 1].rec \in Record
        BY <1>1, <4>1, RecordsInChannel
      <4>3. i + 1 = Len(commitQ) => i = Len(commitQ')
        BY <3>3, <4>1
      <4> QED
        BY <1>1, <2>2, <3>1, <3>6, <3>7, <4>1, <4>2, <4>3 DEF ChannelInv, MessageNext
    <3> QED
      BY <1>1, <2>2, <3>1, <3>8, ChannelNext DEF ChannelInv
  <2> QED
    BY <2>3, <2>4
<1>8. CASE GraceEnds
  <2>1. /\ pc'.at = "interrupting" /\ UNCHANGED <<durable, child, reply>>
        /\ pc.at \in {"draining", "report"} /\ (pc.at = "report" => reply = None)
    BY <1>8 DEF GraceEnds, Point, sessionVars, memoryVars
  <2>2. reply = None
    BY <1>1, <2>1 DEF ChannelInv, Awaits
  <2>3. CASE commitQ' = <<>>
    BY <1>2, <2>1, <2>2, <2>3
  <2>4. CASE commitQ' = [i \in DOMAIN commitQ |-> [commitQ[i] EXCEPT !.live = FALSE]]
    <3>1. \A rec \in Record : Harmless(rec) => HarmlessNext(rec)
      BY <2>1, HarmlessStays
    <3>2. ASSUME NEW i \in DOMAIN commitQ' PROVE MessageNext(i)
      <4>1. i \in DOMAIN commitQ /\ commitQ'[i] = [commitQ[i] EXCEPT !.live = FALSE]
        BY <2>4
      <4>2. commitQ[i] \in [rec : Record, live : BOOLEAN]
        BY <1>1, <4>1, MessageType DEF TypeOK
      <4>3. commitQ'[i].rec = commitQ[i].rec /\ ~commitQ'[i].live /\ commitQ[i].rec \in Record
        BY <4>1, <4>2
      <4>4. commitQ[i].rec.kind = "report" /\ Harmless(commitQ[i].rec)
        BY <1>1, <2>1, <4>1 DEF ChannelInv, Expected
      <4> QED
        BY <2>1, <3>1, <4>3, <4>4 DEF MessageNext
    <3> QED
      BY <2>1, <2>2, <3>2, ChannelNext
  <2> QED
    BY <1>8, <2>3, <2>4 DEF GraceEnds
<1>9. CASE InterruptChild
  <2> DEFINE c == Min(pc.cs)
             rec == [kind |-> "report", c |-> c, status |-> "interrupted"]
  <2>1. c \in pc.cs /\ c \in Children
    BY <1>1, <1>9, LeastChild DEF InterruptChild, PointSet
  <2>2. /\ pc' = [Point("interrupt", pc.cs \ {c}, None) EXCEPT !.c = c] /\ SendRecord(rec)
        /\ child' = [child EXCEPT ![c].task = "none"] /\ pc.at = "interrupting"
    BY <1>9 DEF InterruptChild
  <2>3. rec \in Record /\ rec.kind = "report" /\ rec.c = c
    BY <2>1 DEF Record, Terminal
  <2>4. pc'.at = "interrupt" /\ pc'.c = c /\ reply' = None
    BY <2>2 DEF Point, SendRecord
  <2>5. ExpectedNext(rec)
    BY <2>4 DEF ExpectedNext
  <2> HIDE DEF c
  <2>6. durable' = durable
    BY <1>9 DEF InterruptChild, sessionVars
  <2>7. Mild
    BY <1>9, MildTouches DEF Touches
  <2>8. \A r \in Record : Harmless(r) => HarmlessNext(r)
    BY <2>6, <2>7, HarmlessStays DEF Mild
  <2>9. HarmlessNext(rec)
    <3>1. child[c].report = None /\ durable[c] # "none"
      BY <1>1, <2>1, <2>2 DEF StageInv, ReportInv
    <3>2. child \in [Children -> ActiveChild]
      BY <1>1 DEF TypeOK
    <3>3. child'[c].task = "none"
      BY <2>1, <2>2, <3>2 DEF ActiveChild
    <3>4. child'[c].report = child[c].report
      BY <2>1, <2>7 DEF Mild
    <3> QED
      BY <2>3, <2>6, <3>1, <3>3, <3>4 DEF HarmlessNext
  <2> DEFINE S == [rec : Record, live : BOOLEAN]
             m == [rec |-> rec, live |-> TRUE]
  <2>10. commitQ' = Append(commitQ, m) /\ m.rec = rec /\ m.live /\ m \in S /\ commitQ \in Seq(S)
    BY <1>1, <2>2, <2>3 DEF SendRecord, TypeOK
  <2> HIDE DEF S, m, rec
  <2>11. /\ Len(commitQ') = Len(commitQ) + 1
         /\ DOMAIN commitQ' = DOMAIN commitQ \cup {Len(commitQ) + 1}
         /\ \A i \in DOMAIN commitQ : commitQ'[i] = commitQ[i]
         /\ commitQ'[Len(commitQ) + 1] = m
    BY <2>10, AppendChannel
  <2>12. ASSUME NEW i \in DOMAIN commitQ PROVE MessageNext(i)
    <3>1. commitQ[i].rec \in Record
      BY <1>1, RecordsInChannel
    <3>2. ~commitQ[i].live /\ commitQ[i].rec.kind = "report" /\ Harmless(commitQ[i].rec)
      BY <1>1, <2>2 DEF ChannelInv, Expected
    <3> QED
      BY <2>4, <2>8, <2>11, <3>1, <3>2 DEF MessageNext
  <2>13. MessageNext(Len(commitQ) + 1)
    BY <2>4, <2>5, <2>9, <2>10, <2>11 DEF MessageNext
  <2> QED
    BY <2>4, <2>11, <2>12, <2>13, ChannelNext
<1>10. CASE ChildInterrupted
  <2>1. /\ pc.at = "interrupt" /\ pc'.at = "interrupting" /\ reply' = None /\ reply # None
        /\ UNCHANGED <<commitQ, durable>>
    BY <1>10, NoneAssumption DEF ChildInterrupted, Point, sessionVars
  <2>2. pc.c \in Children /\ child[pc.c].report = None
    BY <1>1, <2>1 DEF StageInv, ReportInv
  <2>3. /\ child'[pc.c].task = "none" /\ \A d \in Children \ {pc.c} : child'[d] = child[d]
        /\ child'[pc.c].report = None \/ durable[pc.c] = child'[pc.c].report
    BY <1>10, SettledAgrees
  <2>4. child'[pc.c].report \in Terminal \cup {None}
    BY <2>2, ChildTypeStep DEF ActiveChild
  <2>5. \A d \in Children : child'[d].task = "live" => child[d].task = "live"
    BY <2>2, <2>3
  <2>6. \A d \in Children : child'[d].report = child[d].report \/ durable'[d] \in Terminal
    BY <2>1, <2>2, <2>3, <2>4
  <2>7. \A rec \in Record : Harmless(rec) => HarmlessNext(rec)
    BY <2>1, <2>5, <2>6, HarmlessStays
  <2>8. ASSUME NEW i \in DOMAIN commitQ PROVE MessageNext(i)
    <3>1. commitQ[i].rec \in Record
      BY <1>1, RecordsInChannel
    <3>2. ~commitQ[i].live /\ commitQ[i].rec.kind = "report" /\ Harmless(commitQ[i].rec)
      BY <1>1, <2>1 DEF ChannelInv
    <3> QED
      BY <2>1, <2>7, <3>1, <3>2 DEF MessageNext
  <2> QED
    BY <2>1, <2>8, ChannelNext
<1> QED
  BY <1>3, <1>4, <1>5, <1>6, <1>7, <1>8, <1>9, <1>10, StepPlaces DEF Interrupts

-----------------------------------------------------------------------------
(* Completions.                                                            *)

Finished(d) == child[d].task # "live" /\ child[d].life \notin {"none", "admitted", "queued"}
FinishedNext(d) == child'[d].task # "live" /\ child'[d].life \notin {"none", "admitted", "queued"}

\* A child that has run and ended does not run again in this process.
LEMMA FinishedStays ==
    ASSUME SupervisorInv, Next, ~Ends, NEW d \in Children, Finished(d)
    PROVE  FinishedNext(d)
<1>1. /\ TypeOK /\ child \in [Children -> ActiveChild] /\ child[d] \in ActiveChild
      /\ pc \in PointSet /\ StageInv
  BY TypeParts DEF SupervisorInv, TypeOK
<1>2. CASE ~Decisive
  BY <1>2, MildSteps DEF Mild, Finished, FinishedNext
<1>3. CASE Reported \/ ChildInterrupted
  <2>1. /\ pc.c \in Children /\ child'[pc.c].task = "none"
        /\ \A e \in Children \ {pc.c} : child'[e] = child[e]
    BY <1>3, SettledAgrees
  <2>2. CASE d # pc.c
    BY <2>1, <2>2 DEF Finished, FinishedNext
  <2>3. CASE d = pc.c
    <3>1. CASE \E status \in Terminal : Settle(d, status)
      <4>1. PICK status \in Terminal : Settle(d, status)
        BY <3>1
      <4>2. child'[d] = [child[d] EXCEPT !.life = status, !.report = status,
                            !.waiters = {}, !.task = "none", !.reserved = FALSE]
        BY <1>1, <4>1 DEF Settle
      <4>3. child'[d].life = status
        BY <1>1, <4>2 DEF ActiveChild
      <4> QED
        BY <2>1, <2>3, <4>3 DEF FinishedNext, Terminal
    <3>2. CASE \E life \in {"interrupted", child[d].life} : SettleWithError(d, life)
      <4>1. PICK life \in {"interrupted", child[d].life} : SettleWithError(d, life)
        BY <3>2
      <4>2. child'[d] = [child[d] EXCEPT !.life = life, !.error = TRUE,
                            !.waiters = {}, !.task = "none", !.reserved = FALSE]
        BY <1>1, <4>1 DEF SettleWithError
      <4>3. child'[d].life = life
        BY <1>1, <4>2 DEF ActiveChild
      <4> QED
        BY <2>1, <2>3, <4>1, <4>3 DEF Finished, FinishedNext
    <3>3. pc.at = "report" => pc.status \in Terminal
      BY <1>1 DEF StageInv, ReportInv
    <3>4. "interrupted" \in Terminal
      BY DEF Terminal
    <3> QED
      BY <1>3, <2>3, <3>1, <3>2, <3>3, <3>4 DEF Reported, ChildInterrupted
  <2> QED
    BY <2>2, <2>3
<1>4. CASE ChildAdmitted \/ BatchAdmitted
  <2>1. d \in pc.cs => child[d] = Absent
    BY <1>1, <1>4 DEF ChildAdmitted, BatchAdmitted, StageInv, AdmissionInv
  <2>2. d \notin pc.cs
    BY <2>1 DEF Finished, Absent
  <2>3. child'[d] = child[d]
    BY <1>1, <1>4, <2>2 DEF ChildAdmitted, BatchAdmitted
  <2> QED
    BY <2>3 DEF Finished, FinishedNext
<1>5. CASE ChildQueued
  <2>1. PICK c \in pc.cs : child' = [child EXCEPT ![c].life = "queued"] \/ child' = child
    BY <1>5 DEF ChildQueued
  <2>2. child[c] = Admitted("admitted") /\ c \in Children
    BY <1>1, <1>5 DEF ChildQueued, StageInv, AdmissionInv, PointSet
  <2>3. c # d
    BY <2>2 DEF Finished, Admitted, Absent
  <2>4. child'[d] = child[d]
    BY <1>1, <2>1, <2>2, <2>3
  <2> QED
    BY <2>4 DEF Finished, FinishedNext
<1>6. CASE EvidenceRecorded
  <2>1. PICK c \in pc.cs :
           \/ child' = [child EXCEPT ![c] = [@ EXCEPT !.life = "running", !.task = "live",
                                                        !.reserved = TRUE]]
           \/ child' = child
    BY <1>6 DEF EvidenceRecorded
  <2>2. child[c].life = "queued" /\ c \in Children
    BY <1>1, <1>6 DEF EvidenceRecorded, StageInv, StartInv, PointSet
  <2>3. c # d
    BY <2>2 DEF Finished
  <2>4. child'[d] = child[d]
    BY <1>1, <2>1, <2>2, <2>3
  <2> QED
    BY <2>4 DEF Finished, FinishedNext
<1> QED
  BY <1>2, <1>3, <1>4, <1>5, <1>6 DEF Decisive, Ends

\* Only child tasks fill the channel of completions, and only the actor drains it.
LEMMA CompletionMoves ==
    ASSUME Next, ~Ends, ~HandleCompletion,
           ~ \E c \in Children, status \in Terminal \ {"interrupted"} : ChildEnds(c, status)
    PROVE  completions' = completions
<1>1. CASE Loopers
  <2>1. CASE \/ Reported \/ ChildQueued \/ EvidenceRecorded \/ BatchAdmitted
             \/ ChildRunning \/ ChildAdmitted \/ PlanStarted \/ StartQueued
    BY <2>1 DEF Reported, ChildQueued, EvidenceRecorded, BatchAdmitted, ChildRunning,
       ChildAdmitted, PlanStarted, StartQueued
  <2>2. CASE \/ CancelNext \/ CancelDone \/ Shutdown
             \/ \E c \in Children : Cancel(c)
             \/ \E cs \in SUBSET Children : ExpireDeadlines(cs)
    BY <2>2 DEF CancelNext, CancelDone, Shutdown, Cancel, ExpireDeadlines, channelVars
  <2> QED
    BY <1>1, <2>1, <2>2 DEF Loopers
<1>2. CASE Bystanders
  BY <1>2 DEF Bystanders, AwaitTimesOut, Await, channelVars
<1>3. CASE Admits \/ Starts
  BY <1>3 DEF Admits, Starts, SpawnChild, SpawnMany, StartPlan, ChildAdmitted, PlanStarted,
     StartQueued, ChildRunning
<1>4. CASE Interrupts
  BY <1>4 DEF Interrupts, GraceEnds, InterruptChild, ChildInterrupted
<1>5. CASE \E ok \in BOOLEAN : HandleChildCommit(ok)
  BY <1>5 DEF HandleChildCommit
<1> QED
  BY <1>1, <1>2, <1>3, <1>4, <1>5, StepPlaces

CompletionNext(i) == completions'[i].c \in Children /\ FinishedNext(completions'[i].c)

\* A completion stays one of a child that has ended.
LEMMA CompletionsStep ==
    ASSUME SupervisorInv, Next
    PROVE  CompletionsInv' /\ completions' \in Seq([c : Children, status : Terminal])
<1> DEFINE S == [c : Children, status : Terminal]
<1>1. completions \in Seq(S) /\ CompletionsInv
  BY DEF SupervisorInv, TypeOK
<1>2. \A m \in S : m.c \in Children
  OBVIOUS
<1>3. SUFFICES completions' \in Seq(S) /\ \A i \in DOMAIN completions' : CompletionNext(i)
  BY DEF CompletionsInv, CompletionNext, FinishedNext
<1> HIDE DEF S
<1>4. \A i \in DOMAIN completions : completions[i].c \in Children /\ Finished(completions[i].c)
  BY <1>1, <1>2, MessageType DEF CompletionsInv, Finished
<1>5. CASE Ends
  <2>1. completions' = <<>>
    BY <1>5 DEF SupervisorInv, DownInv, Ends, ShutdownDone, Crash, Restart, Leave, channelVars
  <2> QED
    BY <2>1
<1>6. CASE ~Ends
  <2>1. \A i \in DOMAIN completions : completions[i].c \in Children /\ FinishedNext(completions[i].c)
    BY <1>4, <1>6, FinishedStays
  <2>2. CASE HandleCompletion
    <3>1. completions # <<>> /\ completions' = Tail(completions)
      BY <2>2 DEF HandleCompletion
    <3>2. /\ Tail(completions) \in Seq(S)
          /\ \A i \in DOMAIN Tail(completions) :
               i + 1 \in DOMAIN completions /\ Tail(completions)[i] = completions[i + 1]
      BY <1>1, <3>1, TailChannel
    <3> QED
      BY <2>1, <3>1, <3>2 DEF CompletionNext
  <2>3. CASE \E c \in Children, status \in Terminal \ {"interrupted"} : ChildEnds(c, status)
    <3>1. PICK c \in Children, status \in Terminal \ {"interrupted"} : ChildEnds(c, status)
      BY <2>3
    <3> DEFINE m == [c |-> c, status |-> status]
    <3>2. m \in S /\ m.c = c
      BY <3>1 DEF S
    <3>3. completions' = Append(completions, m)
      BY <3>1 DEF ChildEnds
    <3> HIDE DEF m
    <3>4. /\ completions' \in Seq(S)
          /\ DOMAIN completions' = DOMAIN completions \cup {Len(completions) + 1}
          /\ \A i \in DOMAIN completions : completions'[i] = completions[i]
          /\ completions'[Len(completions) + 1] = m
      BY <1>1, <3>2, <3>3, AppendChannel
    <3>5. FinishedNext(c)
      <4>1. child[c].task = "live" /\ child' = [child EXCEPT ![c].task = "done"]
        BY <3>1 DEF ChildEnds
      <4>2. child[c] \in ActiveChild /\ child \in [Children -> ActiveChild]
        BY <3>1 DEF SupervisorInv, TypeOK
      <4>3. child[c].life = "running"
        BY <3>1, <4>1 DEF SupervisorInv, ChildrenInv
      <4>4. child'[c] = [child[c] EXCEPT !.task = "done"]
        BY <3>1, <4>1, <4>2
      <4>5. child'[c].task = "done" /\ child'[c].life = "running"
        BY <4>2, <4>3, <4>4 DEF ActiveChild
      <4> QED
        BY <4>5 DEF FinishedNext
    <3> QED
      BY <2>1, <3>2, <3>4, <3>5 DEF CompletionNext
  <2>4. CASE /\ ~HandleCompletion
             /\ ~ \E c \in Children, status \in Terminal \ {"interrupted"} : ChildEnds(c, status)
    <3>1. completions' = completions
      BY <1>6, <2>4, CompletionMoves
    <3> QED
      BY <1>1, <2>1, <3>1 DEF CompletionNext
  <2> QED
    BY <2>2, <2>3, <2>4
<1> QED
  BY <1>5, <1>6

-----------------------------------------------------------------------------
(* The process that is gone, and the remaining types.                      *)

\* The actor is gone only when it has left, and nothing runs without it.
LEMMA DownStep ==
    ASSUME SupervisorInv, Next
    PROVE  DownInv'
<1>1. TypeOK /\ DownInv /\ pc \in PointSet
  BY TypeParts DEF SupervisorInv
<1>2. CASE Loopers
  BY <1>2, LooperLabels DEF DownInv, Loops
<1>3. CASE \E w \in Clients : AwaitTimesOut(w)
  BY <1>1, <1>3 DEF AwaitTimesOut, DownInv, memoryVars, channelVars
<1>4. CASE \/ \E c \in Children, status \in Terminal \ {"interrupted"} : ChildEnds(c, status)
           \/ \E w \in Clients, c \in Children : Await(w, c)
           \/ \E ok \in BOOLEAN : HandleChildCommit(ok)
  <2>1. pc'.at # "down"
    BY <1>4 DEF ChildEnds, Await, HandleChildCommit
  <2> QED
    BY <2>1 DEF DownInv
<1>5. CASE Admits \/ Starts
  <2>1. CASE SpawnChild \/ SpawnMany \/ \E p \in Plans : StartPlan(p)
    <3>1. \E at \in {"admit", "batch", "plan"} : \E cs, plan : pc' = Point(at, cs, plan)
      BY <2>1 DEF SpawnChild, SpawnMany, StartPlan
    <3>2. pc'.at # "down"
      BY <3>1 DEF Point
    <3> QED
      BY <3>2 DEF DownInv
  <2>2. CASE ChildAdmitted /\ reply = "ok"
    BY <1>1, <2>2 DEF ChildAdmitted, PointSet, DownInv
  <2>3. CASE PlanStarted /\ reply = "ok"
    BY <1>1, <2>3 DEF PlanStarted, PointSet, DownInv
  <2>4. CASE Starts
    <3>1. (\E cs : pc' = Point("run", cs, None)) \/ pc' = [pc EXCEPT !.at = "evidence"]
      BY <2>4 DEF Starts, StartQueued, ChildRunning
    <3>2. pc'.at # "down"
      BY <1>1, <3>1 DEF Point, PointSet
    <3> QED
      BY <3>2 DEF DownInv
  <2> QED
    BY <1>5, <2>1, <2>2, <2>3, <2>4 DEF Admits
<1>6. CASE Interrupts
  <2>1. pc'.at # "down"
    BY <1>6 DEF Interrupts, GraceEnds, InterruptChild, ChildInterrupted, Point
  <2> QED
    BY <2>1 DEF DownInv
<1>7. CASE ShutdownDone \/ Crash
  BY <1>7 DEF ShutdownDone, Crash, Leave, DownInv
<1>8. CASE Restart
  <2>1. pc'.at # "down"
    BY <1>8 DEF Restart, At, Point
  <2> QED
    BY <2>1 DEF DownInv
<1> QED
  BY <1>2, <1>3, <1>4, <1>5, <1>6, <1>7, <1>8, StepPlaces DEF Bystanders, Ends

\* The ledger stays a record of its two counts.
LEMMA LedgerTypeStep ==
    ASSUME SupervisorInv, Next
    PROVE  ledger' \in [admitted : Nat, running : Nat]
<1>1. TypeOK /\ SlotsInv /\ StageInv /\ ledger \in [admitted : Nat, running : Nat] /\ pc \in PointSet
  BY TypeParts DEF SupervisorInv, TypeOK
<1>2. ledger'.admitted \in Nat /\ ledger'.running \in Nat
  BY BudgetStep, SlotsStep
<1>3. CASE Reported \/ ChildInterrupted
  BY <1>1, <1>3, ReportsSettle, SettledSlots DEF StageInv
<1>4. CASE ~(Reported \/ ChildInterrupted)
  <2>1. \/ \E n : ledger' = [ledger EXCEPT !.admitted = n]
        \/ \E n : ledger' = [ledger EXCEPT !.running = n]
        \/ \E m, n : ledger' = [admitted |-> m, running |-> n]
        \/ ledger' = ledger
    <3>1. CASE Decisive
      BY <1>4, <3>1 DEF Decisive, ChildAdmitted, ChildQueued, BatchAdmitted, EvidenceRecorded,
         ShutdownDone, Crash, Restart, Leave, Rollback
    <3>2. CASE Touches \/ OthersQuiet
      BY <3>2 DEF Touches, OthersQuiet, CancelNext, InterruptChild, Cancel, ChildEnds, Await,
         HandleChildCommit, AwaitTimesOut, memoryVars
    <3>3. CASE ActorQuiet
      BY <3>3 DEF ActorQuiet, PlanStarted, StartQueued, ChildRunning, HandleCompletion,
         CancelDone, SpawnChild, SpawnMany, StartPlan, ExpireDeadlines, Shutdown, GraceEnds,
         memoryVars, Reserve
    <3> QED
      BY <3>1, <3>2, <3>3, StepKinds
  <2>2. CASE \E n : ledger' = [ledger EXCEPT !.admitted = n]
    BY <1>1, <1>2, <2>2
  <2>3. CASE \E n : ledger' = [ledger EXCEPT !.running = n]
    BY <1>1, <1>2, <2>3
  <2>4. CASE \E m, n : ledger' = [admitted |-> m, running |-> n]
    BY <1>2, <2>4
  <2> QED
    BY <1>1, <2>1, <2>2, <2>3, <2>4
<1> QED
  BY <1>3, <1>4

\* The admission queue holds children, and only plans are started.
LEMMA QueueTypeStep ==
    ASSUME SupervisorInv, Next
    PROVE  queue' \in Seq(Children) /\ started' \subseteq Plans
<1>1. /\ TypeOK /\ StageInv /\ queue \in Seq(Children) /\ started \subseteq Plans /\ plans \subseteq Plans
      /\ pc \in PointSet
  BY TypeParts DEF SupervisorInv, TypeOK
<1>2. CASE ChildQueued
  <2>1. PICK c \in pc.cs : queue' = Append(queue, c) \/ queue' = queue
    BY <1>2 DEF ChildQueued
  <2>2. c \in Children
    BY <1>1 DEF PointSet
  <2>3. queue' \in Seq(Children)
    BY <1>1, <2>1, <2>2
  <2> QED
    BY <1>1, <1>2, <2>3 DEF ChildQueued
<1>3. CASE BatchAdmitted
  <2>1. queue' = queue \o InOrder(pc.cs) \/ queue' = queue
    BY <1>3 DEF BatchAdmitted
  <2>2. pc.cs \in SUBSET Children /\ pc.at = "batch"
    BY <1>1, <1>3 DEF PointSet, BatchAdmitted
  <2>3. PICK b \in 0 .. MaxChildren : pc.cs = b + 1 .. b + Cardinality(pc.cs)
    BY <1>1, <2>2 DEF StageInv, AdmissionInv
  <2>4. InOrder(pc.cs) \in Seq(Children)
    BY <2>2, <2>3, InOrderType
  <2>5. queue \o InOrder(pc.cs) \in Seq(Children)
    BY <1>1, <2>4, ConcatProperties
  <2>6. queue' \in Seq(Children)
    BY <1>1, <2>1, <2>5
  <2> QED
    BY <1>1, <1>3, <2>6 DEF BatchAdmitted
<1>4. CASE StartQueued
  <2>1. (queue # <<>> /\ queue' = Tail(queue)) \/ queue' = queue
    BY <1>4 DEF StartQueued
  <2>2. queue' \in Seq(Children)
    BY <1>1, <2>1
  <2> QED
    BY <1>1, <1>4, <2>2 DEF StartQueued
<1>5. CASE PlanStarted
  <2>1. pc.plan \in Plans
    BY <1>1, <1>5 DEF PlanStarted, StageInv, PlanInv
  <2> QED
    BY <1>1, <1>5, <2>1 DEF PlanStarted
<1>6. CASE Ends
  <2>1. queue' = <<>> \/ queue' = queue
    BY <1>6 DEF Ends, ShutdownDone, Crash, Restart, Leave
  <2>2. started' = {} \/ started' = plans
    BY <1>6 DEF Ends, ShutdownDone, Crash, Restart, Leave
  <2>3. <<>> \in Seq(Children)
    OBVIOUS
  <2>4. queue' \in Seq(Children)
    BY <1>1, <2>1, <2>3, Zenon
  <2> QED
    BY <1>1, <2>2, <2>4
<1>7. CASE Reported \/ ChildInterrupted \/ ChildAdmitted \/ EvidenceRecorded
  BY <1>1, <1>7 DEF Reported, ChildInterrupted, ChildAdmitted, EvidenceRecorded
<1>8. CASE Touches \/ OthersQuiet
  BY <1>1, <1>8 DEF Touches, OthersQuiet, CancelNext, InterruptChild, Cancel, ChildEnds, Await,
     HandleChildCommit, AwaitTimesOut, memoryVars
<1>9. CASE ActorQuiet /\ ~PlanStarted /\ ~StartQueued
  BY <1>1, <1>9 DEF ActorQuiet, ChildRunning, HandleCompletion,
     CancelDone, SpawnChild, SpawnMany, StartPlan, ExpireDeadlines, Shutdown, GraceEnds, memoryVars
<1> QED
  BY <1>2, <1>3, <1>4, <1>5, <1>6, <1>7, <1>8, <1>9, StepKinds DEF Decisive, Ends

\* Callers wait for children and are told terminal statuses, and the bounds on
\* failures and crashes hold.
LEMMA CallersTypeStep ==
    ASSUME SupervisorInv, Next
    PROVE  /\ client' \in [Clients -> Children \cup {None}]
           /\ told' \in [Children -> SUBSET Terminal]
           /\ faults' \in 0 .. MaxFaults /\ crashes' \in 0 .. MaxCrashes
<1>1. /\ TypeOK /\ StageInv /\ client \in [Clients -> Children \cup {None}]
      /\ told \in [Children -> SUBSET Terminal] /\ child \in [Children -> ActiveChild]
      /\ faults \in 0 .. MaxFaults /\ crashes \in 0 .. MaxCrashes
  BY DEF SupervisorInv, TypeOK
<1>2. CASE Reported \/ ChildInterrupted
  <2>1. pc.c \in Children /\ Settles(pc.c) /\ UNCHANGED <<faults, crashes>>
    BY <1>1, <1>2, ReportsSettle DEF StageInv
  <2>2. client' \in [Clients -> Children \cup {None}]
    BY <1>1, <2>1 DEF Settles
  <2>3. /\ pc.at = "report" => pc.status \in Terminal
        /\ "interrupted" \in Terminal
    BY <1>1 DEF StageInv, ReportInv, Terminal
  <2>4. told' = told \/ \E status \in Terminal :
                          told' = [told EXCEPT ![pc.c] = @ \cup {status : w \in Waiting(pc.c)}]
    BY <1>2, <2>3 DEF Reported, ChildInterrupted, Settle, SettleWithError
  <2>5. told' \in [Children -> SUBSET Terminal]
    <3>1. CASE told' = told
      BY <1>1, <3>1
    <3>2. ASSUME NEW status \in Terminal,
                 told' = [told EXCEPT ![pc.c] = @ \cup {status : w \in Waiting(pc.c)}]
          PROVE  told' \in [Children -> SUBSET Terminal]
      <4>1. {status : w \in Waiting(pc.c)} \subseteq Terminal
        OBVIOUS
      <4> QED
        BY <1>1, <2>1, <3>2, <4>1
    <3> QED
      BY <2>4, <3>1, <3>2
  <2> QED
    BY <1>1, <2>1, <2>2, <2>5
<1>3. CASE \E w \in Clients, c \in Children : Await(w, c)
  <2>1. PICK w \in Clients, c \in Children : Await(w, c)
    BY <1>3
  <2>2. child[c].report # None => child[c].report \in Terminal
    BY <1>1 DEF ActiveChild
  <2>3. told' \in [Children -> SUBSET Terminal]
    BY <1>1, <2>1, <2>2 DEF Await
  <2>4. client' \in [Clients -> Children \cup {None}]
    BY <1>1, <2>1 DEF Await
  <2> QED
    BY <1>1, <2>1, <2>3, <2>4 DEF Await
<1>4. CASE \E w \in Clients : AwaitTimesOut(w)
  <2>1. PICK w \in Clients : AwaitTimesOut(w)
    BY <1>4
  <2>2. client' \in [Clients -> Children \cup {None}]
    BY <1>1, <2>1 DEF AwaitTimesOut
  <2> QED
    BY <1>1, <2>1, <2>2 DEF AwaitTimesOut
<1>5. CASE ShutdownDone \/ Crash
  <2>1. crashes' = crashes \/ (crashes < MaxCrashes /\ crashes' = crashes + 1)
    BY <1>5 DEF ShutdownDone, Crash
  <2>2. crashes' \in 0 .. MaxCrashes
    BY <1>1, <2>1, LimitsAssumption
  <2>3. client' = [w \in Clients |-> None] /\ UNCHANGED <<told, faults>>
    BY <1>5 DEF ShutdownDone, Crash, Leave
  <2> QED
    BY <1>1, <2>2, <2>3
<1>6. CASE \E ok \in BOOLEAN : HandleChildCommit(ok)
  <2>1. faults' = faults \/ (faults < MaxFaults /\ faults' = faults + 1)
    BY <1>6 DEF HandleChildCommit
  <2>2. faults' \in 0 .. MaxFaults
    BY <1>1, <2>1, LimitsAssumption
  <2> QED
    BY <1>1, <1>6, <2>2 DEF HandleChildCommit
<1>7. CASE ChildAdmitted \/ ChildQueued \/ BatchAdmitted \/ EvidenceRecorded \/ Restart
  BY <1>1, <1>7 DEF ChildAdmitted, ChildQueued, BatchAdmitted, EvidenceRecorded, Restart, worldVars
<1>8. CASE \/ CancelNext \/ InterruptChild \/ \E c \in Children : Cancel(c)
           \/ \E c \in Children, status \in Terminal \ {"interrupted"} : ChildEnds(c, status)
  BY <1>1, <1>8 DEF CancelNext, InterruptChild, Cancel, ChildEnds, worldVars
<1>9. CASE ActorQuiet
  BY <1>1, <1>9 DEF ActorQuiet, PlanStarted, StartQueued, ChildRunning, HandleCompletion,
     CancelDone, SpawnChild, SpawnMany, StartPlan, ExpireDeadlines, Shutdown, GraceEnds, worldVars
<1> QED
  BY <1>2, <1>3, <1>4, <1>5, <1>6, <1>7, <1>8, <1>9, StepKinds
     DEF Decisive, Touches, OthersQuiet

\* The session stays well typed.
LEMMA SessionTypeStep ==
    ASSUME SupervisorInv, Next
    PROVE  SessionType'
<1>1. TypeOK /\ ChannelInv /\ SessionType
  BY TypeParts DEF SupervisorInv
<1>2. CASE HandleChildCommit(TRUE)
  <2>1. /\ Head(commitQ).rec \in Record /\ Accepts(Head(commitQ).rec) /\ Apply(Head(commitQ).rec)
    BY <1>1, <1>2, CommitHead
  <2> QED
    BY <1>1, <2>1, ApplyType
<1>3. CASE ~HandleChildCommit(TRUE)
  <2>1. UNCHANGED sessionVars
    <3>1. CASE HandleChildCommit(FALSE)
      BY <3>1 DEF HandleChildCommit
    <3>2. CASE ~HandleChildCommit(FALSE)
      BY <1>3, <3>2, SessionWriter
    <3> QED
      BY <3>1, <3>2
  <2> QED
    BY <1>1, <2>1 DEF SessionType, sessionVars
<1> QED
  BY <1>2, <1>3

-----------------------------------------------------------------------------
(* The invariant.                                                          *)

\* A supervisor that has just started has nothing in hand.
LEMMA InitInv == Init => SupervisorInv
<1> SUFFICES ASSUME Init PROVE SupervisorInv
  OBVIOUS
<1>1. \A c \in Children : child[c] = Absent /\ durable[c] = "none" /\ planOf[c] = None
  BY DEF Init
<1>2. pc.at = "idle" /\ commitQ = <<>> /\ completions = <<>> /\ reply = None
  BY DEF Init, At, Point
<1>3. TypeOK
  <2>1. SessionType
    BY DEF Init, SessionType, Lifecycle
  <2>2. pc \in PointSet
    BY PointType DEF Init, At, Labels
  <2>3. ChannelType /\ WorldType
    BY LimitsAssumption DEF Init, ChannelType, WorldType
  <2>4. MemoryType
    BY AbsentType DEF Init, MemoryType
  <2> QED
    BY <2>1, <2>2, <2>3, <2>4, TypeParts
<1>4. Cardinality({}) = 0
  BY FS_EmptySet
<1>5. SessionInv
  <2>1. Drawn = {}
    BY <1>1 DEF Drawn
  <2>2. \A p \in Plans : {c \in Children : planOf[c] = p} = {}
    BY <1>1, NoneAssumption
  <2>3. PlanAdmittedOnce
    BY <1>4, <2>2 DEF PlanAdmittedOnce
  <2> QED
    BY <1>1, <1>4, <2>1, <2>3, LimitsAssumption DEF SessionInv
<1>6. ChildrenInv
  BY <1>1, FreshChild DEF ChildrenInv
<1>7. SlotsInv /\ BudgetInv
  <2>1. Reserved = {} /\ Drawn = {}
    BY <1>1, FreshChild DEF Reserved, Drawn
  <2>2. ledger.running = 0 /\ ledger.admitted = 0
    BY DEF Init
  <2> QED
    BY <1>2, <1>4, <2>1, <2>2, LimitsAssumption DEF SlotsInv, BudgetInv, Unsettled
<1>8. StageInv
  BY <1>2 DEF StageInv, AdmissionInv, PlanInv, StartInv, ReportInv
<1>9. ChannelInv /\ CompletionsInv /\ DownInv
  BY <1>2 DEF ChannelInv, CompletionsInv, DownInv
<1> QED
  BY <1>3, <1>5, <1>6, <1>7, <1>8, <1>9 DEF SupervisorInv

\* Every step of the actor, the runtime, the tasks and the callers keeps the
\* invariant.
LEMMA InvStep == SupervisorInv /\ [Next]_vars => SupervisorInv'
<1>1. ASSUME SupervisorInv, Next PROVE SupervisorInv'
  <2>1. TypeOK'
    <3>1. TypeOK /\ StageInv
      BY <1>1 DEF SupervisorInv
    <3>2. pc' \in PointSet /\ ChannelType'
      BY <1>1, <3>1, ActorTypeStep
    <3>3. SessionType'
      BY <1>1, SessionTypeStep
    <3>4. MemoryType'
      BY <1>1, ChildTypeStep, LedgerTypeStep, QueueTypeStep DEF MemoryType
    <3>5. WorldType'
      BY <1>1, CompletionsStep, CallersTypeStep DEF WorldType
    <3> QED
      BY <3>2, <3>3, <3>4, <3>5
         DEF TypeOK, PointSet, ChannelType, SessionType, MemoryType, WorldType
  <2>2. SessionInv' /\ ChildrenInv' /\ SlotsInv' /\ BudgetInv' /\ StageInv'
    BY <1>1, SessionStep, ChildrenStep, SlotsStep, BudgetStep, StageStep
  <2>3. ChannelInv' /\ CompletionsInv' /\ DownInv'
    BY <1>1, ChannelStep, CompletionsStep, DownStep
  <2> QED
    BY <2>1, <2>2, <2>3 DEF SupervisorInv
<1>2. ASSUME SupervisorInv, UNCHANGED vars PROVE SupervisorInv'
  <2>1. /\ UNCHANGED <<durable, planOf, plans, pc, child, ledger, queue, started>>
        /\ UNCHANGED <<completions, commitQ, reply, client, told, faults, crashes>>
    BY <1>2 DEF vars, sessionVars, memoryVars, channelVars, worldVars
  <2>2. TypeOK' /\ SessionInv'
    BY <1>2, <2>1 DEF SupervisorInv, TypeOK, SessionInv, Drawn, PlanAdmittedOnce
  <2>3. ChildrenInv' /\ SlotsInv' /\ BudgetInv'
    BY <1>2, <2>1 DEF SupervisorInv, ChildrenInv, SlotsInv, Reserved, BudgetInv, Unsettled, Drawn
  <2>4. StageInv'
    BY <1>2, <2>1 DEF SupervisorInv, StageInv, AdmissionInv, PlanInv, StartInv, ReportInv, Drawn
  <2>5. ChannelInv' /\ CompletionsInv' /\ DownInv'
    BY <1>2, <2>1 DEF SupervisorInv, ChannelInv, Expected, Harmless, CompletionsInv, DownInv
  <2> QED
    BY <2>2, <2>3, <2>4, <2>5 DEF SupervisorInv
<1> QED
  BY <1>1, <1>2

\* The supervisor's memory, its channels and the session agree, at every point
\* of the actor's code and after every failure, cancellation and crash.
THEOREM SupervisorInvariant == Spec => []SupervisorInv
BY InitInv, InvStep, PTL DEF Spec

\* The budget ledger is exact: slots and session budget are charged once per
\* child and given back once, no more tasks run than max_concurrency allows,
\* no more children are ever admitted than max_descendants, and a task runs
\* only while the session says so.
THEOREM ExactLedger == Spec => []LedgerIsExact
<1>1. SupervisorInv => LedgerIsExact
  <2> SUFFICES ASSUME SupervisorInv PROVE LedgerIsExact
    OBVIOUS
  <2>1. TypeOK /\ ChildrenInv /\ SlotsInv /\ BudgetInv /\ SessionInv
    BY DEF SupervisorInv
  <2>2. LiveTasks \in SUBSET Reserved /\ Reserved \in SUBSET Children
    BY <2>1 DEF LiveTasks, Reserved, ChildrenInv
  <2>3. IsFiniteSet(Reserved) /\ Cardinality(Reserved) \in Nat
    BY <2>2, FiniteChildren
  <2>4. Cardinality(LiveTasks) \in Nat /\ Cardinality(LiveTasks) <= Cardinality(Reserved)
    BY <2>2, <2>3, FS_Subset, FS_CardinalityType
  <2>5. SlotsAreCounted
    BY <2>1, <2>3, <2>4, LimitsAssumption DEF SlotsAreCounted, SlotsInv, Reserved
  <2>6. SessionBudgetHolds
    <3>1. Drawn \in SUBSET Children
      BY DEF Drawn
    <3>2. Cardinality(Drawn) \in Nat
      BY <3>1, FiniteChildren
    <3> QED
      BY <2>1, <3>2 DEF SessionBudgetHolds, SessionInv, BudgetInv, Unsettled
  <2>7. LiveIsDurablyRunning
    BY <2>1 DEF LiveIsDurablyRunning, LiveTasks, ChildrenInv
  <2> QED
    BY <2>1, <2>5, <2>6, <2>7 DEF LedgerIsExact
<1> QED
  BY <1>1, SupervisorInvariant, PTL

\* A plan's children are admitted all together and only once.
THEOREM PlansOnce == Spec => []PlanAdmittedOnce
<1>1. SupervisorInv => PlanAdmittedOnce
  BY DEF SupervisorInv, SessionInv
<1> QED
  BY <1>1, SupervisorInvariant, PTL

-----------------------------------------------------------------------------
(* The fates of children.                                                  *)

\* What is known of a child's fate: by its lifecycle in the session, and by
\* whether the process that ran it is gone.
FateIs(life, gone) ==
    IF life = "none" THEN "none"
    ELSE IF life \in Terminal THEN life
    ELSE IF gone THEN "interrupted" ELSE "pending"
Gone(d) == pc.at = "down" \/ child[d].report # None
GoneNext(d) == pc'.at = "down" \/ child'[d].report # None

\* The fate of a child, without its cases, now...
LEMMA FateNow ==
    ASSUME NEW d \in Children
    PROVE  Fate[d] = FateIs(durable[d], Gone(d))
<1>1. "none" \notin Terminal
  BY DEF Terminal
<1>2. CASE durable[d] = "none"
  BY <1>2, Zenon DEF Fate, FateIs
<1>3. CASE durable[d] # "none" /\ durable[d] \in Terminal
  BY <1>3, Zenon DEF Fate, FateIs
<1>4. CASE durable[d] # "none" /\ durable[d] \notin Terminal
  BY <1>4, Zenon DEF Fate, FateIs, Gone
<1> QED
  BY <1>2, <1>3, <1>4

\* ... and after a step.
LEMMA FateThen ==
    ASSUME NEW d \in Children
    PROVE  Fate'[d] = FateIs(durable'[d], GoneNext(d))
<1>1. "none" \notin Terminal
  BY DEF Terminal
<1>2. CASE durable'[d] = "none"
  BY <1>2, Zenon DEF Fate, FateIs
<1>3. CASE durable'[d] # "none" /\ durable'[d] \in Terminal
  BY <1>3, Zenon DEF Fate, FateIs
<1>4. CASE durable'[d] # "none" /\ durable'[d] \notin Terminal
  BY <1>4, Zenon DEF Fate, FateIs, GoneNext
<1> QED
  BY <1>2, <1>3, <1>4

\* A step that settles some of the pending children, or none, and tells nobody.
LEMMA SettlesSome ==
    ASSUME told' = told,
           \A d \in Children : \/ Fate'[d] = Fate[d]
                               \/ Fate[d] = "pending" /\ Fate'[d] \in Terminal
    PROVE  Fates!Next
<1> DEFINE P == {c \in Children : Fate[c] = "pending"}
           f == [d \in P |-> Fate'[d]]
<1>1. f \in [P -> Terminal \cup {"pending"}]
  OBVIOUS
<1>2. Fate' = [c \in Children |-> Fate'[c]]
  BY DEF Fate
<1>3. \A c \in Children : Fate'[c] = IF c \in DOMAIN f THEN f[c] ELSE Fate[c]
  OBVIOUS
<1>4. Fate' = [c \in Children |-> IF c \in DOMAIN f THEN f[c] ELSE Fate[c]]
  BY <1>2, <1>3, Zenon
<1> HIDE DEF f
<1>5. Fates!Settle
  BY <1>1, <1>4 DEF Fates!Settle
<1> QED
  BY <1>5 DEF Fates!Next

\* The process goes when the actor leaves, and comes back with a restart.
LEMMA OnlyLeaving ==
    ASSUME SupervisorInv, Next, ~Ends
    PROVE  pc'.at = "down" <=> pc.at = "down"
<1>1. TypeOK /\ pc \in PointSet
  BY TypeParts DEF SupervisorInv
<1>2. CASE Loopers
  <2>1. pc.at # "down"
    <3>1. CASE \/ Reported \/ ChildQueued \/ EvidenceRecorded \/ HandleCompletion \/ BatchAdmitted
               \/ ChildRunning \/ ChildAdmitted \/ PlanStarted \/ StartQueued
      BY <3>1 DEF Reported, ChildQueued, EvidenceRecorded, HandleCompletion, BatchAdmitted,
         ChildRunning, ChildAdmitted, PlanStarted, StartQueued
    <3>2. CASE \/ CancelNext \/ CancelDone \/ Shutdown
               \/ \E c \in Children : Cancel(c)
               \/ \E cs \in SUBSET Children : ExpireDeadlines(cs)
      BY <3>2 DEF CancelNext, CancelDone, Shutdown, Cancel, ExpireDeadlines
    <3> QED
      BY <1>2, <3>1, <3>2 DEF Loopers
  <2> QED
    BY <1>2, <2>1, LooperLabels DEF Loops
<1>3. CASE Bystanders \/ \E ok \in BOOLEAN : HandleChildCommit(ok)
  BY <1>3 DEF Bystanders, AwaitTimesOut, ChildEnds, Await, HandleChildCommit
<1>4. CASE SpawnChild \/ SpawnMany \/ \E p \in Plans : StartPlan(p)
  <2>1. \E at \in {"admit", "batch", "plan"} : \E cs, plan : pc' = Point(at, cs, plan)
    BY <1>4 DEF SpawnChild, SpawnMany, StartPlan
  <2>2. pc.at = "idle"
    BY <1>4 DEF SpawnChild, SpawnMany, StartPlan
  <2> QED
    BY <2>1, <2>2 DEF Point
<1>5. CASE ChildAdmitted /\ reply = "ok"
  BY <1>1, <1>5 DEF ChildAdmitted, PointSet
<1>6. CASE PlanStarted /\ reply = "ok"
  BY <1>1, <1>6 DEF PlanStarted, PointSet
<1>7. CASE Starts
  <2>1. (\E cs : pc' = Point("run", cs, None)) \/ pc' = [pc EXCEPT !.at = "evidence"]
    BY <1>7 DEF Starts, StartQueued, ChildRunning
  <2>2. pc.at # "down"
    BY <1>7 DEF Starts, StartQueued, ChildRunning
  <2> QED
    BY <1>1, <2>1, <2>2 DEF Point, PointSet
<1>8. CASE Interrupts
  BY <1>8 DEF Interrupts, GraceEnds, InterruptChild, ChildInterrupted, Point
<1> QED
  BY <1>2, <1>3, <1>4, <1>5, <1>6, <1>7, <1>8, StepPlaces DEF Admits, Ends

\* Callers are told something only when a child is settled and when they ask.
LEMMA Telling ==
    ASSUME Next, ~Reported, ~ChildInterrupted, ~ \E w \in Clients, c \in Children : Await(w, c)
    PROVE  told' = told
<1>1. CASE Decisive
  BY <1>1 DEF Decisive, ChildAdmitted, ChildQueued, BatchAdmitted, EvidenceRecorded, ShutdownDone,
     Crash, Restart, worldVars
<1>2. CASE Touches \/ OthersQuiet
  BY <1>2 DEF Touches, OthersQuiet, CancelNext, InterruptChild, Cancel, ChildEnds,
     HandleChildCommit, AwaitTimesOut, worldVars
<1>3. CASE ActorQuiet
  BY <1>3 DEF ActorQuiet, PlanStarted, StartQueued, ChildRunning, HandleCompletion,
     CancelDone, SpawnChild, SpawnMany, StartPlan, ExpireDeadlines, Shutdown, GraceEnds, worldVars
<1> QED
  BY <1>1, <1>2, <1>3, StepKinds

\* Outside a settlement and the end and start of the process no report comes
\* or goes.
LEMMA ReportsStay ==
    ASSUME SupervisorInv, Next, ~Ends, ~Reported, ~ChildInterrupted, NEW d \in Children
    PROVE  child'[d].report = child[d].report
<1>1. /\ TypeOK /\ child \in [Children -> ActiveChild] /\ child[d] \in ActiveChild
      /\ pc \in PointSet /\ StageInv
  BY TypeParts DEF SupervisorInv, TypeOK
<1>2. CASE ~Decisive
  BY <1>2, MildSteps DEF Mild
<1>3. CASE ChildAdmitted \/ BatchAdmitted
  <2>1. \/ child'[d] = child[d]
        \/ d \in pc.cs /\ \E life \in Lifecycle : child'[d] = Admitted(life)
    BY <1>3 DEF ChildAdmitted, BatchAdmitted, Lifecycle
  <2>2. d \in pc.cs => child[d] = Absent
    BY <1>1, <1>3 DEF ChildAdmitted, BatchAdmitted, StageInv, AdmissionInv
  <2> QED
    BY <2>1, <2>2, FreshChild
<1>4. CASE ChildQueued
  <2>1. PICK c \in pc.cs : child' = [child EXCEPT ![c].life = "queued"] \/ child' = child
    BY <1>4 DEF ChildQueued
  <2>2. child'[d] = child[d] \/ child'[d] = [child[d] EXCEPT !.life = "queued"]
    BY <1>1, <2>1
  <2> QED
    BY <1>1, <2>2 DEF ActiveChild
<1>5. CASE EvidenceRecorded
  <2>1. PICK c \in pc.cs :
           \/ child' = [child EXCEPT ![c] = [@ EXCEPT !.life = "running", !.task = "live",
                                                        !.reserved = TRUE]]
           \/ child' = child
    BY <1>5 DEF EvidenceRecorded
  <2>2. \/ child'[d] = child[d]
        \/ child'[d] = [child[d] EXCEPT !.life = "running", !.task = "live", !.reserved = TRUE]
    BY <1>1, <2>1
  <2> QED
    BY <1>1, <2>2 DEF ActiveChild
<1> QED
  BY <1>2, <1>3, <1>4, <1>5 DEF Decisive, Ends

\* A record of the session admits children or settles one.
LEMMA FateCommit ==
    ASSUME SupervisorInv, NEW ok \in BOOLEAN, HandleChildCommit(ok)
    PROVE  Fates!Next
<1>1. /\ TypeOK /\ ChildrenInv /\ ChannelInv /\ durable \in [Children -> Lifecycle]
      /\ pc.at # "down"
  BY DEF SupervisorInv, TypeOK, HandleChildCommit
<1>2. told' = told /\ pc' = pc /\ child' = child
  BY DEF HandleChildCommit, memoryVars
<1>3. \A d \in Children : GoneNext(d) = Gone(d)
  BY <1>2 DEF Gone, GoneNext
<1>4. CASE ~ok
  <2>1. durable' = durable
    BY <1>4 DEF HandleChildCommit, sessionVars
  <2>2. \A d \in Children : Fate'[d] = Fate[d]
    BY <1>3, <2>1, FateNow, FateThen
  <2> QED
    BY <1>2, <2>2, SettlesSome
<1>5. CASE ok /\ pc.at \notin {"admit", "batch"}
  <2>1. HandleChildCommit(TRUE)
    BY <1>5
  <2>2. ASSUME NEW d \in Children
        PROVE  Fate'[d] = Fate[d] \/ (Fate[d] = "pending" /\ Fate'[d] \in Terminal)
    <3>1. \/ durable'[d] = durable[d]
          \/ durable[d] \in Open /\ durable'[d] \in Open
          \/ durable[d] \in Open /\ durable'[d] \in Terminal /\ child[d].report = None
      BY <1>5, <2>1, DurableMoves DEF Open
    <3>2. Fate[d] = FateIs(durable[d], Gone(d)) /\ Fate'[d] = FateIs(durable'[d], Gone(d))
      BY <1>3, FateNow, FateThen
    <3>3. CASE durable'[d] = durable[d]
      BY <3>2, <3>3
    <3>4. CASE durable[d] \in Open /\ durable'[d] \in Open
      BY <3>2, <3>4 DEF FateIs, Open, Terminal
    <3>5. CASE durable[d] \in Open /\ durable'[d] \in Terminal /\ child[d].report = None
      <4>1. ~Gone(d)
        BY <1>1, <3>5 DEF Gone
      <4> QED
        BY <3>2, <3>5, <4>1 DEF FateIs, Open, Terminal
    <3> QED
      BY <3>1, <3>3, <3>4, <3>5
  <2> QED
    BY <1>2, <2>2, SettlesSome
<1>6. CASE ok /\ pc.at \in {"admit", "batch"}
  <2>1. HandleChildCommit(TRUE)
    BY <1>6
  <2> DEFINE cs == {c \in Children : durable[c] = "none" /\ durable'[c] # "none"}
  <2>2. ASSUME NEW d \in Children
        PROVE  /\ Fate'[d] = IF d \in cs THEN "pending" ELSE Fate[d]
               /\ d \in cs => Fate[d] = "none"
    <3>1. \/ durable'[d] = durable[d]
          \/ durable[d] = "none" /\ durable'[d] \in {"admitted", "queued"}
      BY <1>6, <2>1, DurableMoves
    <3>2. Fate[d] = FateIs(durable[d], Gone(d)) /\ Fate'[d] = FateIs(durable'[d], Gone(d))
      BY <1>3, FateNow, FateThen
    <3>3. CASE durable'[d] = durable[d]
      BY <3>2, <3>3
    <3>4. CASE durable[d] = "none" /\ durable'[d] \in {"admitted", "queued"}
      <4>1. child[d] = Absent
        BY <1>1, <3>4 DEF ChildrenInv
      <4>2. ~Gone(d)
        BY <1>1, <4>1, FreshChild DEF Gone
      <4> QED
        BY <3>2, <3>4, <4>2 DEF FateIs, Terminal
    <3> QED
      BY <3>1, <3>3, <3>4
  <2>3. cs \in SUBSET {c \in Children : Fate[c] = "none"}
    BY <2>2
  <2> HIDE DEF cs
  <2>4. Fate' = [c \in Children |-> Fate'[c]]
    BY DEF Fate
  <2>5. Fate' = [c \in Children |-> IF c \in cs THEN "pending" ELSE Fate[c]]
    BY <2>2, <2>4, Zenon
  <2>6. Fates!Admit
    BY <1>2, <2>3, <2>5 DEF Fates!Admit
  <2> QED
    BY <2>6 DEF Fates!Next
<1> QED
  BY <1>4, <1>5, <1>6

\* Telling a child's fate, and nothing else.
LEMMA TellsFate ==
    ASSUME NEW c \in Children, Fate[c] \in Terminal, Fate' = Fate,
           told' = [told EXCEPT ![c] = @ \cup {Fate[c]}]
    PROVE  Fates!Next
BY DEF Fates!Next, Fates!Tell

\* The fates are the same if each one is.
LEMMA SameFates ==
    ASSUME \A d \in Children : Fate'[d] = Fate[d]
    PROVE  Fate' = Fate
<1>1. Fate' = [c \in Children |-> Fate'[c]] /\ Fate = [c \in Children |-> Fate[c]]
  BY DEF Fate
<1> QED
  BY <1>1, Zenon

\* A child is settled in memory with the report that is durable, and its
\* waiters are told that report; with the error they are told nothing.
LEMMA FateSettle ==
    ASSUME SupervisorInv, Reported \/ ChildInterrupted
    PROVE  Fates!Next
<1>1. /\ TypeOK /\ StageInv /\ ReportInv /\ child \in [Children -> ActiveChild]
      /\ told \in [Children -> SUBSET Terminal]
  BY DEF SupervisorInv, TypeOK, StageInv
<1>2. pc.c \in Children /\ child[pc.c].report = None
  BY <1>1 DEF ReportInv, Reported, ChildInterrupted
<1>3. durable' = durable /\ pc.at # "down" /\ pc'.at # "down"
  <2>1. pc.at # "down" /\ pc' = Point(IF pc.at = "report" THEN pc.then ELSE "interrupting", pc.cs, None)
    BY DEF Reported, ChildInterrupted
  <2>2. pc.at = "report" => pc.then # "down"
    BY <1>1 DEF ReportInv
  <2>3. durable' = durable
    BY DEF Reported, ChildInterrupted, sessionVars
  <2> QED
    BY <2>1, <2>2, <2>3 DEF Point
<1>4. \A d \in Children \ {pc.c} : child'[d] = child[d]
  BY SettledAgrees
<1>5. \A d \in Children \ {pc.c} : Fate'[d] = Fate[d]
  <2>1. \A d \in Children \ {pc.c} : GoneNext(d) = Gone(d)
    BY <1>3, <1>4 DEF Gone, GoneNext
  <2> QED
    BY <1>3, <2>1, FateNow, FateThen
<1>6. CASE \E status \in Terminal : Settle(pc.c, status) /\ durable[pc.c] = status
  <2>1. PICK status \in Terminal : Settle(pc.c, status) /\ durable[pc.c] = status
    BY <1>6
  <2>2. status # "none"
    BY DEF Terminal
  <2>3. Fate[pc.c] = status /\ Fate'[pc.c] = status
    BY <1>2, <1>3, <2>1, <2>2, FateNow, FateThen DEF FateIs
  <2>4. \A d \in Children : Fate'[d] = Fate[d]
    BY <1>5, <2>3
  <2>5. told' = [told EXCEPT ![pc.c] = @ \cup {status : w \in Waiting(pc.c)}]
    BY <2>1 DEF Settle
  <2>6. CASE Waiting(pc.c) = {}
    <3>1. {status : w \in Waiting(pc.c)} = {}
      BY <2>6
    <3>2. told' = told
      BY <1>1, <1>2, <2>5, <3>1
    <3> QED
      BY <2>4, <3>2, SettlesSome
  <2>7. CASE Waiting(pc.c) # {}
    <3>1. {status : w \in Waiting(pc.c)} = {status}
      BY <2>7
    <3>2. told' = [told EXCEPT ![pc.c] = @ \cup {Fate[pc.c]}]
      BY <2>3, <2>5, <3>1
    <3>3. Fate' = Fate
      BY <2>4, SameFates
    <3> QED
      BY <1>2, <2>3, <3>2, <3>3, TellsFate
  <2> QED
    BY <2>6, <2>7
<1>7. CASE \E life : SettleWithError(pc.c, life)
  <2>1. PICK life : SettleWithError(pc.c, life)
    BY <1>7
  <2>2. child'[pc.c] = [child[pc.c] EXCEPT !.life = life, !.error = TRUE,
                           !.waiters = {}, !.task = "none", !.reserved = FALSE]
    BY <1>1, <1>2, <2>1 DEF SettleWithError
  <2>3. child'[pc.c].report = child[pc.c].report
    BY <1>1, <1>2, <2>2 DEF ActiveChild
  <2>4. GoneNext(pc.c) = Gone(pc.c)
    BY <1>3, <2>3 DEF Gone, GoneNext
  <2>5. \A d \in Children : Fate'[d] = Fate[d]
    BY <1>2, <1>3, <1>5, <2>4, FateNow, FateThen
  <2>6. told' = told
    BY <2>1 DEF SettleWithError
  <2> QED
    BY <2>5, <2>6, SettlesSome
<1>8. "interrupted" \in Terminal
  BY DEF Terminal
<1> QED
  BY <1>1, <1>6, <1>7, <1>8 DEF Reported, ChildInterrupted, ReportInv

\* A caller that asks for a settled child is told its fate.
LEMMA FateAwait ==
    ASSUME SupervisorInv, Next, NEW w \in Clients, NEW c \in Children, Await(w, c)
    PROVE  Fates!Next
<1>1. TypeOK /\ ChildrenInv /\ child[c] \in ActiveChild
  BY DEF SupervisorInv, TypeOK
<1>2. pc' = pc /\ durable' = durable /\ pc.at = "idle"
  BY DEF Await, sessionVars
<1>3. Touches
  BY DEF Touches
<1>4. \A d \in Children : child'[d].report = child[d].report
  BY <1>3, MildTouches DEF Mild
<1>5. \A d \in Children : Fate'[d] = Fate[d]
  <2>1. \A d \in Children : GoneNext(d) = Gone(d)
    BY <1>2, <1>4 DEF Gone, GoneNext
  <2> QED
    BY <1>2, <2>1, FateNow, FateThen
<1>6. CASE child[c].report = None
  BY <1>5, <1>6, SettlesSome DEF Await
<1>7. CASE child[c].report # None
  <2>1. told' = [told EXCEPT ![c] = @ \cup {child[c].report}]
    BY <1>7 DEF Await
  <2>2. child[c].report \in Terminal /\ Gone(c)
    BY <1>1, <1>7 DEF ActiveChild, Gone
  <2>3. \/ durable[c] = child[c].report
        \/ durable[c] \in Open /\ child[c].report = "interrupted"
    BY <1>1, <1>7 DEF ChildrenInv
  <2>4. Fate[c] = child[c].report
    BY <2>2, <2>3, FateNow DEF FateIs, Open, Terminal
  <2>5. Fate' = Fate
    BY <1>5, SameFates
  <2> QED
    BY <2>1, <2>2, <2>4, <2>5, TellsFate
<1> QED
  BY <1>6, <1>7

\* A process that ends interrupts the children that are pending, and the next
\* one projects the same.
LEMMA FateEnds ==
    ASSUME SupervisorInv, Ends
    PROVE  Fates!Next
<1>1. durable' = durable /\ durable \in [Children -> Lifecycle]
  BY DEF SupervisorInv, TypeOK, Ends, ShutdownDone, Crash, Restart, sessionVars
<1>2. told' = told
  BY DEF Ends, ShutdownDone, Crash, Restart, worldVars
<1>3. CASE ShutdownDone \/ Crash
  <2>1. pc'.at = "down"
    BY <1>3 DEF ShutdownDone, Crash, Leave, At, Point
  <2>2. ASSUME NEW d \in Children
        PROVE  Fate'[d] = Fate[d] \/ (Fate[d] = "pending" /\ Fate'[d] \in Terminal)
    <3>1. GoneNext(d)
      BY <2>1 DEF GoneNext
    <3>2. Fate[d] = FateIs(durable[d], Gone(d)) /\ Fate'[d] = FateIs(durable[d], TRUE)
      BY <1>1, <3>1, FateNow, FateThen DEF FateIs
    <3> QED
      BY <3>2 DEF FateIs, Terminal
  <2> QED
    BY <1>2, <2>2, SettlesSome
<1>4. CASE Restart
  <2>1. pc.at = "down" /\ child' = [c \in Children |-> Inspection(c)]
    BY <1>4 DEF Restart
  <2>2. ASSUME NEW d \in Children PROVE Fate'[d] = Fate[d]
    <3>1. Gone(d)
      BY <2>1 DEF Gone
    <3>2. child'[d] = Inspection(d)
      BY <2>1
    <3>3. durable[d] # "none" => child'[d].report # None
      BY <3>2, NoneAssumption DEF Inspection, Absent, Terminal
    <3>4. Fate[d] = FateIs(durable[d], Gone(d)) /\ Fate'[d] = FateIs(durable[d], GoneNext(d))
      BY <1>1, FateNow, FateThen
    <3> QED
      BY <3>1, <3>3, <3>4 DEF FateIs, GoneNext
  <2> QED
    BY <1>2, <2>2, SettlesSome
<1> QED
  BY <1>3, <1>4 DEF Ends

\* Every step of the supervisor is a step of ChildFates or leaves it alone.
LEMMA FateStep ==
    ASSUME SupervisorInv, Next
    PROVE  Fates!Next
<1>1. CASE \/ \E ok \in BOOLEAN : HandleChildCommit(ok)
           \/ Reported \/ ChildInterrupted \/ Ends
           \/ \E w \in Clients, c \in Children : Await(w, c)
  BY <1>1, FateCommit, FateSettle, FateEnds, FateAwait
<1>2. CASE ~ \/ \E ok \in BOOLEAN : HandleChildCommit(ok)
             \/ Reported \/ ChildInterrupted \/ Ends
             \/ \E w \in Clients, c \in Children : Await(w, c)
  <2>1. durable' = durable
    BY <1>2, SessionWriter DEF sessionVars
  <2>2. told' = told
    BY <1>2, Telling
  <2>3. \A d \in Children : GoneNext(d) = Gone(d)
    BY <1>2, OnlyLeaving, ReportsStay DEF Gone, GoneNext
  <2>4. \A d \in Children : Fate'[d] = Fate[d]
    BY <2>1, <2>3, FateNow, FateThen
  <2> QED
    BY <2>2, <2>4, SettlesSome
<1> QED
  BY <1>1, <1>2

\* The supervisor implements ChildFates: whatever fails, is cancelled, crashes
\* or restarts, an admitted child has one fate, which never changes once it is
\* known, and everyone who awaits the child is told that fate.
THEOREM FatesRefined == Spec => KeepsFates
<1>1. Init => Fates!Init
  <2> SUFFICES ASSUME Init PROVE Fates!Init
    OBVIOUS
  <2>1. \A c \in Children : Fate[c] = "none"
    BY FateNow DEF Init, FateIs
  <2>2. Fate = [c \in Children |-> Fate[c]]
    BY DEF Fate
  <2>3. Fate = [c \in Children |-> "none"]
    BY <2>1, <2>2, Zenon
  <2> QED
    BY <2>3 DEF Fates!Init, Init
<1>2. SupervisorInv /\ [Next]_vars => [Fates!Next]_<<Fate, told>>
  <2>1. ASSUME SupervisorInv, UNCHANGED vars PROVE UNCHANGED <<Fate, told>>
    <3>1. UNCHANGED <<durable, child, pc, told>>
      BY <2>1 DEF vars, sessionVars, memoryVars, worldVars
    <3> QED
      BY <3>1, Zenon DEF Fate
  <2> QED
    BY <2>1, FateStep
<1> QED
  BY <1>1, <1>2, SupervisorInvariant, PTL DEF Spec, KeepsFates, Fates!Spec
=============================================================================
