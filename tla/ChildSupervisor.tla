-------------------------- MODULE ChildSupervisor --------------------------
(***************************************************************************)
(* The child supervisor of src/orchestration/supervisor: one actor that    *)
(* admits child agents against a session budget, starts them, collects     *)
(* their completions and commits their reports, together with the part of  *)
(* the native runtime that appends the actor's records to the session, the *)
(* child tasks, the callers that await children, and the crash and restart *)
(* of the process.                                                         *)
(*                                                                         *)
(* A handler of the actor is a chain of steps, one per append it awaits:   *)
(* `pc' says which append, and what the handler does afterwards.  While it *)
(* waits the child tasks run, the process may crash and, during a          *)
(* shutdown, the grace period may end and drop the wait.                   *)
(*                                                                         *)
(* Abstracted: a report is its terminal status; a child's request always   *)
(* passes its ceilings, so that the four aggregate budgets, each a ceiling *)
(* times max_descendants, never bind before max_descendants does; child    *)
(* permissions, live activity, artifacts and completion evidence are left  *)
(* out, except that the evidence append may fail.                          *)
(***************************************************************************)
EXTENDS Naturals, FiniteSets, Sequences, FiniteSetsExt

CONSTANTS
    MaxChildren,     \* bound: child ids drawn in a behaviour
    Managed,         \* children whose execution handles cancellation itself
    Plans,           \* orchestration plan ids
    PlanSize,        \* children of a plan
    Clients,         \* callers of await_agent
    MaxDescendants,  \* limits.max_descendants
    MaxFanOut,       \* limits.max_fan_out
    MaxConcurrency,  \* limits.max_concurrency
    MaxWaiters,      \* MAX_WAITERS_PER_CHILD
    MaxFaults,       \* bound: appends that fail in a behaviour
    MaxCrashes,      \* bound: crashes of a behaviour
    None

Children == 1 .. MaxChildren

ASSUME ChildrenAssumption == MaxChildren \in Nat /\ Managed \subseteq Children
ASSUME PlanAssumption == PlanSize \in 1 .. MaxFanOut
ASSUME NoneAssumption ==
    /\ None \notin Plans /\ None \notin Children
    /\ None \notin {"completed", "failed", "cancelled", "interrupted", "ok", "err"}
ASSUME LimitsAssumption ==
    /\ MaxDescendants \in Nat /\ MaxFanOut \in Nat
    /\ MaxConcurrency \in Nat \ {0} /\ MaxWaiters \in Nat
    /\ MaxFaults \in Nat /\ MaxCrashes \in Nat

VARIABLES
    durable,    \* session: Child -> its lifecycle, "none" before admission
    planOf,     \* session: Child -> the plan of its admission
    plans,      \* session: plans started
    pc,         \* the actor: where its handler is
    child,      \* ChildSupervisor.children
    ledger,     \* BudgetLedger: admitted_children, running_children
    queue,      \* admission_queue
    started,    \* started_plans
    completions,\* channel: ChildCompletion
    commitQ,    \* channel: ChildCommitCommand
    reply,      \* the acknowledgement of the record the actor awaits
    client,     \* Client -> the child it awaits
    told,       \* history: Child -> statuses handed to its waiters
    faults, crashes

sessionVars == <<durable, planOf, plans>>
memoryVars  == <<child, ledger, queue, started>>
channelVars == <<completions, commitQ, reply>>
worldVars   == <<client, told, faults, crashes>>
vars == <<sessionVars, pc, memoryVars, channelVars, worldVars>>

-----------------------------------------------------------------------------
Terminal == {"completed", "failed", "cancelled", "interrupted"}
Lifecycle == {"none", "admitted", "queued", "running"} \cup Terminal

\* ActiveChild.  `prepared' and `deadline' are taken exactly when the child is
\* released or started, so that the other fields tell whether they are there.
ActiveChild ==
    [life : Lifecycle, report : Terminal \cup {None}, error : BOOLEAN,
     waiters : SUBSET Clients, cancelled : BOOLEAN,
     task : {"none", "live", "done"}, reserved : BOOLEAN]

Absent == [life |-> "none", report |-> None, error |-> FALSE, waiters |-> {},
           cancelled |-> FALSE, task |-> "none", reserved |-> FALSE]

Record ==
    [kind : {"plan"}, plan : Plans]
    \cup [kind : {"batch"}, cs : SUBSET Children, plan : Plans \cup {None}]
    \cup [kind : {"life"}, c : Children, to : {"admitted", "queued", "running"}]
    \cup [kind : {"evidence"}, c : Children]
    \cup [kind : {"report"}, c : Children, status : Terminal]

\* A point of the actor's code: the append it awaits or the loop it is in,
\* the children it has in hand, the child and status of the report it commits
\* and where it goes after that.
Point(at, cs, plan) ==
    [at |-> at, cs |-> cs, plan |-> plan, c |-> None, status |-> None, then |-> None]
At(label) == Point(label, {}, None)

Labels == {"idle", "admit", "queue", "plan", "batch", "schedule", "run",
           "evidence", "report", "expire", "stopping", "draining",
           "interrupting", "interrupt", "down"}

\* The type invariant.
TypeOK ==
    /\ durable \in [Children -> Lifecycle]
    /\ planOf \in [Children -> Plans \cup {None}]
    /\ plans \subseteq Plans /\ started \subseteq Plans
    /\ pc \in [at : Labels, cs : SUBSET Children, plan : Plans \cup {None},
               c : Children \cup {None}, status : Terminal \cup {None},
               then : Labels \cup {None}]
    /\ child \in [Children -> ActiveChild]
    /\ ledger \in [admitted : Nat, running : Nat]
    /\ queue \in Seq(Children)
    /\ completions \in Seq([c : Children, status : Terminal])
    /\ commitQ \in Seq([rec : Record, live : BOOLEAN])
    /\ reply \in {"ok", "err", None}
    /\ client \in [Clients -> Children \cup {None}]
    /\ told \in [Children -> SUBSET Terminal]
    /\ faults \in 0 .. MaxFaults /\ crashes \in 0 .. MaxCrashes

Init ==
    /\ durable = [c \in Children |-> "none"]
    /\ planOf = [c \in Children |-> None]
    /\ plans = {} /\ started = {}
    /\ pc = At("idle")
    /\ child = [c \in Children |-> Absent]
    /\ ledger = [admitted |-> 0, running |-> 0]
    /\ queue = <<>> /\ completions = <<>> /\ commitQ = <<>> /\ reply = None
    /\ client = [w \in Clients |-> None]
    /\ told = [c \in Children |-> {}]
    /\ faults = 0 /\ crashes = 0

Active(c) == child[c].life \in {"admitted", "queued", "running"} /\ ~child[c].error

-----------------------------------------------------------------------------
(* The session: what the reducer accepts, and what it makes of a record.   *)

Accepts(rec) ==
    CASE rec.kind = "plan" -> rec.plan \notin plans
      [] rec.kind = "batch" ->
            /\ \A c \in rec.cs : durable[c] = "none"
            /\ rec.plan \in plans \cup {None}
      [] rec.kind = "life" ->
            <<durable[rec.c], rec.to>> \in
                {<<"none", "admitted">>, <<"admitted", "queued">>, <<"queued", "running">>}
      [] rec.kind = "evidence" -> TRUE
      [] rec.kind = "report" -> durable[rec.c] \in {"admitted", "queued", "running"}

\* Mutant: a batch loses its last child.
ApplyAllButLast(rec) ==
    LET cs == IF rec.kind = "batch" /\ Cardinality(rec.cs) > 1
              THEN rec.cs \ {Max(rec.cs)} ELSE IF rec.kind = "batch" THEN rec.cs ELSE {}
    IN /\ plans' = IF rec.kind = "plan" THEN plans \cup {rec.plan} ELSE plans
       /\ planOf' = [c \in Children |-> IF c \in cs THEN rec.plan ELSE planOf[c]]
       /\ durable' =
             CASE rec.kind = "batch" ->
                    [c \in Children |-> IF c \in cs THEN "queued" ELSE durable[c]]
               [] rec.kind = "life" -> [durable EXCEPT ![rec.c] = rec.to]
               [] rec.kind = "report" -> [durable EXCEPT ![rec.c] = rec.status]
               [] OTHER -> durable

Apply(rec) ==
    /\ plans' = IF rec.kind = "plan" THEN plans \cup {rec.plan} ELSE plans
    /\ planOf' = IF rec.kind = "batch"
                 THEN [c \in Children |-> IF c \in rec.cs THEN rec.plan ELSE planOf[c]]
                 ELSE planOf
    /\ durable' =
          CASE rec.kind = "batch" ->
                 [c \in Children |-> IF c \in rec.cs THEN "queued" ELSE durable[c]]
            [] rec.kind = "life" -> [durable EXCEPT ![rec.c] = rec.to]
            [] rec.kind = "report" -> [durable EXCEPT ![rec.c] = rec.status]
            [] OTHER -> durable

\* handle_child_commit: the runtime appends the record and acknowledges it to
\* an actor that still waits.  The append of a valid record may fail too.
HandleChildCommit(ok) ==
    /\ pc.at # "down" /\ commitQ # <<>>
    /\ LET rec == Head(commitQ).rec IN
       /\ IF ok THEN Accepts(rec) /\ Apply(rec) /\ UNCHANGED faults
          ELSE /\ UNCHANGED sessionVars
               /\ IF Accepts(rec) THEN faults < MaxFaults /\ faults' = faults + 1
                                  ELSE UNCHANGED faults
       /\ reply' = IF Head(commitQ).live THEN (IF ok THEN "ok" ELSE "err") ELSE reply
    /\ commitQ' = Tail(commitQ)
    /\ UNCHANGED <<pc, memoryVars, completions, client, told, crashes>>

\* ChildCommitSender::append, up to the wait for its acknowledgement.
SendRecord(rec) ==
    /\ commitQ' = Append(commitQ, [rec |-> rec, live |-> TRUE])
    /\ reply' = None


\* commit_terminal_report, up to its append, on the children `kids'; the
\* handler goes on at `then', with `rest' in hand.
CommitTerminalReport(kids, c, status, then, rest) ==
    IF kids[c].report # None \/ kids[c].error
    THEN /\ pc' = Point(then, rest, None)
         /\ UNCHANGED <<commitQ, reply>>
    ELSE /\ pc' = [Point("report", rest, None) EXCEPT !.c = c, !.status = status,
                                                     !.then = then]
         /\ SendRecord([kind |-> "report", c |-> c, status |-> status])

\* release_child_capacity
Release(c) ==
    ledger' = [ledger EXCEPT !.running = IF child[c].reserved THEN @ - 1 ELSE @]

Waiting(c) == {w \in child[c].waiters : client[w] = c}

\* The tail of commit_terminal_report once the report is durable.
Settle(c, status) ==
    /\ child' = [child EXCEPT ![c] = [@ EXCEPT !.life = status, !.report = status,
                     !.waiters = {}, !.task = "none", !.reserved = FALSE]]
    /\ told' = [told EXCEPT ![c] = @ \cup {status : w \in Waiting(c)}]
    /\ client' = [w \in Clients |-> IF w \in Waiting(c) THEN None ELSE client[w]]
    /\ Release(c)

\* Mutant: the waiters are told the status that could not be stored.
SettleAnyway(c, life) ==
    /\ child' = [child EXCEPT ![c] = [@ EXCEPT !.life = life, !.error = TRUE,
                     !.waiters = {}, !.task = "none", !.reserved = FALSE]]
    /\ told' = [told EXCEPT ![c] = @ \cup {"completed" : w \in Waiting(c)}]
    /\ client' = [w \in Clients |-> IF w \in Waiting(c) THEN None ELSE client[w]]
    /\ Release(c)

\* The tail of commit_terminal_report when the append failed: the waiters get
\* the error, and the child is interrupted in memory only.
SettleWithError(c, life) ==
    /\ child' = [child EXCEPT ![c] = [@ EXCEPT !.life = life, !.error = TRUE,
                     !.waiters = {}, !.task = "none", !.reserved = FALSE]]
    /\ client' = [w \in Clients |-> IF w \in Waiting(c) THEN None ELSE client[w]]
    /\ Release(c)
    /\ UNCHANGED told

Reported ==
    /\ pc.at = "report"
    /\ \/ reply = "ok" /\ Settle(pc.c, pc.status)
       \/ reply = "err" /\ SettleWithError(pc.c, "interrupted")
    /\ pc' = Point(pc.then, pc.cs, None)
    /\ reply' = None
    /\ UNCHANGED <<sessionVars, queue, started, completions, commitQ, faults, crashes>>

-----------------------------------------------------------------------------
(* Admission (supervisor/admission.rs).                                    *)

Drawn == {c \in Children : durable[c] # "none"}
Fresh(k) == {c \in Children : c \in Cardinality(Drawn) + 1 .. Cardinality(Drawn) + k}

\* BudgetLedger::reserve_batch
CanReserve(k) ==
    /\ k \in 1 .. MaxFanOut
    /\ k <= MaxDescendants - ledger.admitted
Reserve(k) == ledger' = [ledger EXCEPT !.admitted = @ + k]
\* BudgetLedger::rollback, of every reservation of a batch
Rollback(k) == ledger' = [ledger EXCEPT !.admitted = @ - k]

Admitted(life) == [Absent EXCEPT !.life = life]

\* spawn_child up to the ChildAdmitted record.
SpawnChild ==
    /\ pc.at = "idle" /\ CanReserve(1)
    /\ \E c \in Fresh(1) :
        /\ pc' = Point("admit", {c}, None)
        /\ SendRecord([kind |-> "life", c |-> c, to |-> "admitted"])
    /\ Reserve(1)
    /\ UNCHANGED <<sessionVars, child, queue, started, completions, worldVars>>

\* The rest of spawn_child: a failed ChildAdmitted gives the reservation back,
\* a failed Queued does not, since the child is durable by then.
ChildAdmitted ==
    /\ pc.at = "admit"
    /\ \/ /\ reply = "ok"
          /\ child' = [c \in Children |->
                          IF c \in pc.cs THEN Admitted("admitted") ELSE child[c]]
          /\ pc' = [pc EXCEPT !.at = "queue"]
          /\ \E c \in pc.cs : SendRecord([kind |-> "life", c |-> c, to |-> "queued"])
          /\ UNCHANGED ledger
       \/ /\ reply = "err"
          /\ Rollback(1)
          /\ pc' = At("schedule") /\ reply' = None
          /\ UNCHANGED <<child, commitQ>>
    /\ UNCHANGED <<sessionVars, queue, started, completions, worldVars>>

ChildQueued ==
    /\ pc.at = "queue"
    /\ \E c \in pc.cs :
       \/ /\ reply = "ok"
          /\ child' = [child EXCEPT ![c].life = "queued"]
          /\ queue' = Append(queue, c)
          /\ pc' = At("schedule") /\ reply' = None
          /\ UNCHANGED commitQ
       \/ /\ reply = "err"
          /\ CommitTerminalReport(child, c, "failed", "schedule", {})
          /\ UNCHANGED <<child, queue>>
    /\ UNCHANGED <<sessionVars, ledger, started, completions, worldVars>>

\* spawn_many_children and admit_candidates up to the batch record.
SpawnMany ==
    /\ pc.at = "idle"
    /\ \E k \in 1 .. MaxFanOut :
        /\ CanReserve(k) /\ Cardinality(Fresh(k)) = k
        /\ Reserve(k)
        /\ pc' = Point("batch", Fresh(k), None)
        /\ SendRecord([kind |-> "batch", cs |-> Fresh(k), plan |-> None])
    /\ UNCHANGED <<sessionVars, child, queue, started, completions, worldVars>>

\* start_plan up to the OrchestrationPlanStarted record: the reservation is
\* tried and given back.
StartPlan(p) ==
    /\ pc.at = "idle" /\ p \notin started
    /\ CanReserve(PlanSize) /\ Cardinality(Fresh(PlanSize)) = PlanSize
    /\ pc' = Point("plan", Fresh(PlanSize), p)
    /\ SendRecord([kind |-> "plan", plan |-> p])
    /\ UNCHANGED <<sessionVars, memoryVars, completions, worldVars>>

\* start_plan after it: the plan id is spent, and the batch reserved again.
PlanStarted ==
    /\ pc.at = "plan"
    /\ \/ /\ reply = "ok"
          /\ started' = started \cup {pc.plan}
          /\ CanReserve(Cardinality(pc.cs)) /\ Reserve(Cardinality(pc.cs))
          /\ pc' = [pc EXCEPT !.at = "batch"]
          /\ SendRecord([kind |-> "batch", cs |-> pc.cs, plan |-> pc.plan])
       \/ /\ reply = "err"
          /\ pc' = At("schedule") /\ reply' = None
          /\ UNCHANGED <<started, ledger, commitQ>>
    /\ UNCHANGED <<sessionVars, child, queue, completions, worldVars>>

\* The candidates of a batch in the order of their ids, drawn one after another.
InOrder(cs) == [i \in 1 .. Cardinality(cs) |-> Min(cs) + (i - 1)]

\* admit_candidates after the batch record; all reservations are kept or all
\* are given back.
BatchAdmitted ==
    /\ pc.at = "batch"
    /\ \/ /\ reply = "ok"
          /\ child' = [c \in Children |-> IF c \in pc.cs THEN Admitted("queued") ELSE child[c]]
          /\ queue' = queue \o InOrder(pc.cs)
          /\ UNCHANGED ledger
       \/ /\ reply = "err"
          /\ Rollback(Cardinality(pc.cs))
          /\ UNCHANGED <<child, queue>>
    /\ pc' = At("schedule") /\ reply' = None
    /\ UNCHANGED <<sessionVars, started, completions, commitQ, worldVars>>

-----------------------------------------------------------------------------
(* start_queued_children, which ends every handler outside a shutdown.     *)

CanStart == ledger.running < MaxConcurrency

Eligible(c) == child[c].life = "queued" /\ ~child[c].cancelled /\ ~child[c].error

StartQueued ==
    /\ pc.at = "schedule"
    /\ IF CanStart /\ queue # <<>>
       THEN /\ queue' = Tail(queue)
            /\ IF Eligible(Head(queue))
               THEN /\ pc' = Point("run", {Head(queue)}, None)
                    /\ SendRecord([kind |-> "life", c |-> Head(queue), to |-> "running"])
               ELSE UNCHANGED <<pc, commitQ, reply>>
       ELSE pc' = At("idle") /\ UNCHANGED <<queue, commitQ, reply>>
    /\ UNCHANGED <<sessionVars, child, ledger, started, completions, worldVars>>

\* A lifecycle or evidence append that failed: record_transition_failure.
ChildRunning ==
    /\ pc.at = "run"
    /\ \E c \in pc.cs :
       \/ /\ reply = "ok"
          /\ pc' = [pc EXCEPT !.at = "evidence"]
          /\ SendRecord([kind |-> "evidence", c |-> c])
       \/ reply = "err" /\ CommitTerminalReport(child, c, "failed", "schedule", {})
    /\ UNCHANGED <<sessionVars, memoryVars, completions, worldVars>>

EvidenceRecorded ==
    /\ pc.at = "evidence"
    /\ \E c \in pc.cs :
       \/ /\ reply = "ok"
          /\ ledger' = [ledger EXCEPT !.running = @ + 1]
          /\ child' = [child EXCEPT ![c] = [@ EXCEPT !.life = "running",
                                               !.task = "live", !.reserved = TRUE]]
          /\ pc' = At("schedule") /\ reply' = None
          /\ UNCHANGED commitQ
       \/ /\ reply = "err"
          /\ CommitTerminalReport(child, c, "failed", "schedule", {})
          /\ UNCHANGED <<child, ledger>>
    /\ UNCHANGED <<sessionVars, queue, started, completions, worldVars>>

\* run_child_execution: the task ends, by itself or, unless its execution
\* handles cancellation, as soon as it is cancelled, and sends its completion.
ChildEnds(c, status) ==
    /\ pc.at # "down" /\ child[c].task = "live"
    /\ status = "cancelled" => child[c].cancelled
    /\ child' = [child EXCEPT ![c].task = "done"]
    /\ completions' = Append(completions, [c |-> c, status |-> status])
    /\ UNCHANGED <<sessionVars, pc, ledger, queue, started, commitQ, reply, worldVars>>

\* handle_completion, from the actor's loop or from its shutdown.
HandleCompletion ==
    /\ pc.at \in {"idle", "draining"} /\ completions # <<>>
    /\ LET done == Head(completions)
           then == IF pc.at = "idle" THEN "schedule" ELSE "draining"
       IN CommitTerminalReport(child, done.c, done.status, then, {})
    /\ completions' = Tail(completions)
    /\ UNCHANGED <<sessionVars, memoryVars, worldVars>>

-----------------------------------------------------------------------------
(* Cancellation, deadlines and shutdown (supervisor/lifecycle.rs).         *)

\* Mutant: a queued child is marked as cancelled and left in the queue.
RequestCancellationSilently(c, then, rest) ==
    /\ child' = IF Active(c) THEN [child EXCEPT ![c].cancelled = TRUE] ELSE child
    /\ pc' = Point(then, rest, None) /\ UNCHANGED <<commitQ, reply>>

\* request_cancellation: a running child is told through its token and reports
\* by itself; a queued one is reported at once.
RequestCancellation(c, then, rest) ==
    LET newly == Active(c) /\ ~child[c].cancelled
        kids == [child EXCEPT ![c].cancelled = TRUE]
    IN /\ child' = IF newly THEN kids ELSE child
       /\ IF newly /\ child[c].life = "queued"
          THEN CommitTerminalReport(kids, c, "cancelled", then, rest)
          ELSE pc' = Point(then, rest, None) /\ UNCHANGED <<commitQ, reply>>

Cancel(c) ==
    /\ pc.at = "idle" /\ child[c].life # "none"
    /\ RequestCancellation(c, "schedule", {})
    /\ UNCHANGED <<sessionVars, ledger, queue, started, completions, worldVars>>

\* Children whose deadline still counts.  Time is not modelled: any of them
\* may be the ones whose deadline has passed.
Expirable == {c \in Children : Active(c) /\ ~child[c].cancelled}

ExpireDeadlines(cs) ==
    /\ pc.at = "idle" /\ cs # {} /\ cs \subseteq Expirable
    /\ pc' = Point("expire", cs, None)
    /\ UNCHANGED <<sessionVars, memoryVars, channelVars, worldVars>>

\* shutdown_children up to the wait for the children.
Shutdown ==
    /\ pc.at = "idle"
    /\ pc' = Point("stopping", {c \in Children : Active(c)}, None)
    /\ UNCHANGED <<sessionVars, memoryVars, channelVars, worldVars>>

\* The loops of expire_deadlines and shutdown_children over their children.
CancelNext ==
    /\ pc.at \in {"expire", "stopping"} /\ pc.cs # {}
    /\ LET c == Min(pc.cs) IN RequestCancellation(c, pc.at, pc.cs \ {c})
    /\ UNCHANGED <<sessionVars, ledger, queue, started, completions, worldVars>>

CancelDone ==
    /\ pc.at \in {"expire", "stopping"} /\ pc.cs = {}
    /\ pc' = At(IF pc.at = "expire" THEN "schedule" ELSE "draining")
    /\ UNCHANGED <<sessionVars, memoryVars, channelVars, worldVars>>

\* The actor returns: callers that still wait find it gone.
Leave ==
    /\ pc' = At("down")
    /\ client' = [w \in Clients |-> None]
    /\ child' = [c \in Children |-> Absent]
    /\ ledger' = [admitted |-> 0, running |-> 0]
    /\ queue' = <<>> /\ started' = {}
    /\ completions' = <<>> /\ commitQ' = <<>> /\ reply' = None

ShutdownDone ==
    /\ \/ pc.at = "draining" /\ ~ \E c \in Children : Active(c)
       \/ pc.at = "interrupting" /\ pc.cs = {}
    /\ Leave
    /\ UNCHANGED <<sessionVars, told, faults, crashes>>

\* Mutant: the grace is only noticed when a completion arrives.
GraceEndsOnCompletion ==
    /\ pc.at = "draining" /\ completions # <<>> /\ \E c \in Children : Active(c)
    /\ pc' = Point("interrupting", {c \in Children : Active(c)}, None)
    /\ UNCHANGED <<sessionVars, memoryVars, channelVars, worldVars>>

\* SHUTDOWN_GRACE ends: the wait is dropped, even inside the commit of a
\* report, whose record is then in the runtime's channel or was never sent.
GraceEnds ==
    /\ \/ pc.at = "draining" /\ \E c \in Children : Active(c)
       \/ pc.at = "report" /\ pc.then = "draining" /\ reply = None
    /\ pc' = Point("interrupting", {c \in Children : Active(c)}, None)
    /\ commitQ' \in {[i \in DOMAIN commitQ |-> [commitQ[i] EXCEPT !.live = FALSE]], <<>>}
    /\ UNCHANGED <<sessionVars, memoryVars, completions, reply, worldVars>>

\* interrupt_unresponsive_child up to its append.
InterruptChild ==
    /\ pc.at = "interrupting" /\ pc.cs # {}
    /\ LET c == Min(pc.cs) IN
       /\ pc' = [Point("interrupt", pc.cs \ {c}, None) EXCEPT !.c = c]
       /\ child' = [child EXCEPT ![c].task = "none"]
       /\ SendRecord([kind |-> "report", c |-> c, status |-> "interrupted"])
    /\ UNCHANGED <<sessionVars, ledger, queue, started, completions, worldVars>>

ChildInterrupted ==
    /\ pc.at = "interrupt"
    /\ \/ reply = "ok" /\ Settle(pc.c, "interrupted")
       \/ reply = "err" /\ SettleWithError(pc.c, child[pc.c].life)
    /\ pc' = Point("interrupting", pc.cs, None) /\ reply' = None
    /\ UNCHANGED <<sessionVars, queue, started, completions, commitQ, faults, crashes>>

-----------------------------------------------------------------------------
(* The callers, and the process.                                           *)

\* await_agent_with and the Await command.
Await(w, c) ==
    /\ pc.at = "idle" /\ client[w] = None /\ child[c].life # "none"
    /\ IF child[c].report # None
       THEN /\ told' = [told EXCEPT ![c] = @ \cup {child[c].report}]
            /\ UNCHANGED <<child, client>>
       ELSE /\ ~child[c].error /\ Cardinality(Waiting(c)) < MaxWaiters
            /\ child' = [child EXCEPT ![c].waiters = Waiting(c) \cup {w}]
            /\ client' = [client EXCEPT ![w] = c]
            /\ UNCHANGED told
    /\ UNCHANGED <<sessionVars, pc, ledger, queue, started, channelVars, faults, crashes>>

\* The caller's own timeout: its waiter stays behind, closed.
AwaitTimesOut(w) ==
    /\ client[w] # None
    /\ client' = [client EXCEPT ![w] = None]
    /\ UNCHANGED <<sessionVars, pc, memoryVars, channelVars, told, faults, crashes>>

Crash ==
    /\ pc.at # "down" /\ crashes < MaxCrashes
    /\ crashes' = crashes + 1
    /\ Leave
    /\ UNCHANGED <<sessionVars, told, faults>>

\* RestoredChild::inspection: a child without a durable report is projected as
\* interrupted.
Inspection(c) ==
    LET status == IF durable[c] \in Terminal THEN durable[c] ELSE "interrupted"
    IN IF durable[c] = "none" THEN Absent
       ELSE [Absent EXCEPT !.life = status, !.report = status]

\* Mutant: only the children still open count against the restored budget.
RestartCountingOpen ==
    /\ pc.at = "down"
    /\ pc' = At("idle")
    /\ child' = [c \in Children |-> Inspection(c)]
    /\ ledger' = [admitted |-> Cardinality({c \in Drawn : durable[c] \notin Terminal}),
                  running |-> 0]
    /\ started' = plans
    /\ UNCHANGED <<sessionVars, queue, channelVars, worldVars>>

\* with_restored and with_consumed_reservations.
Restart ==
    /\ pc.at = "down"
    /\ pc' = At("idle")
    /\ child' = [c \in Children |-> Inspection(c)]
    /\ ledger' = [admitted |-> Cardinality(Drawn), running |-> 0]
    /\ started' = plans
    /\ UNCHANGED <<sessionVars, queue, channelVars, worldVars>>

-----------------------------------------------------------------------------
Supervisor ==
    \/ Reported \/ ChildAdmitted \/ ChildQueued \/ PlanStarted \/ BatchAdmitted
    \/ StartQueued \/ ChildRunning \/ EvidenceRecorded \/ HandleCompletion
    \/ CancelNext \/ CancelDone \/ ShutdownDone \/ InterruptChild \/ ChildInterrupted

Next ==
    \/ Supervisor
    \/ \E ok \in BOOLEAN : HandleChildCommit(ok)
    \/ SpawnChild \/ SpawnMany \/ \E p \in Plans : StartPlan(p)
    \/ \E c \in Children : Cancel(c)
    \/ \E c \in Children, status \in Terminal \ {"interrupted"} : ChildEnds(c, status)
    \/ \E cs \in SUBSET Children : ExpireDeadlines(cs)
    \/ Shutdown \/ GraceEnds
    \/ \E w \in Clients, c \in Children : Await(w, c)
    \/ \E w \in Clients : AwaitTimesOut(w)
    \/ Crash \/ Restart

Spec == Init /\ [][Next]_vars

\* The actor and the runtime are tasks of one executor and run when they can;
\* the actor's select! polls its branches in random order, so that commands
\* starve neither completions nor deadlines;
\* deadlines and the grace are timers; a task that leaves cancellation to
\* run_child_execution ends when it is cancelled, a managed one may never end.
Fairness ==
    /\ WF_vars(Supervisor) /\ SF_vars(HandleCompletion)
    /\ WF_vars(\E ok \in BOOLEAN : HandleChildCommit(ok))
    /\ \A c \in Children :
         /\ SF_vars(\E cs \in SUBSET Children : c \in cs /\ ExpireDeadlines(cs))
         /\ WF_vars(/\ c \notin Managed /\ child[c].cancelled
                    /\ ChildEnds(c, "cancelled"))
    /\ WF_vars(GraceEnds)

FairSpec == Spec /\ Fairness

-----------------------------------------------------------------------------
(* Properties.                                                             *)

LiveTasks == {c \in Children : child[c].task = "live"}

\* No more child tasks are live than max_concurrency, and the ledger's running
\* count is exactly the reservations held, so that no path through failure,
\* cancellation or abort leaks a slot or frees one twice.
SlotsAreCounted ==
    /\ Cardinality(LiveTasks) <= MaxConcurrency
    /\ pc.at # "down" =>
         /\ ledger.running = Cardinality({c \in Children : child[c].reserved})
         /\ ledger.running <= MaxConcurrency

\* max_descendants bounds the children the session ever admits, over failed
\* appends, crashes and restarts: the ledger never falls behind the session.
SessionBudgetHolds ==
    /\ Cardinality(Drawn) <= MaxDescendants
    /\ pc.at \in {"idle", "schedule"} => ledger.admitted = Cardinality(Drawn)

\* A child task runs only while the session says that its child is running.
LiveIsDurablyRunning == \A c \in LiveTasks : durable[c] = "running"

\* The supervisor's OrchestrationLedger, its tasks and the journal agree however
\* a child ends and whatever a commit, a crash or a restart interrupts: slots
\* and session budget are charged once per child and given back once.
LedgerIsExact == TypeOK /\ SlotsAreCounted /\ SessionBudgetHolds /\ LiveIsDurablyRunning

\* A plan's children are admitted all together and only once, whatever crash
\* or failure separates its two records.
PlanAdmittedOnce ==
    \A p \in Plans : Cardinality({c \in Children : planOf[c] = p}) \in {0, PlanSize}

\* A caller that awaits a child is answered, even when a managed child never
\* stops and keeps the only slot; unless it waits for that very child.
WaitersAreAnswered ==
    \A w \in Clients, c \in Children \ Managed : (client[w] = c) ~> (client[w] # c)

\* A shutdown ends, whatever the children do.
ShutdownEnds == (pc.at = "stopping") ~> (pc.at = "down")

\* The fate of a child: its durable report or, once the process that ran it is
\* gone, the interruption that every later process projects.
Fate ==
    [c \in Children |->
        CASE durable[c] = "none" -> "none"
          [] durable[c] \in Terminal -> durable[c]
          [] OTHER -> IF pc.at = "down" \/ child[c].report # None
                      THEN "interrupted" ELSE "pending"]

Fates == INSTANCE ChildFates WITH fate <- Fate

\* The supervisor keeps the promise of ChildFates: a child has one fate, and
\* no caller, of this process or a later one, is told another.
KeepsFates == Fates!Spec
=============================================================================
