---------------------------- MODULE UsageLedger ----------------------------
(***************************************************************************)
(* The durable usage budget: every model request is admitted against the   *)
(* owner's policy in one transaction before it is sent (usage_budget.rs,   *)
(* storage/usage.rs), settled once with what the provider reported, and    *)
(* attributed to the root, the job and the class of the work that caused   *)
(* it, through children and focused services.  Processes crash with        *)
(* requests in flight, the clock may go back, the owner edits the policy,  *)
(* and the home may be restored from a backup (storage/restore.rs).        *)
(*                                                                         *)
(* Every storage function is one immediate transaction and one step.       *)
(*                                                                         *)
(* Abstracted: the key of a request is its place in the ledger; tokens are *)
(* small numbers; routes, costs and the facts of a dispatch are left out;  *)
(* the restore, which no live owner survives, is one step.                 *)
(***************************************************************************)
EXTENDS Naturals, Integers, Sequences, FiniteSets, FiniteSetsExt

CONSTANTS
    Operations,  \* operation ids
    Roots,       \* conversations
    Occurrences, \* job ids of background work
    Policies,    \* the budget policies the owner sets
    Reserves,    \* tokens a request may reserve
    Reports,     \* tokens a provider may report
    HardDaily,   \* 32_768: background tokens of a day
    HardJob,     \* JOB_TOKENS: tokens of a background job
    MaxRequests, \* bound: requests admitted in a behaviour
    MaxDay,      \* bound: the last day
    MaxRestores, \* bound: restores
    Unknown,     \* a receipt without a number of tokens
    None

ASSUME PolicyAssumption ==
    \A p \in Policies :
        /\ p.daily_requests \in Nat \ {0} /\ p.root_requests \in Nat \ {0}
        /\ p.foreground_request_reserve \in 0 .. p.daily_requests
        /\ p.daily_tokens \in Nat \cup {None} /\ p.root_tokens \in Nat \cup {None}
        /\ p.background_daily_tokens \in Nat /\ p.background_job_tokens \in Nat
ASSUME TokenAssumption ==
    /\ Reserves \subseteq Nat \ {0} /\ Reports \subseteq Nat
    /\ HardDaily \in Nat /\ HardJob \in Nat
ASSUME BoundsAssumption ==
    MaxRequests \in Nat /\ MaxDay \in Nat /\ MaxRestores \in Nat

VARIABLES
    policy,     \* usage/policy
    ledger,     \* usage_requests, in the order of their sequence
    counters,   \* usage_counters
    review,     \* usage/restore-review-required
    authority,  \* restore/review-required
    budget,     \* Operation -> the UsageBudget it was started with
    alive,      \* operations whose process still runs
    parent,     \* Operation -> the operation it was started by
    backup,     \* the last snapshot of the store
    missing,    \* history: a restore dropped requests, and nobody accepted that
    restores

storeVars == <<policy, ledger, counters, review, authority>>
workVars  == <<budget, alive, parent>>
vars == <<storeVars, workVars, backup, missing, restores>>

-----------------------------------------------------------------------------
Days == 0 .. MaxDay
Jobs == Occurrences \cup Operations
Ids == 1 .. MaxRequests

\* What a request is charged to.
Attribution == [root : Roots \cup Operations, job : Jobs, background : BOOLEAN]
ASSUME NoneAssumption ==
    None \notin Operations \cup Attribution \cup Reports \cup {Unknown} \cup Nat

Request == [op : Operations, to : Attribution, day : Days, reserved : Reserves,
            charge : Nat, receipt : Reports \cup {None, Unknown}]

Count == [requests : Nat, tokens : Nat]
Counters == [day : [Days -> Count], root : [Roots \cup Operations -> Count],
             job : [Jobs -> Count], background_day : [Days -> Count]]

Store == [policy : Policies, ledger : Seq(Request), counters : Counters,
          review : BOOLEAN, authority : BOOLEAN]

\* The type invariant.  A counter below zero would be refused by the table's
\* CHECK, and with it the receipt.
TypeOK ==
    /\ policy \in Policies
    /\ ledger \in Seq(Request) /\ Len(ledger) <= MaxRequests
    /\ counters \in Counters
    /\ review \in BOOLEAN /\ authority \in BOOLEAN
    /\ budget \in [Operations -> Attribution \cup {None}]
    /\ alive \subseteq Operations
    /\ parent \in [Operations -> Operations \cup {None}]
    /\ backup \in Store \cup {None}
    /\ missing \in BOOLEAN /\ restores \in 0 .. MaxRestores

Zero == [requests |-> 0, tokens |-> 0]

Init ==
    /\ policy \in Policies
    /\ ledger = <<>>
    /\ counters = [day |-> [d \in Days |-> Zero],
                   root |-> [r \in Roots \cup Operations |-> Zero],
                   job |-> [j \in Jobs |-> Zero],
                   background_day |-> [d \in Days |-> Zero]]
    /\ review = FALSE /\ authority = FALSE
    /\ budget = [o \in Operations |-> None]
    /\ parent = [o \in Operations |-> None]
    /\ alive = {} /\ backup = None
    /\ missing = FALSE /\ restores = 0

-----------------------------------------------------------------------------
(* storage/usage.rs                                                        *)

Add(count, requests, tokens) ==
    [requests |-> count.requests + requests, tokens |-> count.tokens + tokens]

\* update_counters
Counted(to, day, requests, tokens) ==
    [counters EXCEPT
        !.day[day] = Add(@, requests, tokens),
        !.root[to.root] = Add(@, requests, tokens),
        !.job[to.job] = Add(@, requests, tokens),
        !.background_day[day] = IF to.background THEN Add(@, requests, tokens) ELSE @]

\* The day a request is booked on when a process reads the clock as `now':
\* never before one that is already booked.
EffectiveDay(now) == Max({now} \cup {ledger[i].day : i \in DOMAIN ledger})

Fits(used, reserve, cap) == cap # None => used + reserve <= cap

Smaller(a, b) == IF a <= b THEN a ELSE b

\* Mutant: the policy alone limits background work.
AllowedByPolicy(to, reserve, day) ==
    LET today == counters.day[day]
    IN /\ ~review
       /\ today.requests < policy.daily_requests
       /\ counters.root[to.root].requests < policy.root_requests
       /\ Fits(counters.job[to.job].tokens, reserve, policy.background_job_tokens)
       /\ to.background => ~authority

\* The checks of reserve_usage.
Allowed(to, reserve, day) ==
    LET today == counters.day[day]
        root == counters.root[to.root]
    IN /\ ~review
       /\ today.requests < policy.daily_requests
       /\ root.requests < policy.root_requests
       /\ Fits(today.tokens, reserve, policy.daily_tokens)
       /\ Fits(root.tokens, reserve, policy.root_tokens)
       /\ to.background =>
            /\ today.requests < policy.daily_requests - policy.foreground_request_reserve
            /\ Fits(counters.background_day[day].tokens, reserve,
                    Smaller(policy.background_daily_tokens, HardDaily))
            /\ Fits(counters.job[to.job].tokens, reserve,
                    Smaller(policy.background_job_tokens, HardJob))
            /\ ~authority

\* reserve_usage for one request of an operation.
ReserveUsage(op, to, reserve, now) ==
    /\ Len(ledger) < MaxRequests
    /\ LET day == EffectiveDay(now) IN
       /\ Allowed(to, reserve, day)
       /\ ledger' = Append(ledger, [op |-> op, to |-> to, day |-> day,
                                    reserved |-> reserve, charge |-> reserve,
                                    receipt |-> None])
       /\ counters' = Counted(to, day, 1, reserve)
    /\ UNCHANGED <<policy, review, authority>>

\* Mutant: the change of the charge is booked on the ledger's first day.
SettleOnFirstDay(id, receipt) ==
    /\ id \in DOMAIN ledger /\ ledger[id].op \in alive /\ ledger[id].receipt = None
    /\ LET row == ledger[id]
           charge == IF receipt = Unknown THEN row.charge ELSE receipt
       IN /\ ledger' = [ledger EXCEPT ![id].charge = charge, ![id].receipt = receipt]
          /\ counters' = Counted(row.to, ledger[1].day, 0, charge - row.charge)
    /\ UNCHANGED <<policy, review, authority, workVars, backup, missing, restores>>

\* settle_usage: the first receipt moves the charge to what was reported, or
\* leaves it; the same one again changes nothing; another is refused.  The
\* Reservation is in the memory of the process that sent the request; dropping
\* it unsettled refunds nothing.
SettleUsage(id, receipt) ==
    /\ id \in DOMAIN ledger /\ ledger[id].op \in alive
    /\ ledger[id].receipt \in {None, receipt}
    /\ LET row == ledger[id]
           charge == IF receipt = Unknown THEN row.charge ELSE receipt
       IN IF row.receipt = None
          THEN /\ ledger' = [ledger EXCEPT ![id].charge = charge, ![id].receipt = receipt]
               /\ counters' = Counted(row.to, row.day, 0, charge - row.charge)
          ELSE UNCHANGED <<ledger, counters>>
    /\ UNCHANGED <<policy, review, authority, workVars, backup, missing, restores>>

\* usage_attribution: of the operation's first request.
Requests(op) == {i \in DOMAIN ledger : ledger[i].op = op}
UsageAttribution(op) ==
    IF Requests(op) = {} THEN None ELSE ledger[Min(Requests(op))].to

-----------------------------------------------------------------------------
(* usage_budget.rs and the work that carries a budget.                     *)

Start(op, to, by) ==
    /\ budget[op] = None
    /\ alive' = alive \cup {op}
    /\ budget' = [budget EXCEPT ![op] = to]
    /\ parent' = [parent EXCEPT ![op] = by]
    /\ UNCHANGED <<storeVars, backup, missing, restores>>

\* A turn of a conversation; its own operation is its job.
StartTurn(op, root) ==
    /\ Start(op, [root |-> root, job |-> op, background |-> FALSE], None)

\* A scheduled occurrence, a retained worker or personal learning.
StartBackground(op, root, job) ==
    /\ Start(op, [root |-> root, job |-> job, background |-> TRUE], None)

\* inherit_operation: a child runs with the attribution of its parent's first
\* request; without one it keeps the budget it was composed with, which has
\* its parent's root and class, and the parent's job when one was fixed.
InheritOperation(op, by) ==
    /\ by \in alive
    /\ LET recorded == UsageAttribution(by)
           composed == IF budget[by].background THEN budget[by]
                       ELSE [budget[by] EXCEPT !.job = op]
       IN Start(op, IF recorded # None THEN recorded ELSE composed, by)

\* UsageBudget::admit by an agent loop.
Admit(op, reserve, now) ==
    /\ op \in alive
    /\ ReserveUsage(op, budget[op], reserve, now)
    /\ UNCHANGED <<budget, alive, parent, backup, missing, restores>>

\* Mutant: a focused service charges a budget of its own.
AdmitFocusedAlone(op, reserve, now) ==
    /\ op \in alive /\ \E i \in Requests(op) : ledger[i].receipt # None
    /\ ReserveUsage(op, [root |-> op, job |-> op, background |-> FALSE], reserve, now)
    /\ UNCHANGED <<budget, alive, parent, backup, missing, restores>>

\* A focused service composes a budget of its own, in the foreground and for
\* the operation, and inherits from the same operation; the turn has had an
\* answer by then, which asked for the service.
AdmitFocused(op, reserve, now) ==
    /\ op \in alive
    /\ \E i \in Requests(op) : ledger[i].receipt # None
    /\ LET recorded == UsageAttribution(op)
           own == [root |-> op, job |-> op, background |-> FALSE]
       IN ReserveUsage(op, IF recorded # None THEN recorded ELSE own, reserve, now)
    /\ UNCHANGED <<budget, alive, parent, backup, missing, restores>>

\* Every process that works on the home ends, with requests in flight.
Crash ==
    /\ alive # {} /\ alive' = {}
    /\ UNCHANGED <<storeVars, budget, parent, backup, missing, restores>>

-----------------------------------------------------------------------------
(* The owner and the world.                                                *)

UpdateUsagePolicy(p) ==
    /\ p # policy /\ policy' = p
    /\ UNCHANGED <<ledger, counters, review, authority, workVars, backup,
                   missing, restores>>

\* xana budget --accept-restored-usage; nothing accepts restored authority.
AcceptRestoredUsage ==
    /\ review /\ review' = FALSE /\ missing' = FALSE
    /\ UNCHANGED <<policy, ledger, counters, authority, workVars, backup, restores>>

Backup ==
    /\ backup = None
    /\ backup' = [policy |-> policy, ledger |-> ledger, counters |-> counters,
                  review |-> review, authority |-> authority]
    /\ UNCHANGED <<storeVars, workVars, missing, restores>>

\* Mutant: the restored store keeps the review documents of the backup.
RestoreUnreviewed ==
    /\ backup # None /\ restores < MaxRestores /\ alive = {}
    /\ restores' = restores + 1
    /\ policy' = backup.policy /\ ledger' = backup.ledger
    /\ counters' = backup.counters
    /\ review' = backup.review /\ authority' = backup.authority
    /\ missing' = (missing \/ Len(ledger) > Len(backup.ledger))
    /\ UNCHANGED <<workVars, backup>>

\* A restore needs the exclusive lease; the stage gets both review documents
\* before it becomes the home's store.
Restore ==
    /\ backup # None /\ restores < MaxRestores
    /\ alive = {}
    /\ restores' = restores + 1
    /\ policy' = backup.policy /\ ledger' = backup.ledger
    /\ counters' = backup.counters
    /\ review' = TRUE /\ authority' = TRUE
    /\ missing' = (missing \/ Len(ledger) > Len(backup.ledger))
    /\ UNCHANGED <<workVars, backup>>

-----------------------------------------------------------------------------
Next ==
    \/ \E op \in Operations :
          \/ \E root \in Roots :
                \/ StartTurn(op, root)
                \/ \E job \in Occurrences : StartBackground(op, root, job)
          \/ \E by \in Operations : InheritOperation(op, by)
          \/ \E reserve \in Reserves, now \in Days :
                Admit(op, reserve, now) \/ AdmitFocused(op, reserve, now)
    \/ \E id \in Ids, receipt \in Reports \cup {Unknown} : SettleUsage(id, receipt)
    \/ \E p \in Policies : UpdateUsagePolicy(p)
    \/ Crash \/ AcceptRestoredUsage \/ Backup \/ Restore

Spec == Init /\ [][Next]_vars

-----------------------------------------------------------------------------
(* Properties.                                                             *)

\* The total of the amounts of a set of rows: their units, each told by its row
\* and its place there, are counted.
Units(amount, rows) == UNION {{i} \X (1 .. amount[i]) : i \in rows}
Total(amount, rows) == Cardinality(Units(amount, rows))

\* What the rows of a ledger q are charged, and what of that was reserved.
Charges(q) == [i \in DOMAIN q |-> q[i].charge]
Granted(q) == [i \in DOMAIN q |-> Smaller(q[i].charge, q[i].reserved)]

OfDay(q, d)  == {i \in DOMAIN q : q[i].day = d}
OfRoot(q, r) == {i \in DOMAIN q : q[i].to.root = r}
OfJob(q, j)  == {i \in DOMAIN q : q[i].to.job = j}
Background(q) == {i \in DOMAIN q : q[i].to.background}

Sum(q, rows) == [requests |-> Cardinality(rows), tokens |-> Total(Charges(q), rows)]

\* The counters c are the sums of the ledger q.
Match(q, c) ==
    /\ \A d \in Days :
         /\ c.day[d] = Sum(q, OfDay(q, d))
         /\ c.background_day[d] = Sum(q, OfDay(q, d) \cap Background(q))
    /\ \A r \in Roots \cup Operations : c.root[r] = Sum(q, OfRoot(q, r))
    /\ \A j \in Jobs : c.job[j] = Sum(q, OfJob(q, j))

\* Admission decides from counters and never reads the ledger: over late
\* settlements, clock changes, crashes and restores they stay its exact sums, and
\* never negative.
CountersMatchLedger == TypeOK /\ Match(ledger, counters)

\* Up to what a provider reports beyond a reservation, background work stays
\* below the hard ceilings of its job and of its day, whatever the owner sets,
\* whichever way the clock moves and whoever works for the job.
CeilingsHold(q) ==
    /\ \A d \in Days : Total(Granted(q), OfDay(q, d) \cap Background(q)) <= HardDaily
    /\ \A j \in Jobs : Total(Granted(q), OfJob(q, j) \cap Background(q)) <= HardJob
BackgroundCeilings == CeilingsHold(ledger)

\* Everything that an operation causes is charged where the operation is:
\* its helpers and its children never leave its job or the background class.
WorkIsAttributed ==
    \A i \in DOMAIN ledger :
        /\ ledger[i].to = UsageAttribution(ledger[i].op)
        /\ LET by == parent[ledger[i].op]
           IN by # None /\ UsageAttribution(by) # None =>
                ledger[i].to.background = UsageAttribution(by).background

\* A dispatched request is never forgotten nor charged again: a row only gets
\* its one receipt, and only a restore takes rows away.
LedgerIsKept ==
    restores' = restores =>
        /\ Len(ledger') >= Len(ledger)
        /\ \A i \in DOMAIN ledger :
             \/ ledger'[i] = ledger[i]
             \/ /\ ledger[i].receipt = None /\ ledger'[i].receipt # None
                /\ [ledger'[i] EXCEPT !.charge = ledger[i].charge, !.receipt = None]
                     = ledger[i]

\* While a restored ledger may lack requests that were sent, nothing is sent
\* before the owner accepts that, and background work not even then.
NoDispatchOnLostUsage ==
    Len(ledger') > Len(ledger) =>
          ~missing /\ (restores > 0 => ~ledger'[Len(ledger')].to.background)

\* Usage that was charged is not charged or forgotten a second time: the rows
\* of a store only gain their first receipt, and a store that lost rows to a
\* restore admits nothing until it was reviewed.
UsageIsNotLost == [][LedgerIsKept /\ NoDispatchOnLostUsage]_vars
=============================================================================
