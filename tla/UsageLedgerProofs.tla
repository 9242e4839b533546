------------------------- MODULE UsageLedgerProofs -------------------------
(***************************************************************************)
(* TLAPS proofs about the usage budget, for any operations, policies,      *)
(* numbers of tokens, requests, days and restores.                         *)
(***************************************************************************)
EXTENDS UsageLedger, FiniteSetTheorems, SequenceTheorems, WellFoundedInduction, TLAPS

\* The ledger and the work have their types; the counters come later.
WorkType ==
    /\ ledger \in Seq(Request)
    /\ budget \in [Operations -> Attribution \cup {None}]
    /\ parent \in [Operations -> Operations \cup {None}]
    /\ alive \subseteq Operations
    /\ review \in BOOLEAN /\ authority \in BOOLEAN /\ missing \in BOOLEAN /\ restores \in Nat
    /\ backup # None => backup.ledger \in Seq(Request) /\ Len(backup.ledger) <= Len(ledger)

\* Every row is charged where the budget of its operation says, in a restored
\* ledger too.
RowsFollowBudgets ==
    /\ \A i \in DOMAIN ledger : ledger[i].to = budget[ledger[i].op]
    /\ backup # None => \A i \in DOMAIN backup.ledger : backup.ledger[i].to = budget[backup.ledger[i].op]

\* What runs has a budget, and the class of a child is its parent's.
BudgetsAreInherited ==
    /\ \A o \in alive : budget[o] # None
    /\ \A o \in Operations : parent[o] # None =>
          /\ budget[o] # None /\ budget[parent[o]] # None
          /\ budget[o].background = budget[parent[o]].background

\* A restore leaves its marks until they are accepted, or for good.
RestoresAreMarked == (missing => review) /\ (restores > 0 => authority)

\* The inductive invariant.
LedgerInv == WorkType /\ RowsFollowBudgets /\ BudgetsAreInherited /\ RestoresAreMarked

-----------------------------------------------------------------------------
\* A nonempty set of natural numbers has a least one.
LEMMA LeastNatural ==
    ASSUME NEW S \in SUBSET Nat, S # {}
    PROVE  \E m \in S : \A k \in S : m =< k
<1> DEFINE R == OpToRel(<, Nat)
<1>1. IsWellFoundedOn(R, Nat)
  BY NatLessThanWellFounded
<1>2. \A a, b \in Nat : <<a, b>> \in R <=> a < b
  BY DEF OpToRel
<1> HIDE DEF R
<1>3. PICK m \in S : \A k \in S : ~(<<k, m>> \in R)
  BY <1>1, WFMin
<1>4. \A k \in S : k \in Nat
  OBVIOUS
<1>5. \A k \in S : ~(k < m)
  BY <1>2, <1>3, <1>4, Zenon
<1> QED
  BY <1>4, <1>5

\* The rows of a ledger are requests.
LEMMA RowType ==
    ASSUME NEW rows \in Seq(Request), NEW i \in DOMAIN rows
    PROVE  /\ i \in Nat /\ i \in 1..Len(rows) /\ rows[i] \in Request
           /\ rows[i].day \in Days /\ rows[i].to \in Attribution /\ rows[i].op \in Operations
<1>1. i \in 1..Len(rows) /\ rows[i] \in Request
  BY LenProperties, ElementOfSeq
<1> QED
  BY <1>1 DEF Request

\* The day that a request is booked on is one of the calendar.
LEMMA EffectiveDayType ==
    ASSUME WorkType, NEW now \in Days
    PROVE  EffectiveDay(now) \in Days
<1> DEFINE S == {now} \cup {ledger[i].day : i \in DOMAIN ledger}
           T == {MaxDay - x : x \in S}
<1>1. S \subseteq Days
  BY RowType DEF WorkType
<1> HIDE DEF S
<1>2. \A x \in S : x \in Nat /\ x <= MaxDay
  BY <1>1, BoundsAssumption DEF Days
<1>3. now \in S
  BY DEF S
<1>4. T \in SUBSET Nat /\ T # {}
  BY <1>2, <1>3, BoundsAssumption
<1>5. PICK m \in T : \A k \in T : m =< k
  BY <1>4, LeastNatural
<1>6. PICK x \in S : m = MaxDay - x
  OBVIOUS
<1>7. \A y \in S : x >= y
  <2> SUFFICES ASSUME NEW y \in S PROVE x >= y
    OBVIOUS
  <2>1. m =< MaxDay - y
    BY <1>5
  <2> QED
    BY <1>2, <1>6, <2>1, BoundsAssumption
<1>8. Max(S) \in S
  BY <1>7 DEF Max
<1> QED
  BY <1>1, <1>8 DEF EffectiveDay, S

\* An operation that has requests is charged by its first one, which says what
\* its budget says.
LEMMA AttributionIsBudget ==
    ASSUME WorkType, RowsFollowBudgets, NEW op
    PROVE  /\ Requests(op) = {} => UsageAttribution(op) = None
           /\ Requests(op) # {} => UsageAttribution(op) = budget[op] /\ budget[op] \in Attribution
<1> SUFFICES ASSUME Requests(op) # {}
             PROVE  UsageAttribution(op) = budget[op] /\ budget[op] \in Attribution
  BY DEF UsageAttribution
<1>1. Requests(op) \in SUBSET Nat
  BY RowType DEF Requests, WorkType
<1>2. \E m \in Requests(op) : \A k \in Requests(op) : m =< k
  BY <1>1, LeastNatural
<1>3. Min(Requests(op)) \in Requests(op)
  BY <1>2 DEF Min
<1>4. Min(Requests(op)) \in DOMAIN ledger /\ ledger[Min(Requests(op))].op = op
  BY <1>3 DEF Requests
<1>5. ledger[Min(Requests(op))].to = budget[op] /\ ledger[Min(Requests(op))].to \in Attribution
  BY <1>4, RowType DEF RowsFollowBudgets, WorkType
<1> QED
  BY <1>5 DEF UsageAttribution

-----------------------------------------------------------------------------
\* An empty store has the invariant.
LEMMA InitLedgerInv == Init => LedgerInv
<1> SUFFICES ASSUME Init PROVE LedgerInv
  OBVIOUS
<1>1. ledger = <<>> /\ ledger \in Seq(Request) /\ DOMAIN ledger = {}
  BY DEF Init
<1>2. WorkType
  BY <1>1 DEF Init, WorkType
<1> QED
  BY <1>1, <1>2 DEF Init, LedgerInv, RowsFollowBudgets, BudgetsAreInherited, RestoresAreMarked

\* New work gets a budget once, and a child the class of its parent.
LEMMA StartLedgerInv ==
    ASSUME LedgerInv, NEW op \in Operations, NEW to \in Attribution, NEW by \in Operations \cup {None},
           Start(op, to, by),
           by # None => budget[by] # None /\ to.background = budget[by].background
    PROVE  LedgerInv'
<1>1. /\ budget[op] = None /\ alive' = alive \cup {op}
      /\ budget' = [budget EXCEPT ![op] = to] /\ parent' = [parent EXCEPT ![op] = by]
      /\ UNCHANGED <<policy, ledger, counters, review, authority, backup, missing, restores>>
  BY DEF Start, storeVars
<1>2. /\ budget' \in [Operations -> Attribution \cup {None}] /\ budget'[op] = to /\ to # None
      /\ \A o \in Operations \ {op} : budget'[o] = budget[o]
      /\ parent' \in [Operations -> Operations \cup {None}] /\ parent'[op] = by
      /\ \A o \in Operations \ {op} : parent'[o] = parent[o]
  BY <1>1, NoneAssumption DEF LedgerInv, WorkType
<1>3. \A o \in Operations : budget[o] # None => budget'[o] = budget[o]
  BY <1>1, <1>2
<1>4. WorkType'
  BY <1>1, <1>2 DEF LedgerInv, WorkType
<1>5. RowsFollowBudgets'
  <2>1. ASSUME NEW rows \in Seq(Request), NEW i \in DOMAIN rows, rows[i].to = budget[rows[i].op]
        PROVE  rows[i].to = budget'[rows[i].op]
    BY <1>3, <2>1, RowType, NoneAssumption
  <2> QED
    BY <1>1, <2>1 DEF LedgerInv, WorkType, RowsFollowBudgets
<1>6. BudgetsAreInherited'
  <2>1. \A o \in alive' : budget'[o] # None
    BY <1>1, <1>2, <1>3 DEF LedgerInv, WorkType, BudgetsAreInherited
  <2>2. ASSUME NEW o \in Operations, parent'[o] # None
        PROVE  /\ budget'[o] # None /\ budget'[parent'[o]] # None
               /\ budget'[o].background = budget'[parent'[o]].background
    <3>1. CASE o = op
      BY <1>2, <1>3, <2>2, <3>1
    <3>2. CASE o # op
      <4>1. parent'[o] = parent[o] /\ parent[o] \in Operations
        BY <1>2, <2>2, <3>2 DEF LedgerInv, WorkType
      <4> QED
        BY <1>3, <2>2, <4>1 DEF LedgerInv, BudgetsAreInherited
    <3> QED
      BY <3>1, <3>2
  <2> QED
    BY <2>1, <2>2 DEF BudgetsAreInherited
<1>7. RestoresAreMarked'
  BY <1>1 DEF LedgerInv, RestoresAreMarked
<1> QED
  BY <1>4, <1>5, <1>6, <1>7 DEF LedgerInv

\* The three ways to start work.
LEMMA WorkLedgerInv ==
    ASSUME LedgerInv, NEW op \in Operations,
           \/ \E root \in Roots : StartTurn(op, root)
           \/ \E root \in Roots, job \in Occurrences : StartBackground(op, root, job)
           \/ \E by \in Operations : InheritOperation(op, by)
    PROVE  LedgerInv'
<1>1. CASE \E root \in Roots : StartTurn(op, root)
  <2>1. PICK root \in Roots : StartTurn(op, root)
    BY <1>1
  <2>2. [root |-> root, job |-> op, background |-> FALSE] \in Attribution
    BY DEF Attribution, Jobs
  <2> QED
    BY <2>1, <2>2, StartLedgerInv DEF StartTurn
<1>2. CASE \E root \in Roots, job \in Occurrences : StartBackground(op, root, job)
  <2>1. PICK root \in Roots, job \in Occurrences : StartBackground(op, root, job)
    BY <1>2
  <2>2. [root |-> root, job |-> job, background |-> TRUE] \in Attribution
    BY DEF Attribution, Jobs
  <2> QED
    BY <2>1, <2>2, StartLedgerInv DEF StartBackground
<1>3. CASE \E by \in Operations : InheritOperation(op, by)
  <2>1. PICK by \in Operations : InheritOperation(op, by)
    BY <1>3
  <2> DEFINE recorded == UsageAttribution(by)
             composed == IF budget[by].background THEN budget[by] ELSE [budget[by] EXCEPT !.job = op]
             to == IF recorded # None THEN recorded ELSE composed
  <2>2. by \in alive /\ Start(op, to, by)
    BY <2>1 DEF InheritOperation
  <2>3. budget[by] \in Attribution /\ budget[by] # None
    BY <2>2 DEF LedgerInv, WorkType, BudgetsAreInherited
  <2>4. composed \in Attribution /\ composed.background = budget[by].background
    BY <2>3 DEF Attribution, Jobs
  <2>5. recorded \in {None, budget[by]}
    BY AttributionIsBudget DEF LedgerInv
  <2>6. to \in Attribution /\ to.background = budget[by].background
    BY <2>3, <2>4, <2>5
  <2> HIDE DEF to
  <2> QED
    BY <2>2, <2>3, <2>6, StartLedgerInv
<1> QED
  BY <1>1, <1>2, <1>3

\* A request is charged to the budget of its operation.
LEMMA ReserveLedgerInv ==
    ASSUME LedgerInv, NEW op \in Operations, NEW reserve \in Reserves, NEW now \in Days,
           budget[op] \in Attribution,
           ReserveUsage(op, budget[op], reserve, now),
           UNCHANGED <<budget, alive, parent, backup, missing, restores>>
    PROVE  LedgerInv'
<1> DEFINE row == [op |-> op, to |-> budget[op], day |-> EffectiveDay(now),
                   reserved |-> reserve, charge |-> reserve, receipt |-> None]
<1>1. ledger' = Append(ledger, row) /\ UNCHANGED <<review, authority>>
  BY DEF ReserveUsage
<1>2. row \in Request
  BY EffectiveDayType, TokenAssumption DEF LedgerInv, Request
<1>3. row.to = budget[op] /\ row.op = op
  OBVIOUS
<1> HIDE DEF row
<1>4. /\ ledger' \in Seq(Request) /\ Len(ledger') = Len(ledger) + 1 /\ Len(ledger) \in Nat
      /\ \A i \in DOMAIN ledger' : i = Len(ledger) + 1 \/ i \in DOMAIN ledger
      /\ \A i \in DOMAIN ledger : ledger'[i] = ledger[i]
      /\ ledger'[Len(ledger) + 1] = row
  BY <1>1, <1>2, AppendProperties DEF LedgerInv, WorkType
<1>5. WorkType'
  BY <1>1, <1>4 DEF LedgerInv, WorkType
<1>6. RowsFollowBudgets'
  BY <1>3, <1>4 DEF LedgerInv, RowsFollowBudgets
<1> QED
  BY <1>1, <1>5, <1>6 DEF LedgerInv, BudgetsAreInherited, RestoresAreMarked

\* What running work may be charged to: a focused service inherits from the
\* operation that asked for it.
LEMMA AdmittedBudget ==
    ASSUME LedgerInv, NEW op \in Operations, NEW reserve, NEW now,
           Admit(op, reserve, now) \/ AdmitFocused(op, reserve, now)
    PROVE  /\ budget[op] \in Attribution /\ ReserveUsage(op, budget[op], reserve, now)
           /\ UNCHANGED <<budget, alive, parent, backup, missing, restores>>
<1>1. budget[op] \in Attribution
  BY DEF Admit, AdmitFocused, LedgerInv, WorkType, BudgetsAreInherited
<1>2. CASE Admit(op, reserve, now)
  BY <1>1, <1>2 DEF Admit
<1>3. CASE AdmitFocused(op, reserve, now)
  <2>1. Requests(op) # {}
    BY <1>3 DEF AdmitFocused
  <2>2. UsageAttribution(op) = budget[op] /\ UsageAttribution(op) # None
    BY <1>1, <2>1, AttributionIsBudget, NoneAssumption DEF LedgerInv
  <2> QED
    BY <1>1, <1>3, <2>2 DEF AdmitFocused
<1> QED
  BY <1>2, <1>3

\* What a settlement does to the rows: at most one gets its first receipt.
LEMMA SettledRows ==
    ASSUME LedgerInv, NEW id, NEW receipt \in Reports \cup {Unknown}, SettleUsage(id, receipt)
    PROVE  /\ ledger' \in Seq(Request) /\ Len(ledger') = Len(ledger) /\ DOMAIN ledger' = DOMAIN ledger
           /\ \A i \in DOMAIN ledger :
                 /\ ledger'[i].to = ledger[i].to /\ ledger'[i].op = ledger[i].op
                 /\ \/ ledger'[i] = ledger[i]
                    \/ /\ ledger[i].receipt = None /\ ledger'[i].receipt # None
                       /\ [ledger'[i] EXCEPT !.charge = ledger[i].charge, !.receipt = None] = ledger[i]
<1>1. ledger \in Seq(Request) /\ id \in DOMAIN ledger
  BY DEF LedgerInv, WorkType, SettleUsage
<1>2. CASE ledger' = ledger
  BY <1>1, <1>2
<1>3. CASE ledger' # ledger
  <2> DEFINE charge == IF receipt = Unknown THEN ledger[id].charge ELSE receipt
             row == [ledger[id] EXCEPT !.charge = charge, !.receipt = receipt]
  <2>1. ledger[id].receipt = None /\ ledger' = [ledger EXCEPT ![id] = row]
    BY <1>3 DEF SettleUsage
  <2>2. ledger[id] \in Request
    BY <1>1, RowType
  <2>3. charge \in Nat
    BY <2>2, TokenAssumption DEF Request
  <2>4. row \in Request /\ row.to = ledger[id].to /\ row.op = ledger[id].op /\ row.receipt = receipt
    BY <2>2, <2>3 DEF Request
  <2>5. [row EXCEPT !.charge = ledger[id].charge, !.receipt = None] = ledger[id]
    BY <2>1, <2>2 DEF Request
  <2> HIDE DEF row
  <2>6. /\ ledger' \in Seq(Request) /\ Len(ledger') = Len(ledger) /\ DOMAIN ledger' = DOMAIN ledger
        /\ ledger'[id] = row /\ \A i \in DOMAIN ledger \ {id} : ledger'[i] = ledger[i]
    BY <1>1, <2>1, <2>4, ExceptSeq
  <2>7. receipt # None
    BY NoneAssumption
  <2> QED
    BY <2>1, <2>4, <2>5, <2>6, <2>7
<1> QED
  BY <1>2, <1>3

\* A receipt, an accepted restore, a backup and a restore.
LEMMA StoreLedgerInv ==
    ASSUME LedgerInv,
           \/ \E id \in Ids, receipt \in Reports \cup {Unknown} : SettleUsage(id, receipt)
           \/ \E p \in Policies : UpdateUsagePolicy(p)
           \/ Crash \/ AcceptRestoredUsage \/ Backup \/ Restore
    PROVE  LedgerInv'
<1> USE DEF LedgerInv
<1>1. CASE \E id \in Ids, receipt \in Reports \cup {Unknown} : SettleUsage(id, receipt)
  <2>1. PICK id \in Ids, receipt \in Reports \cup {Unknown} : SettleUsage(id, receipt)
    BY <1>1
  <2>2. /\ ledger' \in Seq(Request) /\ Len(ledger') = Len(ledger) /\ DOMAIN ledger' = DOMAIN ledger
        /\ \A i \in DOMAIN ledger : ledger'[i].to = ledger[i].to /\ ledger'[i].op = ledger[i].op
    BY <2>1, SettledRows
  <2>3. UNCHANGED <<review, authority, budget, alive, parent, backup, missing, restores>>
    BY <2>1 DEF SettleUsage, workVars
  <2>4. WorkType' /\ RowsFollowBudgets'
    BY <2>2, <2>3 DEF WorkType, RowsFollowBudgets
  <2> QED
    BY <2>3, <2>4 DEF BudgetsAreInherited, RestoresAreMarked
<1>2. CASE \E p \in Policies : UpdateUsagePolicy(p)
  BY <1>2 DEF UpdateUsagePolicy, workVars, WorkType, RowsFollowBudgets, BudgetsAreInherited,
              RestoresAreMarked
<1>3. CASE Crash
  BY <1>3 DEF Crash, storeVars, WorkType, RowsFollowBudgets, BudgetsAreInherited, RestoresAreMarked
<1>4. CASE AcceptRestoredUsage
  BY <1>4 DEF AcceptRestoredUsage, workVars, WorkType, RowsFollowBudgets, BudgetsAreInherited,
              RestoresAreMarked
<1>5. CASE Backup
  <2>1. backup'.ledger = ledger
    BY <1>5 DEF Backup
  <2>2. UNCHANGED <<ledger, review, authority, budget, alive, parent, missing, restores>>
    BY <1>5 DEF Backup, storeVars, workVars
  <2>3. Len(ledger) \in Nat
    BY DEF WorkType
  <2>4. WorkType'
    BY <2>1, <2>2, <2>3 DEF WorkType
  <2>5. RowsFollowBudgets'
    BY <2>1, <2>2 DEF RowsFollowBudgets
  <2> QED
    BY <2>2, <2>4, <2>5 DEF BudgetsAreInherited, RestoresAreMarked
<1>6. CASE Restore
  <2>1. /\ backup # None /\ ledger' = backup.ledger /\ review' = TRUE /\ authority' = TRUE
        /\ restores' = restores + 1 /\ missing' \in BOOLEAN
        /\ UNCHANGED <<budget, alive, parent, backup>>
    BY <1>6 DEF Restore, workVars
  <2>2. ledger' \in Seq(Request) /\ Len(backup'.ledger) <= Len(ledger')
    BY <2>1 DEF WorkType
  <2>3. WorkType'
    BY <2>1, <2>2 DEF WorkType
  <2>4. RowsFollowBudgets'
    BY <2>1 DEF RowsFollowBudgets
  <2> QED
    BY <2>1, <2>3, <2>4 DEF BudgetsAreInherited, RestoresAreMarked
<1> QED
  BY <1>1, <1>2, <1>3, <1>4, <1>5, <1>6

\* Every step preserves the invariant.
LEMMA NextLedgerInv == LedgerInv /\ [Next]_vars => LedgerInv'
<1> SUFFICES ASSUME LedgerInv, [Next]_vars PROVE LedgerInv'
  OBVIOUS
<1>1. ASSUME NEW op \in Operations, NEW reserve \in Reserves, NEW now \in Days,
             Admit(op, reserve, now) \/ AdmitFocused(op, reserve, now)
      PROVE  LedgerInv'
  BY <1>1, AdmittedBudget, ReserveLedgerInv
<1>2. CASE UNCHANGED vars
  BY <1>2 DEF vars, storeVars, workVars, LedgerInv, WorkType, RowsFollowBudgets, BudgetsAreInherited,
              RestoresAreMarked
<1> QED
  BY <1>1, <1>2, WorkLedgerInv, StoreLedgerInv DEF Next

\* The invariant holds in every behaviour.
THEOREM LedgerInvariant == Spec => []LedgerInv
<1> QED
  BY InitLedgerInv, NextLedgerInv, PTL DEF Spec

-----------------------------------------------------------------------------
\* WorkIsAttributed: whatever is restored, whoever inherits and however many
\* requests are sent, what an operation causes is charged in one place, and
\* its children stay in its class.
THEOREM AttributedWork == Spec => []WorkIsAttributed
<1>1. LedgerInv => WorkIsAttributed
  <2> SUFFICES ASSUME LedgerInv, NEW i \in DOMAIN ledger
               PROVE  /\ ledger[i].to = UsageAttribution(ledger[i].op)
                      /\ LET by == parent[ledger[i].op]
                         IN by # None /\ UsageAttribution(by) # None =>
                              ledger[i].to.background = UsageAttribution(by).background
    BY DEF WorkIsAttributed
  <2> DEFINE op == ledger[i].op
  <2>1. op \in Operations /\ ledger[i].to = budget[op]
    BY RowType DEF LedgerInv, WorkType, RowsFollowBudgets
  <2>2. i \in Requests(op)
    BY DEF Requests
  <2>3. ledger[i].to = UsageAttribution(op)
    BY <2>1, <2>2, AttributionIsBudget DEF LedgerInv
  <2>4. ASSUME parent[op] # None, UsageAttribution(parent[op]) # None
        PROVE  ledger[i].to.background = UsageAttribution(parent[op]).background
    <3>1. UsageAttribution(parent[op]) = budget[parent[op]]
      BY <2>4, AttributionIsBudget DEF LedgerInv
    <3> QED
      BY <2>1, <2>4, <3>1 DEF LedgerInv, BudgetsAreInherited
  <2> QED
    BY <2>3, <2>4
<1> QED
  BY <1>1, LedgerInvariant, PTL

\* UsageIsNotLost: a row is never changed but by its first receipt nor taken
\* away but by a restore, and after a restore nothing is sent before the owner
\* has accepted what is missing, nor background work at all.
THEOREM UsageStays == Spec => UsageIsNotLost
<1>1. ASSUME LedgerInv, [Next]_vars
      PROVE  [LedgerIsKept /\ NoDispatchOnLostUsage]_vars
  <2> SUFFICES ASSUME Next PROVE LedgerIsKept /\ NoDispatchOnLostUsage
    BY <1>1
  <2>1. ledger \in Seq(Request) /\ Len(ledger) \in Nat /\ restores \in Nat
    BY <1>1 DEF LedgerInv, WorkType
  <2>2. CASE UNCHANGED ledger
    BY <2>1, <2>2 DEF LedgerIsKept, NoDispatchOnLostUsage
  <2>3. CASE \E op \in Operations, reserve \in Reserves, now \in Days :
               Admit(op, reserve, now) \/ AdmitFocused(op, reserve, now)
    <3>1. PICK op \in Operations, reserve \in Reserves, now \in Days :
            Admit(op, reserve, now) \/ AdmitFocused(op, reserve, now)
      BY <2>3
    <3> DEFINE row == [op |-> op, to |-> budget[op], day |-> EffectiveDay(now),
                       reserved |-> reserve, charge |-> reserve, receipt |-> None]
    <3>2. budget[op] \in Attribution /\ ReserveUsage(op, budget[op], reserve, now)
      BY <1>1, <3>1, AdmittedBudget
    <3>3. /\ ledger' = Append(ledger, row) /\ ~review
          /\ budget[op].background => ~authority
      BY <3>2 DEF ReserveUsage, Allowed
    <3>4. row \in Request /\ row.to = budget[op]
      BY <3>2, EffectiveDayType, TokenAssumption, <1>1 DEF LedgerInv, Request
    <3> HIDE DEF row
    <3>5. /\ Len(ledger') = Len(ledger) + 1 /\ ledger'[Len(ledger')] = row
          /\ \A i \in DOMAIN ledger : ledger'[i] = ledger[i]
      BY <2>1, <3>3, <3>4, AppendProperties
    <3>6. LedgerIsKept
      <4>1. Len(ledger') >= Len(ledger)
        BY <2>1, <3>5
      <4> QED
        BY <3>5, <4>1, Zenon DEF LedgerIsKept
    <3>7. NoDispatchOnLostUsage
      BY <1>1, <3>3, <3>4, <3>5 DEF NoDispatchOnLostUsage, LedgerInv, RestoresAreMarked
    <3> QED
      BY <3>6, <3>7
  <2>4. CASE \E id \in Ids, receipt \in Reports \cup {Unknown} : SettleUsage(id, receipt)
    <3>1. /\ Len(ledger') = Len(ledger)
          /\ \A i \in DOMAIN ledger :
                 \/ ledger'[i] = ledger[i]
                 \/ /\ ledger[i].receipt = None /\ ledger'[i].receipt # None
                    /\ [ledger'[i] EXCEPT !.charge = ledger[i].charge, !.receipt = None] = ledger[i]
      BY <1>1, <2>4, SettledRows
    <3>2. Len(ledger') = Len(ledger)
      BY <3>1, Zenon
    <3>3. Len(ledger') >= Len(ledger) /\ ~(Len(ledger') > Len(ledger))
      BY <2>1, <3>2
    <3> QED
      BY <3>1, <3>3, Zenon DEF LedgerIsKept, NoDispatchOnLostUsage
  <2>5. CASE Restore
    <3>1. restores' # restores /\ ledger' = backup.ledger /\ Len(backup.ledger) <= Len(ledger)
      BY <1>1, <2>1, <2>5 DEF Restore, LedgerInv, WorkType
    <3>2. Len(backup.ledger) \in Nat
      BY <1>1, <2>5 DEF Restore, LedgerInv, WorkType
    <3>3. ~(Len(ledger') > Len(ledger))
      BY <2>1, <3>1, <3>2
    <3> QED
      BY <3>1, <3>3, Zenon DEF LedgerIsKept, NoDispatchOnLostUsage
  <2> QED
    BY <2>2, <2>3, <2>4, <2>5
       DEF Next, StartTurn, StartBackground, InheritOperation, Start, storeVars, UpdateUsagePolicy,
           Crash, AcceptRestoredUsage, Backup
<1> QED
  BY <1>1, LedgerInvariant, PTL DEF Spec, UsageIsNotLost

-----------------------------------------------------------------------------
(* The counters.  A total is the cardinality of a set of units, so that what *)
(* one row adds to it follows from facts about finite sets.                  *)

\* A ledger q and its counters c as the transactions of the store leave them.
\* A request without a receipt is charged what it reserved.
Sound(q, c) ==
    /\ q \in Seq(Request) /\ Len(q) <= MaxRequests
    /\ IsFiniteSet(Units(Charges(q), DOMAIN q))
    /\ \A i \in DOMAIN q : q[i].receipt = None => q[i].charge = q[i].reserved
    /\ Match(q, c)
    /\ CeilingsHold(q)

\* The inductive invariant of the counters: the store is sound, and so is what a
\* restore would put in its place.
CountersInv ==
    /\ TypeOK
    /\ Sound(ledger, counters)
    /\ backup # None => backup \in Store /\ Sound(backup.ledger, backup.counters)

\* The units of a set of rows.
LEMMA UnitsHas ==
    ASSUME NEW a, NEW R, NEW u
    PROVE  u \in Units(a, R) <=> \E i \in R : \E n \in 1 .. a[i] : u = <<i, n>>
BY DEF Units

\* Rows with the same amounts have the same units.
LEMMA UnitsAgree ==
    ASSUME NEW a, NEW b, NEW R, \A i \in R : a[i] = b[i]
    PROVE  Units(a, R) = Units(b, R) /\ Total(a, R) = Total(b, R)
<1>1. \A u : u \in Units(a, R) <=> u \in Units(b, R)
  <2> SUFFICES ASSUME NEW u PROVE u \in Units(a, R) <=> u \in Units(b, R)
    OBVIOUS
  <2>1. \A i \in R : 1 .. a[i] = 1 .. b[i]
    OBVIOUS
  <2>2. (\E i \in R : \E n \in 1 .. a[i] : u = <<i, n>>)
          <=> (\E i \in R : \E n \in 1 .. b[i] : u = <<i, n>>)
    BY <2>1
  <2> QED
    BY <2>2, UnitsHas
<1>2. Units(a, R) = Units(b, R)
  BY <1>1
<1> QED
  BY <1>2 DEF Total

\* Fewer rows with smaller amounts have a smaller total.
LEMMA UnitsWithin ==
    ASSUME NEW a, NEW b, NEW R, NEW S, R \subseteq S,
           \A i \in R : a[i] \in Nat /\ b[i] \in Nat /\ a[i] <= b[i],
           IsFiniteSet(Units(b, S))
    PROVE  /\ IsFiniteSet(Units(a, R)) /\ Total(a, R) \in Nat
           /\ Total(b, S) \in Nat /\ Total(a, R) <= Total(b, S)
<1>1. Units(a, R) \subseteq Units(b, S)
  <2> SUFFICES ASSUME NEW u \in Units(a, R) PROVE u \in Units(b, S)
    OBVIOUS
  <2>1. PICK i \in R : \E n \in 1 .. a[i] : u = <<i, n>>
    BY UnitsHas
  <2>2. i \in S /\ 1 .. a[i] \subseteq 1 .. b[i]
    OBVIOUS
  <2> QED
    BY <2>1, <2>2, UnitsHas
<1> QED
  BY <1>1, FS_Subset, FS_CardinalityType DEF Total

\* One more row adds its amount.
LEMMA UnitsGrow ==
    ASSUME NEW a, NEW R, NEW i, i \notin R, a[i] \in Nat, IsFiniteSet(Units(a, R))
    PROVE  IsFiniteSet(Units(a, R \cup {i})) /\ Total(a, R \cup {i}) = Total(a, R) + a[i]
<1> DEFINE New == {i} \X (1 .. a[i])
<1>1. Units(a, R \cup {i}) = Units(a, R) \cup New
  BY UnitsHas DEF Units
<1>2. Units(a, R) \cap New = {}
  BY UnitsHas
<1>3. IsFiniteSet(New) /\ Cardinality(New) = a[i]
  <2>1. IsFiniteSet({i}) /\ Cardinality({i}) = 1
    BY FS_Singleton
  <2>2. IsFiniteSet(1 .. a[i]) /\ Cardinality(1 .. a[i]) = a[i]
    BY FS_Interval
  <2>3. IsFiniteSet(New) /\ Cardinality(New) = 1 * a[i]
    BY <2>1, <2>2, FS_Product
  <2> QED
    BY <2>3
<1> HIDE DEF New
<1>4. Cardinality(Units(a, R)) \in Nat /\ Cardinality({}) = 0
  BY FS_CardinalityType, FS_EmptySet
<1>5. /\ IsFiniteSet(Units(a, R) \cup New)
      /\ Cardinality(Units(a, R) \cup New) =
            Cardinality(Units(a, R)) + Cardinality(New) - Cardinality(Units(a, R) \cap New)
  BY <1>3, FS_Union
<1>6. Cardinality(Units(a, R) \cup New) = Cardinality(Units(a, R)) + a[i]
  <2>1. Cardinality(Units(a, R) \cap New) = 0
    BY <1>2, <1>4, Zenon
  <2> QED
    BY <1>3, <1>4, <1>5, <2>1
<1> QED
  BY <1>1, <1>5, <1>6 DEF Total

\* The rows of a ledger are finitely many, and what is granted of them is
\* within what they are charged.
LEMMA RowAmounts ==
    ASSUME NEW q \in Seq(Request), NEW R \in SUBSET DOMAIN q,
           IsFiniteSet(Units(Charges(q), DOMAIN q))
    PROVE  /\ IsFiniteSet(R) /\ Cardinality(R) \in Nat
           /\ \A i \in R : /\ Charges(q)[i] = q[i].charge /\ Charges(q)[i] \in Nat
                           /\ Granted(q)[i] = Smaller(q[i].charge, q[i].reserved)
                           /\ Granted(q)[i] \in Nat /\ Granted(q)[i] <= Charges(q)[i]
           /\ IsFiniteSet(Units(Charges(q), R)) /\ Total(Charges(q), R) \in Nat
           /\ IsFiniteSet(Units(Granted(q), R)) /\ Total(Granted(q), R) \in Nat
           /\ Total(Granted(q), R) <= Total(Charges(q), R)
<1>1. DOMAIN q = 1 .. Len(q) /\ Len(q) \in Nat
  BY LenProperties
<1>2. IsFiniteSet(1 .. Len(q))
  BY <1>1, FS_Interval
<1>3. IsFiniteSet(R) /\ Cardinality(R) \in Nat
  BY <1>1, <1>2, FS_Subset, FS_CardinalityType
<1>4. \A i \in DOMAIN q : q[i].charge \in Nat /\ q[i].reserved \in Nat
  BY RowType, TokenAssumption DEF Request
<1>5. \A i \in R : /\ Charges(q)[i] = q[i].charge /\ Charges(q)[i] \in Nat
                   /\ Granted(q)[i] = Smaller(q[i].charge, q[i].reserved)
                   /\ Granted(q)[i] \in Nat /\ Granted(q)[i] <= Charges(q)[i]
  BY <1>4 DEF Charges, Granted, Smaller
<1>6. \A i \in R : Charges(q)[i] \in Nat /\ Charges(q)[i] <= Charges(q)[i]
  BY <1>5
<1>7. IsFiniteSet(Units(Charges(q), R)) /\ Total(Charges(q), R) \in Nat
  BY <1>6, UnitsWithin
<1>8. /\ IsFiniteSet(Units(Granted(q), R)) /\ Total(Granted(q), R) \in Nat
      /\ Total(Granted(q), R) <= Total(Charges(q), R)
  BY <1>5, <1>7, UnitsWithin
<1> QED
  BY <1>3, <1>5, <1>7, <1>8

\* A ledger's sums are counts.
LEMMA SumType ==
    ASSUME NEW q \in Seq(Request), NEW R \in SUBSET DOMAIN q,
           IsFiniteSet(Units(Charges(q), DOMAIN q))
    PROVE  Sum(q, R) \in Count
BY RowAmounts DEF Sum, Count

\* The sums of the ledger p, which has a row n more than q, over the rows R of q
\* and with the new one.
SumsGrow(q, p, n, R, charge, granted) ==
    /\ IsFiniteSet(Units(Charges(p), DOMAIN p))
    /\ Sum(p, R) = Sum(q, R)
    /\ Sum(p, R \cup {n}) = Add(Sum(q, R), 1, charge)
    /\ Total(Granted(p), R) = Total(Granted(q), R)
    /\ Total(Granted(p), R \cup {n}) = Total(Granted(q), R) + granted

\* What one more row does to the sums of rows that were there.
LEMMA AppendedSums ==
    ASSUME NEW q \in Seq(Request), NEW e \in Request, NEW p, p = Append(q, e),
           NEW n, n = Len(q) + 1, NEW R \in SUBSET DOMAIN q,
           IsFiniteSet(Units(Charges(q), DOMAIN q))
    PROVE  SumsGrow(q, p, n, R, e.charge, Smaller(e.charge, e.reserved))
<1>1. /\ p \in Seq(Request) /\ DOMAIN p = DOMAIN q \cup {n} /\ n \notin DOMAIN q /\ p[n] = e
      /\ \A i \in DOMAIN q : p[i] = q[i]
  <2>1. /\ p \in Seq(Request) /\ Len(q) \in Nat /\ Len(p) = Len(q) + 1
        /\ \A i \in 1 .. Len(q) : p[i] = q[i]
        /\ p[Len(q) + 1] = e
    BY AppendProperties
  <2>2. DOMAIN p = 1 .. Len(q) + 1 /\ DOMAIN q = 1 .. Len(q)
    BY <2>1, LenProperties
  <2> QED
    BY <2>1, <2>2
<1>2. /\ \A i \in DOMAIN q : /\ Charges(p)[i] = Charges(q)[i]
                             /\ Granted(p)[i] = Granted(q)[i]
      /\ Charges(p)[n] = e.charge /\ Granted(p)[n] = Smaller(e.charge, e.reserved)
  BY <1>1 DEF Charges, Granted
<1>3. e.charge \in Nat /\ Smaller(e.charge, e.reserved) \in Nat
  BY TokenAssumption DEF Request, Smaller
<1>4. ASSUME NEW S \in SUBSET DOMAIN q
      PROVE  /\ IsFiniteSet(Units(Charges(p), S)) /\ IsFiniteSet(Units(Granted(p), S))
             /\ Total(Charges(p), S) = Total(Charges(q), S)
             /\ Total(Granted(p), S) = Total(Granted(q), S)
  <2>1. IsFiniteSet(Units(Charges(q), S)) /\ IsFiniteSet(Units(Granted(q), S))
    BY RowAmounts
  <2>2. /\ Units(Charges(p), S) = Units(Charges(q), S)
        /\ Total(Charges(p), S) = Total(Charges(q), S)
    BY <1>2, UnitsAgree
  <2>3. /\ Units(Granted(p), S) = Units(Granted(q), S)
        /\ Total(Granted(p), S) = Total(Granted(q), S)
    BY <1>2, UnitsAgree
  <2> QED
    BY <2>1, <2>2, <2>3
<1>5. /\ IsFiniteSet(Units(Charges(p), DOMAIN q \cup {n}))
      /\ Total(Charges(p), R \cup {n}) = Total(Charges(q), R) + e.charge
      /\ Total(Granted(p), R \cup {n}) =
            Total(Granted(q), R) + Smaller(e.charge, e.reserved)
  <2>1. Charges(p)[n] \in Nat /\ Granted(p)[n] \in Nat /\ n \notin R
    BY <1>1, <1>2, <1>3
  <2>2. IsFiniteSet(Units(Charges(p), DOMAIN q \cup {n}))
    BY <1>1, <1>4, <2>1, UnitsGrow
  <2>3. Total(Charges(p), R \cup {n}) = Total(Charges(p), R) + Charges(p)[n]
    BY <1>4, <2>1, UnitsGrow
  <2>4. Total(Granted(p), R \cup {n}) = Total(Granted(p), R) + Granted(p)[n]
    <3>1. IsFiniteSet(Units(Granted(p), R))
      BY <1>4
    <3> QED
      BY <2>1, <3>1, UnitsGrow
  <2> QED
    BY <1>2, <1>4, <2>2, <2>3, <2>4
<1>6. Cardinality(R \cup {n}) = Cardinality(R) + 1
  BY <1>1, RowAmounts, FS_AddElement
<1> QED
  BY <1>1, <1>4, <1>5, <1>6 DEF SumsGrow, Sum, Add

\* What one receipt does to the sums of a ledger.
LEMMA SettledSums ==
    ASSUME NEW q \in Seq(Request), NEW p \in Seq(Request), NEW id \in DOMAIN q,
           DOMAIN p = DOMAIN q, \A i \in DOMAIN q \ {id} : p[i] = q[i],
           p[id].reserved = q[id].reserved, q[id].charge = q[id].reserved,
           NEW R \in SUBSET DOMAIN q, IsFiniteSet(Units(Charges(q), DOMAIN q))
    PROVE  /\ IsFiniteSet(Units(Charges(p), DOMAIN p))
           /\ Sum(p, R) = IF id \in R THEN Add(Sum(q, R), 0, p[id].charge - q[id].charge)
                                      ELSE Sum(q, R)
           /\ Total(Granted(p), R) <= Total(Granted(q), R)
<1>1. /\ \A i \in DOMAIN q \ {id} : Charges(p)[i] = Charges(q)[i]
      /\ Charges(p)[id] = p[id].charge /\ Charges(q)[id] = q[id].charge
  BY DEF Charges
<1>2. p[id].charge \in Nat /\ q[id].charge \in Nat
  BY RowType DEF Request
<1>3. ASSUME NEW S \in SUBSET DOMAIN q
      PROVE  /\ IsFiniteSet(Units(Charges(p), S))
             /\ id \notin S => Total(Charges(p), S) = Total(Charges(q), S)
             /\ id \in S =>
                   Total(Charges(p), S) = Total(Charges(q), S) + p[id].charge - q[id].charge
  <2> DEFINE T == S \ {id}
  <2>1. IsFiniteSet(Units(Charges(q), T)) /\ Total(Charges(q), T) \in Nat
    BY RowAmounts
  <2>2. /\ Units(Charges(p), T) = Units(Charges(q), T)
        /\ Total(Charges(p), T) = Total(Charges(q), T)
    BY <1>1, UnitsAgree
  <2>3. CASE id \notin S
    <3>1. T = S
      BY <2>3
    <3> QED
      BY <2>1, <2>2, <2>3, <3>1
  <2>4. CASE id \in S
    <3>1. T \cup {id} = S /\ id \notin T
      BY <2>4
    <3> HIDE DEF T
    <3>2. Total(Charges(q), S) = Total(Charges(q), T) + q[id].charge
      <4>1. Charges(q)[id] \in Nat
        BY <1>1, <1>2
      <4>2. Total(Charges(q), T \cup {id}) = Total(Charges(q), T) + Charges(q)[id]
        BY <2>1, <3>1, <4>1, UnitsGrow
      <4> QED
        BY <1>1, <3>1, <4>2
    <3>3. /\ IsFiniteSet(Units(Charges(p), S))
          /\ Total(Charges(p), S) = Total(Charges(p), T) + p[id].charge
      <4>1. Charges(p)[id] \in Nat /\ IsFiniteSet(Units(Charges(p), T))
        BY <1>1, <1>2, <2>1, <2>2
      <4>2. /\ IsFiniteSet(Units(Charges(p), T \cup {id}))
            /\ Total(Charges(p), T \cup {id}) = Total(Charges(p), T) + Charges(p)[id]
        BY <3>1, <4>1, UnitsGrow
      <4> QED
        BY <1>1, <3>1, <4>2
    <3> QED
      BY <1>2, <2>1, <2>2, <2>4, <3>2, <3>3
  <2> QED
    BY <2>3, <2>4
<1>4. Total(Granted(p), R) <= Total(Granted(q), R)
  <2>1. \A i \in R : Granted(p)[i] \in Nat /\ Granted(q)[i] \in Nat
    BY <1>3, RowAmounts
  <2>2. \A i \in R \ {id} : Granted(p)[i] = Granted(q)[i]
    BY DEF Granted
  <2>3. Granted(p)[id] <= Granted(q)[id]
    <3>1. q[id].reserved \in Nat
      BY RowType, TokenAssumption DEF Request
    <3> QED
      BY <1>2, <3>1 DEF Granted, Smaller
  <2>4. \A i \in R : Granted(p)[i] <= Granted(q)[i]
    BY <2>1, <2>2, <2>3
  <2>5. IsFiniteSet(Units(Granted(q), R))
    BY RowAmounts
  <2> QED
    BY <2>1, <2>4, <2>5, UnitsWithin
<1>5. Cardinality(R) + 0 = Cardinality(R)
  BY RowAmounts
<1>6. Total(Charges(q), R) \in Nat
  BY RowAmounts
<1>7. Sum(p, R) = IF id \in R THEN Add(Sum(q, R), 0, p[id].charge - q[id].charge)
                             ELSE Sum(q, R)
  BY <1>2, <1>3, <1>5, <1>6 DEF Sum, Add
<1> QED
  BY <1>3, <1>4, <1>7

\* The rows of a day, a root, a job and of background work in the ledger p, which
\* has a row n more than q.
RowsGrow(q, p, n, day, to) ==
    /\ \A d : OfDay(p, d) = IF d = day THEN OfDay(q, d) \cup {n} ELSE OfDay(q, d)
    /\ \A r : OfRoot(p, r) = IF r = to.root THEN OfRoot(q, r) \cup {n} ELSE OfRoot(q, r)
    /\ \A j : OfJob(p, j) = IF j = to.job THEN OfJob(q, j) \cup {n} ELSE OfJob(q, j)
    /\ Background(p) = IF to.background THEN Background(q) \cup {n} ELSE Background(q)

\* A selection of rows is one of the ledger's.
LEMMA SelectedRows ==
    ASSUME NEW q
    PROVE  /\ Background(q) \subseteq DOMAIN q
           /\ \A x : /\ OfDay(q, x) \subseteq DOMAIN q /\ OfRoot(q, x) \subseteq DOMAIN q
                     /\ OfJob(q, x) \subseteq DOMAIN q
                     /\ OfDay(q, x) \cap Background(q) \subseteq DOMAIN q
                     /\ OfJob(q, x) \cap Background(q) \subseteq DOMAIN q
BY DEF OfDay, OfRoot, OfJob, Background

\* One row more is a row of its day, its root, its job and its class.
LEMMA AppendedRows ==
    ASSUME NEW q \in Seq(Request), NEW e \in Request, NEW p, p = Append(q, e),
           NEW n, n = Len(q) + 1
    PROVE  RowsGrow(q, p, n, e.day, e.to)
<1>1. /\ p \in Seq(Request) /\ DOMAIN p = DOMAIN q \cup {n} /\ n \notin DOMAIN q /\ p[n] = e
      /\ \A i \in DOMAIN q : p[i] = q[i]
  <2>1. /\ p \in Seq(Request) /\ Len(q) \in Nat /\ Len(p) = Len(q) + 1
        /\ \A i \in 1 .. Len(q) : p[i] = q[i]
        /\ p[Len(q) + 1] = e
    BY AppendProperties
  <2>2. DOMAIN p = 1 .. Len(q) + 1 /\ DOMAIN q = 1 .. Len(q)
    BY <2>1, LenProperties
  <2> QED
    BY <2>1, <2>2
<1>2. \A d : OfDay(p, d) = IF d = e.day THEN OfDay(q, d) \cup {n} ELSE OfDay(q, d)
  BY <1>1 DEF OfDay
<1>3. \A r : OfRoot(p, r) = IF r = e.to.root THEN OfRoot(q, r) \cup {n} ELSE OfRoot(q, r)
  BY <1>1 DEF OfRoot
<1>4. \A j : OfJob(p, j) = IF j = e.to.job THEN OfJob(q, j) \cup {n} ELSE OfJob(q, j)
  BY <1>1 DEF OfJob
<1>5. Background(p) = IF e.to.background THEN Background(q) \cup {n} ELSE Background(q)
  BY <1>1 DEF Background
<1> QED
  BY <1>2, <1>3, <1>4, <1>5, Zenon DEF RowsGrow

\* The counters c after r requests and t tokens of an attribution on a day.
CellsMove(c, to, day, r, t) ==
    /\ c = [day |-> c.day, root |-> c.root, job |-> c.job,
            background_day |-> c.background_day]
    /\ c.day = [d \in Days |->
          IF d = day THEN Add(counters.day[d], r, t) ELSE counters.day[d]]
    /\ c.root = [x \in Roots \cup Operations |->
          IF x = to.root THEN Add(counters.root[x], r, t) ELSE counters.root[x]]
    /\ c.job = [j \in Jobs |->
          IF j = to.job THEN Add(counters.job[j], r, t) ELSE counters.job[j]]
    /\ c.background_day = [d \in Days |->
          IF d = day /\ to.background THEN Add(counters.background_day[d], r, t)
                                      ELSE counters.background_day[d]]

\* update_counters changes one counter of each family.
LEMMA CountedCells ==
    ASSUME counters \in Counters, NEW to \in Attribution, NEW day \in Days,
           NEW r \in Int, NEW t \in Int, NEW c, c = Counted(to, day, r, t)
    PROVE  CellsMove(c, to, day, r, t)
<1>1. /\ c = [counters EXCEPT
            !.day = [counters.day EXCEPT ![day] = Add(@, r, t)],
            !.root = [counters.root EXCEPT ![to.root] = Add(@, r, t)],
            !.job = [counters.job EXCEPT ![to.job] = Add(@, r, t)],
            !.background_day = [counters.background_day EXCEPT
                  ![day] = IF to.background THEN Add(@, r, t) ELSE @]]
  BY DEF Counted, Counters
<1>2. to.root \in Roots \cup Operations /\ to.job \in Jobs /\ to.background \in BOOLEAN
  BY DEF Attribution
<1>3. c = [day |-> [counters.day EXCEPT ![day] = Add(@, r, t)],
           root |-> [counters.root EXCEPT ![to.root] = Add(@, r, t)],
           job |-> [counters.job EXCEPT ![to.job] = Add(@, r, t)],
           background_day |-> [counters.background_day EXCEPT
                  ![day] = IF to.background THEN Add(@, r, t) ELSE @]]
  BY <1>1 DEF Counters
<1> QED
  BY <1>2, <1>3 DEF Counters, CellsMove

\* Counters that are sums are counts.
LEMMA MatchType ==
    ASSUME NEW q \in Seq(Request), IsFiniteSet(Units(Charges(q), DOMAIN q)), NEW c,
           c = [day |-> c.day, root |-> c.root, job |-> c.job,
                background_day |-> c.background_day],
           c.day = [d \in Days |-> c.day[d]],
           c.background_day = [d \in Days |-> c.background_day[d]],
           c.root = [r \in Roots \cup Operations |-> c.root[r]],
           c.job = [j \in Jobs |-> c.job[j]],
           Match(q, c)
    PROVE  c \in Counters
<1>1. /\ \A d \in Days : c.day[d] \in Count /\ c.background_day[d] \in Count
      /\ \A r \in Roots \cup Operations : c.root[r] \in Count
      /\ \A j \in Jobs : c.job[j] \in Count
  <2>1. \A R \in SUBSET DOMAIN q : Sum(q, R) \in Count
    BY SumType
  <2> QED
    BY <2>1, SelectedRows DEF Match
<1>2. /\ c.day \in [Days -> Count] /\ c.background_day \in [Days -> Count]
      /\ c.root \in [Roots \cup Operations -> Count] /\ c.job \in [Jobs -> Count]
  BY <1>1, Zenon
<1> QED
  BY <1>2 DEF Counters

\* What fits under the owner's limit fits under the hard one.  A limit of the
\* background is always a number.
LEMMA FitsHard ==
    ASSUME NEW used \in Nat, NEW reserve \in Nat, NEW limit \in Nat, NEW hard \in Nat,
           Fits(used, reserve, Smaller(limit, hard))
    PROVE  used + reserve <= hard
BY NoneAssumption DEF Fits, Smaller

\* An admitted request moves the counters with the ledger, and what was left
\* under the ceilings covers it.
LEMMA ReserveSound ==
    ASSUME LedgerInv, CountersInv, NEW op \in Operations, NEW reserve \in Reserves,
           NEW now \in Days, budget[op] \in Attribution,
           ReserveUsage(op, budget[op], reserve, now)
    PROVE  Sound(ledger', counters') /\ counters' \in Counters
<1> DEFINE q == ledger
           n == Len(ledger) + 1
           to == budget[op]
           day == EffectiveDay(now)
           row == [op |-> op, to |-> to, day |-> day,
                   reserved |-> reserve, charge |-> reserve, receipt |-> None]
           p == Append(ledger, row)
           c == Counted(to, day, 1, reserve)
<1>1. /\ ledger' = p /\ counters' = c /\ Len(q) < MaxRequests /\ Allowed(to, reserve, day)
  BY DEF ReserveUsage
<1>2. reserve \in Nat /\ day \in Days
  BY EffectiveDayType, TokenAssumption DEF LedgerInv
<1>3. /\ row \in Request /\ row.to = to /\ row.day = day
      /\ row.charge = reserve /\ row.reserved = reserve
  BY <1>2 DEF Request
<1>4. /\ q \in Seq(Request) /\ IsFiniteSet(Units(Charges(q), DOMAIN q))
      /\ Match(q, counters) /\ CeilingsHold(q) /\ counters \in Counters
      /\ \A i \in DOMAIN q : q[i].receipt = None => q[i].charge = q[i].reserved
  BY DEF CountersInv, Sound, TypeOK
<1>5. Smaller(row.charge, row.reserved) = reserve
  BY <1>2, <1>3 DEF Smaller
<1> HIDE DEF row, day, to, q
<1>6. CellsMove(c, to, day, 1, reserve)
  <2>1. to \in Attribution /\ 1 \in Int /\ reserve \in Int
    BY <1>2 DEF to
  <2> QED
    BY <1>2, <1>4, <2>1, CountedCells
<1>7. p = Append(q, row) /\ n = Len(q) + 1
  BY DEF q
<1> HIDE DEF p, n, c
<1>8. RowsGrow(q, p, n, day, to)
  BY <1>3, <1>4, <1>7, AppendedRows
<1>9. /\ \A d : OfDay(p, d) \cap Background(p) =
                   IF d = day /\ to.background THEN (OfDay(q, d) \cap Background(q)) \cup {n}
                                               ELSE OfDay(q, d) \cap Background(q)
      /\ \A j : OfJob(p, j) \cap Background(p) =
                   IF j = to.job /\ to.background THEN (OfJob(q, j) \cap Background(q)) \cup {n}
                                                  ELSE OfJob(q, j) \cap Background(q)
  <2>1. n \notin DOMAIN q
    BY <1>4, <1>7, LenProperties
  <2> QED
    BY <1>8, <2>1, SelectedRows DEF RowsGrow
<1>10. \A R \in SUBSET DOMAIN q : SumsGrow(q, p, n, R, reserve, reserve)
  BY <1>3, <1>4, <1>5, <1>7, AppendedSums
<1>11. Match(p, c)
  <2>1. ASSUME NEW d \in Days PROVE c.day[d] = Sum(p, OfDay(p, d))
    <3>1. OfDay(q, d) \in SUBSET DOMAIN q /\ counters.day[d] = Sum(q, OfDay(q, d))
      BY <1>4, SelectedRows DEF Match
    <3>2. c.day[d] = IF d = day THEN Add(counters.day[d], 1, reserve)
                              ELSE counters.day[d]
      BY <1>6 DEF CellsMove
    <3>3. OfDay(p, d) = IF d = day THEN OfDay(q, d) \cup {n} ELSE OfDay(q, d)
      BY <1>8 DEF RowsGrow
    <3>4. SumsGrow(q, p, n, OfDay(q, d), reserve, reserve)
      BY <1>10, <3>1
    <3> QED
      BY <3>1, <3>2, <3>3, <3>4, Zenon DEF SumsGrow
  <2>2. ASSUME NEW r \in Roots \cup Operations PROVE c.root[r] = Sum(p, OfRoot(p, r))
    <3>1. OfRoot(q, r) \in SUBSET DOMAIN q /\ counters.root[r] = Sum(q, OfRoot(q, r))
      BY <1>4, SelectedRows DEF Match
    <3>2. c.root[r] = IF r = to.root THEN Add(counters.root[r], 1, reserve)
                              ELSE counters.root[r]
      BY <1>6 DEF CellsMove
    <3>3. OfRoot(p, r) = IF r = to.root THEN OfRoot(q, r) \cup {n} ELSE OfRoot(q, r)
      BY <1>8 DEF RowsGrow
    <3>4. SumsGrow(q, p, n, OfRoot(q, r), reserve, reserve)
      BY <1>10, <3>1
    <3> QED
      BY <3>1, <3>2, <3>3, <3>4, Zenon DEF SumsGrow
  <2>3. ASSUME NEW j \in Jobs PROVE c.job[j] = Sum(p, OfJob(p, j))
    <3>1. OfJob(q, j) \in SUBSET DOMAIN q /\ counters.job[j] = Sum(q, OfJob(q, j))
      BY <1>4, SelectedRows DEF Match
    <3>2. c.job[j] = IF j = to.job THEN Add(counters.job[j], 1, reserve)
                              ELSE counters.job[j]
      BY <1>6 DEF CellsMove
    <3>3. OfJob(p, j) = IF j = to.job THEN OfJob(q, j) \cup {n} ELSE OfJob(q, j)
      BY <1>8 DEF RowsGrow
    <3>4. SumsGrow(q, p, n, OfJob(q, j), reserve, reserve)
      BY <1>10, <3>1
    <3> QED
      BY <3>1, <3>2, <3>3, <3>4, Zenon DEF SumsGrow
  <2>4. \A d \in Days : c.background_day[d] = Sum(p, OfDay(p, d) \cap Background(p))
    <3> SUFFICES ASSUME NEW d \in Days
                 PROVE  c.background_day[d] = Sum(p, OfDay(p, d) \cap Background(p))
      OBVIOUS
    <3> DEFINE R == OfDay(q, d) \cap Background(q)
    <3>1. R \in SUBSET DOMAIN q /\ counters.background_day[d] = Sum(q, R)
      BY <1>4, SelectedRows DEF Match
    <3>2. OfDay(p, d) \cap Background(p) =
             IF d = day /\ to.background THEN R \cup {n} ELSE R
      BY <1>9
    <3>3. c.background_day[d] =
             IF d = day /\ to.background THEN Add(counters.background_day[d], 1, reserve)
                                         ELSE counters.background_day[d]
      BY <1>6 DEF CellsMove
    <3> HIDE DEF R
    <3>4. SumsGrow(q, p, n, R, reserve, reserve)
      BY <1>10, <3>1
    <3> QED
      BY <3>1, <3>2, <3>3, <3>4, Zenon DEF SumsGrow
  <2> QED
    BY <2>1, <2>2, <2>3, <2>4 DEF Match
<1>12. CeilingsHold(p)
  <2>1. ASSUME NEW d \in Days
        PROVE  Total(Granted(p), OfDay(p, d) \cap Background(p)) <= HardDaily
    <3> DEFINE R == OfDay(q, d) \cap Background(q)
    <3>1. R \in SUBSET DOMAIN q /\ counters.background_day[d] = Sum(q, R)
      BY <1>4, SelectedRows DEF Match
    <3>2. OfDay(p, d) \cap Background(p) =
             IF d = day /\ to.background THEN R \cup {n} ELSE R
      BY <1>9
    <3>3. Total(Granted(q), R) <= HardDaily
      BY <1>4 DEF CeilingsHold
    <3> HIDE DEF R
    <3>4. /\ Total(Granted(q), R) \in Nat /\ Total(Charges(q), R) \in Nat
          /\ Total(Granted(q), R) <= Total(Charges(q), R)
      BY <1>4, <3>1, RowAmounts
    <3>5. ASSUME d = day, to.background
          PROVE  Total(Granted(q), R) + reserve <= HardDaily
      <4>1. counters.background_day[d].tokens = Total(Charges(q), R)
        BY <3>1 DEF Sum
      <4>2. counters.background_day[d].tokens + reserve <= HardDaily
        <5>1. Fits(counters.background_day[d].tokens, reserve,
                   Smaller(policy.background_daily_tokens, HardDaily))
          BY <1>1, <3>5 DEF Allowed
        <5>2. policy.background_daily_tokens \in Nat /\ policy.background_job_tokens \in Nat
          BY PolicyAssumption DEF CountersInv, TypeOK
        <5> QED
          BY <1>2, <3>4, <4>1, <5>1, <5>2, FitsHard, TokenAssumption
      <4> QED
        BY <1>2, <3>4, <4>1, <4>2, TokenAssumption
    <3>6. SumsGrow(q, p, n, R, reserve, reserve)
      BY <1>10, <3>1
    <3> QED
      BY <3>2, <3>3, <3>5, <3>6 DEF SumsGrow
  <2>2. ASSUME NEW j \in Jobs
        PROVE  Total(Granted(p), OfJob(p, j) \cap Background(p)) <= HardJob
    <3> DEFINE R == OfJob(q, j) \cap Background(q)
               S == OfJob(q, j)
    <3>1. R \in SUBSET DOMAIN q /\ S \in SUBSET DOMAIN q /\ R \subseteq S
          /\ counters.job[j] = Sum(q, S)
      BY <1>4, SelectedRows DEF Match
    <3>2. OfJob(p, j) \cap Background(p) =
             IF j = to.job /\ to.background THEN R \cup {n} ELSE R
      BY <1>9
    <3>3. Total(Granted(q), R) <= HardJob
      BY <1>4 DEF CeilingsHold
    <3> HIDE DEF R, S
    <3>4. /\ Total(Granted(q), R) \in Nat /\ Total(Charges(q), S) \in Nat
          /\ Total(Granted(q), R) <= Total(Charges(q), S)
      <4>1. IsFiniteSet(Units(Charges(q), S))
        BY <1>4, <3>1, RowAmounts
      <4>2. \A i \in R : /\ Granted(q)[i] \in Nat /\ Charges(q)[i] \in Nat
                         /\ Granted(q)[i] <= Charges(q)[i]
        BY <1>4, <3>1, RowAmounts
      <4> QED
        BY <3>1, <4>1, <4>2, UnitsWithin
    <3>5. ASSUME j = to.job, to.background
          PROVE  Total(Granted(q), R) + reserve <= HardJob
      <4>1. counters.job[j].tokens = Total(Charges(q), S)
        BY <3>1 DEF Sum
      <4>2. counters.job[j].tokens + reserve <= HardJob
        <5>1. Fits(counters.job[j].tokens, reserve,
                   Smaller(policy.background_job_tokens, HardJob))
          BY <1>1, <3>5 DEF Allowed
        <5>2. policy.background_daily_tokens \in Nat /\ policy.background_job_tokens \in Nat
          BY PolicyAssumption DEF CountersInv, TypeOK
        <5> QED
          BY <1>2, <3>4, <4>1, <5>1, <5>2, FitsHard, TokenAssumption
      <4> QED
        BY <1>2, <3>4, <4>1, <4>2, TokenAssumption
    <3>6. SumsGrow(q, p, n, R, reserve, reserve)
      BY <1>10, <3>1
    <3> QED
      BY <3>2, <3>3, <3>5, <3>6 DEF SumsGrow
  <2> QED
    BY <2>1, <2>2 DEF CeilingsHold
<1>13. /\ p \in Seq(Request) /\ Len(p) <= MaxRequests
       /\ \A i \in DOMAIN p : p[i].receipt = None => p[i].charge = p[i].reserved
  <2>1. /\ p \in Seq(Request) /\ Len(p) = Len(q) + 1 /\ Len(q) \in Nat
        /\ \A i \in DOMAIN p : i = Len(q) + 1 \/ i \in DOMAIN q
        /\ \A i \in DOMAIN q : p[i] = q[i]
        /\ p[Len(q) + 1] = row
    BY <1>3, <1>4, <1>7, AppendProperties
  <2>2. Len(p) <= MaxRequests
    BY <1>1, <2>1, BoundsAssumption
  <2> QED
    BY <1>3, <1>4, <2>1, <2>2
<1>14. IsFiniteSet(Units(Charges(p), DOMAIN p))
  <2>1. SumsGrow(q, p, n, DOMAIN q, reserve, reserve)
    BY <1>10
  <2> QED
    BY <2>1 DEF SumsGrow
<1>15. c \in Counters
  BY <1>6, <1>11, <1>13, <1>14, MatchType DEF CellsMove
<1> QED
  BY <1>1, <1>11, <1>12, <1>13, <1>14, <1>15 DEF Sound

\* A receipt moves the counters where its request was booked, by the difference;
\* what it reports beyond the reservation is not under the ceilings.
LEMMA SettleSound ==
    ASSUME LedgerInv, CountersInv, NEW id, NEW receipt \in Reports \cup {Unknown},
           SettleUsage(id, receipt)
    PROVE  Sound(ledger', counters') /\ counters' \in Counters
<1>1. /\ ledger \in Seq(Request) /\ IsFiniteSet(Units(Charges(ledger), DOMAIN ledger))
      /\ Match(ledger, counters) /\ CeilingsHold(ledger) /\ counters \in Counters
      /\ Len(ledger) <= MaxRequests /\ id \in DOMAIN ledger
      /\ \A i \in DOMAIN ledger :
            ledger[i].receipt = None => ledger[i].charge = ledger[i].reserved
  BY DEF CountersInv, Sound, TypeOK, SettleUsage
<1>2. CASE ledger[id].receipt # None
  BY <1>2 DEF SettleUsage, CountersInv, TypeOK
<1>3. CASE ledger[id].receipt = None
  <2> DEFINE q == ledger
             old == ledger[id]
             charge == IF receipt = Unknown THEN old.charge ELSE receipt
             row == [old EXCEPT !.charge = charge, !.receipt = receipt]
             p == [ledger EXCEPT ![id] = row]
             delta == charge - old.charge
             c == Counted(old.to, old.day, 0, delta)
  <2>1. ledger' = p /\ counters' = c
    BY <1>3 DEF SettleUsage
  <2>2. /\ old \in Request /\ old.charge \in Nat /\ old.charge = old.reserved
        /\ old.to \in Attribution /\ old.day \in Days
    BY <1>1, <1>3, RowType DEF Request
  <2>3. charge \in Nat
    BY <2>2, TokenAssumption DEF Request
  <2>4. /\ row \in Request /\ row.to = old.to /\ row.day = old.day /\ row.charge = charge
        /\ row.reserved = old.reserved /\ row.receipt = receipt /\ receipt # None
    BY <2>2, <2>3, NoneAssumption DEF Request
  <2>5. delta \in Int
    BY <2>2, <2>3
  <2> HIDE DEF row
  <2>6. /\ p \in Seq(Request) /\ Len(p) = Len(q) /\ DOMAIN p = DOMAIN q
        /\ p[id] = row /\ \A i \in DOMAIN q \ {id} : p[i] = q[i]
    BY <1>1, <2>4, ExceptSeq
  <2>7. /\ OfDay(p, old.day) = OfDay(q, old.day)
        /\ \A x : /\ OfDay(p, x) = OfDay(q, x) /\ OfRoot(p, x) = OfRoot(q, x)
                  /\ OfJob(p, x) = OfJob(q, x)
        /\ Background(p) = Background(q)
    <3>1. \A i \in DOMAIN q : p[i].day = q[i].day /\ p[i].to = q[i].to
      BY <2>4, <2>6
    <3> HIDE DEF p, q
    <3> QED
      BY <2>6, <3>1 DEF OfDay, OfRoot, OfJob, Background
  <2>8. /\ \A x : /\ id \in OfDay(q, x) <=> x = old.day
                  /\ id \in OfRoot(q, x) <=> x = old.to.root
                  /\ id \in OfJob(q, x) <=> x = old.to.job
        /\ id \in Background(q) <=> old.to.background
    BY <1>1 DEF OfDay, OfRoot, OfJob, Background
  <2>9. CellsMove(c, old.to, old.day, 0, delta)
    BY <1>1, <2>2, <2>5, CountedCells
  <2>10. ASSUME NEW R \in SUBSET DOMAIN q
         PROVE  /\ IsFiniteSet(Units(Charges(p), DOMAIN p))
                /\ Sum(p, R) = IF id \in R THEN Add(Sum(q, R), 0, delta) ELSE Sum(q, R)
                /\ Total(Granted(p), R) <= Total(Granted(q), R)
                /\ Total(Granted(p), R) \in Nat /\ Total(Granted(q), R) \in Nat
    <3>1. /\ IsFiniteSet(Units(Charges(p), DOMAIN p))
          /\ Sum(p, R) = IF id \in R THEN Add(Sum(q, R), 0, p[id].charge - q[id].charge)
                                     ELSE Sum(q, R)
          /\ Total(Granted(p), R) <= Total(Granted(q), R)
      BY <1>1, <2>2, <2>4, <2>6, SettledSums
    <3>2. p[id].charge - q[id].charge = delta
      BY <2>4, <2>6
    <3>3. Total(Granted(q), R) \in Nat
      BY <1>1, RowAmounts
    <3>4. Total(Granted(p), R) \in Nat
      BY <2>6, <3>1, RowAmounts
    <3> QED
      BY <3>1, <3>2, <3>3, <3>4
  <2> HIDE DEF p, q, c, delta, old
  <2>11. Match(p, c)
    <3> USE SelectedRows, <2>7, <2>8, <2>10
    <3>1. Match(q, counters)
      BY <1>1 DEF q
    <3>2. ASSUME NEW d \in Days PROVE c.day[d] = Sum(p, OfDay(p, d))
      <4>1. c.day[d] = IF d = old.day THEN Add(counters.day[d], 0, delta)
                                      ELSE counters.day[d]
        BY <2>9 DEF CellsMove
      <4>2. counters.day[d] = Sum(q, OfDay(q, d))
        BY <3>1 DEF Match
      <4> QED
        BY <4>1, <4>2
    <3>3. ASSUME NEW r \in Roots \cup Operations PROVE c.root[r] = Sum(p, OfRoot(p, r))
      <4>1. c.root[r] = IF r = old.to.root THEN Add(counters.root[r], 0, delta)
                                           ELSE counters.root[r]
        BY <2>9 DEF CellsMove
      <4>2. counters.root[r] = Sum(q, OfRoot(q, r))
        BY <3>1 DEF Match
      <4> QED
        BY <4>1, <4>2
    <3>4. ASSUME NEW j \in Jobs PROVE c.job[j] = Sum(p, OfJob(p, j))
      <4>1. c.job[j] = IF j = old.to.job THEN Add(counters.job[j], 0, delta)
                                         ELSE counters.job[j]
        BY <2>9 DEF CellsMove
      <4>2. counters.job[j] = Sum(q, OfJob(q, j))
        BY <3>1 DEF Match
      <4> QED
        BY <4>1, <4>2
    <3>5. ASSUME NEW d \in Days
          PROVE  c.background_day[d] = Sum(p, OfDay(p, d) \cap Background(p))
      <4>1. c.background_day[d] =
               IF d = old.day /\ old.to.background
               THEN Add(counters.background_day[d], 0, delta)
               ELSE counters.background_day[d]
        BY <2>9 DEF CellsMove
      <4>2. counters.background_day[d] = Sum(q, OfDay(q, d) \cap Background(q))
        BY <3>1 DEF Match
      <4>3. id \in OfDay(q, d) \cap Background(q) <=> d = old.day /\ old.to.background
        BY <2>8
      <4> QED
        BY <4>1, <4>2, <4>3
    <3> QED
      BY <3>2, <3>3, <3>4, <3>5 DEF Match
  <2>12. CeilingsHold(p)
    <3>1. CeilingsHold(q)
      BY <1>1 DEF q
    <3>2. ASSUME NEW d \in Days
          PROVE  Total(Granted(p), OfDay(p, d) \cap Background(p)) <= HardDaily
      <4> DEFINE R == OfDay(q, d) \cap Background(q)
      <4>1. /\ R \in SUBSET DOMAIN q /\ OfDay(p, d) \cap Background(p) = R
            /\ Total(Granted(q), R) <= HardDaily
        BY <2>7, <3>1, SelectedRows DEF CeilingsHold
      <4> HIDE DEF R
      <4> QED
        BY <2>10, <4>1, TokenAssumption
    <3>3. ASSUME NEW j \in Jobs
          PROVE  Total(Granted(p), OfJob(p, j) \cap Background(p)) <= HardJob
      <4> DEFINE R == OfJob(q, j) \cap Background(q)
      <4>1. /\ R \in SUBSET DOMAIN q /\ OfJob(p, j) \cap Background(p) = R
            /\ Total(Granted(q), R) <= HardJob
        BY <2>7, <3>1, SelectedRows DEF CeilingsHold
      <4> HIDE DEF R
      <4> QED
        BY <2>10, <4>1, TokenAssumption
    <3> QED
      BY <3>2, <3>3 DEF CeilingsHold
  <2>13. IsFiniteSet(Units(Charges(p), DOMAIN p))
    BY <2>10
  <2>14. \A i \in DOMAIN p : p[i].receipt = None => p[i].charge = p[i].reserved
    BY <1>1, <2>4, <2>6 DEF q
  <2>15. c \in Counters
    BY <2>6, <2>9, <2>11, <2>13, MatchType DEF CellsMove
  <2>16. Len(p) <= MaxRequests
    BY <1>1, <2>6 DEF q
  <2> QED
    BY <2>1, <2>6, <2>11, <2>12, <2>13, <2>14, <2>15, <2>16 DEF Sound
<1> QED
  BY <1>2, <1>3

\* An empty ledger has nothing to count.
LEMMA InitCountersInv == Init => CountersInv
<1> SUFFICES ASSUME Init PROVE CountersInv
  OBVIOUS
<1>1. /\ ledger = <<>> /\ ledger \in Seq(Request) /\ DOMAIN ledger = {} /\ Len(ledger) = 0
      /\ backup = None
  BY DEF Init
<1>2. /\ counters.day = [d \in Days |-> Zero]
      /\ counters.root = [r \in Roots \cup Operations |-> Zero]
      /\ counters.job = [j \in Jobs |-> Zero]
      /\ counters.background_day = [d \in Days |-> Zero]
      /\ counters \in Counters
  BY DEF Init, Counters, Zero, Count
<1>3. /\ \A a : Units(a, {}) = {} /\ Total(a, {}) = 0
      /\ IsFiniteSet(Units(Charges(ledger), {}))
      /\ Sum(ledger, {}) = Zero
  BY FS_EmptySet DEF Units, Total, Sum, Zero
<1>4. /\ \A x : OfDay(ledger, x) = {} /\ OfRoot(ledger, x) = {} /\ OfJob(ledger, x) = {}
      /\ \A x : /\ OfDay(ledger, x) \cap Background(ledger) = {}
                /\ OfJob(ledger, x) \cap Background(ledger) = {}
  BY <1>1 DEF OfDay, OfRoot, OfJob
<1>5. Match(ledger, counters)
  BY <1>2, <1>3, <1>4 DEF Match
<1>6. CeilingsHold(ledger)
  BY <1>3, <1>4, TokenAssumption DEF CeilingsHold
<1>7. TypeOK
  <2>1. /\ budget \in [Operations -> Attribution \cup {None}] /\ alive \subseteq Operations
        /\ parent \in [Operations -> Operations \cup {None}]
        /\ review \in BOOLEAN /\ authority \in BOOLEAN /\ missing \in BOOLEAN
    BY InitLedgerInv DEF LedgerInv, WorkType
  <2>2. policy \in Policies /\ restores \in 0 .. MaxRestores /\ Len(ledger) <= MaxRequests
    BY <1>1, BoundsAssumption DEF Init
  <2> QED
    BY <1>1, <1>2, <2>1, <2>2 DEF TypeOK
<1> QED
  BY <1>1, <1>3, <1>5, <1>6, <1>7, BoundsAssumption DEF CountersInv, Sound

\* Every step preserves it.
LEMMA NextCountersInv == LedgerInv /\ LedgerInv' /\ CountersInv /\ [Next]_vars => CountersInv'
<1> SUFFICES ASSUME LedgerInv, LedgerInv', CountersInv, [Next]_vars PROVE CountersInv'
  OBVIOUS
<1>1. /\ alive' \subseteq Operations /\ missing' \in BOOLEAN
      /\ budget' \in [Operations -> Attribution \cup {None}]
      /\ parent' \in [Operations -> Operations \cup {None}]
      /\ review' \in BOOLEAN /\ authority' \in BOOLEAN
  BY DEF LedgerInv, WorkType
<1>2. CASE UNCHANGED <<policy, ledger, counters, backup, restores>>
  BY <1>1, <1>2 DEF CountersInv, TypeOK
<1>3. ASSUME Sound(ledger', counters'), counters' \in Counters,
             UNCHANGED <<policy, backup, restores>>
      PROVE  CountersInv'
  BY <1>1, <1>3 DEF CountersInv, TypeOK, Sound
<1>4. ASSUME NEW op \in Operations, NEW reserve \in Reserves, NEW now \in Days,
             Admit(op, reserve, now) \/ AdmitFocused(op, reserve, now)
      PROVE  CountersInv'
  <2>1. /\ budget[op] \in Attribution /\ ReserveUsage(op, budget[op], reserve, now)
        /\ UNCHANGED <<backup, restores>>
    BY <1>4, AdmittedBudget
  <2>2. UNCHANGED policy
    BY <2>1 DEF ReserveUsage
  <2> QED
    BY <1>3, <2>1, <2>2, ReserveSound
<1>5. ASSUME NEW id \in Ids, NEW receipt \in Reports \cup {Unknown}, SettleUsage(id, receipt)
      PROVE  CountersInv'
  <2>1. UNCHANGED <<policy, backup, restores>>
    BY <1>5 DEF SettleUsage
  <2> QED
    BY <1>3, <1>5, <2>1, SettleSound
<1>6. ASSUME NEW p \in Policies, UpdateUsagePolicy(p)
      PROVE  CountersInv'
  BY <1>1, <1>6 DEF UpdateUsagePolicy, CountersInv, TypeOK
<1>7. CASE Backup
  <2>1. /\ backup' = [policy |-> policy, ledger |-> ledger, counters |-> counters,
                      review |-> review, authority |-> authority]
        /\ UNCHANGED <<policy, ledger, counters, restores>>
    BY <1>7 DEF Backup, storeVars
  <2>2. backup' \in Store /\ backup'.ledger = ledger /\ backup'.counters = counters
    BY <2>1 DEF CountersInv, TypeOK, Store
  <2>3. Sound(backup'.ledger, backup'.counters) /\ Sound(ledger', counters')
    BY <2>1, <2>2 DEF CountersInv
  <2> QED
    BY <1>1, <2>1, <2>2, <2>3 DEF CountersInv, TypeOK
<1>8. CASE Restore
  <2>1. /\ backup # None /\ policy' = backup.policy /\ ledger' = backup.ledger
        /\ counters' = backup.counters /\ backup' = backup
        /\ restores < MaxRestores /\ restores' = restores + 1
    BY <1>8 DEF Restore
  <2>2. backup \in Store /\ Sound(backup.ledger, backup.counters)
    BY <2>1 DEF CountersInv
  <2>3. policy' \in Policies /\ counters' \in Counters
    BY <2>1, <2>2 DEF Store
  <2>4. Sound(ledger', counters')
    BY <2>1, <2>2
  <2>5. ledger' \in Seq(Request) /\ Len(ledger') <= MaxRequests
    BY <2>4 DEF Sound
  <2>6. restores' \in 0 .. MaxRestores
    BY <2>1, BoundsAssumption DEF CountersInv, TypeOK
  <2> QED
    BY <1>1, <2>1, <2>2, <2>3, <2>4, <2>5, <2>6 DEF CountersInv, TypeOK
<1> QED
  BY <1>2, <1>4, <1>5, <1>6, <1>7, <1>8
     DEF Next, StartTurn, StartBackground, InheritOperation, Start, storeVars, workVars, vars,
         Crash, AcceptRestoredUsage

\* The invariant of the counters holds in every behaviour.
THEOREM CountersInvariant == Spec => []CountersInv
BY InitCountersInv, NextCountersInv, LedgerInvariant, PTL DEF Spec

\* CountersMatchLedger: whatever is settled late, booked on another day, crashed,
\* restored or inherited, the four families of counters that reserve_usage
\* decides from are the sums of the requests in the ledger.
THEOREM ExactCounters == Spec => []CountersMatchLedger
<1>1. CountersInv => CountersMatchLedger
  BY DEF CountersInv, Sound, CountersMatchLedger
<1> QED
  BY <1>1, CountersInvariant, PTL

\* BackgroundCeilings: for any policies, days and number of requests, what
\* background work was granted stays under the hard ceiling of its day and of
\* its job.
THEOREM CeilingsAreKept == Spec => []BackgroundCeilings
<1>1. CountersInv => BackgroundCeilings
  BY DEF CountersInv, Sound, BackgroundCeilings
<1> QED
  BY <1>1, CountersInvariant, PTL
=============================================================================
