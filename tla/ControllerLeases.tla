-------------------------- MODULE ControllerLeases --------------------------
(***************************************************************************)
(* The conversation-scoped controller lease reducer of src/controller.rs.  *)
(*                                                                         *)
(* Authentication lets a client speak to a host; a lease decides which     *)
(* client may mutate one Conversation.  The reducer is pure: it is called  *)
(* under the lock of the host that embeds it (the loopback observation hub *)
(* or the execution host), so every public method is one atomic action     *)
(* here, and the monotonic instant it is given is the variable `now`.      *)
(*                                                                         *)
(* A reconnect bearer and a controller id are random UUIDs: they are       *)
(* modelled by numbers drawn from the counter `minted`, which is all a     *)
(* fresh identifier is for (never equal to an earlier one).  The takeover  *)
(* and disconnect-reason labels of a lease are only displayed and are left *)
(* out.  `expiries` holds the ControllerExpiry tokens the reducer has      *)
(* handed to its callers and that nobody has presented back yet, and       *)
(* `observed` the last lease snapshot each client has looked at, from      *)
(* which it may later build a takeover confirmation.                       *)
(***************************************************************************)
EXTENDS Naturals, FiniteSets

CONSTANTS
    Conversations,   \* keys of the lease table
    Clients,         \* ControllerClientId values
    Grace,           \* reconnect grace, in ticks
    MaxMinted,       \* bound: fresh identifiers a behaviour may draw
    MaxNow,          \* bound: last instant of a behaviour
    NoLease          \* no entry in the table

ASSUME GraceAssumption == Grace \in Nat \ {0}
ASSUME MaxMintedAssumption == MaxMinted \in Nat
ASSUME MaxNowAssumption == MaxNow \in Nat

VARIABLES
    leases,       \* Conversation -> Lease or NoLease
    generations,  \* Conversation -> last generation handed out
    now,          \* the monotonic clock
    minted,       \* identifiers drawn so far
    expiries,     \* ControllerExpiry tokens waiting to be presented
    observed,     \* Client -> the lease it last saw in a snapshot
    spent,        \* history: bearers that were rotated out or dropped
    lostAt        \* history: Conversation -> instant of its last disconnect

vars == <<leases, generations, now, minted, expiries, observed, spent, lostAt>>
clientVars == <<now, observed, lostAt>>

-----------------------------------------------------------------------------
NoDeadline == 0

\* A connected lease has no reconnect deadline, a reconnecting one always has.
Lease == {l \in [client     : Clients,
                 controller : Nat,
                 generation : Nat,
                 bearer     : Nat,
                 state      : {"connected", "reconnecting"},
                 deadline   : Nat] :
             l.state = "connected" <=> l.deadline = NoDeadline}

ControllerExpiry == [conversation : Conversations,
                     generation   : Nat,
                     deadline     : Nat]

Snapshot == [conversation : Conversations, lease : Lease]

ASSUME NoLeaseAssumption == NoLease \notin Lease /\ NoLease \notin Snapshot

(* The value type of every variable. *)
TypeOK ==
    /\ leases \in [Conversations -> Lease \cup {NoLease}]
    /\ generations \in [Conversations -> Nat]
    /\ now \in Nat
    /\ minted \in Nat
    /\ expiries \in SUBSET ControllerExpiry
    /\ observed \in [Clients -> Snapshot \cup {NoLease}]
    /\ spent \in SUBSET Nat
    /\ lostAt \in [Conversations -> Nat]

-----------------------------------------------------------------------------
Held(c) == leases[c] # NoLease

IsController(c, cl) ==
    /\ Held(c)
    /\ leases[c].client = cl
    /\ leases[c].state = "connected"

\* next_generation: the counter survives the lease, so a released and
\* re-acquired Conversation never reuses a generation.
BumpOnlyOnAcquire(c) == IF Held(c) THEN generations[c] ELSE generations[c] + 1
NextGeneration(c) == generations[c] + 1

\* The bearer a lease stops honouring when it is replaced or removed.
Retired(c) == IF Held(c) THEN {leases[c].bearer} ELSE {}

\* ControllerTakeoverConfirmation::from(snapshot): only the controller id and
\* the generation of what the client saw are sent back.
Confirms(cl, c) ==
    /\ observed[cl] # NoLease
    /\ observed[cl].conversation = c
    /\ observed[cl].lease.controller = leases[c].controller
    /\ observed[cl].lease.generation = leases[c].generation

-----------------------------------------------------------------------------
Init ==
    /\ leases = [c \in Conversations |-> NoLease]
    /\ generations = [c \in Conversations |-> 0]
    /\ now = 1
    /\ minted = 0
    /\ expiries = {}
    /\ observed = [cl \in Clients |-> NoLease]
    /\ spent = {}
    /\ lostAt = [c \in Conversations |-> 0]

\* Two faulty grants, for the mutation checks: one leaves the deadline of an
\* ended grace in place, the other does not rotate the reconnect bearer.
GrantKeepsDeadline(c, cl, controller) ==
    /\ minted < MaxMinted
    /\ minted' = minted + 1
    /\ generations' = [generations EXCEPT ![c] = NextGeneration(c)]
    /\ leases' = [leases EXCEPT ![c] =
                     [client |-> cl, controller |-> controller,
                      generation |-> NextGeneration(c), bearer |-> minted + 1,
                      state |-> "connected",
                      deadline |-> IF Held(c) THEN leases[c].deadline ELSE NoDeadline]]
    /\ spent' = spent \cup Retired(c)
    /\ UNCHANGED <<expiries, clientVars>>

GrantKeepsBearer(c, cl, controller) ==
    /\ minted < MaxMinted
    /\ minted' = minted + 1
    /\ generations' = [generations EXCEPT ![c] = NextGeneration(c)]
    /\ leases' = [leases EXCEPT ![c] =
                     [client |-> cl, controller |-> controller,
                      generation |-> NextGeneration(c),
                      bearer |-> IF Held(c) THEN leases[c].bearer ELSE minted + 1,
                      state |-> "connected", deadline |-> NoDeadline]]
    /\ spent' = spent \cup Retired(c)
    /\ UNCHANGED <<expiries, clientVars>>

\* Install a lease for c with the next generation and a fresh bearer, retiring
\* the bearer it replaces: the common tail of acquire, renew and reconnect.
Grant(c, cl, controller) ==
    /\ minted < MaxMinted
    /\ minted' = minted + 1
    /\ generations' = [generations EXCEPT ![c] = NextGeneration(c)]
    /\ leases' = [leases EXCEPT ![c] =
                     [client     |-> cl,
                      controller |-> controller,
                      generation |-> NextGeneration(c),
                      bearer     |-> minted + 1,
                      state      |-> "connected",
                      deadline   |-> NoDeadline]]
    /\ spent' = spent \cup Retired(c)
    /\ UNCHANGED <<expiries, clientVars>>

\* renew: only the connected controller; it keeps its controller id.
Renew(c, cl) ==
    /\ IsController(c, cl)
    /\ Grant(c, cl, leases[c].controller)

\* acquire.  The connected controller itself is renewed.  Anyone else needs a
\* free Conversation, or a confirmation of the exact current lease and no
\* pending approval.  A refused acquire changes nothing.
Acquire(c, cl, pending) ==
    \/ Renew(c, cl)
    \/ /\ ~Held(c)
       /\ Grant(c, cl, minted + 1)
    \/ /\ Held(c)
       /\ ~IsController(c, cl)
       /\ Confirms(cl, c)
       /\ ~pending
       /\ Grant(c, cl, minted + 1)

\* disconnect_client: every Conversation the client controls enters grace, and
\* the caller receives one expiry token for each.
Controlled(cl) == {c \in Conversations : IsController(c, cl)}

DisconnectClient(cl) ==
    /\ Controlled(cl) # {}
    /\ generations' = [c \in Conversations |->
                          IF c \in Controlled(cl) THEN NextGeneration(c)
                                                 ELSE generations[c]]
    /\ leases' = [c \in Conversations |->
                     IF c \in Controlled(cl)
                     THEN [leases[c] EXCEPT !.generation = NextGeneration(c),
                                            !.state = "reconnecting",
                                            !.deadline = now + Grace]
                     ELSE leases[c]]
    /\ expiries' = expiries \cup
         {[conversation |-> c, generation |-> NextGeneration(c),
           deadline |-> now + Grace] : c \in Controlled(cl)}
    /\ lostAt' = [c \in Conversations |->
                     IF c \in Controlled(cl) THEN now ELSE lostAt[c]]
    /\ UNCHANGED <<now, minted, observed, spent>>

\* reconnect: the bearer selects the lease; a connected lease moves to the new
\* client at once, one in grace only before its deadline.
Reconnect(c, cl, bearer) ==
    /\ Held(c)
    /\ leases[c].bearer = bearer
    /\ leases[c].state = "reconnecting" => now < leases[c].deadline
    /\ Grant(c, cl, leases[c].controller)

\* release: the lease's client may give it up, connected or not.
Release(c, cl) ==
    /\ Held(c)
    /\ leases[c].client = cl
    /\ leases' = [leases EXCEPT ![c] = NoLease]
    /\ spent' = spent \cup Retired(c)
    /\ UNCHANGED <<generations, minted, expiries, clientVars>>

\* A faulty expiry check that trusts the token's own deadline.
ExpiresByToken(e) ==
    /\ Held(e.conversation)
    /\ leases[e.conversation].state = "reconnecting"
    /\ now >= e.deadline

\* A faulty token that names the generation from before the disconnect.
ExpiresBeforeBump(e) ==
    /\ Held(e.conversation)
    /\ leases[e.conversation].state = "reconnecting"
    /\ leases[e.conversation].generation = e.generation + 1
    /\ now >= leases[e.conversation].deadline

\* expire: a token removes exactly the grace period it was issued for.
Expires(e) ==
    /\ Held(e.conversation)
    /\ leases[e.conversation].state = "reconnecting"
    /\ leases[e.conversation].generation = e.generation
    /\ leases[e.conversation].deadline # NoDeadline
    /\ now >= leases[e.conversation].deadline

Expire(e) ==
    /\ e \in expiries
    /\ expiries' = expiries \ {e}
    /\ IF Expires(e)
       THEN /\ leases' = [leases EXCEPT ![e.conversation] = NoLease]
            /\ spent' = spent \cup Retired(e.conversation)
       ELSE UNCHANGED <<leases, spent>>
    /\ UNCHANGED <<generations, minted, clientVars>>

\* The grace task that holds a token may be cancelled by host shutdown before
\* it presents it.
DropExpiry(e) ==
    /\ e \in expiries
    /\ expiries' = expiries \ {e}
    /\ UNCHANGED <<leases, generations, minted, spent, clientVars>>

\* expire_all: host shutdown drops every lease; the generations survive.
ExpireAll ==
    /\ leases' = [c \in Conversations |-> NoLease]
    /\ spent' = spent \cup UNION {Retired(c) : c \in Conversations}
    /\ UNCHANGED <<generations, minted, expiries, clientVars>>

\* snapshot: a client looks at the current lease (in a host snapshot, an event
\* or the refusal of its acquire) and may act on it later.
Observe(cl, c) ==
    /\ Held(c)
    /\ observed' = [observed EXCEPT ![cl] =
                       [conversation |-> c, lease |-> leases[c]]]
    /\ UNCHANGED <<leases, generations, now, minted, expiries, spent, lostAt>>

Tick ==
    /\ now < MaxNow
    /\ now' = now + 1
    /\ UNCHANGED <<leases, generations, minted, expiries, observed, spent, lostAt>>

Next ==
    \/ \E c \in Conversations, cl \in Clients :
          \/ \E pending \in BOOLEAN : Acquire(c, cl, pending)
          \/ Renew(c, cl)
          \/ \E bearer \in 1..minted : Reconnect(c, cl, bearer)
          \/ Release(c, cl)
          \/ Observe(cl, c)
    \/ \E cl \in Clients : DisconnectClient(cl)
    \/ \E e \in expiries : Expire(e) \/ DropExpiry(e)
    \/ ExpireAll
    \/ Tick

Spec == Init /\ [][Next]_vars

-----------------------------------------------------------------------------
(* Properties *)

\* A reconnect bearer that was rotated out, released or expired never opens a
\* lease again, and one bearer opens at most one lease: the linear search of
\* `reconnect` is unambiguous and every bearer is good for one use.
BearersAreCurrent ==
    \A c \in Conversations :
        Held(c) =>
            /\ leases[c].bearer \notin spent
            /\ \A d \in Conversations \ {c} :
                  Held(d) => leases[d].bearer # leases[c].bearer

\* `acquire` compares only the controller id and the generation of a takeover
\* confirmation, yet a confirmation that is accepted was built from the lease
\* exactly as it stands: nothing about the lease (its client, its bearer, its
\* grace) has changed between the moment the winner looked and its takeover.
TakeoverBindsObservedLease ==
    [][\A c \in Conversations :
          (/\ Held(c)
           /\ leases'[c] # NoLease
           /\ leases'[c].controller # leases[c].controller)
          => observed[leases'[c].client] = [conversation |-> c, lease |-> leases[c]]]_vars

\* Presenting an expiry token, however stale, never takes the lease from a
\* controller that is connected again or whose latest grace is still running.
NoEarlyExpiry ==
    [][\A e \in expiries :
          (/\ e \notin expiries'
           /\ Held(e.conversation)
           /\ leases'[e.conversation] = NoLease)
          => /\ leases[e.conversation].state = "reconnecting"
             /\ now >= lostAt[e.conversation] + Grace]_vars

-----------------------------------------------------------------------------
(* The inductive invariant behind the three properties.                    *)

\* Every lease carries the last generation handed out for its Conversation.
GenerationsAreCurrent ==
    \A c \in Conversations :
        Held(c) => leases[c].generation = generations[c]

\* Identifiers in use, and retired ones, were drawn before.
IdentifiersAreMinted ==
    /\ spent \subseteq 1..minted
    /\ \A c \in Conversations :
          Held(c) => leases[c].bearer \in 1..minted /\ leases[c].controller \in 1..minted

\* A snapshot never runs ahead of the table, and one whose generation is still
\* current shows the lease as it is.
SnapshotsAreFaithful ==
    \A cl \in Clients :
        LET o == observed[cl] IN
        o # NoLease =>
            /\ o.lease.generation <= generations[o.conversation]
            /\ (/\ Held(o.conversation)
                /\ o.lease.generation = generations[o.conversation])
               => o.lease = leases[o.conversation]

\* The grace of a reconnecting lease runs from its latest disconnect.
GraceRunsFromDisconnect ==
    \A c \in Conversations :
        (Held(c) /\ leases[c].state = "reconnecting")
            => leases[c].deadline = lostAt[c] + Grace

LeaseInv ==
    /\ TypeOK
    /\ GenerationsAreCurrent
    /\ IdentifiersAreMinted
    /\ BearersAreCurrent
    /\ SnapshotsAreFaithful
    /\ GraceRunsFromDisconnect

=============================================================================
