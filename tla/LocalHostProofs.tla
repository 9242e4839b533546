--------------------------- MODULE LocalHostProofs ---------------------------
(***************************************************************************)
(* TLAPS proofs about the lease reducer of ControllerLeases, for any sets  *)
(* of clients and Conversations, any grace and any bounds, and about the   *)
(* loopback host of LocalHost that embeds it.                              *)
(***************************************************************************)
EXTENDS LocalHost, FiniteSetTheorems, SequenceTheorems, TLAPS

-----------------------------------------------------------------------------
(* The lease reducer.                                                      *)
USE DEF NoDeadline

-----------------------------------------------------------------------------
\* The shape of a granted lease: what acquire, renew and reconnect install.
LEMMA GrantedIsLease ==
    ASSUME NEW cl \in Clients, NEW k \in Nat, NEW g \in Nat, NEW b \in Nat
    PROVE  /\ [client |-> cl, controller |-> k, generation |-> g, bearer |-> b,
               state |-> "connected", deadline |-> NoDeadline] \in Lease
           /\ [client |-> cl, controller |-> k, generation |-> g, bearer |-> b,
               state |-> "connected", deadline |-> NoDeadline] # NoLease
BY NoLeaseAssumption DEF Lease

\* The shape of a lease in grace: what disconnect_client leaves.
LEMMA GraceIsLease ==
    ASSUME NEW l \in Lease, NEW g \in Nat, NEW t \in Nat
    PROVE  /\ [l EXCEPT !.generation = g, !.state = "reconnecting",
                        !.deadline = t + Grace] \in Lease
           /\ [l EXCEPT !.generation = g, !.state = "reconnecting",
                        !.deadline = t + Grace] # NoLease
<1> DEFINE m == [l EXCEPT !.generation = g, !.state = "reconnecting",
                          !.deadline = t + Grace]
<1>1. t + Grace \in Nat /\ t + Grace # 0
  BY GraceAssumption
<1>2. l \in [client : Clients, controller : Nat, generation : Nat, bearer : Nat,
             state : {"connected", "reconnecting"}, deadline : Nat]
  BY DEF Lease
<1>3. m \in [client : Clients, controller : Nat, generation : Nat, bearer : Nat,
             state : {"connected", "reconnecting"}, deadline : Nat]
  BY <1>1, <1>2
<1>4. m.state = "reconnecting" /\ m.deadline = t + Grace
  BY <1>2
<1>5. m \in Lease
  BY <1>1, <1>3, <1>4 DEF Lease
<1> QED
  BY <1>5, NoLeaseAssumption

\* A bearer that a lease gives up was drawn before.
LEMMA RetiredIsMinted ==
    ASSUME LeaseInv, NEW c \in Conversations
    PROVE  Retired(c) \subseteq 1..minted /\ Retired(c) \subseteq Nat
<1>1. CASE Held(c)
  <2>1. leases[c].bearer \in 1..minted /\ minted \in Nat
    BY <1>1 DEF LeaseInv, IdentifiersAreMinted, TypeOK, Held, Lease
  <2> QED
    BY <1>1, <2>1 DEF Retired
<1>2. CASE ~Held(c)
  BY <1>2 DEF Retired
<1> QED
  BY <1>1, <1>2

\* The initial state satisfies the inductive invariant.
LEMMA InitLeaseInv == Init => LeaseInv
BY DEF Init, LeaseInv, TypeOK, GenerationsAreCurrent, IdentifiersAreMinted,
       BearersAreCurrent, SnapshotsAreFaithful, GraceRunsFromDisconnect, Held

\* Grant preserves the inductive invariant, whoever it is called for.
LEMMA GrantLeaseInv ==
    ASSUME LeaseInv, NEW c \in Conversations, NEW cl \in Clients,
           NEW k \in 1..(minted + 1), Grant(c, cl, k)
    PROVE  LeaseInv'
<1> DEFINE new == [client |-> cl, controller |-> k, generation |-> generations[c] + 1,
                   bearer |-> minted + 1, state |-> "connected", deadline |-> NoDeadline]
<1>1. TypeOK /\ minted \in Nat /\ generations[c] \in Nat
  BY DEF LeaseInv, TypeOK
<1>2. new \in Lease /\ new # NoLease
  BY <1>1, GrantedIsLease
<1>3. /\ leases' = [leases EXCEPT ![c] = new]
      /\ generations' = [generations EXCEPT ![c] = generations[c] + 1]
      /\ minted' = minted + 1
      /\ spent' = spent \cup Retired(c)
      /\ UNCHANGED <<expiries, now, observed, lostAt>>
  BY DEF Grant, NextGeneration, clientVars
<1>4. Retired(c) \subseteq 1..minted /\ Retired(c) \subseteq Nat
  BY RetiredIsMinted
<1>5. TypeOK'
  <2>1. leases' \in [Conversations -> Lease \cup {NoLease}]
    BY <1>1, <1>2, <1>3 DEF TypeOK
  <2>2. spent' \in SUBSET Nat
    BY <1>1, <1>3, <1>4 DEF TypeOK
  <2>3. generations' \in [Conversations -> Nat] /\ minted' \in Nat
    BY <1>1, <1>3 DEF TypeOK
  <2> QED
    BY <1>1, <1>3, <2>1, <2>2, <2>3 DEF TypeOK
<1>6. GenerationsAreCurrent'
  BY <1>1, <1>2, <1>3 DEF GenerationsAreCurrent, Held, LeaseInv, TypeOK
<1>7. IdentifiersAreMinted'
  <2>1. spent' \subseteq 1..(minted + 1)
    <3>1. spent' \subseteq 1..minted
      BY <1>3, <1>4 DEF LeaseInv, IdentifiersAreMinted
    <3>2. 1..minted \subseteq 1..(minted + 1)
      BY <1>1
    <3> QED
      BY <3>1, <3>2
  <2>2. \A d \in Conversations \ {c} : leases'[d] = leases[d]
    BY <1>1, <1>3 DEF TypeOK
  <2>3. leases'[c] = new
    BY <1>1, <1>3 DEF TypeOK
  <2>4. \A d \in Conversations : Held(d) =>
            leases[d].bearer \in Nat /\ leases[d].controller \in Nat
    BY <1>1 DEF TypeOK, Held, Lease
  <2> QED
    BY <1>1, <1>3, <2>1, <2>2, <2>3, <2>4 DEF LeaseInv, IdentifiersAreMinted, Held
<1>8. BearersAreCurrent'
  <2>1. \A d \in Conversations \ {c} : Held(d) => leases[d].bearer \in 1..minted
    BY <1>1 DEF LeaseInv, IdentifiersAreMinted, TypeOK, Held, Lease
  <2>2. \A d \in Conversations \ {c} : leases'[d] = leases[d]
    BY <1>1, <1>3 DEF TypeOK
  <2>3. leases'[c] = new
    BY <1>1, <1>3 DEF TypeOK
  <2>4. \A d \in Conversations \ {c} : Held(d) => leases[d].bearer \notin spent'
    BY <1>3 DEF LeaseInv, BearersAreCurrent, Retired
  <2>5. minted + 1 \notin spent'
    BY <1>1, <1>3, <1>4 DEF LeaseInv, IdentifiersAreMinted
  <2> QED
    BY <1>1, <1>2, <2>1, <2>2, <2>3, <2>4, <2>5 DEF BearersAreCurrent, Held, LeaseInv
<1>9. SnapshotsAreFaithful'
  BY <1>1, <1>2, <1>3 DEF SnapshotsAreFaithful, Held, LeaseInv, TypeOK, Snapshot, Lease
<1>10. GraceRunsFromDisconnect'
  BY <1>1, <1>2, <1>3 DEF GraceRunsFromDisconnect, Held, LeaseInv, TypeOK
<1> QED
  BY <1>5, <1>6, <1>7, <1>8, <1>9, <1>10 DEF LeaseInv

\* Removing any set of leases, retiring their bearers, preserves it: this is
\* what release, expire and expire_all do to the table.
LEMMA RemovalLeaseInv ==
    ASSUME LeaseInv, NEW S \in SUBSET Conversations,
           leases' = [c \in Conversations |-> IF c \in S THEN NoLease ELSE leases[c]],
           spent' = spent \cup UNION {Retired(c) : c \in S},
           expiries' \subseteq expiries,
           UNCHANGED <<generations, minted, now, observed, lostAt>>
    PROVE  LeaseInv'
<1>1. TypeOK
  BY DEF LeaseInv
<1>2. \A c \in Conversations : Retired(c) \subseteq 1..minted /\ Retired(c) \subseteq Nat
  BY RetiredIsMinted
<1>3. TypeOK'
  <2>1. leases' \in [Conversations -> Lease \cup {NoLease}]
    BY <1>1 DEF TypeOK
  <2>2. UNION {Retired(c) : c \in S} \subseteq Nat
    BY <1>2
  <2> QED
    BY <1>1, <2>1, <2>2 DEF TypeOK
<1>4. GenerationsAreCurrent'
  BY DEF GenerationsAreCurrent, Held, LeaseInv
<1>5. IdentifiersAreMinted'
  BY <1>2 DEF IdentifiersAreMinted, Held, LeaseInv
<1>6. BearersAreCurrent'
  <2> SUFFICES ASSUME NEW c \in Conversations, Held(c)'
               PROVE  /\ leases'[c].bearer \notin spent'
                      /\ \A d \in Conversations \ {c} :
                            Held(d)' => leases'[d].bearer # leases'[c].bearer
    BY DEF BearersAreCurrent
  <2>1. c \notin S /\ leases'[c] = leases[c] /\ Held(c)
    BY DEF Held
  <2>2. leases[c].bearer \notin spent
    BY <2>1 DEF LeaseInv, BearersAreCurrent
  <2>3. \A d \in S : leases[c].bearer \notin Retired(d)
    BY <2>1 DEF LeaseInv, BearersAreCurrent, Retired
  <2> QED
    BY <2>1, <2>2, <2>3 DEF LeaseInv, BearersAreCurrent, Held
<1>7. SnapshotsAreFaithful'
  BY <1>1 DEF SnapshotsAreFaithful, Held, LeaseInv, TypeOK, Snapshot
<1>8. GraceRunsFromDisconnect'
  BY DEF GraceRunsFromDisconnect, Held, LeaseInv
<1> QED
  BY <1>3, <1>4, <1>5, <1>6, <1>7, <1>8 DEF LeaseInv

\* disconnect_client preserves it, for all the Conversations it touches at once.
LEMMA DisconnectLeaseInv ==
    ASSUME LeaseInv, NEW cl \in Clients, DisconnectClient(cl)
    PROVE  LeaseInv'
<1> DEFINE S == Controlled(cl)
           grace(c) == [leases[c] EXCEPT !.generation = generations[c] + 1,
                                         !.state = "reconnecting",
                                         !.deadline = now + Grace]
<1>1. TypeOK /\ now \in Nat /\ Grace \in Nat
  BY GraceAssumption DEF LeaseInv, TypeOK
<1>2. S \subseteq Conversations /\ \A c \in S : Held(c)
  BY DEF Controlled, IsController
<1>3. \A c \in S : leases[c] \in Lease /\ generations[c] \in Nat
  BY <1>1, <1>2 DEF TypeOK, Held
<1>4. \A c \in S : /\ grace(c) \in Lease
                   /\ grace(c) # NoLease
                   /\ grace(c).generation = generations[c] + 1
                   /\ grace(c).deadline = now + Grace
                   /\ grace(c).bearer = leases[c].bearer
                   /\ grace(c).controller = leases[c].controller
  <2> SUFFICES ASSUME NEW c \in S PROVE
                   /\ grace(c) \in Lease
                   /\ grace(c) # NoLease
                   /\ grace(c).generation = generations[c] + 1
                   /\ grace(c).deadline = now + Grace
                   /\ grace(c).bearer = leases[c].bearer
                   /\ grace(c).controller = leases[c].controller
    OBVIOUS
  <2>1. leases[c] \in Lease /\ generations[c] + 1 \in Nat
    BY <1>3
  <2>2. grace(c) \in Lease /\ grace(c) # NoLease
    BY <1>1, <2>1, GraceIsLease
  <2> QED
    BY <2>1, <2>2 DEF Lease
<1>5. /\ leases' = [c \in Conversations |-> IF c \in S THEN grace(c) ELSE leases[c]]
      /\ generations' = [c \in Conversations |->
                            IF c \in S THEN generations[c] + 1 ELSE generations[c]]
      /\ expiries' = expiries \cup
            {[conversation |-> c, generation |-> generations[c] + 1,
              deadline |-> now + Grace] : c \in S}
      /\ lostAt' = [c \in Conversations |-> IF c \in S THEN now ELSE lostAt[c]]
      /\ UNCHANGED <<now, minted, observed, spent>>
  BY DEF DisconnectClient, NextGeneration
<1> HIDE DEF S, grace
<1>6. TypeOK'
  <2>1. {[conversation |-> c, generation |-> generations[c] + 1,
          deadline |-> now + Grace] : c \in S} \subseteq ControllerExpiry
    BY <1>1, <1>2, <1>3 DEF ControllerExpiry
  <2> QED
    BY <1>1, <1>2, <1>3, <1>4, <1>5, <2>1 DEF TypeOK
<1>7. GenerationsAreCurrent'
  BY <1>1, <1>4, <1>5 DEF GenerationsAreCurrent, Held, LeaseInv
<1>8. IdentifiersAreMinted'
  BY <1>2, <1>4, <1>5 DEF IdentifiersAreMinted, Held, LeaseInv
<1>9. BearersAreCurrent'
  BY <1>2, <1>4, <1>5 DEF BearersAreCurrent, Held, LeaseInv
<1>10. SnapshotsAreFaithful'
  <2> SUFFICES ASSUME NEW k \in Clients, observed[k] # NoLease
               PROVE  LET o == observed[k] IN
                      /\ o.lease.generation <= generations'[o.conversation]
                      /\ (/\ leases'[o.conversation] # NoLease
                          /\ o.lease.generation = generations'[o.conversation])
                         => o.lease = leases'[o.conversation]
    BY <1>5 DEF SnapshotsAreFaithful, Held
  <2>1. observed[k].conversation \in Conversations /\ observed[k].lease.generation \in Nat
    BY <1>1 DEF TypeOK, Snapshot, Lease
  <2>2. observed[k].lease.generation <= generations[observed[k].conversation]
    BY DEF LeaseInv, SnapshotsAreFaithful
  <2> QED
    BY <1>1, <1>3, <1>5, <2>1, <2>2 DEF TypeOK, LeaseInv, SnapshotsAreFaithful, Held
<1>11. GraceRunsFromDisconnect'
  BY <1>4, <1>5 DEF GraceRunsFromDisconnect, Held, LeaseInv
<1> QED
  BY <1>6, <1>7, <1>8, <1>9, <1>10, <1>11 DEF LeaseInv

\* A snapshot taken now is faithful.
LEMMA ObserveLeaseInv ==
    ASSUME LeaseInv, NEW cl \in Clients, NEW c \in Conversations, Observe(cl, c)
    PROVE  LeaseInv'
<1>1. leases[c] \in Lease /\ leases[c].generation = generations[c]
  BY DEF LeaseInv, TypeOK, Observe, Held, GenerationsAreCurrent
<1>2. [conversation |-> c, lease |-> leases[c]] \in Snapshot
  BY <1>1 DEF Snapshot
<1>3. TypeOK'
  BY <1>2 DEF LeaseInv, TypeOK, Observe
<1>4. SnapshotsAreFaithful'
  BY <1>1 DEF LeaseInv, TypeOK, Observe, SnapshotsAreFaithful, Held
<1> QED
  BY <1>3, <1>4 DEF LeaseInv, Observe, GenerationsAreCurrent, IdentifiersAreMinted,
                    BearersAreCurrent, GraceRunsFromDisconnect, Held

\* Every step of the reducer preserves the inductive invariant.
LEMMA NextLeaseInv == LeaseInv /\ [Next]_vars => LeaseInv'
<1> SUFFICES ASSUME LeaseInv, [Next]_vars PROVE LeaseInv'
  OBVIOUS
<1> USE DEF LeaseInv
<1>1. ASSUME NEW c \in Conversations, NEW cl \in Clients, Renew(c, cl)
      PROVE  LeaseInv'
  <2>1. leases[c].controller \in 1..(minted + 1)
    BY <1>1 DEF Renew, IsController, Held, IdentifiersAreMinted, TypeOK, Lease
  <2> QED
    BY <1>1, <2>1, GrantLeaseInv DEF Renew
<1>2. ASSUME NEW c \in Conversations, NEW cl \in Clients, NEW pending \in BOOLEAN,
             Acquire(c, cl, pending)
      PROVE  LeaseInv'
  <2>1. minted + 1 \in 1..(minted + 1)
    BY DEF TypeOK
  <2> QED
    BY <1>1, <1>2, <2>1, GrantLeaseInv DEF Acquire
<1>3. ASSUME NEW c \in Conversations, NEW cl \in Clients, NEW b \in 1..minted,
             Reconnect(c, cl, b)
      PROVE  LeaseInv'
  <2>1. leases[c].controller \in 1..(minted + 1)
    BY <1>3 DEF Reconnect, Held, IdentifiersAreMinted, TypeOK, Lease
  <2> QED
    BY <1>3, <2>1, GrantLeaseInv DEF Reconnect
<1>4. ASSUME NEW c \in Conversations, NEW cl \in Clients, Release(c, cl)
      PROVE  LeaseInv'
  <2>1. leases' = [d \in Conversations |-> IF d \in {c} THEN NoLease ELSE leases[d]]
    BY <1>4 DEF Release, TypeOK
  <2>2. spent' = spent \cup UNION {Retired(d) : d \in {c}}
    BY <1>4 DEF Release
  <2> QED
    BY <1>4, <2>1, <2>2, RemovalLeaseInv DEF Release, clientVars
<1>5. ASSUME NEW c \in Conversations, NEW cl \in Clients, Observe(cl, c)
      PROVE  LeaseInv'
  BY <1>5, ObserveLeaseInv
<1>6. ASSUME NEW cl \in Clients, DisconnectClient(cl)
      PROVE  LeaseInv'
  BY <1>6, DisconnectLeaseInv
<1>7. ASSUME NEW e \in expiries, Expire(e)
      PROVE  LeaseInv'
  <2>1. e.conversation \in Conversations
    BY DEF TypeOK, ControllerExpiry
  <2>2. CASE Expires(e)
    <3>1. leases' = [d \in Conversations |->
                        IF d \in {e.conversation} THEN NoLease ELSE leases[d]]
      BY <1>7, <2>2 DEF Expire, TypeOK
    <3>2. spent' = spent \cup UNION {Retired(d) : d \in {e.conversation}}
      BY <1>7, <2>2 DEF Expire
    <3> QED
      BY <1>7, <2>1, <3>1, <3>2, RemovalLeaseInv DEF Expire, clientVars
  <2>3. CASE ~Expires(e)
    BY <1>7, <2>3 DEF Expire, clientVars, TypeOK, GenerationsAreCurrent, IdentifiersAreMinted,
                      BearersAreCurrent, SnapshotsAreFaithful, GraceRunsFromDisconnect, Held
  <2> QED
    BY <2>2, <2>3
<1>8. ASSUME ExpireAll
      PROVE  LeaseInv'
  <2>1. leases' = [d \in Conversations |->
                      IF d \in Conversations THEN NoLease ELSE leases[d]]
    BY <1>8 DEF ExpireAll
  <2> QED
    BY <1>8, <2>1, RemovalLeaseInv DEF ExpireAll, clientVars
<1>9. ASSUME NEW e \in expiries, DropExpiry(e)
      PROVE  LeaseInv'
  BY <1>9 DEF DropExpiry, clientVars, TypeOK, GenerationsAreCurrent,
              IdentifiersAreMinted, BearersAreCurrent, SnapshotsAreFaithful,
              GraceRunsFromDisconnect, Held
<1>10. ASSUME Tick
      PROVE  LeaseInv'
  BY <1>10 DEF Tick, TypeOK, GenerationsAreCurrent, IdentifiersAreMinted,
              BearersAreCurrent, SnapshotsAreFaithful, GraceRunsFromDisconnect, Held
<1>11. CASE UNCHANGED vars
  BY <1>11 DEF vars, TypeOK, GenerationsAreCurrent, IdentifiersAreMinted,
               BearersAreCurrent, SnapshotsAreFaithful, GraceRunsFromDisconnect, Held
<1> QED
  BY <1>1, <1>2, <1>3, <1>4, <1>5, <1>6, <1>7, <1>8, <1>9, <1>10, <1>11 DEF Next

\* The inductive invariant holds in every reachable state of the reducer.
THEOREM LeaseInvariance == Spec => []LeaseInv
BY InitLeaseInv, NextLeaseInv, PTL DEF Spec

\* Type correctness of the lease table: in particular a connected lease never
\* carries a reconnect deadline and a lease in grace always does.
THEOREM TypeCorrectness == Spec => []TypeOK
<1>1. LeaseInv => TypeOK
  BY DEF LeaseInv
<1> QED
  BY <1>1, LeaseInvariance, PTL

\* `reconnect` never accepts a bearer that was rotated out, and its search for
\* the lease a bearer opens has at most one answer.
THEOREM BearerSafety == Spec => []BearersAreCurrent
<1>1. LeaseInv => BearersAreCurrent
  BY DEF LeaseInv
<1> QED
  BY <1>1, LeaseInvariance, PTL

\* A takeover confirmation is accepted only when the lease is exactly the one
\* the new controller looked at, although `acquire` compares two fields of it.
THEOREM TakeoverSafety == Spec => TakeoverBindsObservedLease
<1> DEFINE Bound(c) ==
      (/\ Held(c)
       /\ leases'[c] # NoLease
       /\ leases'[c].controller # leases[c].controller)
      => observed[leases'[c].client] = [conversation |-> c, lease |-> leases[c]]
<1>1. ASSUME LeaseInv, [Next]_vars PROVE [\A c \in Conversations : Bound(c)]_vars
  <2> SUFFICES ASSUME Next, NEW c \in Conversations, Held(c), leases'[c] # NoLease,
                      leases'[c].controller # leases[c].controller
               PROVE  observed[leases'[c].client] = [conversation |-> c, lease |-> leases[c]]
    BY <1>1
  <2> USE <1>1 DEF LeaseInv, TypeOK
  <2>1. ASSUME NEW d \in Conversations, NEW cl \in Clients, Grant(d, cl, leases[d].controller)
        PROVE  FALSE
    BY <2>1 DEF Grant
  <2>2. PICK d \in Conversations, cl \in Clients, pending \in BOOLEAN : Acquire(d, cl, pending)
    <3>1. ASSUME NEW e \in expiries, Expire(e) PROVE leases'[c] = leases[c]
      <4>1. e.conversation \in Conversations
        BY DEF ControllerExpiry
      <4> QED
        BY <3>1, <4>1 DEF Expire
    <3>2. ASSUME NEW cl \in Clients, DisconnectClient(cl)
          PROVE  leases'[c].controller = leases[c].controller
      <4>1. leases[c] \in Lease
        BY DEF Held
      <4> QED
        BY <3>2, <4>1 DEF DisconnectClient, Lease
    <3> QED
      BY <2>1, <3>1, <3>2 DEF Next, Renew, Reconnect, Release, DropExpiry,
             Observe, ExpireAll, Tick
  <2>3. /\ d = c
        /\ Confirms(cl, c)
        /\ leases'[c].client = cl
    BY <2>1, <2>2 DEF Acquire, Renew, Grant
  <2>4. observed[cl] \in Snapshot /\ observed[cl].conversation = c
    BY <2>3 DEF Confirms
  <2>5. observed[cl].lease = leases[c]
    BY <2>3 DEF Confirms, GenerationsAreCurrent, SnapshotsAreFaithful
  <2> QED
    BY <2>3, <2>4, <2>5 DEF Snapshot
<1> QED
  BY <1>1, LeaseInvariance, PTL DEF Spec, TakeoverBindsObservedLease

\* A stale expiry token never removes a lease whose controller is connected, or
\* whose latest grace has not run out.
THEOREM ExpirySafety == Spec => NoEarlyExpiry
<1> DEFINE Late(e) ==
      (/\ e \notin expiries'
       /\ Held(e.conversation)
       /\ leases'[e.conversation] = NoLease)
      => /\ leases[e.conversation].state = "reconnecting"
         /\ now >= lostAt[e.conversation] + Grace
<1>1. ASSUME LeaseInv, [Next]_vars PROVE [\A e \in expiries : Late(e)]_vars
  <2> SUFFICES ASSUME Next, NEW e \in expiries, e \notin expiries', Held(e.conversation),
                      leases'[e.conversation] = NoLease
               PROVE  /\ leases[e.conversation].state = "reconnecting"
                      /\ now >= lostAt[e.conversation] + Grace
    BY <1>1
  <2>1. PICK f \in expiries : Expire(f)
    BY DEF Next, Acquire, Renew, Grant, Reconnect, Release, Observe, DisconnectClient,
           ExpireAll, DropExpiry, Held, Tick
  <2>2. f = e
    BY <2>1 DEF Expire
  <2>3. Expires(e)
    BY <2>1, <2>2 DEF Expire, Held
  <2>4. e.conversation \in Conversations
    BY <1>1 DEF LeaseInv, TypeOK, ControllerExpiry
  <2> QED
    BY <1>1, <2>3, <2>4 DEF Expires, LeaseInv, GraceRunsFromDisconnect
<1> QED
  BY <1>1, LeaseInvariance, PTL DEF Spec, NoEarlyExpiry


-----------------------------------------------------------------------------
(* The loopback host: what its steps do to the leases.                     *)

\* Every step of the host is a step of the reducer or leaves the leases alone:
\* connection tasks, grace tasks and the hub go through its methods only.
LEMMA HostStepIsLeaseStep == LeaseInv /\ [HostNext]_hostVars => [Next]_vars
<1> SUFFICES ASSUME LeaseInv, [HostNext]_hostVars
             PROVE  [Next]_vars
  OBVIOUS
<1> USE ConversationAssumption
<1>1. ASSUME NEW cl \in Clients, Attach(cl)
      PROVE  [Next]_vars
  <2>1. CASE UNCHANGED <<leaseVars, role>>
    BY <2>1 DEF leaseVars
  <2>2. CASE HasController /\ Reconnect(Conversation, cl, TheLease.bearer)
    <3>1. TheLease.bearer \in 1 .. minted
      BY <2>2 DEF HasController, TheLease, LeaseInv, IdentifiersAreMinted
    <3> QED
      BY <2>2, <3>1 DEF Next
  <2> QED
    BY <1>1, <2>1, <2>2 DEF Attach
<1>2. ASSUME NEW cl \in Clients, AcquireControl(cl)
      PROVE  [Next]_vars
  <2>1. (shown # {}) \in BOOLEAN
    OBVIOUS
  <2> QED
    BY <1>2, <2>1 DEF AcquireControl, Next
<1>3. ASSUME NEW cl \in Clients, RequestSnapshot(cl) \/ RenewControl(cl) \/ ReleaseControl(cl)
      PROVE  [Next]_vars
  BY <1>3 DEF RequestSnapshot, RenewControl, ReleaseControl, Next
<1>4. ASSUME NEW cl \in Clients, Breaks(cl)
      PROVE  [Next]_vars
  BY <1>4 DEF Breaks, Next, leaseVars
<1>5. ASSUME NEW e \in expiries, TimerFires(e) \/ TimerCancelled(e)
      PROVE  [Next]_vars
  BY <1>5 DEF TimerFires, TimerCancelled, Next
<1>6. CASE HostTick
  BY <1>6 DEF HostTick, Next
<1>7. ASSUME NEW cl \in Clients,
             (\E c \in Offers : CommandFrame(cl, c)) \/ TransportFails(cl) \/ SendRequest(cl)
      PROVE  UNCHANGED vars
  BY <1>7 DEF CommandFrame, TransportFails, SendRequest, leaseVars
<1>8. ASSUME NEW k \in owed, ExpirySent(k)
      PROVE  UNCHANGED vars
  BY <1>8 DEF ExpirySent, leaseVars
<1>9. CASE OwnerStep
  BY <1>9 DEF OwnerStep, HandleCommand, HandleFailClosed, HandleShutdown, HandleEvent,
              LoseRuntime, leaseVars
<1>10. CASE RuntimeStep \/ TurnStep
  BY <1>10 DEF RuntimeStep, TurnStep, RuntimeSubmits, RuntimeDecides, RuntimeInterrupts,
               RuntimeStops, RuntimeAsks, RuntimeFinishes, RuntimePanics, ObserverStalls,
               aroundRuntime, leaseVars
<1>11. CASE OtherRoot \/ StopHost \/ HostStep
  BY <1>11 DEF OtherRoot, StopHost, HostStep, JoinExecution, JoinClients, aroundHost,
               leaseVars
<1>12. CASE UNCHANGED hostVars
  BY <1>12 DEF hostVars, leaseVars
<1> QED
  BY <1>1, <1>2, <1>3, <1>4, <1>5, <1>6, <1>7, <1>8, <1>9, <1>10, <1>11, <1>12
  DEF HostNext, ConnectionStep, SendStep, TimerStep

\* Whatever happens to the leases, a controller that is over stays over: a
\* grant keeps the controller it finds or draws one that was never used.
LEMMA OverStays ==
    ASSUME LeaseInv, [Next]_vars, NEW k \in Nat, Over(k)
    PROVE  Over(k)'
<1> USE ConversationAssumption
<1>1. /\ leases \in [Conversations -> Lease \cup {NoLease}]
      /\ minted \in Nat /\ k <= minted
      /\ Held(Conversation) => leases[Conversation].controller # k
  BY DEF LeaseInv, TypeOK, Over, HasController, TheLease
<1>2. ASSUME NEW c \in Conversations, NEW cl \in Clients, NEW m,
             Grant(c, cl, m), (Held(c) /\ m = leases[c].controller) \/ m = minted + 1
      PROVE  Over(k)'
  <2>1. minted' = minted + 1
    BY <1>2 DEF Grant
  <2>2. CASE c = Conversation
    <3>1. leases'[Conversation].controller = m
      BY <1>1, <1>2, <2>2 DEF Grant
    <3> QED
      BY <1>1, <1>2, <2>1, <2>2, <3>1 DEF Over, HasController, TheLease
  <2>3. CASE c # Conversation
    <3>1. leases'[Conversation] = leases[Conversation]
      BY <1>1, <1>2, <2>3 DEF Grant
    <3> QED
      BY <1>1, <2>1, <3>1 DEF Over, HasController, TheLease, Held
  <2> QED
    BY <2>2, <2>3
<1>3. ASSUME UNCHANGED minted,
             leases'[Conversation] # NoLease =>
                /\ Held(Conversation)
                /\ leases'[Conversation].controller = leases[Conversation].controller
      PROVE  Over(k)'
  BY <1>1, <1>3 DEF Over, HasController, TheLease, Held
<1>4. ASSUME NEW c \in Conversations, NEW cl \in Clients, NEW b,
             Renew(c, cl) \/ Reconnect(c, cl, b)
                \/ \E pending \in BOOLEAN : Acquire(c, cl, pending)
      PROVE  Over(k)'
  BY <1>2, <1>4 DEF Renew, Reconnect, Acquire, IsController
<1>5. ASSUME NEW c \in Conversations, NEW cl \in Clients, Release(c, cl) \/ Observe(cl, c)
      PROVE  Over(k)'
  BY <1>1, <1>3, <1>5 DEF Release, Observe, Held
<1>6. ASSUME NEW cl \in Clients, DisconnectClient(cl)
      PROVE  Over(k)'
  <2>1. CASE Conversation \in Controlled(cl)
    <3>1. Held(Conversation) /\ leases[Conversation] \in Lease
      BY <1>1, <2>1 DEF Controlled, IsController, Held
    <3>2. leases'[Conversation].controller = leases[Conversation].controller
      BY <1>6, <2>1, <3>1 DEF DisconnectClient, Lease
    <3> QED
      BY <1>3, <1>6, <3>1, <3>2 DEF DisconnectClient
  <2>2. CASE Conversation \notin Controlled(cl)
    BY <1>1, <1>3, <1>6, <2>2 DEF DisconnectClient, Held
  <2> QED
    BY <2>1, <2>2
<1>7. ASSUME NEW e \in expiries, Expire(e)
      PROVE  Over(k)'
  <2>1. e.conversation \in Conversations
    BY DEF LeaseInv, TypeOK, ControllerExpiry
  <2> QED
    BY <1>1, <1>3, <1>7, <2>1 DEF Expire, Held
<1>8. CASE ExpireAll \/ Tick \/ (\E e \in expiries : DropExpiry(e)) \/ UNCHANGED vars
  BY <1>1, <1>3, <1>8 DEF ExpireAll, Tick, DropExpiry, vars, Held
<1> QED
  BY <1>4, <1>5, <1>6, <1>7, <1>8 DEF Next

-----------------------------------------------------------------------------
(* What the owner will learn from the observations it has yet to take.     *)

\* A queue that loses its head.
LEMMA TailFacts ==
    ASSUME NEW S, NEW s \in Seq(S), s # <<>>
    PROVE  /\ Len(s) \in Nat \ {0} /\ Head(s) = s[1] /\ s[1] \in S
           /\ Tail(s) \in Seq(S) /\ Len(Tail(s)) = Len(s) - 1
           /\ \A i \in 1 .. Len(s) - 1 : Tail(s)[i] = s[i + 1]
BY HeadTailProperties, EmptySeq

\* A queue that grows by one element, and by two.
LEMMA GrowsByOne ==
    ASSUME NEW S, NEW s \in Seq(S), NEW e \in S
    PROVE  /\ Len(s) \in Nat
           /\ s \o <<e>> \in Seq(S) /\ Len(s \o <<e>>) = Len(s) + 1
           /\ \A i \in 1 .. Len(s) : (s \o <<e>>)[i] = s[i]
           /\ (s \o <<e>>)[Len(s) + 1] = e
<1>1. <<e>> \in Seq(S) /\ Len(<<e>>) = 1 /\ <<e>>[1] = e
  OBVIOUS
<1>2. Len(s) \in Nat
  BY LenProperties
<1> QED
  BY <1>1, <1>2, ConcatProperties

LEMMA GrowsByTwo ==
    ASSUME NEW S, NEW s \in Seq(S), NEW e \in S, NEW f \in S
    PROVE  /\ Len(s) \in Nat
           /\ s \o <<e, f>> \in Seq(S) /\ Len(s \o <<e, f>>) = Len(s) + 2
           /\ \A i \in 1 .. Len(s) : (s \o <<e, f>>)[i] = s[i]
           /\ (s \o <<e, f>>)[Len(s) + 1] = e /\ (s \o <<e, f>>)[Len(s) + 2] = f
<1>1. /\ <<e, f>> \in Seq(S) /\ Len(<<e, f>>) = 2
      /\ <<e, f>>[1] = e /\ <<e, f>>[2] = f
  OBVIOUS
<1>2. Len(s) \in Nat
  BY LenProperties
<1> QED
  BY <1>1, <1>2, ConcatProperties

\* Taking an observation as NativeExecutionState::observe does keeps what the
\* owner will know.
LEMMA KnowsTail ==
    ASSUME NEW es \in Seq(Event), es # <<>>, NEW a, NEW b, NEW op,
           Knows(es, a, op),
           Head(es).type \in {"running", "suspended"} => b = Head(es).op,
           Head(es).type \notin Moves => b = a
    PROVE  Knows(Tail(es), b, op)
<1>1. PICK i \in 0 .. Len(es) :
        /\ IF i = 0 THEN a = op ELSE Names(es[i], op)
        /\ \A j \in i + 1 .. Len(es) : es[j].type \in Moves => Names(es[j], op)
  BY DEF Knows
<1>2. /\ Len(es) \in Nat \ {0} /\ Head(es) = es[1]
      /\ Len(Tail(es)) = Len(es) - 1
      /\ \A j \in 1 .. Len(es) - 1 : Tail(es)[j] = es[j + 1]
  BY TailFacts
<1>3. CASE i \in {0, 1}
  <2>1. b = op
    BY <1>1, <1>2, <1>3 DEF Names, Moves
  <2>2. \A j \in 1 .. Len(Tail(es)) : Tail(es)[j].type \in Moves => Names(Tail(es)[j], op)
    BY <1>1, <1>2, <1>3
  <2>3. 0 \in 0 .. Len(Tail(es))
    BY <1>2
  <2> QED
    BY <2>1, <2>2, <2>3 DEF Knows
<1>4. CASE i \notin {0, 1}
  <2>1. i - 1 \in 0 .. Len(Tail(es)) /\ i - 1 # 0
    BY <1>2, <1>4
  <2>2. Names(Tail(es)[i - 1], op)
    BY <1>1, <1>2, <1>4
  <2>3. \A j \in (i - 1) + 1 .. Len(Tail(es)) :
           Tail(es)[j].type \in Moves => Names(Tail(es)[j], op)
    BY <1>1, <1>2, <1>4
  <2> QED
    BY <2>1, <2>2, <2>3 DEF Knows
<1> QED
  BY <1>3, <1>4

\* An observation that does not move the active operation changes nothing,
\* and one that names op tells the owner op.
LEMMA KnowsMore ==
    ASSUME NEW es \in Seq(Event), NEW e \in Event, NEW a, NEW op,
           \/ Knows(es, a, op) /\ e.type \notin Moves
           \/ Names(e, op)
    PROVE  Knows(es \o <<e>>, a, op)
<1> DEFINE fs == es \o <<e>>
<1>1. /\ Len(es) \in Nat /\ Len(fs) = Len(es) + 1
      /\ \A i \in 1 .. Len(es) : fs[i] = es[i]
      /\ fs[Len(es) + 1] = e
  BY GrowsByOne
<1> HIDE DEF fs
<1>2. CASE Names(e, op)
  <2>1. Len(es) + 1 \in 0 .. Len(fs) /\ Len(es) + 1 # 0
    BY <1>1
  <2>2. \A j \in (Len(es) + 1) + 1 .. Len(fs) : FALSE
    BY <1>1
  <2> QED
    BY <1>1, <1>2, <2>1, <2>2 DEF Knows, fs
<1>3. CASE Knows(es, a, op) /\ e.type \notin Moves
  <2>1. PICK i \in 0 .. Len(es) :
          /\ IF i = 0 THEN a = op ELSE Names(es[i], op)
          /\ \A j \in i + 1 .. Len(es) : es[j].type \in Moves => Names(es[j], op)
    BY <1>3 DEF Knows
  <2>2. i \in 0 .. Len(fs) /\ (IF i = 0 THEN a = op ELSE Names(fs[i], op))
    BY <1>1, <2>1
  <2>3. \A j \in i + 1 .. Len(fs) : fs[j].type \in Moves => Names(fs[j], op)
    <3>1. SUFFICES ASSUME NEW j \in i + 1 .. Len(fs)
                   PROVE  fs[j].type \in Moves => Names(fs[j], op)
      OBVIOUS
    <3>2. CASE j = Len(es) + 1
      BY <1>1, <1>3, <3>2
    <3>3. CASE j # Len(es) + 1
      <4>1. j \in i + 1 .. Len(es) /\ j \in 1 .. Len(es)
        BY <1>1, <2>1, <3>3
      <4> QED
        BY <1>1, <2>1, <4>1
    <3> QED
      BY <3>2, <3>3
  <2> QED
    BY <2>2, <2>3 DEF Knows, fs
<1> QED
  BY <1>2, <1>3

\* Likewise for the approval it will find.
LEMMA FindsTail ==
    ASSUME NEW es \in Seq(Event), es # <<>>, NEW p, NEW q, NEW op \in Operations,
           Finds(es, p, op),
           op \in p /\ ~Closes(Head(es), op) => op \in q,
           Head(es) = [type |-> "requested", op |-> op] => op \in q
    PROVE  Finds(Tail(es), q, op)
<1>1. PICK i \in 0 .. Len(es) :
        /\ IF i = 0 THEN op \in p ELSE es[i] = [type |-> "requested", op |-> op]
        /\ \A j \in i + 1 .. Len(es) : ~Closes(es[j], op)
  BY DEF Finds
<1>2. /\ Len(es) \in Nat \ {0} /\ Head(es) = es[1]
      /\ Len(Tail(es)) = Len(es) - 1
      /\ \A j \in 1 .. Len(es) - 1 : Tail(es)[j] = es[j + 1]
  BY TailFacts
<1>3. CASE i \in {0, 1}
  <2>1. op \in q
    BY <1>1, <1>2, <1>3
  <2>2. \A j \in 1 .. Len(Tail(es)) : ~Closes(Tail(es)[j], op)
    BY <1>1, <1>2, <1>3
  <2>3. 0 \in 0 .. Len(Tail(es))
    BY <1>2
  <2> QED
    BY <2>1, <2>2, <2>3 DEF Finds
<1>4. CASE i \notin {0, 1}
  <2>1. i - 1 \in 0 .. Len(Tail(es)) /\ i - 1 # 0
    BY <1>2, <1>4
  <2>2. Tail(es)[i - 1] = [type |-> "requested", op |-> op]
    BY <1>1, <1>2, <1>4
  <2>3. \A j \in (i - 1) + 1 .. Len(Tail(es)) : ~Closes(Tail(es)[j], op)
    BY <1>1, <1>2, <1>4
  <2> QED
    BY <2>1, <2>2, <2>3 DEF Finds
<1> QED
  BY <1>3, <1>4

LEMMA FindsMore ==
    ASSUME NEW es \in Seq(Event), NEW e \in Event, NEW p, NEW op,
           \/ Finds(es, p, op) /\ ~Closes(e, op)
           \/ e = [type |-> "requested", op |-> op]
    PROVE  Finds(es \o <<e>>, p, op)
<1> DEFINE fs == es \o <<e>>
<1>1. /\ Len(es) \in Nat /\ Len(fs) = Len(es) + 1
      /\ \A i \in 1 .. Len(es) : fs[i] = es[i]
      /\ fs[Len(es) + 1] = e
  BY GrowsByOne
<1> HIDE DEF fs
<1>2. CASE e = [type |-> "requested", op |-> op]
  <2>1. Len(es) + 1 \in 0 .. Len(fs) /\ Len(es) + 1 # 0
    BY <1>1
  <2>2. \A j \in (Len(es) + 1) + 1 .. Len(fs) : FALSE
    BY <1>1
  <2> QED
    BY <1>1, <1>2, <2>1, <2>2 DEF Finds, fs
<1>3. CASE Finds(es, p, op) /\ ~Closes(e, op)
  <2>1. PICK i \in 0 .. Len(es) :
          /\ IF i = 0 THEN op \in p ELSE es[i] = [type |-> "requested", op |-> op]
          /\ \A j \in i + 1 .. Len(es) : ~Closes(es[j], op)
    BY <1>3 DEF Finds
  <2>2. /\ i \in 0 .. Len(fs)
        /\ IF i = 0 THEN op \in p ELSE fs[i] = [type |-> "requested", op |-> op]
    BY <1>1, <2>1
  <2>3. \A j \in i + 1 .. Len(fs) : ~Closes(fs[j], op)
    <3>1. SUFFICES ASSUME NEW j \in i + 1 .. Len(fs)
                   PROVE  ~Closes(fs[j], op)
      OBVIOUS
    <3>2. CASE j = Len(es) + 1
      BY <1>1, <1>3, <3>2
    <3>3. CASE j # Len(es) + 1
      <4>1. j \in i + 1 .. Len(es) /\ j \in 1 .. Len(es)
        BY <1>1, <2>1, <3>3
      <4> QED
        BY <1>1, <2>1, <4>1
    <3> QED
      BY <3>2, <3>3
  <2> QED
    BY <2>2, <2>3 DEF Finds, fs
<1> QED
  BY <1>2, <1>3

\* Two observations sent together arrive one after the other.
LEMMA OneByOne ==
    ASSUME NEW S, NEW s \in Seq(S), NEW e \in S, NEW f \in S
    PROVE  s \o <<e, f>> = (s \o <<e>>) \o <<f>>
<1> DEFINE t == s \o <<e, f>>
           u == s \o <<e>>
           v == u \o <<f>>
<1>1. /\ Len(s) \in Nat /\ t \in Seq(S) /\ Len(t) = Len(s) + 2
      /\ \A i \in 1 .. Len(s) : t[i] = s[i]
      /\ t[Len(s) + 1] = e /\ t[Len(s) + 2] = f
  BY GrowsByTwo
<1>2. /\ u \in Seq(S) /\ Len(u) = Len(s) + 1
      /\ \A i \in 1 .. Len(s) : u[i] = s[i]
      /\ u[Len(s) + 1] = e
  BY GrowsByOne
<1> HIDE DEF u
<1>3. /\ v \in Seq(S) /\ Len(v) = Len(u) + 1
      /\ \A i \in 1 .. Len(u) : v[i] = u[i]
      /\ v[Len(u) + 1] = f
  BY <1>2, GrowsByOne
<1> HIDE DEF t, v
<1>4. \A i \in 1 .. Len(t) : t[i] = v[i]
  BY <1>1, <1>2, <1>3
<1>5. t = v
  BY <1>1, <1>2, <1>3, <1>4, SeqEqual
<1> QED
  BY <1>5 DEF t, u, v


\* The host leases the controllable Conversation and no other.
LEMMA OthersStayFree ==
    ASSUME LeaseInv, OnlyTheConversation, [HostNext]_hostVars
    PROVE  OnlyTheConversation'
<1> SUFFICES ASSUME NEW c \in Conversations, c # Conversation
             PROVE  leases'[c] = NoLease
  BY DEF OnlyTheConversation, Held
<1> USE ConversationAssumption
<1>1. leases \in [Conversations -> Lease \cup {NoLease}] /\ leases[c] = NoLease
  BY DEF LeaseInv, TypeOK, OnlyTheConversation, Held
<1>2. ASSUME NEW cl, NEW m, Grant(Conversation, cl, m)
      PROVE  leases'[c] = NoLease
  BY <1>1, <1>2 DEF Grant
<1>3. CASE UNCHANGED vars
  BY <1>1, <1>3 DEF vars
<1>4. ASSUME NEW cl \in Clients, Attach(cl) \/ AcquireControl(cl) \/ RenewControl(cl)
      PROVE  leases'[c] = NoLease
  BY <1>2, <1>3, <1>4
  DEF Attach, AcquireControl, RenewControl, Reconnect, Acquire, Renew, leaseVars
<1>5. ASSUME NEW cl \in Clients, RequestSnapshot(cl) \/ ReleaseControl(cl)
      PROVE  leases'[c] = NoLease
  BY <1>1, <1>5 DEF RequestSnapshot, ReleaseControl, Observe, Release
<1>6. ASSUME NEW cl \in Clients, Breaks(cl)
      PROVE  leases'[c] = NoLease
  <2>1. CASE DisconnectClient(cl)
    BY <1>1, <2>1 DEF DisconnectClient, Controlled, IsController, Held
  <2> QED
    BY <1>3, <1>6, <2>1 DEF Breaks, leaseVars
<1>7. ASSUME NEW e \in expiries, TimerFires(e) \/ TimerCancelled(e)
      PROVE  leases'[c] = NoLease
  BY <1>1, <1>7 DEF TimerFires, TimerCancelled, Expire, DropExpiry
<1>8. CASE HostTick
  BY <1>1, <1>8 DEF HostTick, Tick
<1>9. ASSUME NEW cl \in Clients,
             (\E d \in Offers : CommandFrame(cl, d)) \/ TransportFails(cl) \/ SendRequest(cl)
      PROVE  UNCHANGED vars
  BY <1>9 DEF CommandFrame, TransportFails, SendRequest, leaseVars
<1>10. ASSUME NEW k \in owed, ExpirySent(k)
       PROVE  UNCHANGED vars
  BY <1>10 DEF ExpirySent, leaseVars
<1>11. CASE OwnerStep
  BY <1>3, <1>11 DEF OwnerStep, HandleCommand, HandleFailClosed, HandleShutdown,
                     HandleEvent, LoseRuntime, leaseVars
<1>12. CASE RuntimeStep \/ TurnStep
  BY <1>3, <1>12 DEF RuntimeStep, TurnStep, RuntimeSubmits, RuntimeDecides,
                     RuntimeInterrupts, RuntimeStops, RuntimeAsks, RuntimeFinishes,
                     RuntimePanics, ObserverStalls, aroundRuntime, leaseVars
<1>13. CASE OtherRoot \/ StopHost \/ HostStep
  BY <1>3, <1>13 DEF OtherRoot, StopHost, HostStep, JoinExecution, JoinClients,
                     aroundHost, leaseVars
<1>14. CASE UNCHANGED hostVars
  BY <1>3, <1>14 DEF hostVars, leaseVars
<1> QED
  BY <1>3, <1>4, <1>5, <1>6, <1>7, <1>8, <1>9, <1>10, <1>11, <1>12, <1>13, <1>14
  DEF HostNext, ConnectionStep, SendStep, TimerStep

-----------------------------------------------------------------------------
(* The host's inductive invariant: what it needs of a fail-closed request. *)

\* A request that names no controller, or one that is over.
Fits(r) == r.type = "fail_closed" => r.of \in Nat /\ Over(r.of)

\* What a request of the channel carries.
LEMMA RequestShape ==
    ASSUME NEW r \in Request
    PROVE  /\ r.type \in {"command", "fail_closed", "shutdown"}
           /\ r.type = "fail_closed" => r.of \in Nat
           /\ r.type = "command" => r.client \in Clients /\ r.command \in Command
BY DEF Request

\* What a command carries.
LEMMA CommandShape ==
    ASSUME NEW c \in RuntimeCommand
    PROVE  /\ c.type \in {"submit", "interrupt", "decide", "shutdown"}
           /\ c.type # "shutdown" => c.op \in Operations
BY DEF RuntimeCommand, Command

\* What an observation carries.
LEMMA EventShape ==
    ASSUME NEW e \in Event
    PROVE  /\ e.type \in {"running", "suspended", "requested", "audited", "finished",
                          "rejected"}
           /\ e.type # "rejected" => e.op \in Operations /\ e = [type |-> e.type, op |-> e.op]
BY DEF Event

\* In a state of the invariant every request under way fits.
LEMMA RequestsFit ==
    ASSUME ConnTypeOK, OwnerTypeOK
    PROVE  FailClosedIsOver <=>
             /\ \A k \in owed : Over(k)
             /\ \A cl \in Clients : sending[cl] # None => Fits(sending[cl])
             /\ \A i \in 1 .. Len(execQ) : Fits(execQ[i])
<1>1. \A cl \in Clients : sending[cl] # None => sending[cl] \in Request
  BY DEF ConnTypeOK
<1>2. \A i \in 1 .. Len(execQ) : execQ[i] \in Request
  BY ElementOfSeq DEF OwnerTypeOK
<1> QED
  BY <1>1, <1>2, RequestShape DEF FailClosedIsOver, Fits

\* A step keeps every request that was under way fitting, so that only what it
\* puts under way itself is to be looked at.
LEMMA FailClosedStays ==
    ASSUME HostInv, [Next]_vars, ConnTypeOK', OwnerTypeOK',
           \A k \in owed' : k \in owed \/ Over(k)',
           \A cl \in Clients :
              \/ sending'[cl] \in {sending[cl], None}
              \/ \E r : sending'[cl] = r /\ Fits(r)',
           \A i \in 1 .. Len(execQ') :
              \/ \E j \in 1 .. Len(execQ) : execQ'[i] = execQ[j]
              \/ \E cl \in Clients : sending[cl] # None /\ execQ'[i] = sending[cl]
              \/ \E r : execQ'[i] = r /\ Fits(r)'
    PROVE  FailClosedIsOver'
<1>1. /\ LeaseInv /\ owed \subseteq Nat
      /\ \A k \in owed : Over(k)
      /\ \A cl \in Clients : sending[cl] # None => Fits(sending[cl])
      /\ \A i \in 1 .. Len(execQ) : Fits(execQ[i])
  BY RequestsFit DEF HostInv, HostTypeOK, ConnTypeOK
<1>2. \A k \in Nat : Over(k) => Over(k)'
  BY <1>1, OverStays
<1>3. ASSUME NEW r, Fits(r)
      PROVE  Fits(r)'
  BY <1>2, <1>3 DEF Fits
<1>4. \A k \in owed' : Over(k)'
  BY <1>1, <1>2
<1>5. ASSUME NEW cl \in Clients, sending'[cl] # None
      PROVE  \E r : sending'[cl] = r /\ Fits(r)'
  BY <1>1, <1>3, <1>5
<1>6. ASSUME NEW i \in 1 .. Len(execQ')
      PROVE  \E r : execQ'[i] = r /\ Fits(r)'
  BY <1>1, <1>3, <1>6
<1>7. ASSUME NEW cl \in Clients, sending'[cl] # None
      PROVE  Fits(sending[cl])'
  BY <1>5, <1>7 DEF Fits
<1>8. ASSUME NEW i \in 1 .. Len(execQ')
      PROVE  Fits(execQ[i])'
  BY <1>6, <1>8 DEF Fits
<1> QED
  BY <1>4, <1>7, <1>8 DEF FailClosedIsOver, Fits

-----------------------------------------------------------------------------
(* The host's inductive invariant: the steps in front of the hub.          *)

\* The initial state satisfies it.
LEMMA InitHostInv == HostInit => HostInv
<1> SUFFICES ASSUME HostInit PROVE HostInv
  OBVIOUS
<1> USE DEF HostInit
<1>1. LeaseInv /\ TypeOK
  BY InitLeaseInv DEF LeaseInv
<1>2. OnlyTheConversation
  BY DEF OnlyTheConversation, Held, Init
<1>3. ConnTypeOK
  BY BoundsAssumption DEF ConnTypeOK
<1>4. OwnerTypeOK /\ RuntimeTypeOK /\ HubTypeOK
  BY EmptySeq DEF OwnerTypeOK, RuntimeTypeOK, HubTypeOK
<1>5. IsFiniteSet(pendingRoot)
  BY FS_EmptySet
<1>6. WorkHasOperation /\ OwnerCatchesUp /\ AsksOnce
  BY EmptySeq DEF WorkHasOperation, OwnerCatchesUp, Works, AsksOnce
<1>7. FailClosedIsOver
  BY EmptySeq DEF FailClosedIsOver
<1> QED
  BY <1>1, <1>2, <1>3, <1>4, <1>5, <1>6, <1>7 DEF HostInv, HostTypeOK

\* A step that leaves everything behind the hub alone.
LEMMA FrontStep ==
    ASSUME HostInv, [Next]_vars, OnlyTheConversation', UNCHANGED behindTheHub, ConnTypeOK',
           \A k \in owed' : k \in owed \/ Over(k)',
           \A cl \in Clients :
              \/ sending'[cl] \in {sending[cl], None}
              \/ \E r : sending'[cl] = r /\ Fits(r)'
    PROVE  HostInv'
<1>1. LeaseInv' /\ TypeOK'
  BY NextLeaseInv DEF HostInv, LeaseInv
<1>2. OwnerTypeOK' /\ RuntimeTypeOK' /\ HubTypeOK'
  BY DEF HostInv, HostTypeOK, behindTheHub, ownerVars, runtimeVars, hubVars, worldVars,
         OwnerTypeOK, RuntimeTypeOK, HubTypeOK
<1>3. WorkHasOperation' /\ OwnerCatchesUp' /\ AsksOnce' /\ IsFiniteSet(pendingRoot)'
  BY DEF HostInv, behindTheHub, ownerVars, runtimeVars, hubVars, WorkHasOperation,
         OwnerCatchesUp, Works, AsksOnce
<1>4. FailClosedIsOver'
  BY <1>2, FailClosedStays DEF behindTheHub
<1> QED
  BY <1>1, <1>2, <1>3, <1>4 DEF HostInv, HostTypeOK

\* Frames that only look at or move the lease, and the end of a connection.
LEMMA ConnectionMoves ==
    ASSUME HostInv, [Next]_vars, OnlyTheConversation', NEW cl \in Clients,
           \/ Attach(cl) \/ RequestSnapshot(cl) \/ AcquireControl(cl) \/ RenewControl(cl)
           \/ Breaks(cl) \/ TransportFails(cl)
    PROVE  HostInv'
<1>1. UNCHANGED <<sending, waiting, owed, sent, submitted, behindTheHub>>
  BY DEF Attach, RequestSnapshot, AcquireControl, RenewControl, Breaks, TransportFails, connVars
<1>2. /\ conn' = conn \/ \E s \in {"open", "gone"} : conn' = [conn EXCEPT ![cl] = s]
      /\ role' = role \/ \E s \in {"observer", "controller"} : role' = [role EXCEPT ![cl] = s]
  BY DEF Attach, RequestSnapshot, AcquireControl, RenewControl, Breaks, TransportFails, connVars
<1>3. ConnTypeOK'
  BY <1>1, <1>2 DEF HostInv, HostTypeOK, ConnTypeOK
<1> QED
  BY <1>1, <1>3, FrontStep

\* ReleaseControl: the fail-closed request names the lease that ends here.
LEMMA ReleaseEnds ==
    ASSUME HostInv, [Next]_vars, OnlyTheConversation', NEW cl \in Clients, ReleaseControl(cl)
    PROVE  HostInv'
<1> USE ConversationAssumption
<1>1. PICK k : k = TheLease.controller
  OBVIOUS
<1>2. /\ leases \in [Conversations -> Lease \cup {NoLease}] /\ Held(Conversation)
      /\ UNCHANGED <<minted, conn, waiting, owed, sent, submitted, behindTheHub>>
      /\ leases' = [leases EXCEPT ![Conversation] = NoLease]
      /\ role' = [role EXCEPT ![cl] = "observer"]
      /\ sending' = [sending EXCEPT ![cl] = FailClosed(k)]
  BY <1>1 DEF ReleaseControl, Release, HostInv, HostTypeOK, TypeOK
<1>3. k \in Nat /\ k <= minted
  BY <1>1, <1>2 DEF TheLease, HostInv, LeaseInv, IdentifiersAreMinted, TypeOK
<1>4. Over(k)'
  BY <1>2, <1>3 DEF Over, HasController, Held
<1>5. FailClosed(k) \in Request /\ FailClosed(k).type = "fail_closed" /\ FailClosed(k).of = k
  BY <1>3 DEF FailClosed, Request
<1>6. Fits(FailClosed(k))'
  BY <1>3, <1>4 DEF Fits, FailClosed
<1>7. ConnTypeOK'
  BY <1>2, <1>5 DEF HostInv, HostTypeOK, ConnTypeOK
<1>8. \A d \in Clients : sending'[d] = sending[d] \/ sending'[d] = FailClosed(k)
  BY <1>2 DEF HostInv, HostTypeOK, ConnTypeOK
<1>9. \A d \in Clients :
         \/ sending'[d] \in {sending[d], None}
         \/ \E r : sending'[d] = r /\ Fits(r)'
  BY <1>6, <1>8 DEF FailClosed
<1> QED
  BY <1>2, <1>7, <1>9, FrontStep

\* A command is no fail-closed request.
LEMMA CommandIsFramed ==
    ASSUME HostInv, [Next]_vars, OnlyTheConversation', NEW cl \in Clients,
           NEW c \in Offers, CommandFrame(cl, c)
    PROVE  HostInv'
<1>1. c \in Command /\ c.type \in {"submit", "interrupt", "decide"} /\ c.op \in Operations
  BY DEF Offers, Command, HostInv, HostTypeOK, HubTypeOK, ConnTypeOK
<1> DEFINE q == [type |-> "command", client |-> cl, command |-> c]
<1>2. q \in Request /\ q.type = "command"
  BY <1>1 DEF Request
<1>3. /\ sending' = [sending EXCEPT ![cl] = q] /\ sent < MaxSent /\ sent' = sent + 1
      /\ submitted' = submitted \cup IF c.type = "submit" THEN {c.op} ELSE {}
      /\ UNCHANGED <<conn, role, waiting, owed, behindTheHub>>
  BY DEF CommandFrame
<1>4. Fits(q)'
  BY <1>2 DEF Fits
<1> HIDE DEF q
<1>5. ConnTypeOK'
  BY <1>1, <1>2, <1>3, BoundsAssumption DEF HostInv, HostTypeOK, ConnTypeOK
<1>6. \A d \in Clients : sending'[d] = sending[d] \/ sending'[d] = q
  BY <1>3 DEF HostInv, HostTypeOK, ConnTypeOK
<1>7. \A d \in Clients :
         \/ sending'[d] \in {sending[d], None}
         \/ \E r : sending'[d] = r /\ Fits(r)'
  BY <1>4, <1>6 DEF q
<1> QED
  BY <1>3, <1>5, <1>7, FrontStep

\* A grace task owes a fail-closed request only for the lease its token ended.
LEMMA TimerMoves ==
    ASSUME HostInv, [Next]_vars, OnlyTheConversation', NEW e \in expiries,
           TimerFires(e) \/ TimerCancelled(e)
    PROVE  HostInv'
<1> USE ConversationAssumption
<1>1. UNCHANGED <<conn, role, sending, waiting, sent, submitted, behindTheHub>>
  BY DEF TimerFires, TimerCancelled, connVars
<1>2. CASE owed' = owed
  <2>1. ConnTypeOK'
    BY <1>1, <1>2 DEF HostInv, HostTypeOK, ConnTypeOK
  <2> QED
    BY <1>1, <1>2, <2>1, FrontStep
<1>3. CASE Expires(e) /\ Expire(e) /\ owed' = owed \cup {TheLease.controller}
  <2>1. e.conversation = Conversation
    BY <1>3 DEF Expires, HostInv, OnlyTheConversation, LeaseInv, TypeOK, ControllerExpiry
  <2>2. PICK k : k = TheLease.controller
    OBVIOUS
  <2>3. /\ leases \in [Conversations -> Lease \cup {NoLease}] /\ Held(Conversation)
        /\ leases' = [leases EXCEPT ![Conversation] = NoLease] /\ minted' = minted
    BY <1>3, <2>1 DEF Expires, Expire, HostInv, HostTypeOK, TypeOK
  <2>4. k \in Nat /\ k <= minted
    BY <2>2, <2>3 DEF TheLease, HostInv, LeaseInv, IdentifiersAreMinted, TypeOK
  <2>5. Over(k)'
    BY <2>3, <2>4 DEF Over, HasController, Held
  <2>6. ConnTypeOK'
    BY <1>1, <1>3, <2>2, <2>4 DEF HostInv, HostTypeOK, ConnTypeOK
  <2> QED
    BY <1>1, <1>3, <2>2, <2>5, <2>6, FrontStep
<1> QED
  BY <1>2, <1>3 DEF TimerFires, TimerCancelled, Owes, connVars

\* The clock moves nothing but itself.
LEMMA ClockMoves ==
    ASSUME HostInv, [Next]_vars, OnlyTheConversation', HostTick
    PROVE  HostInv'
<1>1. UNCHANGED <<connVars, behindTheHub>>
  BY DEF HostTick
<1>2. ConnTypeOK'
  BY <1>1 DEF connVars, HostInv, HostTypeOK, ConnTypeOK
<1> QED
  BY <1>1, <1>2, FrontStep DEF connVars

-----------------------------------------------------------------------------
(* The host's inductive invariant: the request channel and the server.     *)

\* A step that leaves the owner, the runtime and the hub's snapshot alone.
LEMMA ChannelStep ==
    ASSUME HostInv, [Next]_vars, OnlyTheConversation',
           UNCHANGED <<ownerVars, runtimeVars, hubVars>>,
           ConnTypeOK', HubTypeOK', execQ' \in Seq(Request),
           \A k \in owed' : k \in owed \/ Over(k)',
           \A cl \in Clients : sending'[cl] \in {sending[cl], None},
           \A i \in 1 .. Len(execQ') :
              \/ \E j \in 1 .. Len(execQ) : execQ'[i] = execQ[j]
              \/ \E cl \in Clients : sending[cl] # None /\ execQ'[i] = sending[cl]
              \/ \E r : execQ'[i] = r /\ Fits(r)'
    PROVE  HostInv'
<1>1. LeaseInv' /\ TypeOK'
  BY NextLeaseInv DEF HostInv, LeaseInv
<1>2. OwnerTypeOK' /\ RuntimeTypeOK'
  BY DEF HostInv, HostTypeOK, ownerVars, runtimeVars, OwnerTypeOK, RuntimeTypeOK
<1>3. WorkHasOperation' /\ OwnerCatchesUp' /\ AsksOnce' /\ IsFiniteSet(pendingRoot)'
  BY DEF HostInv, ownerVars, runtimeVars, hubVars, WorkHasOperation,
         OwnerCatchesUp, Works, AsksOnce
<1>4. FailClosedIsOver'
  BY <1>2, FailClosedStays
<1> QED
  BY <1>1, <1>2, <1>3, <1>4 DEF HostInv, HostTypeOK

\* The request a connection task sends was fitting in its hands.
LEMMA SendMoves ==
    ASSUME HostInv, [Next]_vars, OnlyTheConversation', NEW cl \in Clients, SendRequest(cl)
    PROVE  HostInv'
<1>1. /\ sending[cl] # None /\ sending' = [sending EXCEPT ![cl] = None]
      /\ UNCHANGED <<conn, role, owed, sent, submitted, ownerVars, runtimeVars, hubVars,
                     worldVars>>
      /\ waiting' = waiting \/ waiting' = waiting \cup {cl}
      /\ execQ' = execQ \/ execQ' = Append(execQ, sending[cl])
  BY DEF SendRequest
<1>2. sending[cl] \in Request /\ execQ \in Seq(Request)
  BY <1>1 DEF HostInv, HostTypeOK, ConnTypeOK, OwnerTypeOK
<1>3. ConnTypeOK' /\ HubTypeOK' /\ \A d \in Clients : sending'[d] \in {sending[d], None}
  BY <1>1 DEF HostInv, HostTypeOK, ConnTypeOK, HubTypeOK, worldVars, hubVars
<1>4. /\ execQ' \in Seq(Request)
      /\ \A i \in 1 .. Len(execQ') :
            \/ \E j \in 1 .. Len(execQ) : execQ'[i] = execQ[j]
            \/ execQ'[i] = sending[cl]
  BY <1>1, <1>2
<1> QED
  BY <1>1, <1>3, <1>4, ChannelStep

\* So was the one a grace task owes.
LEMMA ExpiryMoves ==
    ASSUME HostInv, [Next]_vars, OnlyTheConversation', NEW k \in owed, ExpirySent(k)
    PROVE  HostInv'
<1>1. /\ owed' = owed \ {k}
      /\ UNCHANGED <<leaseVars, conn, role, sending, waiting, sent, submitted, ownerVars,
                     runtimeVars, hubVars, worldVars>>
      /\ execQ' = execQ \/ execQ' = Append(execQ, FailClosed(k))
  BY DEF ExpirySent
<1>2. execQ \in Seq(Request) /\ k \in Nat /\ Over(k)
  BY DEF HostInv, HostTypeOK, ConnTypeOK, OwnerTypeOK, FailClosedIsOver
<1>3. FailClosed(k) \in Request
  BY <1>2 DEF FailClosed, Request
<1>4. Fits(FailClosed(k))'
  <2>1. Over(k)'
    BY <1>2, OverStays DEF HostInv
  <2> QED
    BY <1>2, <2>1 DEF Fits, FailClosed
<1>5. ConnTypeOK' /\ HubTypeOK'
  BY <1>1 DEF HostInv, HostTypeOK, ConnTypeOK, HubTypeOK, worldVars, hubVars
<1>6. /\ execQ' \in Seq(Request)
      /\ \A i \in 1 .. Len(execQ') :
            \/ \E j \in 1 .. Len(execQ) : execQ'[i] = execQ[j]
            \/ execQ'[i] = FailClosed(k)
  BY <1>1, <1>2, <1>3
<1>7. \A i \in 1 .. Len(execQ') :
         \/ \E j \in 1 .. Len(execQ) : execQ'[i] = execQ[j]
         \/ \E r : execQ'[i] = r /\ Fits(r)'
  BY <1>4, <1>6 DEF FailClosed
<1> QED
  BY <1>1, <1>5, <1>6, <1>7, ChannelStep

\* The server's own fail-closed request names no controller: a controller's
\* number is never zero.
LEMMA StopMoves ==
    ASSUME HostInv, [Next]_vars, OnlyTheConversation', StopHost
    PROVE  HostInv'
<1> DEFINE a == FailClosed(ByHost)
           b == [type |-> "shutdown"]
<1>1. /\ UNCHANGED <<leaseVars, runtimeVars, hubVars, otherRoot, connVars, ownerVars>>
      /\ host' = "closing"
      /\ execQ' = execQ \/ execQ' = execQ \o <<a, b>>
  BY DEF StopHost, aroundHost
<1>2. a \in Request /\ b \in Request /\ execQ \in Seq(Request)
  BY DEF FailClosed, ByHost, Request, HostInv, HostTypeOK, OwnerTypeOK
<1>3. Over(0)
  BY ConversationAssumption
  DEF Over, HasController, TheLease, HostInv, LeaseInv, IdentifiersAreMinted, TypeOK
<1>4. Fits(a)' /\ Fits(b)'
  <2>1. Over(0)'
    BY <1>3, OverStays DEF HostInv
  <2> QED
    BY <2>1 DEF Fits, FailClosed, ByHost
<1>5. ConnTypeOK' /\ HubTypeOK'
  BY <1>1 DEF HostInv, HostTypeOK, ConnTypeOK, HubTypeOK, connVars, hubVars
<1> HIDE DEF a, b
<1>6. /\ execQ' \in Seq(Request)
      /\ \A i \in 1 .. Len(execQ') :
            \/ \E j \in 1 .. Len(execQ) : execQ'[i] = execQ[j]
            \/ execQ'[i] = a \/ execQ'[i] = b
  <2>1. CASE execQ' = execQ
    BY <1>2, <2>1
  <2>2. CASE execQ' = execQ \o <<a, b>>
    <3>1. /\ Len(execQ) \in Nat
          /\ execQ' \in Seq(Request) /\ Len(execQ') = Len(execQ) + 2
          /\ \A i \in 1 .. Len(execQ) : execQ'[i] = execQ[i]
          /\ execQ'[Len(execQ) + 1] = a /\ execQ'[Len(execQ) + 2] = b
      BY <1>2, <2>2, GrowsByTwo
    <3>2. \A i \in 1 .. Len(execQ') :
             i \in 1 .. Len(execQ) \/ i = Len(execQ) + 1 \/ i = Len(execQ) + 2
      BY <3>1
    <3> QED
      BY <3>1, <3>2
  <2> QED
    BY <1>1, <2>1, <2>2
<1>7. \A i \in 1 .. Len(execQ') :
         \/ \E j \in 1 .. Len(execQ) : execQ'[i] = execQ[j]
         \/ \E r : execQ'[i] = r /\ Fits(r)'
  BY <1>4, <1>6 DEF a, b, FailClosed, ByHost
<1> QED
  BY <1>1, <1>5, <1>6, <1>7, ChannelStep DEF connVars

\* Another process, and the connections that host shutdown ends.
LEMMA WorldMoves ==
    ASSUME HostInv, [Next]_vars, OnlyTheConversation', OtherRoot \/ JoinClients
    PROVE  HostInv'
<1>1. /\ UNCHANGED <<role, waiting, owed, sent, submitted, execQ, ownerVars, runtimeVars,
                     hubVars>>
      /\ \/ otherRoot' = ~otherRoot /\ UNCHANGED <<host, conn, sending>>
         \/ /\ host' = "stopped" /\ UNCHANGED otherRoot
            /\ conn' = [cl \in Clients |-> IF conn[cl] = "open" THEN "gone" ELSE conn[cl]]
            /\ sending' = [cl \in Clients |-> None]
  BY DEF OtherRoot, JoinClients, aroundHost, connVars
<1>2. ConnTypeOK'
  BY <1>1 DEF HostInv, HostTypeOK, ConnTypeOK
<1>3. HubTypeOK'
  BY <1>1 DEF HostInv, HostTypeOK, HubTypeOK, hubVars
<1>4. execQ' \in Seq(Request)
  BY <1>1 DEF HostInv, HostTypeOK, OwnerTypeOK
<1>5. \A cl \in Clients : sending'[cl] \in {sending[cl], None}
  BY <1>1
<1> QED
  BY <1>1, <1>2, <1>3, <1>4, <1>5, ChannelStep

-----------------------------------------------------------------------------
(* The host's inductive invariant: the execution owner.                    *)

\* An answer that is queued stays queued behind what is added.
LEMMA AnsweredGrows ==
    ASSUME NEW q \in Seq(RuntimeCommand), NEW t \in Seq(RuntimeCommand), NEW op,
           Answered(q, op) \/ Answered(t, op)
    PROVE  Answered(q \o t, op)
<1>1. /\ Len(q) \in Nat /\ Len(t) \in Nat /\ Len(q \o t) = Len(q) + Len(t)
      /\ \A i \in 1 .. Len(q) + Len(t) :
            (q \o t)[i] = IF i <= Len(q) THEN q[i] ELSE t[i - Len(q)]
  BY ConcatProperties, LenProperties
<1>2. CASE Answered(q, op)
  <2>1. PICK i \in 1 .. Len(q) : q[i].type = "decide" /\ q[i].op = op
    BY <1>2 DEF Answered
  <2>2. i \in 1 .. Len(q) + Len(t) /\ (q \o t)[i] = q[i]
    BY <1>1, <2>1
  <2> QED
    BY <1>1, <2>1, <2>2 DEF Answered
<1>3. CASE Answered(t, op)
  <2>1. PICK i \in 1 .. Len(t) : t[i].type = "decide" /\ t[i].op = op
    BY <1>3 DEF Answered
  <2>2. i + Len(q) \in 1 .. Len(q) + Len(t) /\ (q \o t)[i + Len(q)] = t[i]
    BY <1>1, <2>1
  <2> QED
    BY <1>1, <2>1, <2>2 DEF Answered
<1> QED
  BY <1>2, <1>3

\* It is still queued when another command is taken.
LEMMA AnsweredTail ==
    ASSUME NEW q \in Seq(RuntimeCommand), q # <<>>, NEW op, Answered(q, op),
           ~(Head(q).type = "decide" /\ Head(q).op = op)
    PROVE  Answered(Tail(q), op)
<1>1. /\ Len(q) \in Nat \ {0} /\ Head(q) = q[1] /\ Len(Tail(q)) = Len(q) - 1
      /\ \A i \in 1 .. Len(q) - 1 : Tail(q)[i] = q[i + 1]
  BY TailFacts
<1>2. PICK i \in 1 .. Len(q) : q[i].type = "decide" /\ q[i].op = op
  BY DEF Answered
<1>3. i - 1 \in 1 .. Len(Tail(q)) /\ Tail(q)[i - 1] = q[i]
  BY <1>1, <1>2
<1> QED
  BY <1>2, <1>3 DEF Answered

\* fail_closed_native queues an answer for everything that is pending.
LEMMA DeniesPending ==
    ASSUME OwnerTypeOK, RuntimeTypeOK, IsFiniteSet(pendingRoot),
           NEW more \in Seq(RuntimeCommand), FailsClosed(more)
    PROVE  /\ rtQ' \in Seq(RuntimeCommand) /\ pendingRoot' = {} /\ rootLease' = FALSE
           /\ \A op : Answered(rtQ, op) \/ op \in pendingRoot => Answered(rtQ', op)
<1> DEFINE n == Cardinality(pendingRoot)
           stops == IF activeOp = None THEN <<>>
                    ELSE <<[type |-> "interrupt", op |-> activeOp]>>
<1>1. n \in Nat
  BY FS_CardinalityType
<1> HIDE DEF n
<1>2. PICK order \in Bijection(1 .. n, pendingRoot) :
        rtQ' = rtQ
               \o [i \in DOMAIN order |-> [type |-> "decide", op |-> order[i],
                                           allow |-> FALSE]]
               \o stops \o more
  BY DEF FailsClosed, n
<1>3. /\ order \in [1 .. n -> pendingRoot] /\ DOMAIN order = 1 .. n
      /\ \A op \in pendingRoot : \E i \in 1 .. n : order[i] = op
  BY DEF Bijection, Injection, Surjection
<1> DEFINE denies == [i \in 1 .. n |-> [type |-> "decide", op |-> order[i], allow |-> FALSE]]
<1>4. \A i \in 1 .. n : denies[i] \in RuntimeCommand
  BY <1>3 DEF RuntimeCommand, Command, OwnerTypeOK
<1>5. denies \in Seq(RuntimeCommand) /\ Len(denies) = n
  BY <1>1, <1>4
<1>6. \A op \in pendingRoot : Answered(denies, op)
  <2> SUFFICES ASSUME NEW op \in pendingRoot PROVE Answered(denies, op)
    OBVIOUS
  <2>1. PICK i \in 1 .. n : order[i] = op
    BY <1>3
  <2>2. denies[i].type = "decide" /\ denies[i].op = op
    BY <2>1
  <2> QED
    BY <1>5, <2>1, <2>2 DEF Answered
<1>7. stops \in Seq(RuntimeCommand)
  <2>1. activeOp # None => [type |-> "interrupt", op |-> activeOp] \in RuntimeCommand
    BY DEF RuntimeCommand, Command, OwnerTypeOK
  <2> QED
    BY <2>1, EmptySeq
<1>8. rtQ' = rtQ \o denies \o stops \o more
  BY <1>2, <1>3
<1>9. rtQ \in Seq(RuntimeCommand)
  BY DEF RuntimeTypeOK
<1> HIDE DEF denies, stops
<1>10. /\ rtQ \o denies \in Seq(RuntimeCommand)
       /\ \A op : Answered(rtQ, op) \/ op \in pendingRoot => Answered(rtQ \o denies, op)
  BY <1>5, <1>6, <1>9, ConcatProperties, AnsweredGrows
<1>11. /\ rtQ \o denies \o stops \in Seq(RuntimeCommand)
       /\ \A op : Answered(rtQ \o denies, op) => Answered(rtQ \o denies \o stops, op)
  BY <1>7, <1>10, ConcatProperties, AnsweredGrows
<1>12. /\ rtQ \o denies \o stops \o more \in Seq(RuntimeCommand)
       /\ \A op : Answered(rtQ \o denies \o stops, op)
                    => Answered(rtQ \o denies \o stops \o more, op)
  BY <1>11, ConcatProperties, AnsweredGrows
<1>13. pendingRoot' = {} /\ rootLease' = FALSE
  BY DEF FailsClosed
<1> QED
  BY <1>8, <1>10, <1>11, <1>12, <1>13

\* A step behind the channel, which may take requests from it.
LEMMA BackStep ==
    ASSUME HostInv, UNCHANGED <<vars, conn, role, sending, owed, sent, submitted>>,
           waiting' \in SUBSET Clients, OwnerTypeOK', RuntimeTypeOK', HubTypeOK',
           IsFiniteSet(pendingRoot'), WorkHasOperation', OwnerCatchesUp', AsksOnce',
           execQ' = execQ \/ execQ' = <<>> \/ (execQ # <<>> /\ execQ' = Tail(execQ))
    PROVE  HostInv'
<1>1. LeaseInv' /\ TypeOK'
  BY NextLeaseInv DEF HostInv, LeaseInv
<1>2. OnlyTheConversation'
  BY DEF HostInv, OnlyTheConversation, Held, vars
<1>3. ConnTypeOK'
  BY DEF HostInv, HostTypeOK, ConnTypeOK
<1>4. \A i \in 1 .. Len(execQ') : \E j \in 1 .. Len(execQ) : execQ'[i] = execQ[j]
  <2>1. execQ \in Seq(Request)
    BY DEF HostInv, HostTypeOK, OwnerTypeOK
  <2>2. CASE execQ # <<>> /\ execQ' = Tail(execQ)
    <3>1. /\ Len(execQ) \in Nat \ {0} /\ Len(execQ') = Len(execQ) - 1
          /\ \A i \in 1 .. Len(execQ) - 1 : execQ'[i] = execQ[i + 1]
      BY <2>1, <2>2, TailFacts
    <3>2. \A i \in 1 .. Len(execQ') : i + 1 \in 1 .. Len(execQ)
      BY <3>1
    <3> QED
      BY <3>1, <3>2
  <2>3. CASE execQ' = <<>>
    BY <2>3
  <2> QED
    BY <2>2, <2>3
<1>5. FailClosedIsOver'
  BY <1>3, <1>4, FailClosedStays DEF vars
<1> QED
  BY <1>1, <1>2, <1>3, <1>5 DEF HostInv, HostTypeOK

\* What the head of the request channel is.
LEMMA RequestTaken ==
    ASSUME OwnerTypeOK, execQ # <<>>
    PROVE  Head(execQ) \in Request /\ Tail(execQ) \in Seq(Request)
BY HeadTailProperties DEF OwnerTypeOK

\* execute_native_command adds to the runtime's queue at most.
LEMMA CommandMoves == ASSUME HostInv, HandleCommand PROVE HostInv'
<1>1. OwnerTypeOK /\ RuntimeTypeOK /\ ConnTypeOK /\ execQ # <<>> /\ Head(execQ).type = "command"
  BY DEF HostInv, HostTypeOK, HandleCommand, NextRequest
<1>2. PICK r \in Request : r = Head(execQ) /\ r.type = "command"
  BY <1>1, RequestTaken
<1>3. r.command \in RuntimeCommand
  BY <1>2, RequestShape DEF RuntimeCommand
<1>4. /\ execQ' = Tail(execQ) /\ (waiting' = waiting \ {r.client} \/ waiting' = waiting)
      /\ rtQ' = rtQ \/ rtQ' = Append(rtQ, r.command)
      /\ rootLease' = rootLease \/ rootLease' \in BOOLEAN
      /\ UNCHANGED <<vars, conn, role, sending, owed, sent, submitted, execution, activeOp,
                     pendingRoot, rt, asked, events, stream, hubVars, worldVars>>
  BY <1>2 DEF HandleCommand, NextRequest, leaseVars
<1>5. OwnerTypeOK' /\ waiting' \in SUBSET Clients
  BY <1>1, <1>4, RequestTaken DEF OwnerTypeOK, ConnTypeOK
<1>6. RuntimeTypeOK' /\ HubTypeOK'
  <2>1. rtQ' \in Seq(RuntimeCommand)
    BY <1>1, <1>3, <1>4 DEF RuntimeTypeOK
  <2> QED
    BY <1>1, <1>4, <2>1
    DEF RuntimeTypeOK, HostInv, HostTypeOK, HubTypeOK, hubVars, worldVars
<1>7. ASSUME NEW op, Answered(rtQ, op)
      PROVE  Answered(rtQ, op)'
  <2>1. PICK i \in 1 .. Len(rtQ) : rtQ[i].type = "decide" /\ rtQ[i].op = op
    BY <1>7 DEF Answered
  <2>2. i \in 1 .. Len(rtQ') /\ rtQ'[i] = rtQ[i]
    BY <1>1, <1>3, <1>4, <2>1 DEF RuntimeTypeOK
  <2> QED
    BY <2>1, <2>2 DEF Answered
<1>8. WorkHasOperation' /\ AsksOnce' /\ IsFiniteSet(pendingRoot')
  BY <1>4 DEF HostInv, WorkHasOperation, AsksOnce, hubVars
<1>9. OwnerCatchesUp'
  BY <1>4, <1>7 DEF HostInv, OwnerCatchesUp, Works
<1> QED
  BY <1>1, <1>4, <1>5, <1>6, <1>8, <1>9, BackStep

\* An approval on its way does not depend on what is pending.
LEMMA FoundOrPending ==
    ASSUME NEW es, NEW p, NEW op, Finds(es, p, op)
    PROVE  op \in p \/ Finds(es, {}, op)
BY DEF Finds

\* fail_closed_native: what was pending is answered, the rest is on its way.
LEMMA FailClosedMoves == ASSUME HostInv, HandleFailClosed PROVE HostInv'
<1>1. /\ OwnerTypeOK /\ RuntimeTypeOK /\ ConnTypeOK /\ IsFiniteSet(pendingRoot)
      /\ execQ # <<>> /\ execQ' = Tail(execQ)
      /\ FailsClosed(<<>>)
      /\ UNCHANGED <<vars, connVars, execution, activeOp, rt, asked, events, stream, hubVars,
                     worldVars>>
  BY DEF HostInv, HostTypeOK, HandleFailClosed, NextRequest, leaseVars
<1>2. /\ rtQ' \in Seq(RuntimeCommand) /\ pendingRoot' = {} /\ rootLease' = FALSE
      /\ \A op : Answered(rtQ, op) \/ op \in pendingRoot => Answered(rtQ', op)
  BY <1>1, EmptySeq, DeniesPending
<1>3. OwnerTypeOK' /\ waiting' \in SUBSET Clients
  BY <1>1, <1>2, RequestTaken DEF OwnerTypeOK, ConnTypeOK, connVars
<1>4. RuntimeTypeOK' /\ HubTypeOK'
  BY <1>1, <1>2 DEF RuntimeTypeOK, HostInv, HostTypeOK, HubTypeOK, hubVars, worldVars
<1>5. WorkHasOperation' /\ AsksOnce'
  BY <1>1 DEF HostInv, WorkHasOperation, AsksOnce, hubVars
<1>6. IsFiniteSet(pendingRoot')
  BY <1>2, FS_EmptySet
<1>7. OwnerCatchesUp'
  <2>1. ASSUME NEW op, Answered(rtQ, op) \/ Finds(events, pendingRoot, op)
        PROVE  Answered(rtQ', op) \/ Finds(events, pendingRoot', op)
    BY <1>2, <2>1, FoundOrPending
  <2> QED
    BY <1>1, <2>1 DEF HostInv, OwnerCatchesUp, Works
<1> QED
  BY <1>1, <1>2, <1>3, <1>4, <1>5, <1>6, <1>7, BackStep DEF connVars

\* An owner that is gone has nothing to know.
LEMMA OwnerEnds ==
    ASSUME HostInv, HandleShutdown \/ LoseRuntime \/ JoinExecution
    PROVE  HostInv'
<1>1. /\ OwnerTypeOK /\ RuntimeTypeOK /\ ConnTypeOK /\ IsFiniteSet(pendingRoot)
      /\ HubTypeOK
  BY DEF HostInv, HostTypeOK
<1>2. UNCHANGED <<vars, conn, role, sending, owed, sent, submitted, activeOp, rt, asked,
                  events, stream, hubVars, otherRoot>>
  BY DEF HandleShutdown, LoseRuntime, JoinExecution, aroundHost, leaseVars, ownerVars,
         runtimeVars, worldVars
<1>3. /\ rtQ' \in Seq(RuntimeCommand)
      /\ pendingRoot' = pendingRoot \/ pendingRoot' = {}
  <2>1. CASE HandleShutdown
    <3>1. <<[type |-> "shutdown"]>> \in Seq(RuntimeCommand)
      BY DEF RuntimeCommand
    <3> QED
      BY <1>1, <2>1, <3>1, DeniesPending DEF HandleShutdown
  <2>2. CASE LoseRuntime \/ JoinExecution
    BY <1>1, <2>2 DEF LoseRuntime, JoinExecution, aroundHost, runtimeVars, ownerVars,
                      RuntimeTypeOK
  <2> QED
    BY <2>1, <2>2
<1>4. \/ OwnerStops
      \/ execution = "down" /\ UNCHANGED <<execQ, waiting, ownerVars>>
  BY DEF HandleShutdown, LoseRuntime, JoinExecution
<1>5. host' = host \/ host' = "joining"
  BY DEF HandleShutdown, LoseRuntime, JoinExecution, worldVars
<1>6. /\ execution' = "down" /\ waiting' \in SUBSET Clients
      /\ execQ' = execQ \/ execQ' = <<>>
      /\ execQ' \in Seq(Request)
  BY <1>1, <1>4, EmptySeq DEF OwnerStops, ownerVars, OwnerTypeOK, ConnTypeOK
<1>7. OwnerTypeOK'
  BY <1>1, <1>2, <1>3, <1>4, <1>6 DEF OwnerTypeOK, OwnerStops, ownerVars
<1>8. RuntimeTypeOK' /\ HubTypeOK'
  BY <1>1, <1>2, <1>3, <1>5 DEF RuntimeTypeOK, HubTypeOK, hubVars
<1>9. IsFiniteSet(pendingRoot')
  BY <1>1, <1>3, FS_EmptySet
<1>10. WorkHasOperation' /\ AsksOnce'
  BY <1>2 DEF HostInv, WorkHasOperation, AsksOnce, hubVars
<1>11. OwnerCatchesUp'
  BY <1>6 DEF OwnerCatchesUp
<1> QED
  BY <1>2, <1>6, <1>7, <1>8, <1>9, <1>10, <1>11, BackStep

\* What observe does with the observation it is given.
LEMMA ObservesEffect ==
    ASSUME OwnerTypeOK, NEW e \in Event, Observes(e)
    PROVE  /\ activeOp' \in Operations \cup {None} /\ rootLease' \in BOOLEAN
           /\ e.type \in {"running", "suspended"} => activeOp' = e.op
           /\ e.type \notin Moves => activeOp' = activeOp
           /\ \/ pendingRoot' = pendingRoot
                 /\ e.type \notin {"requested", "audited", "finished"}
              \/ pendingRoot' = pendingRoot \cup {e.op} /\ e.type = "requested"
              \/ pendingRoot' = pendingRoot \ {e.op} /\ e.type \in {"audited", "finished"}
BY EventShape DEF Observes, OwnerTypeOK, Moves

\* Taking an observation keeps what the owner and the hub will know.
LEMMA EventMoves == ASSUME HostInv, HandleEvent PROVE HostInv'
<1>1. /\ OwnerTypeOK /\ RuntimeTypeOK /\ ConnTypeOK /\ HubTypeOK /\ events \in Seq(Event)
      /\ IsFiniteSet(pendingRoot) /\ AsksOnce /\ WorkHasOperation /\ OwnerCatchesUp
  BY DEF HostInv, HostTypeOK, RuntimeTypeOK
<1>2. PICK e : e = Head(events)
  OBVIOUS
<1>3. /\ events # <<>> /\ events' = Tail(events) /\ Observes(e)
      /\ shown' = IF e.type = "requested" THEN shown \cup {e.op}
                  ELSE IF e.type = "audited" THEN shown \ {e.op}
                  ELSE shown
      /\ presented' = IF e.type = "requested" /\ HasController
                      THEN presented \cup {e.op} ELSE presented
      /\ UNCHANGED <<vars, connVars, execQ, execution, rtQ, rt, asked, stream, otherRoot, host>>
  BY <1>2 DEF HandleEvent, leaseVars, worldVars
<1>4. /\ Len(events) \in Nat \ {0} /\ e = events[1] /\ e \in Event
      /\ events' \in Seq(Event) /\ Len(events') = Len(events) - 1
      /\ \A i \in 1 .. Len(events) - 1 : events'[i] = events[i + 1]
  BY <1>1, <1>2, <1>3, TailFacts
<1>5. /\ activeOp' \in Operations \cup {None} /\ rootLease' \in BOOLEAN
      /\ e.type \in {"running", "suspended"} => activeOp' = e.op
      /\ e.type \notin Moves => activeOp' = activeOp
      /\ \/ pendingRoot' = pendingRoot
            /\ e.type \notin {"requested", "audited", "finished"}
         \/ pendingRoot' = pendingRoot \cup {e.op} /\ e.type = "requested"
         \/ pendingRoot' = pendingRoot \ {e.op} /\ e.type \in {"audited", "finished"}
  BY <1>1, <1>3, <1>4, ObservesEffect
<1>6. e.type # "rejected" => e.op \in Operations /\ e = [type |-> e.type, op |-> e.op]
  BY <1>4, EventShape
<1>7. OwnerTypeOK' /\ RuntimeTypeOK' /\ waiting' \in SUBSET Clients
  <2>1. pendingRoot' \in SUBSET Operations
    BY <1>1, <1>5, <1>6 DEF OwnerTypeOK
  <2> QED
    BY <1>1, <1>3, <1>4, <1>5, <2>1 DEF OwnerTypeOK, RuntimeTypeOK, ConnTypeOK, connVars
<1>8. HubTypeOK'
  BY <1>1, <1>3, <1>6 DEF HubTypeOK
<1>9. IsFiniteSet(pendingRoot')
  BY <1>1, <1>5, FS_AddElement, FS_RemoveElement
<1>10. WorkHasOperation'
  BY <1>1, <1>3 DEF WorkHasOperation
<1>11. OwnerCatchesUp'
  <2> SUFFICES ASSUME execution = "up", stream = "open", Works
               PROVE  /\ Knows(events', activeOp', rt.op)
                      /\ rt.state = "asking" =>
                            Answered(rtQ, rt.op) \/ Finds(events', pendingRoot', rt.op)
    BY <1>3 DEF OwnerCatchesUp, Works
  <2>1. /\ Knows(events, activeOp, rt.op)
        /\ rt.state = "asking" =>
              Answered(rtQ, rt.op) \/ Finds(events, pendingRoot, rt.op)
    BY <1>1 DEF OwnerCatchesUp
  <2>2. Knows(events', activeOp', rt.op)
    BY <1>1, <1>2, <1>3, <1>5, <2>1, KnowsTail
  <2>3. ASSUME Finds(events, pendingRoot, rt.op)
        PROVE  Finds(events', pendingRoot', rt.op)
    <3>1. rt.op \in Operations
      BY <1>1 DEF WorkHasOperation, Works
    <3>2. rt.op \in pendingRoot /\ ~Closes(e, rt.op) => rt.op \in pendingRoot'
      BY <1>5 DEF Closes
    <3>3. e = [type |-> "requested", op |-> rt.op] => rt.op \in pendingRoot'
      BY <1>5
    <3> QED
      BY <1>1, <1>2, <1>3, <2>3, <3>1, <3>2, <3>3, FindsTail
  <2> QED
    BY <2>1, <2>2, <2>3
<1>12. AsksOnce'
  <2>1. presented' \subseteq asked'
    BY <1>1, <1>3, <1>4 DEF AsksOnce
  <2>2. ASSUME NEW i \in 1 .. Len(events')
        PROVE  i + 1 \in 1 .. Len(events) /\ events'[i] = events[i + 1]
    BY <1>4
  <2>3. ASSUME rt.state = "asking"
        PROVE  rt.op \in presented' => rt.op \in shown'
    BY <1>1, <1>3, <1>4, <2>3 DEF AsksOnce
  <2>4. \A i \in 1 .. Len(events') :
           events'[i].type \in {"requested", "audited"} => events'[i].op \in asked'
    BY <1>1, <1>3, <2>2 DEF AsksOnce
  <2>5. rt.state = "asking" =>
           /\ rt.op \in asked
           /\ \A i \in 1 .. Len(events') : ~(events'[i].type = "audited" /\ events'[i].op = rt.op)
    BY <1>1, <2>2 DEF AsksOnce
  <2> QED
    BY <1>3, <2>1, <2>3, <2>4, <2>5 DEF AsksOnce
<1> QED
  BY <1>3, <1>7, <1>8, <1>9, <1>10, <1>11, <1>12, BackStep DEF connVars

-----------------------------------------------------------------------------
(* The host's inductive invariant: the runtime.                            *)

\* A step of the runtime alone.
LEMMA RuntimeMoves ==
    ASSUME HostInv, UNCHANGED aroundRuntime, RuntimeTypeOK', WorkHasOperation',
           OwnerCatchesUp', AsksOnce'
    PROVE  HostInv'
<1>1. OwnerTypeOK' /\ HubTypeOK' /\ waiting' \in SUBSET Clients
  BY DEF HostInv, HostTypeOK, ConnTypeOK, OwnerTypeOK, HubTypeOK, aroundRuntime, connVars,
         ownerVars, hubVars
<1>2. IsFiniteSet(pendingRoot')
  BY DEF HostInv, aroundRuntime, ownerVars
<1> QED
  BY <1>1, <1>2, BackStep DEF aroundRuntime, leaseVars, connVars, ownerVars

\* What the forwarder lets through.
LEMMA EmitsOne ==
    ASSUME RuntimeTypeOK, NEW e \in Event, Emits(<<e>>)
    PROVE  /\ events' \in Seq(Event)
           /\ stream = "open" => events' = events \o <<e>>
           /\ \A i \in 1 .. Len(events') :
                 (\E j \in 1 .. Len(events) : events'[i] = events[j]) \/ events'[i] = e
<1>1. events \in Seq(Event)
  BY DEF RuntimeTypeOK
<1>2. CASE stream = "open"
  <2>1. events' = events \o <<e>>
    BY <1>2 DEF Emits
  <2>2. /\ Len(events) \in Nat /\ events' \in Seq(Event) /\ Len(events') = Len(events) + 1
        /\ \A i \in 1 .. Len(events) : events'[i] = events[i]
        /\ events'[Len(events) + 1] = e
    BY <1>1, <2>1, GrowsByOne
  <2>3. \A i \in 1 .. Len(events') : i \in 1 .. Len(events) \/ i = Len(events) + 1
    BY <2>2
  <2> QED
    BY <2>1, <2>2, <2>3
<1>3. CASE stream # "open"
  BY <1>1, <1>3 DEF Emits
<1> QED
  BY <1>2, <1>3

LEMMA EmitsTwo ==
    ASSUME RuntimeTypeOK, NEW e \in Event, NEW f \in Event, Emits(<<e, f>>)
    PROVE  /\ events' \in Seq(Event)
           /\ stream = "open" => /\ events \o <<e>> \in Seq(Event)
                                 /\ events' = (events \o <<e>>) \o <<f>>
           /\ \A i \in 1 .. Len(events') :
                 \/ \E j \in 1 .. Len(events) : events'[i] = events[j]
                 \/ events'[i] = e \/ events'[i] = f
<1>1. events \in Seq(Event)
  BY DEF RuntimeTypeOK
<1>2. CASE stream = "open"
  <2>1. events' = events \o <<e, f>>
    BY <1>2 DEF Emits
  <2>2. /\ Len(events) \in Nat /\ events' \in Seq(Event) /\ Len(events') = Len(events) + 2
        /\ \A i \in 1 .. Len(events) : events'[i] = events[i]
        /\ events'[Len(events) + 1] = e /\ events'[Len(events) + 2] = f
    BY <1>1, <2>1, GrowsByTwo
  <2>3. \A i \in 1 .. Len(events') :
           i \in 1 .. Len(events) \/ i = Len(events) + 1 \/ i = Len(events) + 2
    BY <2>2
  <2>4. events \o <<e>> \in Seq(Event) /\ events' = (events \o <<e>>) \o <<f>>
    BY <1>1, <2>1, GrowsByOne, OneByOne
  <2> QED
    BY <2>2, <2>3, <2>4
<1>3. CASE stream # "open"
  BY <1>1, <1>3 DEF Emits
<1> QED
  BY <1>2, <1>3

\* What the head of the runtime's queue is.
LEMMA CommandTaken ==
    ASSUME RuntimeTypeOK, NEW type, NextCommand(type)
    PROVE  /\ Head(rtQ) \in RuntimeCommand /\ Head(rtQ).type = type
           /\ rtQ # <<>> /\ rtQ' = Tail(rtQ) /\ rtQ' \in Seq(RuntimeCommand)
BY HeadTailProperties DEF RuntimeTypeOK, NextCommand

\* A refused command moves nothing but the queues.
LEMMA RejectsMove ==
    ASSUME HostInv, UNCHANGED <<aroundRuntime, asked>>, Rejects, NEW type, NextCommand(type),
           ~(type = "decide" /\ rt.state = "asking" /\ Head(rtQ).op = rt.op)
    PROVE  HostInv'
<1>1. /\ RuntimeTypeOK /\ AsksOnce /\ WorkHasOperation /\ OwnerCatchesUp
      /\ rtQ \in Seq(RuntimeCommand) /\ events \in Seq(Event)
  BY DEF HostInv, HostTypeOK, RuntimeTypeOK
<1>2. /\ rtQ # <<>> /\ rtQ' = Tail(rtQ) /\ rtQ' \in Seq(RuntimeCommand)
      /\ Head(rtQ).type = type
  BY <1>1, CommandTaken
<1> DEFINE e == [type |-> "rejected"]
<1>3. e \in Event /\ e.type \notin Moves /\ e.type = "rejected"
  BY DEF Event, Moves
<1>4. /\ events' \in Seq(Event) /\ rt' = rt /\ stream' = stream
      /\ stream = "open" => events' = events \o <<e>>
      /\ \A i \in 1 .. Len(events') :
            (\E j \in 1 .. Len(events) : events'[i] = events[j]) \/ events'[i] = e
  BY <1>1, <1>3, EmitsOne DEF Rejects, aroundRuntime
<1> HIDE DEF e
<1>5. RuntimeTypeOK' /\ WorkHasOperation'
  BY <1>1, <1>2, <1>4 DEF RuntimeTypeOK, WorkHasOperation
<1>6. AsksOnce'
  BY <1>1, <1>3, <1>4 DEF AsksOnce, aroundRuntime, hubVars
<1>7. OwnerCatchesUp'
  <2> SUFFICES ASSUME execution = "up", stream = "open", Works
               PROVE  /\ Knows(events', activeOp, rt.op)
                      /\ rt.state = "asking" =>
                            Answered(rtQ', rt.op) \/ Finds(events', pendingRoot, rt.op)
    BY <1>4 DEF OwnerCatchesUp, Works, aroundRuntime, ownerVars
  <2>1. /\ Knows(events, activeOp, rt.op)
        /\ rt.state = "asking" =>
              Answered(rtQ, rt.op) \/ Finds(events, pendingRoot, rt.op)
    BY <1>1 DEF OwnerCatchesUp
  <2>2. Knows(events', activeOp, rt.op)
    BY <1>1, <1>3, <1>4, <2>1, KnowsMore
  <2>3. Finds(events, pendingRoot, rt.op) => Finds(events', pendingRoot, rt.op)
    BY <1>1, <1>3, <1>4, FindsMore DEF Closes
  <2>4. rt.state = "asking" /\ Answered(rtQ, rt.op) => Answered(rtQ', rt.op)
    BY <1>1, <1>2, AnsweredTail
  <2> QED
    BY <2>1, <2>2, <2>3, <2>4
<1> QED
  BY <1>5, <1>6, <1>7, RuntimeMoves

\* A runtime that does not work, or whose owner is not listening, owes nothing.
LEMMA IdleOwesNothing ==
    ASSUME ~Works'
    PROVE  OwnerCatchesUp'
BY DEF OwnerCatchesUp

\* The first observation of a turn names its operation.
LEMMA SubmitMoves == ASSUME HostInv, RuntimeSubmits PROVE HostInv'
<1>1. /\ RuntimeTypeOK /\ AsksOnce /\ WorkHasOperation /\ events \in Seq(Event)
      /\ NextCommand("submit") /\ UNCHANGED <<aroundRuntime, asked>>
  BY DEF HostInv, HostTypeOK, RuntimeTypeOK, RuntimeSubmits
<1>2. CASE Rejects
  BY <1>1, <1>2, RejectsMove
<1>3. CASE rt.state = "idle" /\ UNCHANGED <<rt, events>>
  <2>1. rtQ' \in Seq(RuntimeCommand)
    BY <1>1, CommandTaken
  <2>2. RuntimeTypeOK' /\ WorkHasOperation' /\ ~Works'
    BY <1>1, <1>3, <2>1 DEF RuntimeTypeOK, WorkHasOperation, Works, aroundRuntime
  <2>3. AsksOnce'
    BY <1>1, <1>3 DEF AsksOnce, aroundRuntime, hubVars
  <2> QED
    BY <1>1, <2>2, <2>3, IdleOwesNothing, RuntimeMoves
<1>4. ASSUME rt.state = "idle", rt' = [op |-> Head(rtQ).op, state |-> "running"],
             Emits(<<[type |-> "running", op |-> Head(rtQ).op]>>)
      PROVE  HostInv'
  <2>1. PICK o : o = Head(rtQ).op
    OBVIOUS
  <2>2. o \in Operations /\ rtQ' \in Seq(RuntimeCommand)
    BY <1>1, <2>1, CommandTaken, CommandShape
  <2> DEFINE e == [type |-> "running", op |-> o]
  <2>3. e \in Event /\ Names(e, o) /\ e.type = "running"
    BY <2>2 DEF Event, Names
  <2>4. /\ events' \in Seq(Event) /\ stream' = stream
        /\ stream = "open" => events' = events \o <<e>>
        /\ \A i \in 1 .. Len(events') :
              (\E j \in 1 .. Len(events) : events'[i] = events[j]) \/ events'[i] = e
    BY <1>1, <1>4, <2>1, <2>3, EmitsOne DEF aroundRuntime
  <2> HIDE DEF e
  <2>5. rt'.op = o /\ rt'.state = "running"
    BY <1>4, <2>1
  <2>6. RuntimeTypeOK' /\ WorkHasOperation'
    BY <1>1, <1>4, <2>1, <2>2, <2>4 DEF RuntimeTypeOK, WorkHasOperation
  <2>7. AsksOnce'
    BY <1>1, <2>3, <2>4, <2>5 DEF AsksOnce, aroundRuntime, hubVars
  <2>8. stream = "open" => Knows(events', activeOp, o)
    BY <1>1, <2>3, <2>4, KnowsMore
  <2>9. OwnerCatchesUp'
    BY <1>1, <2>4, <2>5, <2>8 DEF OwnerCatchesUp, Works, aroundRuntime, ownerVars
  <2> QED
    BY <1>1, <2>6, <2>7, <2>9, RuntimeMoves
<1> QED
  BY <1>2, <1>3, <1>4 DEF RuntimeSubmits

\* A decision lets the turn go on, and names its operation again.
LEMMA DecideMoves == ASSUME HostInv, RuntimeDecides PROVE HostInv'
<1>1. /\ RuntimeTypeOK /\ AsksOnce /\ WorkHasOperation /\ events \in Seq(Event)
      /\ NextCommand("decide") /\ UNCHANGED <<aroundRuntime, asked>>
  BY DEF HostInv, HostTypeOK, RuntimeTypeOK, RuntimeDecides
<1>2. CASE rt = [op |-> Head(rtQ).op, state |-> "asking"]
  <2>1. PICK o : o = rt.op
    OBVIOUS
  <2>2. rt.state = "asking" /\ o \in Operations /\ o \in asked
    BY <1>1, <1>2, <2>1 DEF WorkHasOperation, AsksOnce
  <2> DEFINE e == [type |-> "running", op |-> o]
             f == [type |-> "audited", op |-> o]
  <2>3. /\ e \in Event /\ Names(e, o) /\ e.type = "running"
        /\ f \in Event /\ f.type \notin Moves /\ f.type = "audited" /\ f.op = o
    BY <2>2 DEF Event, Names, Moves
  <2>4. rt' = [rt EXCEPT !.state = "running"] /\ Emits(<<e, f>>)
    BY <1>2, <2>1 DEF RuntimeDecides, On
  <2>5. rt'.op = o /\ rt'.state = "running" /\ rtQ' \in Seq(RuntimeCommand)
    BY <1>1, <2>1, <2>4, CommandTaken DEF RuntimeTypeOK
  <2> HIDE DEF e, f
  <2>6. /\ events' \in Seq(Event) /\ stream' = stream
        /\ stream = "open" => /\ events \o <<e>> \in Seq(Event)
                              /\ events' = (events \o <<e>>) \o <<f>>
        /\ \A i \in 1 .. Len(events') :
              \/ \E j \in 1 .. Len(events) : events'[i] = events[j]
              \/ events'[i] = e \/ events'[i] = f
    BY <1>1, <2>3, <2>4, EmitsTwo DEF aroundRuntime
  <2>7. RuntimeTypeOK' /\ WorkHasOperation'
    BY <1>1, <2>2, <2>4, <2>5, <2>6 DEF RuntimeTypeOK, WorkHasOperation
  <2>8. AsksOnce'
    BY <1>1, <2>2, <2>3, <2>5, <2>6 DEF AsksOnce, aroundRuntime, hubVars
  <2>9. stream = "open" => Knows(events', activeOp, o)
    BY <1>1, <2>3, <2>6, KnowsMore
  <2>10. OwnerCatchesUp'
    BY <1>1, <2>5, <2>6, <2>9 DEF OwnerCatchesUp, Works, aroundRuntime, ownerVars
  <2> QED
    BY <1>1, <2>7, <2>8, <2>10, RuntimeMoves
<1>3. CASE rt # [op |-> Head(rtQ).op, state |-> "asking"]
  <2>1. Rejects
    BY <1>3 DEF RuntimeDecides
  <2>2. ~(rt.state = "asking" /\ Head(rtQ).op = rt.op)
    BY <1>1, <1>3 DEF RuntimeTypeOK
  <2> QED
    BY <1>1, <2>1, <2>2, RejectsMove
<1> QED
  BY <1>2, <1>3

\* A turn that is interrupted waits for no answer any more.
LEMMA InterruptMoves == ASSUME HostInv, RuntimeInterrupts PROVE HostInv'
<1>1. /\ RuntimeTypeOK /\ AsksOnce /\ WorkHasOperation /\ events \in Seq(Event)
      /\ NextCommand("interrupt") /\ UNCHANGED <<aroundRuntime, asked>>
  BY DEF HostInv, HostTypeOK, RuntimeTypeOK, RuntimeInterrupts
<1>2. CASE Rejects
  BY <1>1, <1>2, RejectsMove
<1>3. ASSUME rt.state \in {"running", "asking"}, rt' = [rt EXCEPT !.state = "suspended"],
             Emits(<<On("suspended")>>)
      PROVE  HostInv'
  <2>1. PICK o : o = rt.op
    OBVIOUS
  <2>2. o \in Operations /\ rtQ' \in Seq(RuntimeCommand)
    BY <1>1, <1>3, <2>1, CommandTaken DEF WorkHasOperation
  <2> DEFINE e == [type |-> "suspended", op |-> o]
  <2>3. e \in Event /\ e.type = "suspended" /\ Emits(<<e>>)
    BY <1>3, <2>1, <2>2 DEF Event, On
  <2> HIDE DEF e
  <2>4. rt'.op = o /\ rt'.state = "suspended"
    BY <1>1, <1>3, <2>1 DEF RuntimeTypeOK
  <2>5. /\ events' \in Seq(Event)
        /\ \A i \in 1 .. Len(events') :
              (\E j \in 1 .. Len(events) : events'[i] = events[j]) \/ events'[i] = e
    BY <1>1, <2>3, EmitsOne
  <2>6. RuntimeTypeOK' /\ WorkHasOperation' /\ ~Works'
    BY <1>1, <1>3, <2>2, <2>4, <2>5
    DEF RuntimeTypeOK, WorkHasOperation, Works, aroundRuntime
  <2>7. AsksOnce'
    BY <1>1, <2>3, <2>4, <2>5 DEF AsksOnce, aroundRuntime, hubVars
  <2> QED
    BY <1>1, <2>6, <2>7, IdleOwesNothing, RuntimeMoves
<1> QED
  BY <1>2, <1>3 DEF RuntimeInterrupts

\* The approval a turn asks for is the last thing its owner is told, and no
\* client was shown one of that operation before.
LEMMA AskMoves == ASSUME HostInv, RuntimeAsks PROVE HostInv'
<1>1. /\ RuntimeTypeOK /\ AsksOnce /\ WorkHasOperation /\ events \in Seq(Event)
      /\ UNCHANGED <<rtQ, aroundRuntime>>
  BY DEF HostInv, HostTypeOK, RuntimeTypeOK, RuntimeAsks
<1>2. PICK o : o = rt.op
  OBVIOUS
<1>3. o \in Operations /\ o \notin asked /\ asked' = asked \cup {o}
  BY <1>1, <1>2 DEF WorkHasOperation, RuntimeAsks
<1> DEFINE e == [type |-> "suspended", op |-> o]
           f == [type |-> "requested", op |-> o]
<1>4. /\ e \in Event /\ Names(e, o) /\ e.type = "suspended"
      /\ f \in Event /\ f.type \notin Moves /\ f.type = "requested" /\ f.op = o
      /\ f = [type |-> "requested", op |-> o]
  BY <1>3 DEF Event, Names, Moves
<1>5. rt' = [rt EXCEPT !.state = "asking"] /\ Emits(<<e, f>>)
  BY <1>2 DEF RuntimeAsks, On
<1>6. rt'.op = o /\ rt'.state = "asking"
  BY <1>1, <1>2, <1>5 DEF RuntimeTypeOK
<1> HIDE DEF e, f
<1>7. /\ events' \in Seq(Event) /\ stream' = stream
      /\ stream = "open" => /\ events \o <<e>> \in Seq(Event)
                            /\ events' = (events \o <<e>>) \o <<f>>
      /\ \A i \in 1 .. Len(events') :
            \/ \E j \in 1 .. Len(events) : events'[i] = events[j]
            \/ events'[i] = e \/ events'[i] = f
  BY <1>1, <1>4, <1>5, EmitsTwo DEF aroundRuntime
<1>8. RuntimeTypeOK' /\ WorkHasOperation'
  BY <1>1, <1>3, <1>5, <1>6, <1>7 DEF RuntimeTypeOK, WorkHasOperation
<1>9. AsksOnce'
  <2>1. presented' = presented /\ shown' = shown /\ presented \subseteq asked
    BY <1>1 DEF AsksOnce, aroundRuntime, hubVars
  <2>2. \A i \in 1 .. Len(events') :
           /\ events'[i].type \in {"requested", "audited"} => events'[i].op \in asked'
           /\ ~(events'[i].type = "audited" /\ events'[i].op = o)
    BY <1>1, <1>3, <1>4, <1>7 DEF AsksOnce
  <2> QED
    BY <1>3, <1>6, <2>1, <2>2 DEF AsksOnce
<1>10. stream = "open" => Knows(events', activeOp, o) /\ Finds(events', pendingRoot, o)
  BY <1>1, <1>4, <1>7, KnowsMore, FindsMore
<1>11. OwnerCatchesUp'
  BY <1>1, <1>6, <1>7, <1>10 DEF OwnerCatchesUp, Works, aroundRuntime, ownerVars
<1> QED
  BY <1>1, <1>8, <1>9, <1>11, RuntimeMoves

\* A runtime without an operation.
LEMMA TurnEnds ==
    ASSUME HostInv, RuntimeFinishes \/ RuntimeStops \/ RuntimePanics
    PROVE  HostInv'
<1>1. /\ RuntimeTypeOK /\ AsksOnce /\ WorkHasOperation /\ events \in Seq(Event)
      /\ UNCHANGED <<aroundRuntime, asked>> /\ (rtQ' = rtQ \/ rtQ' = <<>>)
      /\ rt' = [op |-> None, state |-> "idle"] \/ rt' = [op |-> None, state |-> "gone"]
  BY DEF HostInv, HostTypeOK, RuntimeTypeOK, RuntimeFinishes, RuntimeStops, RuntimePanics
<1>2. /\ events' \in Seq(Event)
      /\ \A i \in 1 .. Len(events') :
            \/ \E j \in 1 .. Len(events) : events'[i] = events[j]
            \/ events'[i].type = "finished"
  <2>1. CASE events' = events
    BY <1>1, <2>1
  <2>2. CASE RuntimeFinishes
    <3>1. PICK e : e = [type |-> "finished", op |-> rt.op]
      OBVIOUS
    <3>2. e \in Event /\ e.type = "finished" /\ Emits(<<e>>)
      BY <1>1, <2>2, <3>1 DEF Event, On, RuntimeFinishes, WorkHasOperation
    <3> QED
      BY <1>1, <3>2, EmitsOne
  <2> QED
    BY <2>1, <2>2 DEF RuntimeStops, RuntimePanics
<1>3. RuntimeTypeOK' /\ WorkHasOperation' /\ ~Works'
  <2>1. rt'.state \in {"idle", "gone"}
    BY <1>1
  <2>2. rtQ' \in Seq(RuntimeCommand)
    <3>1. rtQ \in Seq(RuntimeCommand)
      BY <1>1 DEF RuntimeTypeOK
    <3> QED
      BY <1>1, <3>1, EmptySeq
  <2>3. WorkHasOperation' /\ ~Works'
    BY <2>1 DEF WorkHasOperation, Works
  <2> QED
    BY <1>1, <1>2, <2>1, <2>2, <2>3 DEF RuntimeTypeOK, aroundRuntime
<1>4. AsksOnce'
  <2>1. rt'.state # "asking" /\ presented' = presented /\ presented \subseteq asked
    BY <1>1 DEF AsksOnce, aroundRuntime, hubVars
  <2> QED
    BY <1>1, <1>2, <2>1 DEF AsksOnce
<1> QED
  BY <1>1, <1>3, <1>4, IdleOwesNothing, RuntimeMoves

\* A stream that ends early keeps a prefix of what was queued.
LEMMA StallMoves == ASSUME HostInv, ObserverStalls PROVE HostInv'
<1>1. /\ RuntimeTypeOK /\ AsksOnce /\ events \in Seq(Event) /\ stream' = "ended"
      /\ UNCHANGED <<vars, connVars, execQ, ownerVars, rtQ, rt, asked, hubVars, worldVars>>
  BY DEF HostInv, HostTypeOK, RuntimeTypeOK, ObserverStalls, leaseVars
<1>2. PICK taken \in 1 .. Len(events) - 1 : events' = SubSeq(events, 1, taken)
  BY DEF ObserverStalls
<1>3. /\ events' \in Seq(Event)
      /\ \A i \in 1 .. Len(events') : \E j \in 1 .. Len(events) : events'[i] = events[j]
  <2>1. taken \in Int /\ 1 \in Int /\ taken <= Len(events) /\ 1 <= taken /\ Len(events) \in Nat
    BY <1>1, <1>2
  <2>2. \A i \in 1 .. taken : i \in 1 .. Len(events) /\ events[i] \in Event
    BY <1>1, <2>1, ElementOfSeq
  <2>3. /\ SubSeq(events, 1, taken) \in Seq(Event) /\ Len(SubSeq(events, 1, taken)) = taken
        /\ \A i \in 1 .. taken : SubSeq(events, 1, taken)[i] = events[i]
    BY <2>1, <2>2, SubSeqProperties
  <2> QED
    BY <1>2, <2>2, <2>3
<1>4. RuntimeTypeOK' /\ OwnerTypeOK' /\ HubTypeOK' /\ waiting' \in SUBSET Clients
  BY <1>1, <1>3 DEF HostInv, HostTypeOK, RuntimeTypeOK, OwnerTypeOK, HubTypeOK, ConnTypeOK,
                    connVars, ownerVars, hubVars, worldVars
<1>5. WorkHasOperation' /\ OwnerCatchesUp' /\ IsFiniteSet(pendingRoot')
  BY <1>1 DEF HostInv, WorkHasOperation, OwnerCatchesUp, ownerVars
<1>6. AsksOnce'
  BY <1>1, <1>3 DEF AsksOnce, hubVars
<1> QED
  BY <1>1, <1>4, <1>5, <1>6, BackStep DEF connVars

-----------------------------------------------------------------------------
(* The host's theorems.                                                    *)

\* Every step preserves the inductive invariant.
LEMMA NextHostInv == HostInv /\ [HostNext]_hostVars => HostInv'
<1> SUFFICES ASSUME HostInv, [HostNext]_hostVars
             PROVE  HostInv'
  OBVIOUS
<1>1. [Next]_vars /\ OnlyTheConversation'
  BY HostStepIsLeaseStep, OthersStayFree DEF HostInv
<1>2. CASE ConnectionStep
  BY <1>1, <1>2, ConnectionMoves, ReleaseEnds, CommandIsFramed DEF ConnectionStep
<1>3. CASE SendStep
  BY <1>1, <1>3, SendMoves DEF SendStep
<1>4. CASE TimerStep \/ HostTick
  BY <1>1, <1>4, TimerMoves, ExpiryMoves, ClockMoves DEF TimerStep
<1>5. CASE OwnerStep
  BY <1>5, CommandMoves, FailClosedMoves, OwnerEnds, EventMoves DEF OwnerStep
<1>6. CASE RuntimeStep
  BY <1>6, SubmitMoves, DecideMoves, InterruptMoves, TurnEnds DEF RuntimeStep
<1>7. CASE TurnStep
  BY <1>7, AskMoves, TurnEnds, StallMoves DEF TurnStep
<1>8. CASE OtherRoot \/ StopHost \/ HostStep
  BY <1>1, <1>8, WorldMoves, StopMoves, OwnerEnds DEF HostStep
<1>9. CASE UNCHANGED hostVars
  <2>1. UNCHANGED behindTheHub /\ UNCHANGED connVars
    BY <1>9 DEF hostVars, behindTheHub
  <2>2. ConnTypeOK'
    BY <2>1 DEF HostInv, HostTypeOK, ConnTypeOK, connVars
  <2> QED
    BY <1>1, <2>1, <2>2, FrontStep DEF connVars
<1> QED
  BY <1>2, <1>3, <1>4, <1>5, <1>6, <1>7, <1>8, <1>9 DEF HostNext

\* The inductive invariant holds in every reachable state of the host.
THEOREM HostInvariant == HostSpec => []HostInv
BY InitHostInv, NextHostInv, PTL DEF HostSpec

\* A fail-closed request never cuts off a controller that has the lease,
\* whenever its grace task, its connection task or the channel delivers it.
THEOREM EndedLeasesFailClosed == HostSpec => []FailClosedFollowsLease
<1>1. HostInv => FailClosedFollowsLease
  <2> SUFFICES ASSUME HostInv, HasController, UnderWay(TheLease.controller)
               PROVE  FALSE
    BY DEF FailClosedFollowsLease
  <2>1. PICK k : k = TheLease.controller
    OBVIOUS
  <2>2. /\ \A r \in owed : Over(r)
        /\ \A cl \in Clients : sending[cl] # None => Fits(sending[cl])
        /\ \A i \in 1 .. Len(execQ) : Fits(execQ[i])
    BY RequestsFit DEF HostInv, HostTypeOK
  <2>3. ~Over(k)
    BY <2>1 DEF Over
  <2>4. ~Fits(FailClosed(k))
    BY <2>3 DEF Fits, FailClosed
  <2>5. FailClosed(k) # None
    <3>1. k \in Nat
      BY <2>1, ConversationAssumption
      DEF HasController, TheLease, HostInv, LeaseInv, IdentifiersAreMinted, TypeOK
    <3> QED
      BY <3>1, NoneAssumption DEF FailClosed, Request
  <2> QED
    BY <2>1, <2>2, <2>3, <2>4, <2>5 DEF UnderWay
<1> QED
  BY <1>1, HostInvariant, PTL

\* An owner that has taken every observation knows the operation it would have
\* to interrupt and the approval it would have to deny.
THEOREM OwnerIsInformed == HostSpec => []OwnerTracksRuntime
<1>1. HostInv => OwnerTracksRuntime
  <2> SUFFICES ASSUME HostInv, Drained, Works
               PROVE  /\ activeOp = rt.op
                      /\ rt.state = "asking" => rt.op \in pendingRoot
    BY DEF OwnerTracksRuntime, HostInv
  <2>1. /\ Knows(<<>>, activeOp, rt.op)
        /\ rt.state = "asking" =>
              Answered(<<>>, rt.op) \/ Finds(<<>>, pendingRoot, rt.op)
    BY DEF HostInv, OwnerCatchesUp, Drained
  <2>2. Len(<<>>) = 0
    OBVIOUS
  <2> QED
    BY <2>1, <2>2 DEF Knows, Finds, Answered
<1> QED
  BY <1>1, HostInvariant, PTL

\* A takeover is refused while an approval that was presented is unanswered:
\* it is still in the hub's snapshot when `acquire` is asked for the lease.
THEOREM TakeoversWait == HostSpec => TakeoverAnswersNothing
<1> DEFINE Waits ==
      HasController /\ HasController' /\ TheLease.controller # TheLease'.controller
         => ~(rt.state = "asking" /\ rt.op \in presented)
<1>1. ASSUME HostInv, [HostNext]_hostVars
      PROVE  [Waits]_hostVars
  <2> SUFFICES ASSUME HostNext, HasController, HasController',
                      TheLease.controller # TheLease'.controller,
                      rt.state = "asking", rt.op \in presented
               PROVE  FALSE
    BY <1>1
  <2> USE ConversationAssumption DEF HasController, TheLease
  <2>1. leases \in [Conversations -> Lease \cup {NoLease}] /\ rt.op \in shown
    BY <1>1 DEF HostInv, HostTypeOK, TypeOK, AsksOnce
  <2>2. ASSUME NEW cl \in Clients, Grant(Conversation, cl, leases[Conversation].controller)
        PROVE  FALSE
    BY <2>1, <2>2 DEF Grant
  <2>3. ASSUME leases'[Conversation] = leases[Conversation]
        PROVE  FALSE
    BY <2>3
  <2>4. ASSUME NEW cl \in Clients, AcquireControl(cl)
        PROVE  FALSE
    BY <2>1, <2>2, <2>4 DEF AcquireControl, Acquire, Renew
  <2>5. ASSUME NEW cl \in Clients, Attach(cl) \/ RenewControl(cl)
        PROVE  FALSE
    BY <2>2, <2>3, <2>5 DEF Attach, RenewControl, Reconnect, Renew, leaseVars, vars
  <2>6. ASSUME NEW cl \in Clients, RequestSnapshot(cl) \/ ReleaseControl(cl)
        PROVE  FALSE
    BY <2>1, <2>3, <2>6 DEF RequestSnapshot, ReleaseControl, Observe, Release, Held
  <2>7. ASSUME NEW cl \in Clients, Breaks(cl)
        PROVE  FALSE
    <3>1. CASE DisconnectClient(cl)
      <4>1. leases[Conversation] \in Lease
        BY <2>1 DEF Held
      <4>2. leases'[Conversation].controller = leases[Conversation].controller
        BY <3>1, <4>1 DEF DisconnectClient, Lease
      <4> QED
        BY <4>2
    <3> QED
      BY <2>3, <2>7, <3>1 DEF Breaks, leaseVars, vars
  <2>8. ASSUME NEW e \in expiries, TimerFires(e) \/ TimerCancelled(e)
        PROVE  FALSE
    BY <2>1, <2>3, <2>8 DEF TimerFires, TimerCancelled, Expire, DropExpiry, Held
  <2>9. CASE HostTick
    BY <2>3, <2>9 DEF HostTick, Tick
  <2>10. ASSUME NEW cl \in Clients,
                (\E c \in Offers : CommandFrame(cl, c)) \/ TransportFails(cl) \/ SendRequest(cl)
         PROVE  FALSE
    BY <2>3, <2>10 DEF CommandFrame, TransportFails, SendRequest, leaseVars, vars
  <2>11. ASSUME NEW k \in owed, ExpirySent(k)
         PROVE  FALSE
    BY <2>3, <2>11 DEF ExpirySent, leaseVars, vars
  <2>12. CASE OwnerStep
    BY <2>3, <2>12 DEF OwnerStep, HandleCommand, HandleFailClosed, HandleShutdown,
                       HandleEvent, LoseRuntime, leaseVars, vars
  <2>13. CASE RuntimeStep \/ TurnStep
    BY <2>3, <2>13 DEF RuntimeStep, TurnStep, RuntimeSubmits, RuntimeDecides,
                       RuntimeInterrupts, RuntimeStops, RuntimeAsks, RuntimeFinishes,
                       RuntimePanics, ObserverStalls, aroundRuntime, leaseVars, vars
  <2>14. CASE OtherRoot \/ StopHost \/ HostStep
    BY <2>3, <2>14 DEF OtherRoot, StopHost, HostStep, JoinExecution, JoinClients,
                       aroundHost, leaseVars, vars
  <2> QED
    BY <2>4, <2>5, <2>6, <2>7, <2>8, <2>9, <2>10, <2>11, <2>12, <2>13, <2>14
    DEF HostNext, ConnectionStep, SendStep, TimerStep
<1> QED
  BY <1>1, HostInvariant, PTL DEF HostSpec, TakeoverAnswersNothing

\* The host implements the reducer's specification: the hub, the connection
\* tasks and the grace tasks reach the leases through its methods only.
THEOREM HostImplementsReducer == HostSpec => Spec
<1>1. HostInit => Init
  BY DEF HostInit
<1>2. HostInv /\ [HostNext]_hostVars => [Next]_vars
  BY HostStepIsLeaseStep DEF HostInv
<1> QED
  BY <1>1, <1>2, HostInvariant, PTL DEF HostSpec, Spec

\* What the reducer guarantees therefore holds of the leases of a host that
\* runs: one-use bearers, takeovers of the lease that was seen, no early expiry.
THEOREM HostKeepsLeases ==
    HostSpec => []BearersAreCurrent /\ TakeoverBindsObservedLease /\ NoEarlyExpiry
BY HostImplementsReducer, BearerSafety, TakeoverSafety, ExpirySafety
=============================================================================
