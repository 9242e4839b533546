---------------------- MODULE PermissionBrokerProofs ----------------------
(***************************************************************************)
(* TLAPS proofs about the permission broker, for any requests, policies    *)
(* and limits of its tables.                                               *)
(***************************************************************************)
EXTENDS PermissionBroker, FiniteSetTheorems, TLAPS

\* The tables are finite, so that their limits mean something.
TablesAreFinite ==
    IsFiniteSet(grants) /\ IsFiniteSet(web) /\ IsFiniteSet(denials) /\ IsFiniteSet(refused)

\* Every grant and every web turn goes back to a consent of the controller
\* that was given under the policy in force.
GrantsAreConsented ==
    \A g \in grants : \E c \in consents : c.decision = "session" /\ GrantOf(c.request) = g
WebIsConsented ==
    \A t \in web : \E c \in consents : c.decision = "web" /\ Turn(c.request) = t

\* What the controller refused is in the table, unless the table is full.
RefusalsAreKept == Full \/ refused \subseteq denials

\* The inductive invariant.
BrokerInv ==
    /\ TypeOK
    /\ TablesAreFinite
    /\ GrantsAreConsented
    /\ WebIsConsented
    /\ RefusalsAreKept
    /\ PendingIsAsked
    /\ AllowsAreBacked

-----------------------------------------------------------------------------
\* Everything about a request that the broker reads has its type.
LEMMA RequestType ==
    ASSUME NEW r \in Requests
    PROVE  /\ r.exact \in Exact /\ r.op \in Operations
           /\ GrantOf(r) \in {GrantOf(s) : s \in Requests}
           /\ Turn(r) \in {Turn(s) : s \in Requests}
BY DEF Exact, Operations

\* explain yields one of three decisions.
LEMMA WinningType ==
    ASSUME NEW p, NEW r
    PROVE  Winning(p, r) \in {"deny", "allow", "ask"}
BY DEF Winning

\* What leaves the workspace is never allowed by rules and default.
LEMMA ExternalNeedsReview ==
    ASSUME NEW p, NEW r, r.scope.kind \in {"external", "external_path"}
    PROVE  Winning(p, r) # "allow"
BY DEF Winning

\* A verdict of the broker is one of three, and a request it lets wait is one
\* the policy asks about, that nobody has refused, with the controller there.
LEMMA VerdictType ==
    ASSUME NEW r, NEW turns
    PROVE  /\ Verdict(r, turns) \in {"allow", "deny", "pending"}
           /\ Verdict(r, turns) = "pending" =>
                /\ Winning(policy, r) = "ask" /\ present = TRUE
                /\ ~Full /\ r.exact \notin denials
                /\ ~WebConsent(r, turns)
<1>1. Winning(policy, r) \in {"deny", "allow", "ask"}
  BY WinningType
<1> QED
  BY <1>1 DEF Verdict, Evaluate

\* An allowing verdict has its reason in the policy, a grant or a web consent,
\* and never covers what the table of denials has.
LEMMA VerdictAllows ==
    ASSUME NEW r, NEW turns, Verdict(r, turns) = "allow"
    PROVE  /\ r.exact \notin denials /\ Winning(policy, r) # "deny"
           /\ Winning(policy, r) = "allow" \/ Granted(r) \/ WebConsent(r, turns)
<1>1. Winning(policy, r) \in {"deny", "allow", "ask"}
  BY WinningType
<1> QED
  BY <1>1 DEF Verdict, Evaluate

\* What decide checks before it stores a consent.
LEMMA AcceptsChecks ==
    ASSUME NEW r, NEW d \in Decisions, Accepts(r, d)
    PROVE  /\ d = "session" => GrantOf(r) \in grants \/ Cardinality(grants) < MaxGrants
           /\ d = "web" => /\ r.route # None
                           /\ (\E t \in web : t.op = r.op) \/ Cardinality(web) < MaxDenials
BY DEF Accepts, Decisions

\* A grant backs an answer as long as the consent it goes back to is there.
LEMMA GrantIsBacked ==
    ASSUME NEW r, Granted(r), GrantsAreConsented
    PROVE  \E c \in consents :
              /\ c.decision = "session" /\ c.request.tool = r.tool /\ c.request.effect = r.effect
              /\ ScopeContains(c.request.scope, r.scope)
<1>1. PICK g \in grants : g.tool = r.tool /\ g.effect = r.effect /\ ScopeContains(g.scope, r.scope)
  BY DEF Granted
<1>2. PICK c \in consents : c.decision = "session" /\ GrantOf(c.request) = g
  BY DEF GrantsAreConsented
<1>3. g.tool = c.request.tool /\ g.effect = c.request.effect /\ g.scope = c.request.scope
  BY <1>2 DEF GrantOf
<1> QED
  BY <1>1, <1>2, <1>3

\* So does a web turn.
LEMMA WebIsBacked ==
    ASSUME NEW r, WebConsent(r, web), WebIsConsented
    PROVE  /\ r.route # None
           /\ r.saved \/ \E c \in consents : c.decision = "web" /\ Turn(c.request) = Turn(r)
BY DEF WebConsent, WebIsConsented

\* Denials are facts, and allow nothing.
LEMMA DeniedFacts ==
    ASSUME NEW S \in SUBSET Requests
    PROVE  Denied(S) \subseteq Facts /\ \A f \in Denied(S) : f.effective = "deny"
BY DEF Denied, Fact, Facts

-----------------------------------------------------------------------------
\* A broker starts with the invariant.
LEMMA InitBrokerInv == Init => BrokerInv
<1> SUFFICES ASSUME Init PROVE BrokerInv
  OBVIOUS
<1>1. IsFiniteSet({}) /\ Cardinality({}) = 0
  BY FS_EmptySet
<1>2. TypeOK
  BY <1>1, LimitsAssumption DEF Init, TypeOK
<1>3. TablesAreFinite
  BY <1>1 DEF Init, TablesAreFinite
<1> QED
  BY <1>2, <1>3 DEF Init, BrokerInv, GrantsAreConsented, WebIsConsented, RefusalsAreKept,
                    PendingIsAsked, AllowsAreBacked

\* An answered or waiting request leaves the invariant.
LEMMA AuthorizeBrokerInv ==
    ASSUME BrokerInv, NEW r \in Requests, Authorize(r)
    PROVE  BrokerInv'
<1> DEFINE verdict == Verdict(r, web)
<1>1. UNCHANGED <<policy, grants, web, denials, listening, alive, committed, refused, consents>>
  BY DEF Authorize, history
<1>2. verdict \in {"allow", "deny", "pending"}
  BY VerdictType
<1>3. CASE verdict # "pending"
  <2>1. last' = {Fact(r, "broker", verdict)} /\ UNCHANGED <<pending, present>>
    BY <1>3 DEF Authorize
  <2>2. TypeOK'
    BY <1>1, <1>2, <1>3, <2>1 DEF BrokerInv, TypeOK, Facts, Fact
  <2>3. AllowsAreBacked'
    <3> SUFFICES ASSUME verdict = "allow"
                 PROVE  /\ Winning(policy, r) # "deny"
                        /\ \/ Winning(policy, r) = "allow"
                           \/ \E c \in consents :
                                 /\ c.decision = "session" /\ c.request.tool = r.tool
                                 /\ c.request.effect = r.effect
                                 /\ ScopeContains(c.request.scope, r.scope)
                           \/ /\ r.route # None
                              /\ r.saved \/ \E c \in consents :
                                    c.decision = "web" /\ Turn(c.request) = Turn(r)
      BY <1>1, <2>1 DEF AllowsAreBacked, Fact
    <3> QED
      BY VerdictAllows, GrantIsBacked, WebIsBacked DEF BrokerInv
  <2> QED
    BY <1>1, <2>1, <2>2, <2>3 DEF BrokerInv, TablesAreFinite, GrantsAreConsented,
         WebIsConsented, RefusalsAreKept, Full, PendingIsAsked
<1>4. CASE verdict = "pending"
  <2>1. Winning(policy, r) = "ask" /\ present = TRUE /\ alive
    BY <1>4, VerdictType DEF Authorize
  <2>2. CASE listening
    <3>1. pending' = pending \cup {r} /\ last' = {} /\ present' = present
      BY <1>4, <2>2 DEF Authorize
    <3> QED
      BY <1>1, <2>1, <3>1 DEF BrokerInv, TypeOK, TablesAreFinite, GrantsAreConsented,
           WebIsConsented, RefusalsAreKept, Full, PendingIsAsked, AllowsAreBacked
  <2>3. CASE ~listening
    <3>1. pending' = pending /\ last' = Denied({r}) /\ present' = FALSE
      BY <1>4, <2>3 DEF Authorize
    <3>2. TypeOK'
      BY <1>1, <3>1, DeniedFacts DEF BrokerInv, TypeOK
    <3>3. AllowsAreBacked'
      BY <3>1, DeniedFacts DEF AllowsAreBacked
    <3>4. PendingIsAsked'
      BY <1>1, <2>3, <3>1 DEF BrokerInv, PendingIsAsked
    <3> QED
      BY <1>1, <3>1, <3>2, <3>3, <3>4 DEF BrokerInv, TablesAreFinite, GrantsAreConsented,
           WebIsConsented, RefusalsAreKept, Full
  <2> QED
    BY <2>2, <2>3
<1> QED
  BY <1>2, <1>3, <1>4

\* Cancel, ControllerLost and Shutdown deny some of what waits.
LEMMA DenialBrokerInv ==
    ASSUME BrokerInv, NEW S \in SUBSET pending,
           pending' = pending \ S, last' = Denied(S),
           UNCHANGED <<policy, grants, web, denials, listening, committed, refused, consents>>,
           present' \in BOOLEAN, alive' \in BOOLEAN,
           pending' = {} \/ UNCHANGED <<present, alive>>
    PROVE  BrokerInv'
<1>1. S \subseteq Requests
  BY DEF BrokerInv, TypeOK
<1>2. TypeOK'
  BY <1>1, DeniedFacts DEF BrokerInv, TypeOK
<1>3. AllowsAreBacked'
  BY <1>1, DeniedFacts DEF AllowsAreBacked
<1>4. PendingIsAsked'
  BY DEF BrokerInv, PendingIsAsked
<1> QED
  BY <1>2, <1>3, <1>4 DEF BrokerInv, TablesAreFinite, GrantsAreConsented, WebIsConsented,
                          RefusalsAreKept, Full

\* A decision of the controller: the new consent backs what it stores, and a
\* web consent answers the other requests of its turn under the policy in force.
LEMMA DecideBrokerInv ==
    ASSUME BrokerInv, NEW r \in Requests, NEW d \in Decisions, Decide(r, d)
    PROVE  BrokerInv'
<1> DEFINE turns == IF d = "web" THEN {t \in web : t.op # r.op} \cup {Turn(r)} ELSE web
           woken == Woken(r, d)
           consent == [request |-> r, decision |-> d]
<1>1. /\ r \in pending /\ Accepts(r, d) /\ alive /\ listening
      /\ web' = turns
      /\ grants' = IF d = "session" THEN grants \cup {GrantOf(r)} ELSE grants
      /\ pending' = (pending \ {r}) \ woken
      /\ denials' = KeptDenials(r, d)
      /\ last' = {Fact(r, "owner", IF d = "deny" THEN "deny" ELSE "allow")}
                 \cup {Fact(s, "broker", Verdict(s, turns)) : s \in woken}
      /\ refused' = IF d = "deny" THEN refused \cup {r.exact} ELSE refused
      /\ consents' = IF d \in {"session", "web"} THEN consents \cup {consent} ELSE consents
      /\ UNCHANGED <<policy, present, listening, alive, committed>>
  BY DEF Decide
<1>2. woken \subseteq pending /\ \A s \in woken : d = "web" /\ Turn(s) = Turn(r)
  BY DEF Woken
<1>3. \A s \in woken : Verdict(s, turns) \in {"allow", "deny"}
  <2> SUFFICES ASSUME NEW s \in woken, Verdict(s, turns) = "pending" PROVE FALSE
    BY VerdictType
  <2>1. s.route = r.route /\ Turn(s) \in turns
    BY <1>2 DEF Turn
  <2>2. r.route # None
    BY <1>1, <1>2, AcceptsChecks
  <2> QED
    BY <2>1, <2>2, VerdictType DEF WebConsent
<1>4. consents \subseteq consents' /\ (d \in {"session", "web"} => consent \in consents')
  BY <1>1
<1>5. GrantsAreConsented' /\ WebIsConsented'
  <2>1. \A g \in grants' : g \in grants \/ (d = "session" /\ g = GrantOf(r))
    BY <1>1
  <2>2. \A t \in web' : t \in web \/ (d = "web" /\ t = Turn(r))
    BY <1>1
  <2>3. consent.request = r /\ consent.decision = d
    OBVIOUS
  <2>4. GrantsAreConsented'
    <3>1. SUFFICES ASSUME NEW g \in grants'
                   PROVE  \E c \in consents' : c.decision = "session" /\ GrantOf(c.request) = g
      BY DEF GrantsAreConsented
    <3>2. CASE g \in grants
      BY <1>4, <3>2 DEF BrokerInv, GrantsAreConsented
    <3>3. CASE d = "session" /\ g = GrantOf(r)
      BY <1>4, <2>3, <3>3
    <3> QED
      BY <2>1, <3>2, <3>3
  <2>5. WebIsConsented'
    <3>1. SUFFICES ASSUME NEW t \in web'
                   PROVE  \E c \in consents' : c.decision = "web" /\ Turn(c.request) = t
      BY DEF WebIsConsented
    <3>2. CASE t \in web
      BY <1>4, <3>2 DEF BrokerInv, WebIsConsented
    <3>3. CASE d = "web" /\ t = Turn(r)
      BY <1>4, <2>3, <3>3
    <3> QED
      BY <2>2, <3>2, <3>3
  <2> QED
    BY <2>4, <2>5
<1>6. IsFiniteSet(web') /\ web' \subseteq {Turn(s) : s \in Requests}
  <2>1. IsFiniteSet({t \in web : t.op # r.op})
    BY FS_Subset DEF BrokerInv, TablesAreFinite
  <2>2. IsFiniteSet({t \in web : t.op # r.op} \cup {Turn(r)})
    BY <2>1, FS_AddElement
  <2> QED
    BY <1>1, <2>2, RequestType DEF BrokerInv, TablesAreFinite, TypeOK
<1>7. IsFiniteSet(grants') /\ Cardinality(grants') <= MaxGrants
  <2>1. CASE d = "session"
    <3>1. GrantOf(r) \in grants \/ Cardinality(grants) < MaxGrants
      BY <1>1, <2>1, AcceptsChecks
    <3>2. Cardinality(grants) \in Nat
      BY FS_CardinalityType DEF BrokerInv, TablesAreFinite
    <3>3. /\ IsFiniteSet(grants \cup {GrantOf(r)})
          /\ Cardinality(grants \cup {GrantOf(r)}) =
                IF GrantOf(r) \in grants THEN Cardinality(grants) ELSE Cardinality(grants) + 1
      BY FS_AddElement DEF BrokerInv, TablesAreFinite
    <3> QED
      BY <1>1, <2>1, <3>1, <3>2, <3>3, LimitsAssumption DEF BrokerInv, TypeOK
  <2>2. CASE d # "session"
    BY <1>1, <2>2 DEF BrokerInv, TypeOK, TablesAreFinite
  <2> QED
    BY <2>1, <2>2
<1>8. IsFiniteSet(denials') /\ Cardinality(denials') <= MaxDenials /\ RefusalsAreKept'
  <2>1. CASE d = "deny" /\ ~Full
    <3>1. Cardinality(denials) \in Nat /\ Cardinality(denials) < MaxDenials
      BY <2>1, FS_CardinalityType, LimitsAssumption DEF BrokerInv, TablesAreFinite, Full
    <3>2. /\ IsFiniteSet(denials \cup {r.exact})
          /\ Cardinality(denials \cup {r.exact}) =
                IF r.exact \in denials THEN Cardinality(denials) ELSE Cardinality(denials) + 1
      BY FS_AddElement DEF BrokerInv, TablesAreFinite
    <3>3. denials' = denials \cup {r.exact}
      BY <1>1, <2>1 DEF KeptDenials
    <3>4. Cardinality(denials') <= MaxDenials
      BY <3>1, <3>2, <3>3, LimitsAssumption
    <3> QED
      BY <1>1, <2>1, <3>2, <3>3, <3>4 DEF BrokerInv, RefusalsAreKept
  <2>2. CASE ~(d = "deny" /\ ~Full)
    <3>1. denials' = denials
      BY <1>1, <2>2 DEF KeptDenials
    <3> QED
      BY <1>1, <2>2, <3>1 DEF BrokerInv, TypeOK, TablesAreFinite, RefusalsAreKept, Full
  <2> QED
    BY <2>1, <2>2
<1>9. IsFiniteSet(refused') /\ refused' \subseteq Exact /\ committed' \subseteq refused'
  <2>1. IsFiniteSet(refused \cup {r.exact})
    BY FS_AddElement DEF BrokerInv, TablesAreFinite
  <2>2. IsFiniteSet(refused')
    BY <1>1, <2>1 DEF BrokerInv, TablesAreFinite
  <2> QED
    BY <1>1, <2>2, RequestType DEF BrokerInv, TypeOK
<1>10. last' \subseteq Facts
  <2>1. \A s \in woken : s \in Requests
    BY <1>2 DEF BrokerInv, TypeOK
  <2>2. \A s \in woken : Fact(s, "broker", Verdict(s, turns)) \in Facts
    BY <1>3, <2>1 DEF Facts, Fact
  <2>3. Fact(r, "owner", IF d = "deny" THEN "deny" ELSE "allow") \in Facts
    BY DEF Facts, Fact
  <2> QED
    BY <1>1, <2>2, <2>3
<1>11. TypeOK'
  <2>1. grants' \subseteq {GrantOf(s) : s \in Requests}
    BY <1>1, RequestType DEF BrokerInv, TypeOK
  <2>2. denials' \subseteq Exact
    BY <1>1, RequestType DEF BrokerInv, TypeOK, KeptDenials
  <2>3. consents' \subseteq [request : Requests, decision : {"session", "web"}]
    BY <1>1 DEF BrokerInv, TypeOK
  <2>4. \A t, u \in web' : t.op = u.op => t = u
    BY <1>1 DEF BrokerInv, TypeOK, Turn
  <2> QED
    BY <1>1, <1>6, <1>7, <1>8, <1>9, <1>10, <2>1, <2>2, <2>3, <2>4 DEF BrokerInv, TypeOK
<1>12. PendingIsAsked'
  BY <1>1 DEF BrokerInv, PendingIsAsked
<1>13. AllowsAreBacked'
  <2>1. Winning(policy, r) = "ask" /\ \A s \in woken : Winning(policy, s) = "ask"
    BY <1>1, <1>2 DEF BrokerInv, PendingIsAsked
  <2>2. \A f \in last' : (f.by = "owner" /\ f.request = r) \/ f.request \in woken
    <3> SUFFICES ASSUME NEW f \in last'
                 PROVE  (f.by = "owner" /\ f.request = r) \/ f.request \in woken
      OBVIOUS
    <3>1. CASE f = Fact(r, "owner", IF d = "deny" THEN "deny" ELSE "allow")
      BY <3>1 DEF Fact
    <3>2. CASE f \in {Fact(s, "broker", Verdict(s, turns)) : s \in woken}
      <4>1. PICK s \in woken : f = Fact(s, "broker", Verdict(s, turns))
        BY <3>2
      <4> QED
        BY <4>1 DEF Fact
    <3> QED
      BY <1>1, <3>1, <3>2
  <2>3. ASSUME NEW s \in woken
        PROVE  /\ s.route # None
               /\ \E c \in consents' : c.decision = "web" /\ Turn(c.request) = Turn(s)
    <3>1. d = "web" /\ Turn(s) = Turn(r)
      BY <1>2
    <3>2. r.route # None /\ s.route = r.route
      BY <1>1, <3>1, AcceptsChecks DEF Turn
    <3>3. consent \in consents' /\ consent.decision = "web" /\ consent.request = r
      BY <1>4, <3>1
    <3> QED
      BY <3>1, <3>2, <3>3
  <2>4. policy' = policy
    BY <1>1
  <2> QED
    BY <2>1, <2>2, <2>3, <2>4 DEF AllowsAreBacked
<1> QED
  BY <1>5, <1>6, <1>7, <1>8, <1>9, <1>11, <1>12, <1>13 DEF BrokerInv, TablesAreFinite

\* A new policy starts without grants and consents.
LEMMA ReplacePolicyBrokerInv ==
    ASSUME BrokerInv, NEW p \in Policies, ReplacePolicy(p)
    PROVE  BrokerInv'
<1>1. IsFiniteSet({}) /\ Cardinality({}) = 0
  BY FS_EmptySet
<1>2. TypeOK'
  BY <1>1, LimitsAssumption DEF BrokerInv, TypeOK, ReplacePolicy
<1>3. TablesAreFinite'
  BY <1>1 DEF BrokerInv, TablesAreFinite, ReplacePolicy
<1> QED
  BY <1>2, <1>3 DEF ReplacePolicy, BrokerInv, GrantsAreConsented, WebIsConsented, RefusalsAreKept,
                    Full, PendingIsAsked, AllowsAreBacked

\* The end of an operation takes its web turn with the consents to it.
LEMMA OperationFinishedBrokerInv ==
    ASSUME BrokerInv, NEW op \in Operations, OperationFinished(op)
    PROVE  BrokerInv'
<1>1. /\ web' = {t \in web : t.op # op} /\ last' = {}
      /\ consents' = {c \in consents : ~(c.decision = "web" /\ c.request.op = op)}
      /\ UNCHANGED <<policy, grants, denials, pending, present, listening, alive, committed, refused>>
  BY DEF OperationFinished
<1>2. IsFiniteSet(web')
  BY <1>1, FS_Subset DEF BrokerInv, TablesAreFinite
<1>3. TypeOK'
  BY <1>1 DEF BrokerInv, TypeOK
<1>4. GrantsAreConsented'
  BY <1>1 DEF BrokerInv, GrantsAreConsented
<1>5. WebIsConsented'
  BY <1>1 DEF BrokerInv, WebIsConsented, Turn
<1> QED
  BY <1>1, <1>2, <1>3, <1>4, <1>5 DEF BrokerInv, TablesAreFinite, RefusalsAreKept, Full,
                                      PendingIsAsked, AllowsAreBacked

\* The denials that a new runtime brings back are all it was told to keep, or
\* as many as the table holds.
LEMMA RespawnBrokerInv == BrokerInv /\ Respawn => BrokerInv'
<1> SUFFICES ASSUME BrokerInv, Respawn PROVE BrokerInv'
  OBVIOUS
<1>1. PICK unfinished \in SUBSET Operations :
        LET kept == {k \in committed : \E r \in Requests : r.exact = k /\ r.op \in unfinished} IN
        /\ \E D \in SUBSET kept :
              /\ Cardinality(D) = IF Cardinality(kept) < MaxDenials THEN Cardinality(kept)
                                  ELSE MaxDenials
              /\ denials' = D
        /\ refused' = kept /\ committed' = kept
        /\ policy' \in Policies /\ present' \in BOOLEAN
        /\ grants' = {} /\ web' = {} /\ pending' = {} /\ consents' = {} /\ last' = {}
        /\ listening' = TRUE /\ alive' = TRUE
  BY DEF Respawn
<1> DEFINE kept == {k \in committed : \E r \in Requests : r.exact = k /\ r.op \in unfinished}
<1>2. /\ denials' \subseteq kept /\ refused' = kept
      /\ Cardinality(denials') = IF Cardinality(kept) < MaxDenials THEN Cardinality(kept)
                                 ELSE MaxDenials
  BY <1>1
<1>3. kept \subseteq refused /\ kept \subseteq Exact
  BY DEF BrokerInv, TypeOK
<1> HIDE DEF kept
<1>4. IsFiniteSet(kept) /\ IsFiniteSet(denials') /\ Cardinality(kept) \in Nat
  BY <1>2, <1>3, FS_Subset, FS_CardinalityType DEF BrokerInv, TablesAreFinite
<1>5. Cardinality(denials') <= MaxDenials
  BY <1>2, <1>4, LimitsAssumption
<1>6. RefusalsAreKept'
  <2>1. CASE Cardinality(kept) < MaxDenials
    <3>1. denials' = kept
      BY <1>2, <1>4, <2>1, FS_Subset
    <3> QED
      BY <1>2, <3>1 DEF RefusalsAreKept
  <2>2. CASE ~(Cardinality(kept) < MaxDenials)
    BY <1>2, <2>2, LimitsAssumption DEF RefusalsAreKept, Full
  <2> QED
    BY <2>1, <2>2
<1>7. IsFiniteSet({}) /\ Cardinality({}) = 0
  BY FS_EmptySet
<1>8. TypeOK' /\ TablesAreFinite'
  <2>1. committed' = kept
    BY <1>1 DEF kept
  <2> QED
    BY <1>1, <1>2, <1>3, <1>4, <1>5, <1>7, <2>1, LimitsAssumption DEF TypeOK, TablesAreFinite
<1> QED
  BY <1>1, <1>6, <1>8 DEF BrokerInv, GrantsAreConsented, WebIsConsented, PendingIsAsked,
                          AllowsAreBacked

\* Every step of the broker preserves the invariant.
LEMMA NextBrokerInv == BrokerInv /\ [Next]_vars => BrokerInv'
<1> SUFFICES ASSUME BrokerInv, [Next]_vars PROVE BrokerInv'
  OBVIOUS
<1>1. CASE \E r \in Requests : Authorize(r)
  BY <1>1, AuthorizeBrokerInv
<1>2. CASE \E r \in Requests : Cancel(r)
  <2>1. PICK r \in Requests : Cancel(r)
    BY <1>2
  <2>2. {r} \in SUBSET pending
    BY <2>1 DEF Cancel
  <2> QED
    BY <2>1, <2>2, DenialBrokerInv DEF Cancel, history, BrokerInv, TypeOK
<1>3. CASE \E r \in Requests, d \in Decisions : Decide(r, d)
  BY <1>3, DecideBrokerInv
<1>4. CASE \E p \in Policies : ReplacePolicy(p)
  BY <1>4, ReplacePolicyBrokerInv
<1>5. CASE \E op \in Operations : OperationFinished(op)
  BY <1>5, OperationFinishedBrokerInv
<1>6. CASE ControllerLost
  <2>1. pending' = pending \ pending
    BY <1>6 DEF ControllerLost
  <2> QED
    BY <1>6, <2>1, DenialBrokerInv DEF ControllerLost, history, BrokerInv, TypeOK
<1>7. CASE Shutdown
  <2>1. pending' = pending \ pending
    BY <1>7 DEF Shutdown
  <2> QED
    BY <1>7, <2>1, DenialBrokerInv DEF Shutdown, history, BrokerInv, TypeOK
<1>8. CASE StopListening
  BY <1>8 DEF StopListening, history, BrokerInv, TypeOK, TablesAreFinite, GrantsAreConsented,
     WebIsConsented, RefusalsAreKept, Full, PendingIsAsked, AllowsAreBacked
<1>9. CASE \E k \in Exact : CommitAudit(k)
  BY <1>9 DEF CommitAudit, live, BrokerInv, TypeOK, TablesAreFinite, GrantsAreConsented,
     WebIsConsented, RefusalsAreKept, Full, PendingIsAsked, AllowsAreBacked
<1>10. CASE Respawn
  BY <1>10, RespawnBrokerInv
<1>11. CASE UNCHANGED vars
  BY <1>11 DEF vars, live, history, BrokerInv, TypeOK, TablesAreFinite, GrantsAreConsented,
     WebIsConsented, RefusalsAreKept, Full, PendingIsAsked, AllowsAreBacked
<1> QED
  BY <1>1, <1>2, <1>3, <1>4, <1>5, <1>6, <1>7, <1>8, <1>9, <1>10, <1>11 DEF Next

\* The invariant holds in every behaviour of the broker.
THEOREM BrokerInvariant == Spec => []BrokerInv
<1> QED
  BY InitBrokerInv, NextBrokerInv, PTL DEF Spec

-----------------------------------------------------------------------------
\* AnswersAreBacked: no answer of authorize or decide allows what neither the
\* controller, the policy in force nor a consent given under it covers, and
\* nothing waits that the policy does not ask about.
THEOREM BackedAnswers == Spec => []AnswersAreBacked
<1>1. BrokerInv => AnswersAreBacked
  BY DEF BrokerInv, AnswersAreBacked
<1> QED
  BY <1>1, BrokerInvariant, PTL

\* ExternalIsConsented: rules and default alone let nothing out of the
\* workspace, whatever policies are in force one after the other.
THEOREM ConsentedExternal == Spec => []ExternalIsConsented
<1>1. BrokerInv => ExternalIsConsented
  <2> SUFFICES ASSUME BrokerInv, NEW f \in last, f.effective = "allow",
                      f.request.scope.kind \in {"external", "external_path"}
               PROVE  \/ f.by = "owner" \/ f.request.saved
                      \/ \E c \in consents : \/ c.request.scope = f.request.scope
                                            \/ Turn(c.request) = Turn(f.request)
    BY DEF ExternalIsConsented
  <2>1. Winning(policy, f.request) # "allow"
    BY ExternalNeedsReview
  <2>2. \A c \in consents : ScopeContains(c.request.scope, f.request.scope)
                               => c.request.scope = f.request.scope
    BY DEF ScopeContains
  <2> QED
    BY <2>1, <2>2 DEF BrokerInv, AllowsAreBacked
<1> QED
  BY <1>1, BrokerInvariant, PTL

\* RefusalIsKept: what the controller refused in an operation is not put to it
\* again, and while the table of denials has room nothing but the controller
\* allows it, under any later grant, web consent, policy or runtime.
THEOREM KeptRefusals == Spec => RefusalIsKept
<1>1. ASSUME BrokerInv, BrokerInv', [Next]_vars
      PROVE  [NotAskedAgain /\ RefusalHolds']_vars
  <2> SUFFICES ASSUME Next PROVE NotAskedAgain /\ RefusalHolds'
    BY <1>1
  <2>1. NotAskedAgain
    <3> SUFFICES ASSUME NEW s \in pending' \ pending PROVE s.exact \notin refused
      BY DEF NotAskedAgain
    <3>1. PICK r \in Requests : Authorize(r) /\ s \in pending'
      BY DEF Next, Cancel, Decide, ReplacePolicy, OperationFinished, ControllerLost, Shutdown,
             StopListening, CommitAudit, live, Respawn
    <3>2. s = r /\ Verdict(r, web) = "pending"
      BY <3>1 DEF Authorize
    <3>3. ~Full /\ r.exact \notin denials
      BY <3>2, VerdictType
    <3> QED
      BY <1>1, <3>2, <3>3 DEF BrokerInv, RefusalsAreKept
  <2>2. RefusalHolds'
    <3> SUFFICES ASSUME NEW f \in last', f.by = "broker", f.effective = "allow",
                        f.request.exact \in refused', ~Full'
                 PROVE  FALSE
      BY DEF RefusalHolds
    <3>1. f.request.exact \in denials'
      BY <1>1 DEF BrokerInv, RefusalsAreKept
    <3>2. CASE \E r \in Requests : Authorize(r)
      <4>1. PICK r \in Requests : Authorize(r)
        BY <3>2
      <4>2. /\ denials' = denials
            /\ last' = {Fact(r, "broker", Verdict(r, web))} \/ last' = {} \/ last' = Denied({r})
        BY <4>1 DEF Authorize
      <4>3. f = Fact(r, "broker", "allow") /\ Verdict(r, web) = "allow"
        BY <4>2 DEF Fact, Denied
      <4> QED
        BY <3>1, <4>2, <4>3, VerdictAllows DEF Fact
    <3>3. CASE \E r \in Requests, d \in Decisions : Decide(r, d)
      <4>1. PICK r \in Requests, d \in Decisions : Decide(r, d)
        BY <3>3
      <4> DEFINE turns == IF d = "web" THEN {t \in web : t.op # r.op} \cup {Turn(r)} ELSE web
      <4>2. PICK s \in Woken(r, d) : f = Fact(s, "broker", Verdict(s, turns))
        BY <4>1 DEF Decide, Fact
      <4>3. d = "web" /\ denials' = denials
        BY <4>1, <4>2 DEF Decide, Woken, KeptDenials
      <4>4. Verdict(s, turns) = "allow" /\ f.request = s
        BY <4>2 DEF Fact
      <4> QED
        BY <3>1, <4>3, <4>4, VerdictAllows
    <3>4. CASE last' = {} \/ \E S \in SUBSET Requests : last' = Denied(S)
      BY <3>4, DeniedFacts
    <3>5. ASSUME NEW r \in Requests, Cancel(r)
          PROVE  last' = Denied({r})
      BY <3>5 DEF Cancel
    <3>6. ControllerLost \/ Shutdown => last' = Denied(pending) /\ pending \subseteq Requests
      BY <1>1 DEF ControllerLost, Shutdown, BrokerInv, TypeOK
    <3>7. (\E p \in Policies : ReplacePolicy(p)) \/ (\E op \in Operations : OperationFinished(op))
          \/ StopListening \/ (\E k \in Exact : CommitAudit(k)) \/ Respawn => last' = {}
      BY DEF ReplacePolicy, OperationFinished, StopListening, CommitAudit, Respawn
    <3> QED
      BY <3>2, <3>3, <3>4, <3>5, <3>6, <3>7 DEF Next
  <2> QED
    BY <2>1, <2>2
<1> QED
  BY <1>1, BrokerInvariant, PTL DEF Spec, RefusalIsKept
=============================================================================
