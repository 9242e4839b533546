-------------------------- MODULE PermissionBroker --------------------------
(***************************************************************************)
(* The permission broker: policy evaluation (permission/policy.rs and      *)
(* scope.rs) and the actor that answers one command at a time              *)
(* (permission/broker.rs).                                                 *)
(*                                                                         *)
(* A step is the handling of one command.  Its senders owe nothing, so the *)
(* channel is left out: commands come in any order.  Decisions that the    *)
(* broker refuses change nothing and are left out too.                     *)
(*                                                                         *)
(* Abstracted: denial_key is the field `exact` of a request; a path is the *)
(* sequence of its components; tool names are those that rule_matches      *)
(* compares, memory actions already told apart.                            *)
(***************************************************************************)
EXTENDS Naturals, Sequences, FiniteSets

CONSTANTS
    Requests,   \* PermissionRequest
    Policies,   \* PermissionPolicy
    MaxDenials, \* MAX_DENIALS
    MaxGrants,  \* MAX_SESSION_GRANTS
    None        \* a matcher or a web route that is absent

Decisions == {"deny", "once", "session", "web", "save_allow", "save_deny"}
PathKinds == {"workspace", "external_path", "command"}
MemoryKinds == {"memory", "memory_review"}
Kinds == PathKinds \cup MemoryKinds \cup {"external", "builtin", "unscoped"}
Mutations == {"memory_remember", "memory_correct", "memory_forget"}

ASSUME LimitsAssumption == MaxDenials \in Nat \ {0} /\ MaxGrants \in Nat \ {0}

\* A request is known by its operation and invocation, and what its denial is
\* kept under determines all that the broker reads of it.
ASSUME RequestsAssumption ==
    /\ \A r \in Requests :
          /\ DOMAIN r = {"op", "invocation", "tool", "effect", "scope", "route", "saved", "exact"}
          /\ r.scope.kind \in Kinds /\ r.scope.path \in Seq(STRING) /\ r.saved \in BOOLEAN
    /\ \A r, s \in Requests :
          /\ r.op = s.op /\ r.invocation = s.invocation => r = s
          /\ r.exact = s.exact => s = [r EXCEPT !.invocation = s.invocation]

ASSUME PoliciesAssumption ==
    \A p \in Policies :
        /\ p.default \in {"deny", "ask", "allow"} /\ p.readsOnly \in BOOLEAN
        /\ \A rule \in p.rules : rule.decision \in {"deny", "ask", "allow"}

Operations == {r.op : r \in Requests}
Exact == {r.exact : r \in Requests}

VARIABLES
    policy,    \* the policy in force
    grants,    \* SessionGrants
    web,       \* public_web_turns, as a set of pairs
    denials,   \* the denial keys it keeps
    pending,   \* requests that wait for the controller
    present,   \* controller_present
    listening, \* the receiver of its events is there
    alive,     \* the broker's task runs
    last,      \* the audit facts of the last step
    committed, \* denials by the controller whose audit is in the journal
    refused,   \* history: what the controller denied
    consents   \* history: session and web consents that were not withdrawn

live == <<policy, grants, web, denials, pending, present, listening, alive>>
history == <<committed, refused, consents>>
vars == <<live, last, history>>

-----------------------------------------------------------------------------
(* The policy.                                                             *)

IsBelow(path, base) == Len(base) <= Len(path) /\ SubSeq(path, 1, Len(base)) = base

\* rule_matches.
RuleMatches(rule, r) ==
    /\ rule.tool \in {None, r.tool} \/ (rule.tool = "memory_update" /\ r.tool \in Mutations)
    /\ rule.effect \in {None, r.effect}
    /\ rule.workspace # None =>
          r.scope.kind \in {"workspace", "command"} /\ IsBelow(r.scope.path, rule.workspace)
    /\ rule.command # None => r.scope.kind = "command" /\ r.scope.name = rule.command

\* The ceiling of workspace_reads_only.
IsWorkspaceRead(r) == r.effect = "read" /\ r.scope.kind \in {"workspace", "builtin"}

\* is_safe_built_in_read and is_direct_memory_request.
NeedsNoReview(r) ==
    \/ r.tool = "xana_docs" /\ r.effect = "read"
       /\ r.scope.kind = "builtin" /\ r.scope.name = "xana-documentation"
    \/ /\ r.scope.kind = "memory"
       /\ \/ r.tool = "memory_lookup" /\ r.effect = "read"
          \/ r.tool \in Mutations \cup {"memory_update"} /\ r.effect = "write"

\* Mutant: the rules decide for external requests as for any other.
WinningWithoutReview(p, r) ==
    LET matched == {rule.decision : rule \in {x \in p.rules : RuleMatches(x, r)}}
        allowed == IF matched = {} THEN p.default = "allow" \/ (p.default = "ask" /\ NeedsNoReview(r))
                   ELSE matched = {"allow"}
    IN  IF p.readsOnly /\ ~IsWorkspaceRead(r) THEN "deny"
        ELSE IF "deny" \in matched \/ (matched = {} /\ p.default = "deny") THEN "deny"
        ELSE IF allowed THEN "allow" ELSE "ask"

\* explain: the decision that wins.  What leaves the workspace, and a memory
\* request under review, is never allowed by rules alone.
Winning(p, r) ==
    LET matched == {rule.decision : rule \in {x \in p.rules : RuleMatches(x, r)}}
        allowed == IF matched = {} THEN p.default = "allow" \/ (p.default = "ask" /\ NeedsNoReview(r))
                   ELSE matched = {"allow"}
    IN  IF p.readsOnly /\ ~IsWorkspaceRead(r) THEN "deny"
        ELSE IF "deny" \in matched \/ (matched = {} /\ p.default = "deny") THEN "deny"
        ELSE IF allowed /\ r.scope.kind \notin {"external_path", "external", "memory_review"}
        THEN "allow" ELSE "ask"

\* scope_contains.
ScopeContains(grant, scope) ==
    /\ grant.kind = scope.kind /\ grant.kind \notin MemoryKinds
    /\ IF grant.kind = "workspace" THEN IsBelow(scope.path, grant.path) ELSE grant = scope

GrantOf(r) == [tool |-> r.tool, effect |-> r.effect, scope |-> r.scope]
\* SessionGrants::matching_grant.
Granted(r) ==
    \E g \in grants : g.tool = r.tool /\ g.effect = r.effect /\ ScopeContains(g.scope, r.scope)

\* evaluate.
Evaluate(r) ==
    IF Winning(policy, r) = "ask" /\ Granted(r) THEN "granted" ELSE Winning(policy, r)

-----------------------------------------------------------------------------
(* The broker.                                                             *)

Turn(r) == [op |-> r.op, route |-> r.route]
WebConsent(r, turns) == r.route # None /\ (r.saved \/ Turn(r) \in turns)
Full == Cardinality(denials) >= MaxDenials

\* Mutant: a denial holds only where the policy asks.
VerdictByPolicy(r, turns) ==
    CASE Evaluate(r) = "deny" -> "deny"
      [] Evaluate(r) \in {"allow", "granted"} -> "allow"
      [] Evaluate(r) = "ask" ->
            IF r.exact \in denials \/ Full \/ ~present THEN "deny"
            ELSE IF WebConsent(r, turns) THEN "allow"
            ELSE IF r \in pending THEN "deny" ELSE "pending"

\* authorize: what is answered at once, and what waits.
Verdict(r, turns) ==
    IF r.exact \in denials \/ (Evaluate(r) = "ask" /\ Full) THEN "deny"
    ELSE CASE Evaluate(r) = "deny" -> "deny"
           [] Evaluate(r) \in {"allow", "granted"} -> "allow"
           [] Evaluate(r) = "ask" ->
                 IF ~present THEN "deny"
                 ELSE IF WebConsent(r, turns) THEN "allow"
                 ELSE IF r \in pending THEN "deny" ELSE "pending"

\* PermissionAuditFact, and whether the controller decided this very request.
Fact(r, by, effective) == [request |-> r, by |-> by, effective |-> effective]
Denied(S) == {Fact(r, "broker", "deny") : r \in S}

Init ==
    /\ policy \in Policies /\ grants = {} /\ web = {} /\ denials = {} /\ pending = {}
    /\ present \in BOOLEAN /\ listening = TRUE /\ alive = TRUE
    /\ last = {} /\ committed = {} /\ refused = {} /\ consents = {}

\* A request that nobody can be told about ends the controller's presence.
Authorize(r) ==
    LET verdict == Verdict(r, web) IN
    /\ alive
    /\ IF verdict # "pending"
       THEN last' = {Fact(r, "broker", verdict)} /\ UNCHANGED <<pending, present>>
       ELSE IF listening
       THEN pending' = pending \cup {r} /\ last' = {} /\ UNCHANGED present
       ELSE present' = FALSE /\ last' = Denied({r}) /\ UNCHANGED pending
    /\ UNCHANGED <<policy, grants, web, denials, listening, alive, history>>

\* The decisions that decide takes for a pending request; a session consent
\* must name the request's own scope.
Accepts(r, d) ==
    CASE d = "session" -> /\ r.scope.kind \notin MemoryKinds
                          /\ GrantOf(r) \in grants \/ Cardinality(grants) < MaxGrants
      [] d \in {"save_allow", "save_deny"} -> r.scope.kind = "external"
      [] d = "web" -> /\ r.route # None
                      /\ (\E t \in web : t.op = r.op) \/ Cardinality(web) < MaxDenials
      [] d \in {"once", "deny"} -> TRUE

KeptDenials(r, d) == IF d = "deny" /\ ~Full THEN denials \cup {r.exact} ELSE denials

\* Pending requests of the same operation and route that a web consent
\* answers as well.
Woken(r, d) ==
    IF d = "web" THEN {s \in pending \ {r} : Turn(s) = Turn(r)} ELSE {}

Decide(r, d) ==
    LET turns == IF d = "web" THEN {t \in web : t.op # r.op} \cup {Turn(r)} ELSE web IN
    /\ alive /\ listening /\ r \in pending /\ Accepts(r, d)
    /\ web' = turns
    /\ grants' = IF d = "session" THEN grants \cup {GrantOf(r)} ELSE grants
    /\ pending' = (pending \ {r}) \ Woken(r, d)
    /\ denials' = KeptDenials(r, d)
    /\ last' = {Fact(r, "owner", IF d = "deny" THEN "deny" ELSE "allow")}
               \cup {Fact(s, "broker", Verdict(s, turns)) : s \in Woken(r, d)}
    /\ refused' = IF d = "deny" THEN refused \cup {r.exact} ELSE refused
    /\ consents' = IF d \in {"session", "web"} THEN consents \cup {[request |-> r, decision |-> d]}
                   ELSE consents
    /\ UNCHANGED <<policy, present, listening, alive, committed>>

\* The guard of an authorization that is no longer awaited.
Cancel(r) ==
    /\ alive /\ r \in pending
    /\ pending' = pending \ {r} /\ last' = Denied({r})
    /\ UNCHANGED <<policy, grants, web, denials, present, listening, alive, history>>

\* Mutant: the grants outlive the policy they were given under.
ReplacePolicyKeepingGrants(p) ==
    /\ alive /\ listening /\ pending = {}
    /\ policy' = p /\ web' = {} /\ consents' = {} /\ last' = {}
    /\ UNCHANGED <<grants, denials, pending, present, listening, alive, committed, refused>>

\* Refused while a request waits.
ReplacePolicy(p) ==
    /\ alive /\ listening /\ pending = {}
    /\ policy' = p /\ grants' = {} /\ web' = {} /\ consents' = {} /\ last' = {}
    /\ UNCHANGED <<denials, pending, present, listening, alive, committed, refused>>

OperationFinished(op) ==
    /\ alive /\ listening
    /\ web' = {t \in web : t.op # op} /\ last' = {}
    /\ consents' = {c \in consents : ~(c.decision = "web" /\ c.request.op = op)}
    /\ UNCHANGED <<policy, grants, denials, pending, present, listening, alive, committed, refused>>

\* deny_all_pending, for ControllerLost and for Shutdown.
ControllerLost ==
    /\ alive /\ present' = FALSE
    /\ last' = Denied(pending) /\ pending' = {}
    /\ UNCHANGED <<policy, grants, web, denials, listening, alive, history>>

Shutdown ==
    /\ alive /\ alive' = FALSE /\ present' = FALSE
    /\ last' = Denied(pending) /\ pending' = {}
    /\ UNCHANGED <<policy, grants, web, denials, listening, history>>

\* The runtime, which receives the events and sends all but the requests and
\* their cancellations, goes away first.
StopListening ==
    /\ listening /\ listening' = FALSE /\ last' = {}
    /\ UNCHANGED <<policy, grants, web, denials, pending, present, alive, history>>

\* The executor commits the audit of a denial (operation.rs invoke_tool).
CommitAudit(k) ==
    /\ k \in refused \ committed /\ committed' = committed \cup {k}
    /\ last' = {}
    /\ UNCHANGED <<live, refused, consents>>

\* A new runtime, after a crash or a shutdown: the denials of the unfinished
\* operations come back from the journal, as many as the table holds.
Respawn ==
    \E unfinished \in SUBSET Operations :
        LET kept == {k \in committed : \E r \in Requests : r.exact = k /\ r.op \in unfinished} IN
        /\ \E D \in SUBSET kept :
              /\ Cardinality(D) = IF Cardinality(kept) < MaxDenials THEN Cardinality(kept)
                                  ELSE MaxDenials
              /\ denials' = D
        /\ refused' = kept /\ committed' = kept
        /\ policy' \in Policies /\ present' \in BOOLEAN
        /\ grants' = {} /\ web' = {} /\ pending' = {} /\ consents' = {} /\ last' = {}
        /\ listening' = TRUE /\ alive' = TRUE

Next ==
    \/ \E r \in Requests : Authorize(r) \/ Cancel(r)
    \/ \E r \in Requests, d \in Decisions : Decide(r, d)
    \/ \E p \in Policies : ReplacePolicy(p)
    \/ \E op \in Operations : OperationFinished(op)
    \/ ControllerLost \/ Shutdown \/ StopListening
    \/ \E k \in Exact : CommitAudit(k)
    \/ Respawn

Spec == Init /\ [][Next]_vars

-----------------------------------------------------------------------------
Facts == [request : Requests, by : {"owner", "broker"}, effective : {"allow", "deny"}]

\* The type invariant, with the limits of the three tables.
TypeOK ==
    /\ policy \in Policies
    /\ grants \subseteq {GrantOf(r) : r \in Requests} /\ Cardinality(grants) <= MaxGrants
    /\ web \subseteq {Turn(r) : r \in Requests}
    /\ \A t, u \in web : t.op = u.op => t = u
    /\ denials \subseteq Exact /\ Cardinality(denials) <= MaxDenials
    /\ pending \subseteq Requests
    /\ present \in BOOLEAN /\ listening \in BOOLEAN /\ alive \in BOOLEAN
    /\ last \subseteq Facts
    /\ committed \subseteq refused /\ refused \subseteq Exact
    /\ consents \subseteq [request : Requests, decision : {"session", "web"}]

\* Nothing is allowed but by the controller's decision on this very request,
\* by the policy in force, by a session consent to a scope that holds it, or
\* by a web consent of its operation and route, all given under this policy;
\* and never against a policy that denies it.
AllowsAreBacked ==
    \A f \in last : f.effective = "allow" =>
        LET r == f.request
            rules == Winning(policy, r) IN
        /\ rules # "deny"
        /\ \/ f.by = "owner" \/ rules = "allow"
           \/ \E c \in consents :
                 /\ c.decision = "session" /\ c.request.tool = r.tool /\ c.request.effect = r.effect
                 /\ ScopeContains(c.request.scope, r.scope)
           \/ /\ r.route # None
              /\ r.saved \/ \E c \in consents : c.decision = "web" /\ Turn(c.request) = Turn(r)

\* What leaves the workspace is allowed only by a person: by a decision, a
\* consent or a saved web preference, whatever rules and default say
\* (policy.rs explain).
ExternalIsConsented ==
    \A f \in last : f.effective = "allow" /\ f.request.scope.kind \in {"external", "external_path"} =>
        \/ f.by = "owner" \/ f.request.saved
        \/ \E c \in consents : c.request.scope = f.request.scope \/ Turn(c.request) = Turn(f.request)

\* A request the controller denied is not presented again in its operation,
\* under another invocation, another policy, after a restart, or with the
\* table of denials full.
NotAskedAgain == \A r \in pending' \ pending : r.exact \notin refused

\* While the table has room, a denied request is not allowed either, unless
\* the controller itself decides a duplicate that was already waiting: no
\* grant, web consent or new policy reopens it.
RefusalHolds ==
    \A f \in last :
        f.by = "broker" /\ f.effective = "allow" /\ f.request.exact \in refused => Full

\* A waiting request is one the policy in force asks about, and someone is
\* there to answer it or the runtime that would tell is gone.
PendingIsAsked ==
    \A r \in pending : alive /\ Winning(policy, r) = "ask" /\ (present \/ ~listening)

\* What the broker answers or lets wait follows from the policy, the grants and
\* the consents in force now, however they changed since the request came.
AnswersAreBacked == TypeOK /\ AllowsAreBacked /\ PendingIsAsked

\* A refusal the owner gave is kept, in memory and across a restart: what it
\* covers is not asked again, and never allowed.
RefusalIsKept == [][NotAskedAgain /\ RefusalHolds']_vars
=============================================================================
