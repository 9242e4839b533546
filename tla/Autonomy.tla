------------------------------ MODULE Autonomy ------------------------------
(***************************************************************************)
(* Scheduled background work: the jobs and the host policy that protected  *)
(* storage keeps (storage/autonomy.rs), the detached host processes that   *)
(* compete for one home (autonomy/host.rs), the tick that claims and runs  *)
(* one occurrence (autonomy/runner.rs), the foreground and background      *)
(* leases (storage/priority.rs) and the source observations of triggers    *)
(* (autonomy/triggers.rs).                                                 *)
(*                                                                         *)
(* Every storage function is one immediate transaction and one step.  A    *)
(* process may crash between any two; the OS then drops its locks.         *)
(*                                                                         *)
(* Abstracted: a job's instants are whether it is due and whether it has   *)
(* expired; the revision of a job, which only a host's source observation  *)
(* carries across steps, is whether that host's copy is still current; the *)
(* scope checks before a dispatch are one step that may fail; stop         *)
(* receipts, the observer server and personal learning are left out.       *)
(***************************************************************************)
EXTENDS Naturals, FiniteSets

CONSTANTS
    Jobs,
    Kinds,       \* the schedules the owner creates: what wakes one, what it does
    QueueLimit,  \* QUEUE_LIMIT
    Hosts,       \* processes started as the detached host
    MaxRuns,     \* bound: occurrences claimed
    None

ASSUME JobsAssumption ==
    /\ Kinds \subseteq [wake : {"once", "recurring", "source"}, does : {"turn", "reminder"}]
    /\ QueueLimit \in Nat /\ MaxRuns \in Nat

ASSUME NoneAssumption == None \notin Hosts

VARIABLES
    job,         \* autonomy_jobs: Job -> its record
    policy,      \* HostPolicy
    descriptor,  \* the process that holds the host descriptor's lock
    lane,        \* the process that holds background.lease
    foreground,  \* foreground.lease is held by some foreground operation
    host,        \* Host -> the state of its process
    uncertain,   \* history: jobs with a dispatch of unknown outcome, unreviewed
    runs

lockVars  == <<descriptor, lane, foreground>>
vars == <<job, policy, lockVars, host, uncertain, runs>>

-----------------------------------------------------------------------------
States == {"absent", "ready", "running", "cancel_requested", "paused",
           "needs_you", "completed", "cancelled", "expired"}
ActiveStates == {"ready", "running", "cancel_requested", "paused", "needs_you"}
Outcomes == {"completed", "needs_you", "cancelled", "unknown", "expired"}

Job == [kind : Kinds \cup {None}, state : States, authorized : BOOLEAN, due : BOOLEAN, expired : BOOLEAN,
        occurrence : 0 .. MaxRuns, pauseAfterRun : BOOLEAN, pending : BOOLEAN,
        last : Outcomes \cup {None}]

NoJob == [kind |-> None, state |-> "absent", authorized |-> FALSE, due |-> FALSE, expired |-> FALSE,
          occurrence |-> 0, pauseAfterRun |-> FALSE, pending |-> FALSE, last |-> None]

\* Where a host process is: starting, bound to the descriptor, idle between
\* ticks, observing sources, holding the lane, with a claimed job, and through
\* its execution.
Places == {"down", "starting", "bound", "idle", "tick", "leased",
           "claimed", "executing", "composed", "validated", "running", "ended"}

Process == [at : Places, job : Jobs \cup {None}, occurrence : 0 .. MaxRuns,
            page : SUBSET Jobs, copy : [Jobs -> Job], current : SUBSET Jobs,
            cancel : BOOLEAN, shutdown : BOOLEAN, outcome : Outcomes \cup {None}]

\* `page' holds the jobs whose sources the tick has yet to observe, `copy' the
\* rows it read, `current' those of them that still have the same revision.
NoCopies == [j \in Jobs |-> NoJob]
Down == [at |-> "down", job |-> None, occurrence |-> 0,
         page |-> {}, copy |-> NoCopies, current |-> {},
         cancel |-> FALSE, shutdown |-> FALSE, outcome |-> None]

\* The type invariant.
TypeOK ==
    /\ job \in [Jobs -> Job]
    /\ policy \in [enabled : BOOLEAN, stop : BOOLEAN]
    /\ descriptor \in Hosts \cup {None} /\ lane \in Hosts \cup {None}
    /\ foreground \in BOOLEAN
    /\ host \in [Hosts -> Process]
    /\ uncertain \subseteq Jobs /\ runs \in 0 .. MaxRuns

Init ==
    /\ job = [j \in Jobs |-> NoJob]
    /\ policy = [enabled |-> FALSE, stop |-> FALSE]
    /\ descriptor = None /\ lane = None /\ foreground = FALSE
    /\ host = [h \in Hosts |-> Down]
    /\ uncertain = {} /\ runs = 0

Triggered(j) == job[j].kind.wake = "source"

\* save: the row is rewritten under a new revision, which makes every copy of
\* it that a host holds stale.
Save(j, row) == job' = [job EXCEPT ![j] = row]
Stale(hosts, j) ==
    [h \in Hosts |-> [hosts[h] EXCEPT !.current = @ \ {j}]]

Admits == policy.enabled /\ ~policy.stop

-----------------------------------------------------------------------------
(* The owner: schedules, their edits, and the passing of time.             *)

OwnerFrame == UNCHANGED <<policy, lockVars, runs>>

\* autonomy_create
Create(j) ==
    /\ job[j].state = "absent"
    /\ Cardinality({k \in Jobs : job[k].state \in ActiveStates}) < QueueLimit
    /\ \E kind \in Kinds :
          Save(j, [NoJob EXCEPT !.kind = kind, !.state = "ready", !.authorized = TRUE])
    /\ UNCHANGED <<host, uncertain>> /\ OwnerFrame

Pause(j) ==
    /\ job[j].state \in {"running", "ready", "paused"}
    /\ Save(j, IF job[j].state = "running"
               THEN [job[j] EXCEPT !.pauseAfterRun = TRUE]
               ELSE [job[j] EXCEPT !.state = "paused"])
    /\ host' = Stale(host, j)
    /\ UNCHANGED uncertain /\ OwnerFrame

Cancel(j) ==
    /\ job[j].state \in ActiveStates
    /\ Save(j, [job[j] EXCEPT !.authorized = FALSE,
                  !.state = IF @ \in {"running", "cancel_requested"}
                            THEN "cancel_requested" ELSE "cancelled"])
    /\ host' = Stale(host, j)
    /\ UNCHANGED uncertain /\ OwnerFrame

\* Mutant: the unknown outcome need not be reviewed.
ResumeUnreviewed(j, reviewUnknown) ==
    /\ job[j].state \in {"paused", "needs_you"} /\ ~job[j].expired /\ job[j].authorized
    /\ Save(j, [job[j] EXCEPT !.state = "ready", !.pauseAfterRun = FALSE])
    /\ host' = Stale(host, j)
    /\ uncertain' = IF reviewUnknown THEN uncertain \ {j} ELSE uncertain
    /\ OwnerFrame

Resume(j, reviewUnknown) ==
    /\ job[j].state \in {"paused", "needs_you"}
    /\ ~job[j].expired /\ job[j].authorized
    /\ job[j].last = "unknown" => reviewUnknown
    /\ job[j].state = "needs_you" /\ Triggered(j) => reviewUnknown
    /\ Save(j, [job[j] EXCEPT !.state = "ready", !.pauseAfterRun = FALSE])
    /\ host' = Stale(host, j)
    /\ uncertain' = IF reviewUnknown THEN uncertain \ {j} ELSE uncertain
    /\ OwnerFrame

\* A job's instant comes, or its authority expires.
TimePasses(j) ==
    /\ job[j].state \in ActiveStates
    /\ \/ ~job[j].due /\ job' = [job EXCEPT ![j].due = TRUE]
       \/ ~job[j].expired /\ job' = [job EXCEPT ![j].expired = TRUE]
    /\ UNCHANGED <<host, uncertain>> /\ OwnerFrame

\* autonomy_edit_policy through host::policy_edit: enable, disable, stop.
SetPolicy ==
    /\ policy' \in {[policy EXCEPT !.enabled = TRUE, !.stop = FALSE],
                    [policy EXCEPT !.enabled = FALSE, !.stop = TRUE],
                    [policy EXCEPT !.stop = TRUE]}
    /\ UNCHANGED <<job, lockVars, host, uncertain, runs>>

\* ForegroundLease taken by the first and dropped by the last operation.
ForegroundChanges ==
    /\ foreground' = ~foreground
    /\ UNCHANGED <<job, policy, descriptor, lane, host, uncertain, runs>>

-----------------------------------------------------------------------------
(* A host process: host::run and run_owned.                                *)

HostFrame == UNCHANGED <<policy, foreground>>
Goto(h, place) == host' = [host EXCEPT ![h].at = place]

Running == {j \in Jobs : job[j].state \in {"running", "cancel_requested"}}

\* What a dead host left running has an unknown outcome.
Recovered ==
    [j \in Jobs |-> IF j \in Running
        THEN [job[j] EXCEPT !.state = "needs_you", !.occurrence = 0, !.last = "unknown"]
        ELSE job[j]]

\* Mutant: a starting process recovers before it owns the descriptor.
LaunchRecovering(h) ==
    /\ host[h].at = "down" /\ Admits
    /\ job' = Recovered /\ Goto(h, "starting")
    /\ UNCHANGED <<descriptor, lane, uncertain, runs>> /\ HostFrame

\* The process reads the policy before it binds.
Launch(h) ==
    /\ host[h].at = "down" /\ Admits
    /\ Goto(h, "starting")
    /\ UNCHANGED <<job, descriptor, lane, uncertain, runs>> /\ HostFrame

\* LocalHostServer::bind takes the descriptor's lock or fails.
Bind(h) ==
    /\ host[h].at = "starting"
    /\ IF descriptor = None
       THEN descriptor' = h /\ Goto(h, "bound")
       ELSE UNCHANGED descriptor /\ Goto(h, "down")
    /\ UNCHANGED <<job, lane, uncertain, runs>> /\ HostFrame

\* autonomy_recover, once the descriptor is owned.
Recover(h) ==
    /\ host[h].at = "bound"
    /\ job' = Recovered /\ Goto(h, "idle")
    /\ UNCHANGED <<descriptor, lane, uncertain, runs>> /\ HostFrame

\* The process ends: its locks go with it.
Exits(h) ==
    /\ host' = [host EXCEPT ![h] = Down]
    /\ descriptor' = IF descriptor = h THEN None ELSE descriptor
    /\ lane' = IF lane = h THEN None ELSE lane

\* Mutant: the loop leaves on a shutdown only.
MayTickUntilShutdown(h) == ~host[h].shutdown

MayTick(h) == Admits /\ ~host[h].shutdown

\* The scheduler's loop between ticks: it leaves on a stop or a shutdown.  A
\* tick first reads the page of due jobs (autonomy_due).
NextTick(h) ==
    /\ host[h].at = "idle"
    /\ LET due == {j \in Jobs : job[j].state = "ready" /\ job[j].due}
       IN IF MayTick(h)
          THEN /\ host' = [host EXCEPT ![h] = [@ EXCEPT !.at = "tick", !.page = due,
                     !.current = due,
                     !.copy = [j \in Jobs |-> IF j \in due THEN job[j] ELSE NoJob]]]
               /\ UNCHANGED <<descriptor, lane>>
          ELSE Exits(h)
    /\ UNCHANGED <<job, uncertain, runs>> /\ HostFrame

\* Ctrl-C, or the observer server failing: the scheduler drains its tick.
Interrupt(h) ==
    /\ host[h].at \notin {"down", "starting"} /\ ~host[h].shutdown
    /\ host' = [host EXCEPT ![h].shutdown = TRUE]
    /\ UNCHANGED <<job, descriptor, lane, uncertain, runs>> /\ HostFrame

HostCrashes(h) ==
    /\ host[h].at # "down" /\ Exits(h)
    /\ UNCHANGED <<job, policy, foreground, uncertain, runs>>

-----------------------------------------------------------------------------
(* One tick (runner::tick).                                                *)

\* What the observation of a source makes of the copy of its job: an event, a
\* later look, or a failure that needs the owner.
Sighting(h, j) ==
    LET copy == [host[h].copy[j] EXCEPT !.expired = job[j].expired]
    IN {[copy EXCEPT !.pending = TRUE],
        [copy EXCEPT !.due = FALSE],
        [copy EXCEPT !.due = FALSE, !.state = "needs_you", !.last = "needs_you"]}

\* Mutant: the observation is stored whatever became of the row.
ObservedBlindly(h, j) == \E row \in Sighting(h, j) : Save(j, row)

\* autonomy_observed: the copy replaces the row, unless the row has moved on.
Observed(h, j) ==
    IF j \in host[h].current /\ job[j].state = "ready"
    THEN \E row \in Sighting(h, j) : Save(j, row)
    ELSE UNCHANGED job

\* triggers::refresh_due, one job of the page at a time; a shutdown drops the
\* rest, and jobs without a source to look at are skipped.
RefreshDue(h) ==
    /\ host[h].at = "tick" /\ host[h].page # {}
    /\ \E j \in host[h].page :
        LET row == host[h].copy[j]
            looks == Triggered(j) /\ row.authorized /\ ~row.expired /\ ~row.pending
            rest == IF host[h].shutdown THEN {} ELSE host[h].page \ {j}
            next == [host EXCEPT ![h] = [@ EXCEPT !.page = rest,
                        !.copy = [k \in Jobs |-> IF k \in rest THEN host[h].copy[k] ELSE NoJob],
                        !.current = host[h].current \cap rest]]
        IN IF looks /\ ~host[h].shutdown
           THEN Observed(h, j) /\ host' = Stale(next, j)
           ELSE UNCHANGED job /\ host' = next
    /\ UNCHANGED <<descriptor, lane, uncertain, runs>> /\ HostFrame

\* background_lease
TakeLane(h) ==
    /\ host[h].at = "tick" /\ host[h].page = {}
    /\ IF lane = None /\ ~foreground
       THEN lane' = h /\ Goto(h, "leased")
       ELSE UNCHANGED lane /\ Goto(h, "idle")
    /\ UNCHANGED <<job, descriptor, uncertain, runs>> /\ HostFrame

\* Mutant: an idle tick keeps the lane.
EndTickInLane(h) == UNCHANGED lane /\ Goto(h, "idle")

\* The end of a tick that has no execution to drain.
EndTick(h) == lane' = None /\ Goto(h, "idle")

Claimable == {j \in Jobs : job[j].state = "ready" /\ job[j].due}

\* autonomy_claim, after a last look at the foreground.  At the bound of the
\* behaviour, MaxRuns, nothing more is claimed.
Claim(h) ==
    /\ host[h].at = "leased"
    /\ \/ /\ foreground \/ Running # {} \/ Claimable = {} \/ runs = MaxRuns
          /\ EndTick(h) /\ UNCHANGED <<job, runs>>
       \/ /\ ~foreground /\ Running = {} /\ runs < MaxRuns
          /\ \E j \in Claimable :
              CASE job[j].expired \/ ~job[j].authorized ->
                     /\ Save(j, [job[j] EXCEPT !.state = "expired", !.last = "expired"])
                     /\ EndTick(h) /\ UNCHANGED runs
                [] ~job[j].expired /\ job[j].authorized
                   /\ Triggered(j) /\ ~job[j].pending ->
                     EndTick(h) /\ UNCHANGED <<job, runs>>
                [] OTHER ->
                     /\ runs' = runs + 1
                     /\ Save(j, [job[j] EXCEPT !.state = "running",
                                               !.occurrence = runs + 1])
                     /\ host' = [host EXCEPT ![h] = [@ EXCEPT !.at = "claimed",
                                    !.job = j, !.occurrence = runs + 1]]
                     /\ UNCHANGED lane
    /\ UNCHANGED <<descriptor, uncertain>> /\ HostFrame

Idle(h) == [host EXCEPT ![h] = [@ EXCEPT !.at = "idle", !.job = None, !.occurrence = 0,
                                         !.cancel = FALSE, !.outcome = None]]

\* acquire_background_root; a busy root defers the job (autonomy_defer), any
\* other error ends the host and leaves the job running.
AcquireRoot(h) ==
    /\ host[h].at = "claimed"
    /\ LET j == host[h].job IN
       \/ /\ Goto(h, "executing") /\ UNCHANGED <<job, descriptor, lane>>
       \/ /\ job[j].occurrence = host[h].occurrence
          /\ Save(j, [job[j] EXCEPT !.occurrence = 0, !.due = FALSE,
                 !.state = CASE @ = "cancel_requested" -> "cancelled"
                             [] job[j].pauseAfterRun /\ @ # "cancel_requested" -> "paused"
                             [] OTHER -> "ready"])
          /\ host' = Idle(h) /\ lane' = None /\ UNCHANGED descriptor
       \/ Exits(h) /\ UNCHANGED job
    /\ UNCHANGED <<uncertain, runs>> /\ HostFrame

Executing == {"executing", "composed", "validated", "running"}

\* The reasons for which the tick cancels its execution: its deadline, the
\* shutdown, a foreground operation, or the poll of the job and the policy.
MustCancel(h) ==
    \/ host[h].at = "running"
    \/ host[h].shutdown \/ foreground \/ ~Admits
    \/ LET row == job[host[h].job]
       IN row.state = "cancel_requested" \/ ~row.authorized \/ row.expired

CancelExecution(h) ==
    /\ host[h].at \in Executing /\ ~host[h].cancel /\ MustCancel(h)
    /\ host' = [host EXCEPT ![h].cancel = TRUE]
    /\ UNCHANGED <<job, descriptor, lane, uncertain, runs>> /\ HostFrame

Ends(h, outcome) ==
    host' = [host EXCEPT ![h] = [@ EXCEPT !.at = "ended", !.outcome = outcome]]

\* NativeExecutor::execute up to the composition of the agent.
Compose(h) ==
    /\ host[h].at = "executing"
    /\ \/ Ends(h, "unknown")
       \/ host[h].cancel /\ Ends(h, "cancelled")
       \/ ~host[h].cancel /\ job[host[h].job].kind.does = "reminder" /\ Ends(h, "completed")
       \/ ~host[h].cancel /\ job[host[h].job].kind.does = "turn" /\ Goto(h, "composed")
    /\ UNCHANGED <<job, descriptor, lane, uncertain, runs>> /\ HostFrame

\* run_native reads the job and the policy again before it submits the turn.
Validate(h) ==
    /\ host[h].at = "composed"
    /\ LET row == job[host[h].job]
           unchanged == /\ row.occurrence = host[h].occurrence /\ row.state = "running"
                        /\ row.authorized /\ Admits /\ ~host[h].cancel
       IN \/ Ends(h, "unknown")
          \/ ~unchanged /\ Ends(h, "needs_you")
          \/ unchanged /\ Goto(h, "validated")
    /\ UNCHANGED <<job, descriptor, lane, uncertain, runs>> /\ HostFrame

Dispatch(h) ==
    /\ host[h].at = "validated"
    /\ Goto(h, "running")
    /\ uncertain' = uncertain \cup {host[h].job}
    /\ UNCHANGED <<job, descriptor, lane, runs>> /\ HostFrame

\* run_native sees the operation end, or the cancellation first; it joins its
\* runtime before it returns.
RunEnds(h) ==
    /\ host[h].at = "running"
    /\ \/ host[h].cancel /\ Ends(h, "unknown")
       \/ ~host[h].cancel /\ \E o \in {"completed", "needs_you", "unknown"} : Ends(h, o)
    /\ UNCHANGED <<job, descriptor, lane, uncertain, runs>> /\ HostFrame

\* The state a receipt leaves a job in.
StateAfter(j, outcome, triggerCompleted) ==
    CASE outcome \in {"unknown", "needs_you"} -> "needs_you"
      [] outcome \in {"cancelled", "expired"} -> outcome
      [] OTHER -> CASE job[j].state = "cancel_requested" -> "cancelled"
                    [] job[j].state # "cancel_requested" /\ triggerCompleted -> "completed"
                    [] job[j].state # "cancel_requested" /\ ~triggerCompleted ->
                         IF job[j].kind.wake = "once" THEN "completed"
                         ELSE IF job[j].pauseAfterRun THEN "paused" ELSE "ready"

\* autonomy_finish; a stale occurrence is an error, which ends the host.
Finish(h) ==
    /\ host[h].at = "ended"
    /\ LET j == host[h].job
           o == host[h].outcome
       IN IF job[j].occurrence # host[h].occurrence
          THEN Exits(h) /\ UNCHANGED <<job, uncertain>>
          ELSE /\ \E done \in {FALSE, Triggered(j)} :
                    Save(j, [job[j] EXCEPT !.occurrence = 0, !.last = o,
                               !.state = StateAfter(j, o, done),
                               !.pending = @ /\ o \notin {"completed", "cancelled"},
                               !.due = @ /\ o # "completed"])
               /\ uncertain' = IF o \in {"completed", "needs_you"}
                               THEN uncertain \ {j} ELSE uncertain
               /\ host' = Idle(h) /\ lane' = None /\ UNCHANGED descriptor
    /\ UNCHANGED <<runs>> /\ HostFrame

-----------------------------------------------------------------------------
HostStep(h) ==
    \/ Bind(h) \/ Recover(h) \/ NextTick(h) \/ RefreshDue(h) \/ TakeLane(h)
    \/ Claim(h) \/ AcquireRoot(h) \/ CancelExecution(h) \/ Compose(h)
    \/ Validate(h) \/ Dispatch(h) \/ RunEnds(h) \/ Finish(h)

Next ==
    \/ \E j \in Jobs :
          \/ Create(j) \/ Pause(j) \/ Cancel(j) \/ TimePasses(j)
          \/ \E review \in BOOLEAN : Resume(j, review)
    \/ SetPolicy \/ ForegroundChanges
    \/ \E h \in Hosts : HostStep(h) \/ Launch(h) \/ Interrupt(h) \/ HostCrashes(h)

Spec == Init /\ [][Next]_vars

\* A host process keeps running; the deadline of a run and the polls that
\* cancel it are timers, and a cancelled runtime is joined.
FairSpec == Spec /\ \A h \in Hosts : WF_vars(HostStep(h))

-----------------------------------------------------------------------------
(* Properties.                                                             *)

InRun == {"claimed", "ended"} \cup Executing

\* From its claim to its receipt a run holds the descriptor and the lane, and
\* its job stays recorded as running this very occurrence: no competing host
\* recovers it or runs beside it, and no edit takes the row from under it.
LiveRunIsOwned ==
    \A h \in Hosts : host[h].at \in InRun =>
        /\ descriptor = h /\ lane = h
        /\ job[host[h].job].occurrence = host[h].occurrence
        /\ job[host[h].job].state \in {"running", "cancel_requested"}

\* Once a turn has been dispatched without a conclusive receipt, by a crash, a
\* cancellation or an error, its job is not dispatched again before the owner
\* has reviewed the unknown outcome.
NoUnreviewedRetry ==
    [][\A h \in Hosts : host[h].at = "validated" /\ host'[h].at = "running"
                            => host[h].job \notin uncertain]_vars

\* A dispatched turn without a conclusive receipt is never closed behind the
\* owner's back: neither its receipt nor a recovery nor the end of its
\* authority makes the job final, only the owner's own cancel does.
UnknownAwaitsOwner ==
    \A j \in uncertain :
        job[j].authorized => job[j].state \in {"running", "needs_you"}

\* A scheduled run is accounted for from its claim to its receipt, by the host
\* that has it or, when that host is gone, by a job that waits for its owner.
RunsAreAccounted == TypeOK /\ LiveRunIsOwned /\ UnknownAwaitsOwner

\* Cancelling is final: a job whose authority is revoked never regains it, nor
\* is it ever given another occurrence, whatever a late observation, a receipt
\* or a resume writes.
RevokedForGood ==
    [][\A j \in Jobs : job[j].state # "absent" /\ ~job[j].authorized =>
          /\ ~job'[j].authorized
          /\ job'[j].occurrence \in {0, job[j].occurrence}]_vars

\* A stop that is not taken back makes every host process leave.
StopEndsHosts ==
    \A h \in Hosts : policy.stop ~> (~policy.stop \/ host[h].at = "down")

\* A foreground operation gets the lane: background work ends while it lasts.
ForegroundPreempts == foreground ~> (~foreground \/ lane = None)
=============================================================================
