--------------------------- MODULE AutonomyProofs ---------------------------
(***************************************************************************)
(* TLAPS proofs about scheduled work, for any jobs, kinds, competing host  *)
(* processes and bounds.                                                   *)
(***************************************************************************)
EXTENDS Autonomy, TLAPS

\* A process has the descriptor from its bind until it ends, and the lane from
\* the lease of a tick until the tick is over.
HoldsLocks(h) ==
    /\ descriptor = h <=> host[h].at \notin {"down", "starting"}
    /\ lane = h <=> host[h].at \in InRun \cup {"leased"}

\* A tick keeps copies only while it observes, and a copy with the row's
\* revision is the row, but for the passing of time.
HasFaithfulCopies(h) ==
    /\ host[h].at # "tick" => host[h].page = {}
    /\ host[h].current \subseteq host[h].page
    /\ \A j \in host[h].current :
          /\ job[j].state = "ready" /\ job[j].due
          /\ [host[h].copy[j] EXCEPT !.expired = job[j].expired] = job[j]

BeforeDispatch == {"claimed", "executing", "composed", "validated"}

\* A run is recorded in the row of its job; until its dispatch that job has
\* nothing unreviewed, and only a run that was never dispatched is `cancelled'.
HasRecordedRun(h) ==
    host[h].at \in InRun =>
        /\ host[h].job \in Jobs
        /\ job[host[h].job].occurrence = host[h].occurrence
        /\ job[host[h].job].state \in {"running", "cancel_requested"}
        /\ host[h].at \in BeforeDispatch => host[h].job \notin uncertain
        /\ host[h].at = "ended" =>
              /\ host[h].outcome \in {"completed", "needs_you", "cancelled", "unknown"}
              /\ host[h].outcome = "cancelled" => host[h].job \notin uncertain

\* Only a cancel leads to `cancel_requested', and a job with something
\* unreviewed runs, has lost its authority, or waits with an unknown outcome.
IsConsistent(j) ==
    /\ job[j].state = "cancel_requested" => ~job[j].authorized
    /\ j \in uncertain =>
          /\ job[j].state # "absent"
          /\ \/ ~job[j].authorized
             \/ job[j].state = "running"
             \/ job[j].state = "needs_you" /\ job[j].last = "unknown"

\* The inductive invariant.
AutonomyInv ==
    /\ TypeOK
    /\ \A h \in Hosts : HoldsLocks(h) /\ HasFaithfulCopies(h) /\ HasRecordedRun(h)
    /\ \A j \in Jobs : IsConsistent(j)

-----------------------------------------------------------------------------
\* The fields of a row.
LEMMA JobFields ==
    ASSUME NEW r \in Job
    PROVE  /\ r.kind \in Kinds \cup {None} /\ r.state \in States
           /\ r.authorized \in BOOLEAN /\ r.due \in BOOLEAN /\ r.expired \in BOOLEAN
           /\ r.occurrence \in 0 .. MaxRuns /\ r.pauseAfterRun \in BOOLEAN
           /\ r.pending \in BOOLEAN /\ r.last \in Outcomes \cup {None}
BY DEF Job

\* No occurrence is an occurrence number.
LEMMA NoOccurrence == 0 \in 0 .. MaxRuns
BY JobsAssumption

\* No job is a row.
LEMMA NoJobType == NoJob \in Job
BY JobsAssumption DEF NoJob, Job, States

\* A process that is down is a process.
LEMMA DownType == Down \in Process
<1>1. NoCopies \in [Jobs -> Job]
  BY NoJobType DEF NoCopies
<1>. HIDE DEF Job, NoCopies
<1>. QED
  BY <1>1, JobsAssumption DEF Down, Process, Places

\* The first state.
LEMMA AutonomyInit == Init => AutonomyInv
<1>. SUFFICES ASSUME Init PROVE AutonomyInv
  OBVIOUS
<1>1. TypeOK
  <2>. HIDE DEF Job, Process
  <2>1. job \in [Jobs -> Job] /\ host \in [Hosts -> Process]
    BY NoJobType, DownType DEF Init
  <2>2. policy \in [enabled : BOOLEAN, stop : BOOLEAN] /\ runs \in 0 .. MaxRuns
    BY JobsAssumption DEF Init
  <2>. QED
    BY <2>1, <2>2 DEF Init, TypeOK
<1>2. ASSUME NEW h \in Hosts
      PROVE  HoldsLocks(h) /\ HasFaithfulCopies(h) /\ HasRecordedRun(h)
  <2>1. /\ host[h].at = "down" /\ host[h].page = {} /\ host[h].current = {}
        /\ descriptor # h /\ lane # h
    BY NoneAssumption DEF Init, Down
  <2>. QED
    BY <2>1 DEF HoldsLocks, HasFaithfulCopies, HasRecordedRun, InRun, Executing
<1>3. ASSUME NEW j \in Jobs PROVE IsConsistent(j)
  BY DEF Init, IsConsistent, NoJob
<1>. QED
  BY <1>1, <1>2, <1>3 DEF AutonomyInv

-----------------------------------------------------------------------------
(* What the steps of one process, or of the owner, leave to be shown.      *)

\* The process with the descriptor is the only one at work.
LEMMA OneAtWork ==
    ASSUME AutonomyInv, NEW h \in Hosts, descriptor = h, NEW k \in Hosts \ {h}
    PROVE  /\ host[k].at \in {"down", "starting"} /\ host[k].at \notin InRun
           /\ host[k].page = {} /\ host[k].current = {} /\ lane # k
BY DEF AutonomyInv, TypeOK, Process, HoldsLocks, HasFaithfulCopies, InRun, Executing

\* A step of that process: it answers for itself and for the rows.
LEMMA WorkStep ==
    ASSUME AutonomyInv, NEW h \in Hosts, descriptor = h,
           TypeOK',
           \A k \in Hosts \ {h} : host'[k] = host[k],
           descriptor' \in {h, None}, lane' \in {h, None},
           HoldsLocks(h)', HasFaithfulCopies(h)', HasRecordedRun(h)',
           \A j \in Jobs : IsConsistent(j)'
    PROVE  AutonomyInv'
<1>1. ASSUME NEW k \in Hosts \ {h}
      PROVE  HoldsLocks(k)' /\ HasFaithfulCopies(k)' /\ HasRecordedRun(k)'
  BY <1>1, OneAtWork, NoneAssumption
  DEF HoldsLocks, HasFaithfulCopies, HasRecordedRun, InRun, Executing
<1>. QED
  BY <1>1 DEF AutonomyInv

\* A step that leaves the rows alone keeps them consistent.
LEMMA SameRows ==
    ASSUME AutonomyInv, UNCHANGED <<job, uncertain>>
    PROVE  \A j \in Jobs : IsConsistent(j)'
BY DEF AutonomyInv, IsConsistent

\* A step of a process that has nothing of its own to answer for.
LEMMA AloneStep ==
    ASSUME AutonomyInv, NEW h \in Hosts, UNCHANGED <<job, uncertain>>,
           TypeOK',
           \A k \in Hosts \ {h} :
              /\ host'[k] = host[k]
              /\ descriptor' = k <=> descriptor = k
              /\ lane' = k <=> lane = k,
           HoldsLocks(h)', HasFaithfulCopies(h)', HasRecordedRun(h)'
    PROVE  AutonomyInv'
<1>1. ASSUME NEW k \in Hosts \ {h}
      PROVE  HoldsLocks(k)' /\ HasFaithfulCopies(k)' /\ HasRecordedRun(k)'
  BY <1>1 DEF AutonomyInv, HoldsLocks, HasFaithfulCopies, HasRecordedRun
<1>. QED
  BY <1>1, SameRows DEF AutonomyInv

\* The owner rewrites one row that no run has taken away from it.
LEMMA RowStep ==
    ASSUME AutonomyInv, NEW j \in Jobs, NEW row \in Job,
           job' = [job EXCEPT ![j] = row],
           UNCHANGED <<policy, lockVars, runs>>,
           host' = Stale(host, j),
           uncertain' \subseteq uncertain,
           uncertain \subseteq uncertain' \cup {j},
           job[j].state \in {"running", "cancel_requested"} =>
              /\ row.state \in {"running", "cancel_requested"}
              /\ row.occurrence = job[j].occurrence,
           IsConsistent(j)'
    PROVE  AutonomyInv'
<1>0. TypeOK
  BY DEF AutonomyInv
<1>1. ASSUME NEW h \in Hosts
      PROVE  /\ host'[h] = [host[h] EXCEPT !.current = host[h].current \ {j}]
             /\ host[h] \in Process
  BY <1>0 DEF Stale, TypeOK
<1>2. ASSUME NEW p \in Process
      PROVE  [p EXCEPT !.current = p.current \ {j}] \in Process
  <2>. HIDE DEF Job
  <2>. QED
    BY DEF Process
<1>3. TypeOK'
  <2>1. host' \in [Hosts -> Process]
    <3>1. host' = [h \in Hosts |-> [host[h] EXCEPT !.current = host[h].current \ {j}]]
      BY DEF Stale
    <3>. QED
      BY <3>1, <1>1, <1>2
  <2>2. job' \in [Jobs -> Job]
    BY <1>0 DEF TypeOK
  <2>. QED
    BY <2>1, <2>2, <1>0 DEF TypeOK, lockVars
<1>4. ASSUME NEW h \in Hosts
      PROVE  /\ host'[h].at = host[h].at /\ host'[h].job = host[h].job
             /\ host'[h].occurrence = host[h].occurrence /\ host'[h].page = host[h].page
             /\ host'[h].copy = host[h].copy /\ host'[h].outcome = host[h].outcome
             /\ host'[h].current = host[h].current \ {j}
  <2>. HIDE DEF Job
  <2>. QED
    BY <1>1 DEF Process
<1>5. ASSUME NEW k \in Jobs PROVE k # j => job'[k] = job[k]
  BY <1>0 DEF TypeOK
<1>6. job'[j] = row
  BY <1>0 DEF TypeOK
<1>7. ASSUME NEW h \in Hosts
      PROVE  HoldsLocks(h)' /\ HasFaithfulCopies(h)' /\ HasRecordedRun(h)'
  <2>0. HoldsLocks(h) /\ HasFaithfulCopies(h) /\ HasRecordedRun(h)
    BY DEF AutonomyInv
  <2>1. HoldsLocks(h)'
    BY <2>0, <1>4 DEF HoldsLocks, lockVars
  <2>2. HasFaithfulCopies(h)'
    <3>1. host[h].current \subseteq Jobs
      BY <1>0 DEF TypeOK, Process
    <3>. QED
      BY <2>0, <1>4, <1>5, <3>1 DEF HasFaithfulCopies
  <2>3. HasRecordedRun(h)'
    BY <2>0, <1>4, <1>5, <1>6 DEF HasRecordedRun
  <2>. QED
    BY <2>1, <2>2, <2>3
<1>8. ASSUME NEW k \in Jobs PROVE IsConsistent(k)'
  <2>1. IsConsistent(k)
    BY DEF AutonomyInv
  <2>. QED
    BY <2>1, <1>5 DEF IsConsistent
<1>. QED
  BY <1>3, <1>7, <1>8 DEF AutonomyInv

\* A row that no process has a current copy of is not made stale.
LEMMA NothingStale ==
    ASSUME TypeOK, NEW j \in Jobs, \A h \in Hosts : j \notin host[h].current
    PROVE  Stale(host, j) = host
<1>1. ASSUME NEW h \in Hosts PROVE [host[h] EXCEPT !.current = @ \ {j}] = host[h]
  <2>1. host[h].current \ {j} = host[h].current /\ host[h] \in Process
    BY DEF TypeOK
  <2>. HIDE DEF Job
  <2>. QED
    BY <2>1 DEF Process
<1>2. host = [h \in Hosts |-> host[h]]
  BY DEF TypeOK
<1>. QED
  BY <1>1, <1>2 DEF Stale

-----------------------------------------------------------------------------
(* The owner and the passing of time.                                      *)

\* autonomy_create
LEMMA CreateStep ==
    ASSUME AutonomyInv, NEW j \in Jobs, Create(j)
    PROVE  AutonomyInv'
<1>0. TypeOK /\ job[j] \in Job /\ IsConsistent(j) /\ job[j].state = "absent"
  BY DEF AutonomyInv, TypeOK, Create
<1>1. PICK kind \in Kinds :
        job' = [job EXCEPT ![j] = [NoJob EXCEPT !.kind = kind, !.state = "ready",
                                                !.authorized = TRUE]]
  BY DEF Create, Save
<1>2. PICK row : row = [NoJob EXCEPT !.kind = kind, !.state = "ready", !.authorized = TRUE]
  OBVIOUS
<1>3. row \in Job /\ row.state = "ready"
  BY <1>2, NoJobType DEF Job, States
<1>4. UNCHANGED <<policy, lockVars, runs>> /\ uncertain' = uncertain /\ host' = host
  BY DEF Create, OwnerFrame
<1>5. \A h \in Hosts : j \notin host[h].current
  BY <1>0 DEF AutonomyInv, HasFaithfulCopies
<1>6. host' = Stale(host, j)
  BY <1>0, <1>4, <1>5, NothingStale
<1>7. job'[j] = row
  BY <1>0, <1>1, <1>2 DEF TypeOK
<1>8. IsConsistent(j)'
  BY <1>0, <1>3, <1>4, <1>7 DEF IsConsistent
<1>. QED
  BY <1>0, <1>1, <1>2, <1>3, <1>4, <1>6, <1>8, RowStep

\* The owner pauses a schedule.
LEMMA PauseStep ==
    ASSUME AutonomyInv, NEW j \in Jobs, Pause(j)
    PROVE  AutonomyInv'
<1>0. TypeOK /\ job[j] \in Job /\ IsConsistent(j)
  BY DEF AutonomyInv, TypeOK
<1>1. PICK row : row = IF job[j].state = "running"
                       THEN [job[j] EXCEPT !.pauseAfterRun = TRUE]
                       ELSE [job[j] EXCEPT !.state = "paused"]
  OBVIOUS
<1>2. /\ row \in Job /\ row.authorized = job[j].authorized
      /\ row.occurrence = job[j].occurrence
      /\ job[j].state = "running" => row.state = "running"
      /\ job[j].state # "running" => row.state = "paused"
  BY <1>0, <1>1 DEF Job, States
<1>3. /\ UNCHANGED <<policy, lockVars, runs>> /\ uncertain' = uncertain
      /\ host' = Stale(host, j) /\ job' = [job EXCEPT ![j] = row]
      /\ job[j].state \in {"running", "ready", "paused"}
  BY <1>1 DEF Pause, OwnerFrame, Save
<1>4. job'[j] = row
  BY <1>0, <1>3 DEF TypeOK
<1>5. IsConsistent(j)'
  BY <1>0, <1>2, <1>3, <1>4 DEF IsConsistent
<1>. QED
  BY <1>2, <1>3, <1>5, RowStep

\* The owner cancels a schedule.
LEMMA CancelStep ==
    ASSUME AutonomyInv, NEW j \in Jobs, Cancel(j)
    PROVE  AutonomyInv'
<1>0. TypeOK /\ job[j] \in Job /\ IsConsistent(j)
  BY DEF AutonomyInv, TypeOK
<1>1. PICK row : row = [job[j] EXCEPT !.authorized = FALSE,
                  !.state = IF job[j].state \in {"running", "cancel_requested"}
                            THEN "cancel_requested" ELSE "cancelled"]
  OBVIOUS
<1>2. /\ row \in Job /\ row.authorized = FALSE /\ row.occurrence = job[j].occurrence
      /\ row.state = IF job[j].state \in {"running", "cancel_requested"}
                     THEN "cancel_requested" ELSE "cancelled"
  BY <1>0, <1>1 DEF Job, States
<1>3. /\ UNCHANGED <<policy, lockVars, runs>> /\ uncertain' = uncertain
      /\ host' = Stale(host, j) /\ job' = [job EXCEPT ![j] = row]
  BY <1>1 DEF Cancel, OwnerFrame, Save
<1>4. job'[j] = row
  BY <1>0, <1>3 DEF TypeOK
<1>5. IsConsistent(j)'
  BY <1>2, <1>3, <1>4 DEF IsConsistent
<1>. QED
  BY <1>2, <1>3, <1>5, RowStep

\* The owner resumes a schedule: one with an unknown outcome is reviewed.
LEMMA ResumeStep ==
    ASSUME AutonomyInv, NEW j \in Jobs, NEW review \in BOOLEAN, Resume(j, review)
    PROVE  AutonomyInv'
<1>0. TypeOK /\ job[j] \in Job /\ IsConsistent(j)
  BY DEF AutonomyInv, TypeOK
<1>1. PICK row : row = [job[j] EXCEPT !.state = "ready", !.pauseAfterRun = FALSE]
  OBVIOUS
<1>2. row \in Job /\ row.state = "ready"
  BY <1>0, <1>1 DEF Job, States
<1>3. /\ UNCHANGED <<policy, lockVars, runs>>
      /\ uncertain' = IF review THEN uncertain \ {j} ELSE uncertain
      /\ host' = Stale(host, j) /\ job' = [job EXCEPT ![j] = row]
      /\ job[j].state \in {"paused", "needs_you"} /\ job[j].authorized
      /\ job[j].last = "unknown" => review
  BY <1>1 DEF Resume, OwnerFrame, Save
<1>4. job'[j] = row
  BY <1>0, <1>3 DEF TypeOK
<1>5. j \notin uncertain'
  BY <1>0, <1>3 DEF IsConsistent
<1>6. IsConsistent(j)'
  BY <1>2, <1>4, <1>5 DEF IsConsistent
<1>. QED
  BY <1>2, <1>3, <1>6, RowStep

\* An instant comes, or an authority expires.
LEMMA TimeStep ==
    ASSUME AutonomyInv, NEW j \in Jobs, TimePasses(j)
    PROVE  AutonomyInv'
<1>0. TypeOK /\ job[j] \in Job /\ IsConsistent(j)
  BY DEF AutonomyInv, TypeOK
<1>1. UNCHANGED <<policy, lockVars, runs>> /\ uncertain' = uncertain /\ host' = host
  BY DEF TimePasses, OwnerFrame
<1>2. CASE ~job[j].due /\ job' = [job EXCEPT ![j].due = TRUE]
  <2>1. PICK row : row = [job[j] EXCEPT !.due = TRUE]
    OBVIOUS
  <2>2. /\ row \in Job /\ row.state = job[j].state /\ row.authorized = job[j].authorized
        /\ row.occurrence = job[j].occurrence /\ row.last = job[j].last
    BY <2>1, <1>0 DEF Job
  <2>3. \A h \in Hosts : j \notin host[h].current
    BY <1>2 DEF AutonomyInv, HasFaithfulCopies
  <2>4. host' = Stale(host, j)
    BY <1>0, <1>1, <2>3, NothingStale
  <2>5. job' = [job EXCEPT ![j] = row] /\ job'[j] = row
    BY <1>0, <1>2, <2>1 DEF TypeOK
  <2>6. IsConsistent(j)'
    BY <1>0, <1>1, <2>2, <2>5 DEF IsConsistent
  <2>. QED
    BY <1>1, <2>2, <2>4, <2>5, <2>6, RowStep
<1>3. CASE job' = [job EXCEPT ![j].expired = TRUE]
  <2>1. PICK row : row = [job[j] EXCEPT !.expired = TRUE]
    OBVIOUS
  <2>2. /\ row \in Job /\ row.state = job[j].state /\ row.authorized = job[j].authorized
        /\ row.occurrence = job[j].occurrence /\ row.last = job[j].last
        /\ row.due = job[j].due
    BY <2>1, <1>0 DEF Job
  <2>3. job' = [job EXCEPT ![j] = row] /\ job'[j] = row
    BY <1>0, <1>3, <2>1 DEF TypeOK
  <2>4. ASSUME NEW k \in Jobs PROVE k # j => job'[k] = job[k]
    BY <1>0, <2>3 DEF TypeOK
  <2>5. TypeOK'
    BY <1>0, <1>1, <2>2, <2>3 DEF TypeOK, lockVars
  <2>6. ASSUME NEW c \in Job, [c EXCEPT !.expired = job[j].expired] = job[j]
        PROVE  [c EXCEPT !.expired = row.expired] = row
    BY <1>0, <2>1, <2>6 DEF Job
  <2>7. ASSUME NEW h \in Hosts
        PROVE  HoldsLocks(h)' /\ HasFaithfulCopies(h)' /\ HasRecordedRun(h)'
    <3>0. HoldsLocks(h) /\ HasFaithfulCopies(h) /\ HasRecordedRun(h)
      BY DEF AutonomyInv
    <3>1. HoldsLocks(h)'
      BY <3>0, <1>1 DEF HoldsLocks, lockVars
    <3>2. host[h].current \subseteq Jobs /\ \A k \in Jobs : host[h].copy[k] \in Job
      <4>. HIDE DEF Job
      <4>. QED
        BY <1>0 DEF TypeOK, Process
    <3>3. HasFaithfulCopies(h)'
      <4>1. ASSUME NEW k \in host[h].current
            PROVE  /\ job'[k].state = "ready" /\ job'[k].due
                   /\ [host[h].copy[k] EXCEPT !.expired = job'[k].expired] = job'[k]
        <5>0. /\ k \in Jobs /\ host[h].copy[k] \in Job
              /\ job[k].state = "ready" /\ job[k].due
              /\ [host[h].copy[k] EXCEPT !.expired = job[k].expired] = job[k]
          BY <3>0, <3>2, <4>1 DEF HasFaithfulCopies
        <5>1. CASE k = j
          BY <5>0, <5>1, <2>2, <2>3, <2>6
        <5>2. CASE k # j
          BY <5>0, <5>2, <2>4
        <5>. QED
          BY <5>1, <5>2
      <4>. QED
        BY <3>0, <1>1, <4>1 DEF HasFaithfulCopies
    <3>4. HasRecordedRun(h)'
      BY <3>0, <1>1, <2>2, <2>3, <2>4 DEF HasRecordedRun
    <3>. QED
      BY <3>1, <3>3, <3>4
  <2>8. ASSUME NEW k \in Jobs PROVE IsConsistent(k)'
    <3>1. IsConsistent(k)
      BY DEF AutonomyInv
    <3>. QED
      BY <3>1, <1>1, <2>2, <2>3, <2>4 DEF IsConsistent
  <2>. QED
    BY <2>5, <2>7, <2>8 DEF AutonomyInv
<1>. QED
  BY <1>2, <1>3 DEF TimePasses

\* The policy, the foreground, and steps outside the model.
LEMMA OutsideStep ==
    ASSUME AutonomyInv, SetPolicy \/ ForegroundChanges \/ UNCHANGED vars
    PROVE  AutonomyInv'
<1>0. TypeOK
  BY DEF AutonomyInv
<1>1. UNCHANGED <<job, descriptor, lane, host, uncertain, runs>>
  BY DEF SetPolicy, ForegroundChanges, vars, lockVars
<1>2. policy' \in [enabled : BOOLEAN, stop : BOOLEAN] /\ foreground' \in BOOLEAN
  BY <1>0 DEF SetPolicy, ForegroundChanges, vars, lockVars, TypeOK
<1>3. TypeOK'
  BY <1>0, <1>1, <1>2 DEF TypeOK
<1>4. ASSUME NEW h \in Hosts
      PROVE  HoldsLocks(h)' /\ HasFaithfulCopies(h)' /\ HasRecordedRun(h)'
  <2>0. HoldsLocks(h) /\ HasFaithfulCopies(h) /\ HasRecordedRun(h)
    BY DEF AutonomyInv
  <2>. QED
    BY <2>0, <1>1 DEF HoldsLocks, HasFaithfulCopies, HasRecordedRun
<1>. QED
  BY <1>1, <1>3, <1>4, SameRows DEF AutonomyInv

-----------------------------------------------------------------------------
(* The steps of a process: how they change its state.                      *)

\* The state of one process is replaced.
LEMMA Replaced ==
    ASSUME TypeOK, NEW h \in Hosts, NEW p \in Process, host' = [host EXCEPT ![h] = p]
    PROVE  /\ host' \in [Hosts -> Process] /\ host'[h] = p
           /\ \A k \in Hosts \ {h} : host'[k] = host[k]
BY DEF TypeOK

\* A process moves on.
LEMMA Moved ==
    ASSUME TypeOK, NEW h \in Hosts, NEW place \in Places, Goto(h, place)
    PROVE  /\ host' \in [Hosts -> Process]
           /\ \A k \in Hosts \ {h} : host'[k] = host[k]
           /\ host'[h].at = place /\ host'[h].job = host[h].job
           /\ host'[h].occurrence = host[h].occurrence /\ host'[h].page = host[h].page
           /\ host'[h].copy = host[h].copy /\ host'[h].current = host[h].current
           /\ host'[h].outcome = host[h].outcome /\ host'[h].cancel = host[h].cancel
<1>1. PICK p : p = [host[h] EXCEPT !.at = place]
  OBVIOUS
<1>2. /\ p \in Process /\ p.at = place /\ p.job = host[h].job
      /\ p.occurrence = host[h].occurrence /\ p.page = host[h].page
      /\ p.copy = host[h].copy /\ p.current = host[h].current
      /\ p.outcome = host[h].outcome /\ p.cancel = host[h].cancel
  <2>1. host[h] \in Process
    BY DEF TypeOK
  <2>. HIDE DEF Job
  <2>. QED
    BY <1>1, <2>1 DEF Process
<1>3. host' = [host EXCEPT ![h] = p]
  BY <1>1 DEF Goto, TypeOK
<1>. QED
  BY <1>2, <1>3, Replaced

\* An execution ends.
LEMMA Ended ==
    ASSUME TypeOK, NEW h \in Hosts, NEW o \in Outcomes, Ends(h, o)
    PROVE  /\ host' \in [Hosts -> Process]
           /\ \A k \in Hosts \ {h} : host'[k] = host[k]
           /\ host'[h].at = "ended" /\ host'[h].job = host[h].job
           /\ host'[h].occurrence = host[h].occurrence /\ host'[h].page = host[h].page
           /\ host'[h].copy = host[h].copy /\ host'[h].current = host[h].current
           /\ host'[h].outcome = o
<1>1. PICK p : p = [host[h] EXCEPT !.at = "ended", !.outcome = o]
  OBVIOUS
<1>2. /\ p \in Process /\ p.at = "ended" /\ p.job = host[h].job
      /\ p.occurrence = host[h].occurrence /\ p.page = host[h].page
      /\ p.copy = host[h].copy /\ p.current = host[h].current
      /\ p.outcome = o
  <2>1. host[h] \in Process
    BY DEF TypeOK
  <2>. HIDE DEF Job
  <2>. QED
    BY <1>1, <2>1 DEF Process, Places
<1>3. host' = [host EXCEPT ![h] = p]
  BY <1>1 DEF Ends, TypeOK
<1>. QED
  BY <1>2, <1>3, Replaced

\* A run is over and its process is idle again.
LEMMA Idled ==
    ASSUME TypeOK, NEW h \in Hosts, host' = Idle(h)
    PROVE  /\ host' \in [Hosts -> Process]
           /\ \A k \in Hosts \ {h} : host'[k] = host[k]
           /\ host'[h].at = "idle" /\ host'[h].page = host[h].page
           /\ host'[h].current = host[h].current
<1>1. PICK p : p = [host[h] EXCEPT !.at = "idle", !.job = None, !.occurrence = 0,
                                   !.cancel = FALSE, !.outcome = None]
  OBVIOUS
<1>2. /\ p \in Process /\ p.at = "idle" /\ p.page = host[h].page
      /\ p.current = host[h].current
  <2>1. host[h] \in Process
    BY DEF TypeOK
  <2>. HIDE DEF Job
  <2>. QED
    BY <1>1, <2>1, NoOccurrence DEF Process, Places
<1>3. host' = [host EXCEPT ![h] = p]
  BY <1>1 DEF Idle, TypeOK
<1>. QED
  BY <1>2, <1>3, Replaced

\* A process ends, by itself or by a crash: what it was running stays recorded
\* as running, for the next process to recover.
LEMMA ExitStep ==
    ASSUME AutonomyInv, NEW h \in Hosts, Exits(h),
           UNCHANGED <<job, policy, foreground, uncertain, runs>>
    PROVE  AutonomyInv'
<1>0. TypeOK
  BY DEF AutonomyInv
<1>1. /\ host' \in [Hosts -> Process] /\ host'[h] = Down
      /\ \A k \in Hosts \ {h} : host'[k] = host[k]
  BY <1>0, DownType, Replaced DEF Exits
<1>2. TypeOK'
  BY <1>0, <1>1 DEF TypeOK, Exits
<1>3. ASSUME NEW k \in Hosts \ {h}
      PROVE  (descriptor' = k <=> descriptor = k) /\ (lane' = k <=> lane = k)
  BY <1>3, NoneAssumption DEF Exits
<1>4. descriptor' # h /\ lane' # h
  BY NoneAssumption DEF Exits
<1>5. host'[h].at = "down" /\ host'[h].page = {} /\ host'[h].current = {}
  BY <1>1 DEF Down
<1>6. HoldsLocks(h)' /\ HasFaithfulCopies(h)' /\ HasRecordedRun(h)'
  BY <1>4, <1>5 DEF HoldsLocks, HasFaithfulCopies, HasRecordedRun, InRun, Executing
<1>. QED
  BY <1>1, <1>2, <1>3, <1>6, AloneStep

\* A run moves on between its claim and its receipt.
LEMMA RunMove ==
    ASSUME AutonomyInv, NEW h \in Hosts,
           UNCHANGED <<job, policy, descriptor, lane, foreground, uncertain, runs>>,
           host' \in [Hosts -> Process], \A k \in Hosts \ {h} : host'[k] = host[k],
           host[h].at \in InRun, host'[h].at \in InRun,
           host'[h].job = host[h].job, host'[h].occurrence = host[h].occurrence,
           host'[h].page = host[h].page, host'[h].current = host[h].current,
           host'[h].at \in BeforeDispatch => host[h].at \in BeforeDispatch,
           host'[h].at = "ended" =>
              /\ host'[h].outcome \in {"completed", "needs_you", "cancelled", "unknown"}
              /\ host'[h].outcome = "cancelled" => host[h].at \in BeforeDispatch
    PROVE  AutonomyInv'
<1>0. TypeOK /\ HoldsLocks(h) /\ HasFaithfulCopies(h) /\ HasRecordedRun(h)
  BY DEF AutonomyInv
<1>1. TypeOK'
  BY <1>0 DEF TypeOK
<1>2. HoldsLocks(h)'
  BY <1>0 DEF HoldsLocks, InRun, Executing
<1>3. HasFaithfulCopies(h)'
  BY <1>0 DEF HasFaithfulCopies, InRun, Executing
<1>4. HasRecordedRun(h)'
  BY <1>0 DEF HasRecordedRun
<1>. QED
  BY <1>1, <1>2, <1>3, <1>4, AloneStep

-----------------------------------------------------------------------------
(* The steps of a process outside a run.                                   *)

\* A process starts.
LEMMA LaunchStep ==
    ASSUME AutonomyInv, NEW h \in Hosts, Launch(h)
    PROVE  AutonomyInv'
<1>0. TypeOK /\ HoldsLocks(h) /\ HasFaithfulCopies(h) /\ host[h].at = "down"
  BY DEF AutonomyInv, Launch
<1>1. UNCHANGED <<job, policy, descriptor, lane, foreground, uncertain, runs>> /\ Goto(h, "starting")
  BY DEF Launch, HostFrame
<1>2. /\ host' \in [Hosts -> Process] /\ \A k \in Hosts \ {h} : host'[k] = host[k]
      /\ host'[h].at = "starting" /\ host'[h].page = host[h].page
      /\ host'[h].current = host[h].current
  BY <1>0, <1>1, Moved DEF Places
<1>3. TypeOK'
  BY <1>0, <1>1, <1>2 DEF TypeOK
<1>4. HoldsLocks(h)' /\ HasFaithfulCopies(h)' /\ HasRecordedRun(h)'
  BY <1>0, <1>1, <1>2 DEF HoldsLocks, HasFaithfulCopies, HasRecordedRun, InRun, Executing
<1>. QED
  BY <1>1, <1>2, <1>3, <1>4, AloneStep

\* LocalHostServer::bind
LEMMA BindStep ==
    ASSUME AutonomyInv, NEW h \in Hosts, Bind(h)
    PROVE  AutonomyInv'
<1>0. TypeOK /\ HoldsLocks(h) /\ HasFaithfulCopies(h) /\ host[h].at = "starting"
  BY DEF AutonomyInv, Bind
<1>1. UNCHANGED <<job, policy, lane, foreground, uncertain, runs>>
  BY DEF Bind, HostFrame
<1>2. PICK place \in {"bound", "down"} : Goto(h, place)
  BY DEF Bind
<1>3. /\ host' \in [Hosts -> Process] /\ \A k \in Hosts \ {h} : host'[k] = host[k]
      /\ host'[h].at = place /\ host'[h].page = host[h].page
      /\ host'[h].current = host[h].current
  BY <1>0, <1>2, Moved DEF Places
<1>4. \/ descriptor = None /\ descriptor' = h /\ host'[h].at = "bound"
      \/ descriptor # None /\ descriptor' = descriptor /\ host'[h].at = "down"
  <2>1. CASE descriptor = None
    <3>1. Goto(h, "bound") /\ descriptor' = h
      BY <2>1 DEF Bind
    <3>. QED
      BY <2>1, <3>1, <1>0, Moved DEF Places
  <2>2. CASE descriptor # None
    <3>1. Goto(h, "down") /\ descriptor' = descriptor
      BY <2>2 DEF Bind
    <3>. QED
      BY <2>2, <3>1, <1>0, Moved DEF Places
  <2>. QED
    BY <2>1, <2>2
<1>5. TypeOK'
  BY <1>0, <1>1, <1>3, <1>4 DEF TypeOK
<1>6. HoldsLocks(h)' /\ HasFaithfulCopies(h)' /\ HasRecordedRun(h)'
  BY <1>0, <1>1, <1>3, <1>4 DEF HoldsLocks, HasFaithfulCopies, HasRecordedRun, InRun, Executing
<1>7. ASSUME NEW k \in Hosts \ {h}
      PROVE  (descriptor' = k <=> descriptor = k) /\ (lane' = k <=> lane = k)
  BY <1>1, <1>4, <1>7, NoneAssumption
<1>. QED
  BY <1>1, <1>3, <1>5, <1>6, <1>7, AloneStep

\* What recovery writes: every running row waits for its owner.
LEMMA RecoveredRows ==
    ASSUME TypeOK, job' = Recovered
    PROVE  /\ job' \in [Jobs -> Job]
           /\ \A j \in Jobs :
                 /\ job'[j].authorized = job[j].authorized
                 /\ job[j].state \in {"running", "cancel_requested"} =>
                       /\ job'[j].state = "needs_you" /\ job'[j].last = "unknown"
                       /\ job'[j].occurrence = 0
                 /\ job[j].state \notin {"running", "cancel_requested"} => job'[j] = job[j]
<1>1. ASSUME NEW j \in Jobs, job[j].state \in {"running", "cancel_requested"}
      PROVE  /\ job'[j] \in Job /\ job'[j].authorized = job[j].authorized
             /\ job'[j].state = "needs_you" /\ job'[j].last = "unknown"
             /\ job'[j].occurrence = 0
  <2>1. job'[j] = [job[j] EXCEPT !.state = "needs_you", !.occurrence = 0, !.last = "unknown"]
    BY <1>1 DEF Recovered, Running
  <2>2. job[j] \in Job
    BY DEF TypeOK
  <2>. QED
    BY <2>1, <2>2, NoOccurrence DEF Job, States, Outcomes
<1>2. ASSUME NEW j \in Jobs, job[j].state \notin {"running", "cancel_requested"}
      PROVE  job'[j] = job[j] /\ job[j] \in Job
  BY <1>2 DEF Recovered, Running, TypeOK
<1>3. ASSUME NEW j \in Jobs PROVE job'[j] \in Job
  BY <1>1, <1>2
<1>4. job' = [j \in Jobs |-> job'[j]]
  BY DEF Recovered
<1>. QED
  BY <1>1, <1>2, <1>3, <1>4

\* autonomy_recover
LEMMA RecoverStep ==
    ASSUME AutonomyInv, NEW h \in Hosts, Recover(h)
    PROVE  AutonomyInv'
<1>0. TypeOK /\ HoldsLocks(h) /\ HasFaithfulCopies(h) /\ host[h].at = "bound"
  BY DEF AutonomyInv, Recover
<1>1. /\ UNCHANGED <<policy, descriptor, lane, foreground, uncertain, runs>>
      /\ Goto(h, "idle") /\ job' = Recovered
  BY DEF Recover, HostFrame
<1>2. /\ host' \in [Hosts -> Process] /\ \A k \in Hosts \ {h} : host'[k] = host[k]
      /\ host'[h].at = "idle" /\ host'[h].page = host[h].page
      /\ host'[h].current = host[h].current
  BY <1>0, <1>1, Moved DEF Places
<1>3. descriptor = h /\ descriptor' = h /\ lane' = lane
  BY <1>0, <1>1 DEF HoldsLocks
<1>4. lane' \in {h, None}
  BY <1>0, <1>3, OneAtWork DEF TypeOK
<1>5. TypeOK'
  BY <1>0, <1>1, <1>2, RecoveredRows DEF TypeOK
<1>6. HoldsLocks(h)' /\ HasFaithfulCopies(h)' /\ HasRecordedRun(h)'
  BY <1>0, <1>2, <1>3 DEF HoldsLocks, HasFaithfulCopies, HasRecordedRun, InRun, Executing
<1>7. ASSUME NEW j \in Jobs PROVE IsConsistent(j)'
  <2>1. IsConsistent(j)
    BY DEF AutonomyInv
  <2>. QED
    BY <2>1, <1>0, <1>1, RecoveredRows DEF IsConsistent
<1>. QED
  BY <1>2, <1>3, <1>4, <1>5, <1>6, <1>7, WorkStep

\* The scheduler's loop reads the page of due jobs, or leaves.
LEMMA NextTickStep ==
    ASSUME AutonomyInv, NEW h \in Hosts, NextTick(h)
    PROVE  AutonomyInv'
<1>0. TypeOK /\ HoldsLocks(h) /\ host[h].at = "idle" /\ host[h] \in Process
  BY DEF AutonomyInv, NextTick, TypeOK
<1>1. UNCHANGED <<job, policy, foreground, uncertain, runs>>
  BY DEF NextTick, HostFrame
<1>2. CASE ~MayTick(h)
  BY <1>1, <1>2, ExitStep DEF NextTick
<1>3. CASE MayTick(h)
  <2>. DEFINE due == {j \in Jobs : job[j].state = "ready" /\ job[j].due}
              rows == [j \in Jobs |-> IF j \in due THEN job[j] ELSE NoJob]
  <2>1. PICK p : p = [host[h] EXCEPT !.at = "tick", !.page = due, !.current = due, !.copy = rows]
    OBVIOUS
  <2>2. rows \in [Jobs -> Job]
    BY <1>0, NoJobType DEF TypeOK
  <2>3. due \subseteq Jobs /\ \A j \in due : rows[j] = job[j]
    OBVIOUS
  <2>4. /\ p \in Process /\ p.at = "tick" /\ p.page = due /\ p.current = due
        /\ p.copy = rows
    <3>. HIDE DEF Job, due, rows
    <3>. QED
      BY <1>0, <2>1, <2>2, <2>3 DEF Process, Places
  <2>5. host' = [host EXCEPT ![h] = p] /\ UNCHANGED <<descriptor, lane>>
    BY <1>0, <1>3, <2>1 DEF NextTick, TypeOK
  <2>6. /\ host' \in [Hosts -> Process] /\ host'[h] = p
        /\ \A k \in Hosts \ {h} : host'[k] = host[k]
    BY <1>0, <2>4, <2>5, Replaced
  <2>7. TypeOK'
    BY <1>0, <1>1, <2>5, <2>6 DEF TypeOK
  <2>8. HoldsLocks(h)' /\ HasRecordedRun(h)'
    BY <1>0, <2>4, <2>5, <2>6 DEF HoldsLocks, HasRecordedRun, InRun, Executing
  <2>9. HasFaithfulCopies(h)'
    <3>1. ASSUME NEW j \in due
          PROVE  /\ job[j].state = "ready" /\ job[j].due
                 /\ [rows[j] EXCEPT !.expired = job[j].expired] = job[j]
      <4>1. job[j] \in Job /\ rows[j] = job[j] /\ job[j].state = "ready" /\ job[j].due
        BY <3>1, <1>0 DEF TypeOK
      <4>. HIDE DEF due, rows
      <4>. QED
        BY <4>1 DEF Job
    <3>. HIDE DEF due, rows
    <3>. QED
      BY <1>1, <2>4, <2>6, <3>1 DEF HasFaithfulCopies
  <2>. QED
    BY <1>1, <2>5, <2>6, <2>7, <2>8, <2>9, AloneStep
<1>. QED
  BY <1>2, <1>3

\* A shutdown is noted.
LEMMA InterruptStep ==
    ASSUME AutonomyInv, NEW h \in Hosts, Interrupt(h)
    PROVE  AutonomyInv'
<1>0. /\ TypeOK /\ HoldsLocks(h) /\ HasFaithfulCopies(h) /\ HasRecordedRun(h)
      /\ host[h] \in Process
  BY DEF AutonomyInv, TypeOK
<1>1. UNCHANGED <<job, policy, descriptor, lane, foreground, uncertain, runs>>
  BY DEF Interrupt, HostFrame
<1>2. PICK p : p = [host[h] EXCEPT !.shutdown = TRUE]
  OBVIOUS
<1>3. /\ p \in Process /\ p.at = host[h].at /\ p.job = host[h].job
      /\ p.occurrence = host[h].occurrence /\ p.page = host[h].page
      /\ p.copy = host[h].copy /\ p.current = host[h].current
      /\ p.outcome = host[h].outcome
  <2>. HIDE DEF Job
  <2>. QED
    BY <1>0, <1>2 DEF Process
<1>4. host' = [host EXCEPT ![h] = p]
  BY <1>0, <1>2 DEF Interrupt, TypeOK
<1>5. /\ host' \in [Hosts -> Process] /\ host'[h] = p
      /\ \A k \in Hosts \ {h} : host'[k] = host[k]
  BY <1>0, <1>3, <1>4, Replaced
<1>6. TypeOK'
  BY <1>0, <1>1, <1>5 DEF TypeOK
<1>7. HoldsLocks(h)' /\ HasFaithfulCopies(h)' /\ HasRecordedRun(h)'
  BY <1>0, <1>1, <1>3, <1>5 DEF HoldsLocks, HasFaithfulCopies, HasRecordedRun
<1>. QED
  BY <1>1, <1>5, <1>6, <1>7, AloneStep

\* An observation changes the row it was made of, and only when and how it is
\* observed: its authority and its occurrence stay.
LEMMA Observation ==
    ASSUME AutonomyInv, NEW h \in Hosts, NEW j \in Jobs, Observed(h, j)
    PROVE  /\ job' \in [Jobs -> Job]
           /\ \A k \in Jobs \ {j} : job'[k] = job[k]
           /\ job'[j].authorized = job[j].authorized
           /\ job'[j].occurrence = job[j].occurrence
           /\ \/ job'[j] = job[j]
              \/ job[j].state = "ready" /\ job'[j].state \in {"ready", "needs_you"}
<1>0. TypeOK /\ job[j] \in Job
  BY DEF AutonomyInv, TypeOK
<1>1. CASE j \in host[h].current /\ job[j].state = "ready"
  <2>1. [host[h].copy[j] EXCEPT !.expired = job[j].expired] = job[j]
    BY <1>1 DEF AutonomyInv, HasFaithfulCopies
  <2>2. PICK row \in Sighting(h, j) : job' = [job EXCEPT ![j] = row]
    BY <1>1 DEF Observed, Save
  <2>3. row \in {[job[j] EXCEPT !.pending = TRUE], [job[j] EXCEPT !.due = FALSE],
                 [job[j] EXCEPT !.due = FALSE, !.state = "needs_you", !.last = "needs_you"]}
    BY <2>1, <2>2 DEF Sighting
  <2>4. /\ row \in Job /\ row.authorized = job[j].authorized
        /\ row.occurrence = job[j].occurrence /\ row.state \in {"ready", "needs_you"}
    <3>1. CASE row = [job[j] EXCEPT !.pending = TRUE]
      BY <1>0, <1>1, <3>1 DEF Job
    <3>2. CASE row = [job[j] EXCEPT !.due = FALSE]
      BY <1>0, <1>1, <3>2 DEF Job
    <3>3. CASE row = [job[j] EXCEPT !.due = FALSE, !.state = "needs_you", !.last = "needs_you"]
      BY <1>0, <3>3 DEF Job, States, Outcomes
    <3>. QED
      BY <2>3, <3>1, <3>2, <3>3
  <2>. HIDE DEF Job
  <2>5. job'[j] = row /\ job' \in [Jobs -> Job] /\ \A k \in Jobs \ {j} : job'[k] = job[k]
    BY <1>0, <2>2, <2>4 DEF TypeOK
  <2>. QED
    BY <1>1, <2>4, <2>5
<1>2. CASE ~(j \in host[h].current /\ job[j].state = "ready")
  <2>1. job' = job
    BY <1>2 DEF Observed
  <2>. QED
    BY <1>0, <2>1 DEF TypeOK
<1>. QED
  BY <1>1, <1>2

\* triggers::refresh_due: what becomes of the tick's copies.
LEMMA Refreshed ==
    ASSUME AutonomyInv, NEW h \in Hosts, RefreshDue(h)
    PROVE  /\ host' \in [Hosts -> Process] /\ host'[h].at = "tick"
           /\ \A k \in Hosts \ {h} : host'[k] = host[k]
           /\ \E j \in Jobs :
                 /\ Observed(h, j) \/ job' = job
                 /\ host'[h].current \subseteq host'[h].page \ {j}
                 /\ host'[h].current \subseteq host[h].current
                 /\ \A k \in host'[h].current : host'[h].copy[k] = host[h].copy[k]
<1>0. /\ TypeOK /\ host[h].at = "tick" /\ host[h] \in Process /\ descriptor = h
      /\ host[h].page \subseteq Jobs /\ host[h].current \subseteq host[h].page
  BY DEF AutonomyInv, TypeOK, RefreshDue, HoldsLocks, HasFaithfulCopies, Process
<1>. DEFINE looks(j) == /\ Triggered(j) /\ host[h].copy[j].authorized
                        /\ ~host[h].copy[j].expired /\ ~host[h].copy[j].pending
            rest(j) == IF host[h].shutdown THEN {} ELSE host[h].page \ {j}
            copies(j) == [k \in Jobs |-> IF k \in rest(j) THEN host[h].copy[k] ELSE NoJob]
            p(j) == [host[h] EXCEPT !.page = rest(j), !.copy = copies(j),
                                    !.current = host[h].current \cap rest(j)]
            next(j) == [host EXCEPT ![h] = p(j)]
<1>1. PICK j \in host[h].page :
         IF looks(j) /\ ~host[h].shutdown
         THEN Observed(h, j) /\ host' = Stale(next(j), j)
         ELSE UNCHANGED job /\ host' = next(j)
  BY DEF RefreshDue
<1>2. j \in Jobs /\ rest(j) \subseteq host[h].page \ {j}
  BY <1>0, <1>1
<1>3. copies(j) \in [Jobs -> Job] /\ \A k \in rest(j) : copies(j)[k] = host[h].copy[k]
  <2>1. host[h].copy \in [Jobs -> Job]
    <3>. HIDE DEF Job
    <3>. QED
      BY <1>0 DEF Process
  <2>. HIDE DEF Job, NoJob
  <2>. QED
    BY <1>0, <1>2, <2>1, NoJobType
<1>4. /\ p(j) \in Process /\ p(j).at = "tick" /\ p(j).page = rest(j)
      /\ p(j).copy = copies(j) /\ p(j).current = host[h].current \cap rest(j)
  <2>1. rest(j) \subseteq Jobs
    BY <1>0, <1>2
  <2>. HIDE DEF Job, rest, copies
  <2>. QED
    BY <1>0, <1>3, <2>1 DEF Process
<1>5. next(j)[h] = p(j) /\ \A k \in Hosts \ {h} : next(j)[k] = host[k]
  <2>. HIDE DEF p
  <2>. QED
    BY <1>0 DEF TypeOK
<1>. HIDE DEF looks, rest, copies, p
<1>6. [p(j) EXCEPT !.current = p(j).current \ {j}] = p(j)
  <2>1. p(j).current \ {j} = p(j).current
    BY <1>2, <1>4
  <2>. HIDE DEF Job
  <2>. QED
    BY <1>4, <2>1 DEF Process
<1>7. ASSUME NEW k \in Hosts \ {h} PROVE [host[k] EXCEPT !.current = host[k].current \ {j}] = host[k]
  <2>1. host[k].current = {} /\ host[k] \in Process
    BY <1>0, OneAtWork DEF TypeOK
  <2>2. host[k].current \ {j} = host[k].current
    BY <2>1
  <2>. HIDE DEF Job
  <2>. QED
    BY <2>1, <2>2 DEF Process
<1>8. Stale(next(j), j) = next(j)
  <2>1. ASSUME NEW k \in Hosts
        PROVE  [next(j)[k] EXCEPT !.current = next(j)[k].current \ {j}] = next(j)[k]
    <3>. HIDE DEF next
    <3>1. CASE k = h
      BY <3>1, <1>5, <1>6
    <3>2. CASE k # h
      BY <3>2, <1>5, <1>7
    <3>. QED
      BY <3>1, <3>2
  <2>2. next(j) = [k \in Hosts |-> next(j)[k]]
    BY <1>0 DEF TypeOK
  <2>. HIDE DEF next
  <2>. QED
    BY <2>1, <2>2 DEF Stale
<1>9. host' = [host EXCEPT ![h] = p(j)] /\ (Observed(h, j) \/ job' = job)
  BY <1>1, <1>8
<1>10. /\ host' \in [Hosts -> Process] /\ host'[h] = p(j)
       /\ \A k \in Hosts \ {h} : host'[k] = host[k]
  BY <1>0, <1>4, <1>9, Replaced
<1>11. /\ host'[h].current \subseteq host'[h].page \ {j}
       /\ host'[h].current \subseteq host[h].current
       /\ \A k \in host'[h].current : host'[h].copy[k] = host[h].copy[k]
  BY <1>2, <1>3, <1>4, <1>10
<1>. QED
  BY <1>2, <1>4, <1>9, <1>10, <1>11

\* triggers::refresh_due
LEMMA RefreshStep ==
    ASSUME AutonomyInv, NEW h \in Hosts, RefreshDue(h)
    PROVE  AutonomyInv'
<1>0. /\ TypeOK /\ host[h].at = "tick" /\ descriptor = h /\ lane # h
      /\ HasFaithfulCopies(h)
  BY DEF AutonomyInv, RefreshDue, HoldsLocks, InRun, Executing
<1>1. UNCHANGED <<policy, descriptor, lane, foreground, uncertain, runs>>
  BY DEF RefreshDue, HostFrame
<1>2. /\ host' \in [Hosts -> Process] /\ host'[h].at = "tick"
      /\ \A k \in Hosts \ {h} : host'[k] = host[k]
  BY Refreshed
<1>3. PICK j \in Jobs :
         /\ Observed(h, j) \/ job' = job
         /\ host'[h].current \subseteq host'[h].page \ {j}
         /\ host'[h].current \subseteq host[h].current
         /\ \A k \in host'[h].current : host'[h].copy[k] = host[h].copy[k]
  BY Refreshed
<1>4. /\ job' \in [Jobs -> Job]
      /\ \A k \in Jobs \ {j} : job'[k] = job[k]
      /\ job'[j].authorized = job[j].authorized
      /\ \/ job'[j] = job[j]
         \/ job[j].state = "ready" /\ job'[j].state \in {"ready", "needs_you"}
  BY <1>0, <1>3, Observation DEF TypeOK
<1>5. TypeOK'
  BY <1>0, <1>1, <1>2, <1>4 DEF TypeOK
<1>6. HoldsLocks(h)' /\ HasRecordedRun(h)'
  BY <1>0, <1>1, <1>2 DEF HoldsLocks, HasRecordedRun, InRun, Executing
<1>7. HasFaithfulCopies(h)'
  <2>1. host[h].current \subseteq Jobs
    BY <1>0 DEF TypeOK, Process
  <2>2. ASSUME NEW k \in host'[h].current PROVE k \in host[h].current /\ job'[k] = job[k]
    BY <1>3, <1>4, <2>1
  <2>. QED
    BY <1>0, <1>2, <1>3, <2>2 DEF HasFaithfulCopies
<1>8. ASSUME NEW k \in Jobs PROVE IsConsistent(k)'
  <2>1. IsConsistent(k)
    BY DEF AutonomyInv
  <2>. QED
    BY <2>1, <1>1, <1>4 DEF IsConsistent
<1>9. lane' \in {h, None}
  BY <1>0, <1>1, OneAtWork DEF TypeOK
<1>. QED
  BY <1>0, <1>1, <1>2, <1>5, <1>6, <1>7, <1>8, <1>9, WorkStep

\* background_lease
LEMMA TakeLaneStep ==
    ASSUME AutonomyInv, NEW h \in Hosts, TakeLane(h)
    PROVE  AutonomyInv'
<1>0. /\ TypeOK /\ HoldsLocks(h) /\ HasFaithfulCopies(h) /\ host[h].at = "tick"
      /\ host[h].page = {} /\ descriptor = h /\ lane # h
  BY DEF AutonomyInv, TakeLane, HoldsLocks, InRun, Executing
<1>1. UNCHANGED <<job, policy, descriptor, foreground, uncertain, runs>>
  BY DEF TakeLane, HostFrame
<1>2. PICK place \in {"leased", "idle"} :
         /\ Goto(h, place)
         /\ \/ place = "leased" /\ lane = None /\ lane' = h
            \/ place = "idle" /\ lane' = lane
  <2>1. CASE lane = None /\ ~foreground
    <3>1. lane' = h /\ Goto(h, "leased")
      BY <2>1 DEF TakeLane
    <3>. QED
      BY <2>1, <3>1
  <2>2. CASE ~(lane = None /\ ~foreground)
    <3>1. lane' = lane /\ Goto(h, "idle")
      BY <2>2 DEF TakeLane
    <3>. QED
      BY <3>1
  <2>. QED
    BY <2>1, <2>2
<1>3. /\ host' \in [Hosts -> Process] /\ \A k \in Hosts \ {h} : host'[k] = host[k]
      /\ host'[h].at = place /\ host'[h].page = {} /\ host'[h].current = host[h].current
  BY <1>0, <1>2, Moved DEF Places
<1>4. TypeOK'
  BY <1>0, <1>1, <1>2, <1>3 DEF TypeOK
<1>5. HoldsLocks(h)' /\ HasFaithfulCopies(h)' /\ HasRecordedRun(h)'
  BY <1>0, <1>1, <1>2, <1>3 DEF HoldsLocks, HasFaithfulCopies, HasRecordedRun, InRun, Executing
<1>6. ASSUME NEW k \in Hosts \ {h}
      PROVE  (descriptor' = k <=> descriptor = k) /\ (lane' = k <=> lane = k)
  BY <1>1, <1>2, <1>6, NoneAssumption
<1>. QED
  BY <1>1, <1>3, <1>4, <1>5, <1>6, AloneStep

-----------------------------------------------------------------------------
(* The steps of a run.                                                     *)

\* What autonomy_claim does: nothing, the end of a job whose authority is over,
\* or a new occurrence of a job that has its authority.
LEMMA ClaimKinds ==
    ASSUME NEW h \in Hosts, Claim(h)
    PROVE  \/ EndTick(h) /\ UNCHANGED <<job, runs>>
           \/ \E j \in Claimable :
                /\ job[j].expired \/ ~job[j].authorized
                /\ Save(j, [job[j] EXCEPT !.state = "expired", !.last = "expired"])
                /\ EndTick(h) /\ UNCHANGED runs
           \/ \E j \in Claimable :
                /\ ~job[j].expired /\ job[j].authorized /\ runs < MaxRuns
                /\ runs' = runs + 1
                /\ Save(j, [job[j] EXCEPT !.state = "running", !.occurrence = runs + 1])
                /\ host' = [host EXCEPT ![h] = [host[h] EXCEPT !.at = "claimed",
                               !.job = j, !.occurrence = runs + 1]]
                /\ UNCHANGED lane
<1>. SUFFICES ASSUME NEW j \in Claimable,
                     CASE job[j].expired \/ ~job[j].authorized ->
                            /\ Save(j, [job[j] EXCEPT !.state = "expired", !.last = "expired"])
                            /\ EndTick(h) /\ UNCHANGED runs
                       [] ~job[j].expired /\ job[j].authorized
                          /\ Triggered(j) /\ ~job[j].pending ->
                            EndTick(h) /\ UNCHANGED <<job, runs>>
                       [] OTHER ->
                            /\ runs' = runs + 1
                            /\ Save(j, [job[j] EXCEPT !.state = "running",
                                                      !.occurrence = runs + 1])
                            /\ host' = [host EXCEPT ![h] = [host[h] EXCEPT !.at = "claimed",
                                           !.job = j, !.occurrence = runs + 1]]
                            /\ UNCHANGED lane,
                     runs < MaxRuns
              PROVE  \/ EndTick(h) /\ UNCHANGED <<job, runs>>
                     \/ /\ job[j].expired \/ ~job[j].authorized
                        /\ Save(j, [job[j] EXCEPT !.state = "expired", !.last = "expired"])
                        /\ EndTick(h) /\ UNCHANGED runs
                     \/ /\ ~job[j].expired /\ job[j].authorized
                        /\ runs' = runs + 1
                        /\ Save(j, [job[j] EXCEPT !.state = "running",
                                                  !.occurrence = runs + 1])
                        /\ host' = [host EXCEPT ![h] = [host[h] EXCEPT !.at = "claimed",
                                       !.job = j, !.occurrence = runs + 1]]
                        /\ UNCHANGED lane
  BY Zenon DEF Claim
<1>. QED
  BY Zenon

\* A tick ends without a run.
LEMMA LaneLeft ==
    ASSUME AutonomyInv, NEW h \in Hosts, host[h].at = "leased", EndTick(h),
           descriptor' = descriptor
    PROVE  /\ host' \in [Hosts -> Process] /\ lane' = None /\ descriptor = h
           /\ \A k \in Hosts \ {h} : host'[k] = host[k]
           /\ HoldsLocks(h)' /\ HasFaithfulCopies(h)' /\ HasRecordedRun(h)'
<1>0. TypeOK /\ HoldsLocks(h) /\ HasFaithfulCopies(h)
  BY DEF AutonomyInv
<1>1. /\ host' \in [Hosts -> Process] /\ \A k \in Hosts \ {h} : host'[k] = host[k]
      /\ host'[h].at = "idle" /\ host'[h].page = host[h].page
      /\ host'[h].current = host[h].current
  BY <1>0, Moved DEF EndTick, Places
<1>2. lane' = None /\ descriptor = h
  BY <1>0 DEF EndTick, HoldsLocks
<1>. QED
  BY <1>0, <1>1, <1>2, NoneAssumption
  DEF HoldsLocks, HasFaithfulCopies, HasRecordedRun, InRun, Executing

\* autonomy_claim
LEMMA ClaimStep ==
    ASSUME AutonomyInv, NEW h \in Hosts, Claim(h)
    PROVE  AutonomyInv'
<1>0. /\ TypeOK /\ HoldsLocks(h) /\ HasFaithfulCopies(h) /\ host[h].at = "leased"
      /\ descriptor = h /\ lane = h /\ host[h] \in Process
  BY DEF AutonomyInv, Claim, HoldsLocks, TypeOK
<1>1. UNCHANGED <<policy, descriptor, foreground, uncertain>>
  BY DEF Claim, HostFrame
<1>2. CASE EndTick(h) /\ UNCHANGED <<job, runs>>
  <2>1. /\ host' \in [Hosts -> Process] /\ lane' = None
        /\ \A k \in Hosts \ {h} : host'[k] = host[k]
        /\ HoldsLocks(h)' /\ HasFaithfulCopies(h)' /\ HasRecordedRun(h)'
    BY <1>0, <1>1, <1>2, LaneLeft
  <2>2. TypeOK'
    BY <1>0, <1>1, <1>2, <2>1 DEF TypeOK
  <2>. QED
    BY <1>0, <1>1, <1>2, <2>1, <2>2, SameRows, WorkStep
<1>3. ASSUME NEW j \in Claimable,
             job[j].expired \/ ~job[j].authorized,
             Save(j, [job[j] EXCEPT !.state = "expired", !.last = "expired"]),
             EndTick(h), UNCHANGED runs
      PROVE  AutonomyInv'
  <2>0. j \in Jobs /\ job[j] \in Job /\ job[j].state = "ready" /\ IsConsistent(j)
    BY <1>0 DEF Claimable, TypeOK, AutonomyInv
  <2>1. PICK row : row = [job[j] EXCEPT !.state = "expired", !.last = "expired"]
    OBVIOUS
  <2>2. row \in Job /\ row.state = "expired" /\ row.authorized = job[j].authorized
    BY <2>0, <2>1 DEF Job, States, Outcomes
  <2>3. /\ job' \in [Jobs -> Job] /\ job'[j] = row
        /\ \A k \in Jobs \ {j} : job'[k] = job[k]
    BY <1>0, <1>3, <2>0, <2>1, <2>2 DEF Save, TypeOK
  <2>4. /\ host' \in [Hosts -> Process] /\ lane' = None
        /\ \A k \in Hosts \ {h} : host'[k] = host[k]
        /\ HoldsLocks(h)' /\ HasFaithfulCopies(h)' /\ HasRecordedRun(h)'
    BY <1>0, <1>1, <1>3, LaneLeft
  <2>5. TypeOK'
    BY <1>0, <1>1, <1>3, <2>3, <2>4 DEF TypeOK
  <2>6. ASSUME NEW k \in Jobs PROVE IsConsistent(k)'
    <3>1. IsConsistent(k)
      BY DEF AutonomyInv
    <3>. QED
      BY <1>1, <2>0, <2>2, <2>3, <3>1 DEF IsConsistent
  <2>. QED
    BY <1>0, <1>1, <2>4, <2>5, <2>6, WorkStep
<1>4. ASSUME NEW j \in Claimable, job[j].authorized, runs < MaxRuns, runs' = runs + 1,
             Save(j, [job[j] EXCEPT !.state = "running", !.occurrence = runs + 1]),
             host' = [host EXCEPT ![h] = [host[h] EXCEPT !.at = "claimed",
                               !.job = j, !.occurrence = runs + 1]],
             UNCHANGED lane
      PROVE  AutonomyInv'
  <2>0. j \in Jobs /\ job[j] \in Job /\ job[j].state = "ready" /\ IsConsistent(j)
    BY <1>0 DEF Claimable, TypeOK, AutonomyInv
  <2>1. PICK n \in 0 .. MaxRuns : n = runs + 1
    BY <1>0, <1>4, JobsAssumption DEF TypeOK
  <2>2. PICK row : row = [job[j] EXCEPT !.state = "running", !.occurrence = n]
    OBVIOUS
  <2>3. /\ row \in Job /\ row.state = "running" /\ row.authorized = job[j].authorized
        /\ row.occurrence = n
    BY <2>0, <2>2 DEF Job, States
  <2>4. /\ job' \in [Jobs -> Job] /\ job'[j] = row
        /\ \A k \in Jobs \ {j} : job'[k] = job[k]
    BY <1>0, <1>4, <2>0, <2>1, <2>2, <2>3 DEF Save, TypeOK
  <2>5. PICK p : p = [host[h] EXCEPT !.at = "claimed", !.job = j, !.occurrence = n]
    OBVIOUS
  <2>6. /\ p \in Process /\ p.at = "claimed" /\ p.job = j /\ p.occurrence = n
        /\ p.page = host[h].page /\ p.current = host[h].current
    <3>. HIDE DEF Job
    <3>. QED
      BY <1>0, <2>0, <2>1, <2>5 DEF Process, Places
  <2>7. /\ host' \in [Hosts -> Process] /\ host'[h] = p
        /\ \A k \in Hosts \ {h} : host'[k] = host[k]
    BY <1>0, <1>4, <2>1, <2>5, <2>6, Replaced
  <2>8. TypeOK'
    BY <1>0, <1>1, <1>4, <2>1, <2>4, <2>7 DEF TypeOK
  <2>9. j \notin uncertain
    BY <1>4, <2>0 DEF IsConsistent
  <2>10. HoldsLocks(h)' /\ HasFaithfulCopies(h)' /\ HasRecordedRun(h)'
    <3>1. HoldsLocks(h)'
      BY <1>0, <1>1, <1>4, <2>6, <2>7 DEF HoldsLocks, InRun
    <3>2. HasFaithfulCopies(h)'
      BY <1>0, <2>6, <2>7 DEF HasFaithfulCopies
    <3>3. HasRecordedRun(h)'
      BY <1>1, <2>0, <2>3, <2>4, <2>6, <2>7, <2>9 DEF HasRecordedRun
    <3>. QED
      BY <3>1, <3>2, <3>3
  <2>11. ASSUME NEW k \in Jobs PROVE IsConsistent(k)'
    <3>1. IsConsistent(k)
      BY DEF AutonomyInv
    <3>. QED
      BY <1>1, <2>3, <2>4, <2>9, <3>1 DEF IsConsistent
  <2>. QED
    BY <1>0, <1>1, <1>4, <2>7, <2>8, <2>10, <2>11, WorkStep
<1>. QED
  BY <1>2, <1>3, <1>4, ClaimKinds

\* The end of a run whose row is written with its receipt or its deferral.
LEMMA RowClosed ==
    ASSUME AutonomyInv, NEW h \in Hosts, host[h].at \in InRun,
           NEW j, j = host[h].job, NEW row \in Job,
           job' = [job EXCEPT ![j] = row],
           host' = Idle(h), lane' = None,
           UNCHANGED <<policy, foreground, descriptor, runs>>,
           uncertain' \subseteq uncertain,
           uncertain \subseteq uncertain' \cup {j},
           IsConsistent(j)'
    PROVE  AutonomyInv'
<1>0. /\ TypeOK /\ HasFaithfulCopies(h) /\ descriptor = h /\ j \in Jobs
  BY DEF AutonomyInv, HoldsLocks, HasRecordedRun, InRun, Executing
<1>1. /\ host' \in [Hosts -> Process] /\ \A k \in Hosts \ {h} : host'[k] = host[k]
      /\ host'[h].at = "idle" /\ host'[h].page = host[h].page
      /\ host'[h].current = host[h].current
  BY <1>0, Idled
<1>2. job' \in [Jobs -> Job] /\ \A k \in Jobs \ {j} : job'[k] = job[k]
  BY <1>0 DEF TypeOK
<1>3. TypeOK'
  BY <1>0, <1>1, <1>2 DEF TypeOK
<1>4. HoldsLocks(h)' /\ HasFaithfulCopies(h)' /\ HasRecordedRun(h)'
  BY <1>0, <1>1, NoneAssumption
  DEF HoldsLocks, HasFaithfulCopies, HasRecordedRun, InRun, Executing
<1>5. ASSUME NEW k \in Jobs, k # j PROVE IsConsistent(k)'
  <2>1. IsConsistent(k)
    BY DEF AutonomyInv
  <2>. QED
    BY <1>2, <1>5, <2>1 DEF IsConsistent
<1>6. \A k \in Jobs : IsConsistent(k)'
  BY <1>5
<1>. QED
  BY <1>0, <1>1, <1>3, <1>4, <1>6, WorkStep

\* The state a deferral leaves a job in.
LEMMA DeferredState ==
    ASSUME NEW s, NEW b
    PROVE  (CASE s = "cancel_requested" -> "cancelled"
              [] b /\ s # "cancel_requested" -> "paused"
              [] OTHER -> "ready") \in {"cancelled", "paused", "ready"}
BY Zenon

\* acquire_background_root
LEMMA AcquireStep ==
    ASSUME AutonomyInv, NEW h \in Hosts, AcquireRoot(h)
    PROVE  AutonomyInv'
<1>0. /\ TypeOK /\ HasRecordedRun(h) /\ host[h].at = "claimed"
  BY DEF AutonomyInv, AcquireRoot
<1>1. UNCHANGED <<policy, foreground, uncertain, runs>>
  BY DEF AcquireRoot, HostFrame
<1>2. CASE Goto(h, "executing") /\ UNCHANGED <<job, descriptor, lane>>
  <2>1. /\ host' \in [Hosts -> Process] /\ \A k \in Hosts \ {h} : host'[k] = host[k]
        /\ host'[h].at = "executing" /\ host'[h].job = host[h].job
        /\ host'[h].occurrence = host[h].occurrence /\ host'[h].page = host[h].page
        /\ host'[h].current = host[h].current
    BY <1>0, <1>2, Moved DEF Places
  <2>. QED
    BY <1>0, <1>1, <1>2, <2>1, RunMove DEF InRun, Executing, BeforeDispatch
<1>3. CASE Exits(h) /\ UNCHANGED job
  BY <1>1, <1>3, ExitStep
<1>4. PICK j : j = host[h].job
  OBVIOUS
<1>5. CASE /\ Save(j, [job[j] EXCEPT !.occurrence = 0, !.due = FALSE,
                 !.state = CASE job[j].state = "cancel_requested" -> "cancelled"
                             [] job[j].pauseAfterRun /\ job[j].state # "cancel_requested" -> "paused"
                             [] OTHER -> "ready"])
           /\ host' = Idle(h) /\ lane' = None /\ UNCHANGED descriptor
  <2>0. j \in Jobs /\ job[j] \in Job /\ j \notin uncertain
    BY <1>0, <1>4 DEF HasRecordedRun, InRun, BeforeDispatch, TypeOK
  <2>1. PICK s \in {"cancelled", "paused", "ready"} :
           s = CASE job[j].state = "cancel_requested" -> "cancelled"
                 [] job[j].pauseAfterRun /\ job[j].state # "cancel_requested" -> "paused"
                 [] OTHER -> "ready"
    BY DeferredState, Zenon
  <2>2. PICK row : row = [job[j] EXCEPT !.occurrence = 0, !.due = FALSE, !.state = s]
    OBVIOUS
  <2>3. row \in Job /\ row.state = s
    BY <2>0, <2>1, <2>2, NoOccurrence DEF Job, States
  <2>4. job' = [job EXCEPT ![j] = row]
    BY <1>5, <2>1, <2>2, Zenon DEF Save
  <2>5. job'[j] = row
    BY <1>0, <2>0, <2>4 DEF TypeOK
  <2>6. IsConsistent(j)'
    BY <1>1, <2>0, <2>1, <2>3, <2>5 DEF IsConsistent
  <2>. QED
    BY <1>0, <1>1, <1>4, <1>5, <2>3, <2>4, <2>6, RowClosed DEF InRun
<1>. QED
  BY <1>2, <1>3, <1>4, <1>5, Zenon DEF AcquireRoot

\* The tick cancels its execution.
LEMMA CancelExecutionStep ==
    ASSUME AutonomyInv, NEW h \in Hosts, CancelExecution(h)
    PROVE  AutonomyInv'
<1>0. TypeOK /\ host[h].at \in Executing /\ host[h] \in Process
  BY DEF AutonomyInv, CancelExecution, TypeOK
<1>1. UNCHANGED <<job, policy, descriptor, lane, foreground, uncertain, runs>>
  BY DEF CancelExecution, HostFrame
<1>2. PICK p : p = [host[h] EXCEPT !.cancel = TRUE]
  OBVIOUS
<1>3. /\ p \in Process /\ p.at = host[h].at /\ p.job = host[h].job
      /\ p.occurrence = host[h].occurrence /\ p.page = host[h].page
      /\ p.current = host[h].current
  <2>. HIDE DEF Job
  <2>. QED
    BY <1>0, <1>2 DEF Process
<1>4. host' = [host EXCEPT ![h] = p]
  BY <1>0, <1>2 DEF CancelExecution, TypeOK
<1>5. /\ host' \in [Hosts -> Process] /\ host'[h] = p
      /\ \A k \in Hosts \ {h} : host'[k] = host[k]
  BY <1>0, <1>3, <1>4, Replaced
<1>. QED
  BY <1>0, <1>1, <1>3, <1>5, RunMove DEF InRun, Executing, BeforeDispatch

\* An execution ends before or after its dispatch; it is `cancelled' only
\* before.
LEMMA EndsStep ==
    ASSUME AutonomyInv, NEW h \in Hosts,
           UNCHANGED <<job, policy, descriptor, lane, foreground, uncertain, runs>>,
           NEW o \in {"completed", "needs_you", "cancelled", "unknown"}, Ends(h, o),
           host[h].at \in Executing, o = "cancelled" => host[h].at \in BeforeDispatch
    PROVE  AutonomyInv'
<1>0. TypeOK
  BY DEF AutonomyInv
<1>1. /\ host' \in [Hosts -> Process] /\ \A k \in Hosts \ {h} : host'[k] = host[k]
      /\ host'[h].at = "ended" /\ host'[h].job = host[h].job
      /\ host'[h].occurrence = host[h].occurrence /\ host'[h].page = host[h].page
      /\ host'[h].current = host[h].current /\ host'[h].outcome = o
  BY <1>0, Ended DEF Outcomes
<1>. QED
  BY <1>1, RunMove DEF InRun, Executing, BeforeDispatch

\* NativeExecutor::execute, run_native: composition, validation and the end.
LEMMA ExecuteStep ==
    ASSUME AutonomyInv, NEW h \in Hosts, Compose(h) \/ Validate(h) \/ RunEnds(h)
    PROVE  AutonomyInv'
<1>0. TypeOK
  BY DEF AutonomyInv
<1>1. UNCHANGED <<job, policy, descriptor, lane, foreground, uncertain, runs>>
  BY DEF Compose, Validate, RunEnds, HostFrame
<1>2. \/ host[h].at = "executing" /\ \E o \in {"completed", "cancelled", "unknown"} : Ends(h, o)
      \/ host[h].at = "composed" /\ \E o \in {"needs_you", "unknown"} : Ends(h, o)
      \/ host[h].at = "running" /\ \E o \in {"completed", "needs_you", "unknown"} : Ends(h, o)
      \/ host[h].at = "executing" /\ Goto(h, "composed")
      \/ host[h].at = "composed" /\ Goto(h, "validated")
  BY DEF Compose, Validate, RunEnds
<1>3. CASE host[h].at = "executing" /\ \E o \in {"completed", "cancelled", "unknown"} : Ends(h, o)
  BY <1>1, <1>3, EndsStep DEF Executing, BeforeDispatch
<1>4. CASE host[h].at = "composed" /\ \E o \in {"needs_you", "unknown"} : Ends(h, o)
  BY <1>1, <1>4, EndsStep DEF Executing
<1>5. CASE host[h].at = "running" /\ \E o \in {"completed", "needs_you", "unknown"} : Ends(h, o)
  BY <1>1, <1>5, EndsStep DEF Executing
<1>6. CASE \E place \in {"composed", "validated"} :
              host[h].at \in {"executing", "composed"} /\ Goto(h, place)
  <2>1. PICK place \in {"composed", "validated"} :
            host[h].at \in {"executing", "composed"} /\ Goto(h, place)
    BY <1>6
  <2>2. /\ host' \in [Hosts -> Process] /\ \A k \in Hosts \ {h} : host'[k] = host[k]
        /\ host'[h].at = place /\ host'[h].job = host[h].job
        /\ host'[h].occurrence = host[h].occurrence /\ host'[h].page = host[h].page
        /\ host'[h].current = host[h].current
    BY <1>0, <2>1, Moved DEF Places
  <2>. QED
    BY <1>1, <2>1, <2>2, RunMove DEF InRun, Executing, BeforeDispatch
<1>. QED
  BY <1>2, <1>3, <1>4, <1>5, <1>6

\* The turn is submitted: from here its outcome is unknown until its receipt.
LEMMA DispatchStep ==
    ASSUME AutonomyInv, NEW h \in Hosts, Dispatch(h)
    PROVE  AutonomyInv'
<1>0. /\ TypeOK /\ HoldsLocks(h) /\ HasFaithfulCopies(h) /\ HasRecordedRun(h)
      /\ host[h].at = "validated"
  BY DEF AutonomyInv, Dispatch
<1>1. /\ UNCHANGED <<job, policy, descriptor, lane, foreground, runs>>
      /\ Goto(h, "running") /\ uncertain' = uncertain \cup {host[h].job}
  BY DEF Dispatch, HostFrame
<1>2. /\ host' \in [Hosts -> Process] /\ \A k \in Hosts \ {h} : host'[k] = host[k]
      /\ host'[h].at = "running" /\ host'[h].job = host[h].job
      /\ host'[h].occurrence = host[h].occurrence /\ host'[h].page = host[h].page
      /\ host'[h].current = host[h].current
  BY <1>0, <1>1, Moved DEF Places
<1>3. descriptor = h /\ lane = h
  BY <1>0 DEF HoldsLocks, InRun, Executing
<1>4. /\ host[h].job \in Jobs
      /\ job[host[h].job].state \in {"running", "cancel_requested"}
  BY <1>0 DEF HasRecordedRun, InRun, Executing
<1>5. TypeOK'
  BY <1>0, <1>1, <1>2, <1>4 DEF TypeOK
<1>6. HoldsLocks(h)'
  BY <1>1, <1>2, <1>3 DEF HoldsLocks, InRun, Executing
<1>7. HasFaithfulCopies(h)'
  BY <1>0, <1>1, <1>2 DEF HasFaithfulCopies
<1>8. HasRecordedRun(h)'
  BY <1>0, <1>1, <1>2 DEF HasRecordedRun, InRun, Executing, BeforeDispatch
<1>9. ASSUME NEW k \in Jobs PROVE IsConsistent(k)'
  <2>1. IsConsistent(k)
    BY DEF AutonomyInv
  <2>. QED
    BY <2>1, <1>1, <1>4 DEF IsConsistent
<1>. QED
  BY <1>1, <1>2, <1>3, <1>5, <1>6, <1>7, <1>8, <1>9, WorkStep

\* The state a receipt leaves a job in.
LEMMA ReceiptStates ==
    ASSUME NEW j, NEW o, NEW done \in BOOLEAN
    PROVE  /\ o \in {"unknown", "needs_you"} => StateAfter(j, o, done) = "needs_you"
           /\ o = "cancelled" => StateAfter(j, o, done) = "cancelled"
           /\ o = "completed" => StateAfter(j, o, done) \in {"cancelled", "completed", "paused", "ready"}
<1>1. o \in {"unknown", "needs_you"} => StateAfter(j, o, done) = "needs_you"
  BY Zenon DEF StateAfter
<1>2. o = "cancelled" => StateAfter(j, o, done) = "cancelled"
  BY Zenon DEF StateAfter
<1>3. o = "completed" => StateAfter(j, o, done) \in {"cancelled", "completed", "paused", "ready"}
  BY Zenon DEF StateAfter
<1>. QED
  BY <1>1, <1>2, <1>3

\* autonomy_finish
LEMMA FinishStep ==
    ASSUME AutonomyInv, NEW h \in Hosts, Finish(h)
    PROVE  AutonomyInv'
<1>0. /\ TypeOK /\ HasRecordedRun(h) /\ host[h].at = "ended"
  BY DEF AutonomyInv, Finish
<1>1. PICK j : j = host[h].job
  OBVIOUS
<1>2. PICK o : o = host[h].outcome
  OBVIOUS
<1>3. /\ j \in Jobs /\ job[j].occurrence = host[h].occurrence
      /\ job[j].state \in {"running", "cancel_requested"}
      /\ o \in {"completed", "needs_you", "cancelled", "unknown"}
      /\ o = "cancelled" => j \notin uncertain
  BY <1>0, <1>1, <1>2 DEF HasRecordedRun, InRun
<1>4. PICK done \in {FALSE, Triggered(j)} :
         Save(j, [job[j] EXCEPT !.occurrence = 0, !.last = o,
                    !.state = StateAfter(j, o, done),
                    !.pending = job[j].pending /\ o \notin {"completed", "cancelled"},
                    !.due = job[j].due /\ o # "completed"])
  BY <1>1, <1>2, <1>3 DEF Finish
<1>5. /\ uncertain' = IF o \in {"completed", "needs_you"} THEN uncertain \ {j} ELSE uncertain
      /\ host' = Idle(h) /\ lane' = None
      /\ UNCHANGED <<policy, foreground, descriptor, runs>>
  BY <1>1, <1>2, <1>3 DEF Finish, HostFrame
<1>6. done \in BOOLEAN
  BY <1>4 DEF Triggered
<1>7. PICK s : s = StateAfter(j, o, done)
  OBVIOUS
<1>8. /\ o \in {"unknown", "needs_you"} => s = "needs_you"
      /\ o = "cancelled" => s = "cancelled"
      /\ o = "completed" => s \in {"cancelled", "completed", "paused", "ready"}
  BY <1>6, <1>7, ReceiptStates
<1>9. PICK row : row = [job[j] EXCEPT !.occurrence = 0, !.last = o, !.state = s,
                    !.pending = job[j].pending /\ o \notin {"completed", "cancelled"},
                    !.due = job[j].due /\ o # "completed"]
  OBVIOUS
<1>10. row \in Job /\ row.state = s /\ row.last = o
  <2>1. job[j] \in Job
    BY <1>0, <1>3 DEF TypeOK
  <2>2. s \in States /\ o \in Outcomes
    BY <1>3, <1>8 DEF States, Outcomes
  <2>3. /\ (job[j].pending /\ o \notin {"completed", "cancelled"}) \in BOOLEAN
        /\ (job[j].due /\ o # "completed") \in BOOLEAN
    OBVIOUS
  <2>. HIDE DEF States, Outcomes
  <2>. QED
    BY <1>9, <2>1, <2>2, <2>3, NoOccurrence DEF Job
<1>11. job' = [job EXCEPT ![j] = row]
  BY <1>4, <1>7, <1>9 DEF Save
<1>12. job'[j] = row
  BY <1>0, <1>3, <1>11 DEF TypeOK
<1>13. IsConsistent(j)'
  BY <1>3, <1>5, <1>8, <1>10, <1>12 DEF IsConsistent
<1>14. uncertain' \subseteq uncertain /\ uncertain \subseteq uncertain' \cup {j}
  BY <1>5
<1>. QED
  BY <1>0, <1>1, <1>5, <1>10, <1>11, <1>13, <1>14, RowClosed DEF InRun

-----------------------------------------------------------------------------
\* Every step keeps the invariant.
LEMMA AutonomyNext == AutonomyInv /\ [Next]_vars => AutonomyInv'
<1>. SUFFICES ASSUME AutonomyInv, [Next]_vars PROVE AutonomyInv'
  OBVIOUS
<1>1. ASSUME NEW j \in Jobs,
             Create(j) \/ Pause(j) \/ Cancel(j) \/ TimePasses(j)
      PROVE  AutonomyInv'
  BY <1>1, CreateStep, PauseStep, CancelStep, TimeStep
<1>2. ASSUME NEW j \in Jobs, NEW review \in BOOLEAN, Resume(j, review)
      PROVE  AutonomyInv'
  BY <1>2, ResumeStep
<1>3. ASSUME NEW h \in Hosts, HostStep(h)
      PROVE  AutonomyInv'
  BY <1>3, BindStep, RecoverStep, NextTickStep, RefreshStep, TakeLaneStep, ClaimStep,
     AcquireStep, CancelExecutionStep, ExecuteStep, DispatchStep, FinishStep DEF HostStep
<1>4. ASSUME NEW h \in Hosts, Launch(h) \/ Interrupt(h) \/ HostCrashes(h)
      PROVE  AutonomyInv'
  BY <1>4, LaunchStep, InterruptStep, ExitStep DEF HostCrashes
<1>5. CASE SetPolicy \/ ForegroundChanges \/ UNCHANGED vars
  BY <1>5, OutsideStep
<1>. QED
  BY <1>1, <1>2, <1>3, <1>4, <1>5 DEF Next

\* The inductive invariant holds: locks, copies, runs and rows agree whatever
\* the owner edits and wherever a process crashes (storage/autonomy.rs,
\* autonomy/host.rs, autonomy/runner.rs).
THEOREM AutonomyInvariant == Spec => []AutonomyInv
BY AutonomyInit, AutonomyNext, PTL DEF Spec

\* Every claimed occurrence is accounted for, by the one process that runs it
\* under the descriptor and the lane, or by a row that waits for its owner
\* (autonomy_claim, autonomy_finish, autonomy_recover).
THEOREM AccountedRuns == Spec => []RunsAreAccounted
<1>1. AutonomyInv => RunsAreAccounted
  <2>. SUFFICES ASSUME AutonomyInv PROVE RunsAreAccounted
    OBVIOUS
  <2>1. TypeOK
    BY DEF AutonomyInv
  <2>2. LiveRunIsOwned
    BY DEF AutonomyInv, LiveRunIsOwned, HoldsLocks, HasRecordedRun, InRun, Executing
  <2>3. UnknownAwaitsOwner
    BY <2>1 DEF AutonomyInv, UnknownAwaitsOwner, IsConsistent, TypeOK
  <2>. QED
    BY <2>1, <2>2, <2>3 DEF RunsAreAccounted
<1>. QED
  BY <1>1, AutonomyInvariant, PTL

\* A dispatch of unknown outcome is not repeated before the owner has reviewed
\* it, across crashes, recoveries and competing processes (run_native,
\* autonomy_resume).
THEOREM ReviewedRetries == Spec => NoUnreviewedRetry
<1>1. AutonomyInv => \A h \in Hosts : host[h].at = "validated" => host[h].job \notin uncertain
  BY DEF AutonomyInv, HasRecordedRun, InRun, Executing, BeforeDispatch
<1>2. AutonomyInv /\ [Next]_vars =>
         [\A h \in Hosts : host[h].at = "validated" /\ host'[h].at = "running"
                               => host[h].job \notin uncertain]_vars
  BY <1>1
<1>. QED
  BY <1>2, AutonomyInvariant, PTL DEF Spec, NoUnreviewedRetry

-----------------------------------------------------------------------------
(* Cancelling is final.                                                    *)

\* What no step may do to a row.
KeepsRevoked(j) ==
    job[j].state # "absent" /\ ~job[j].authorized =>
        /\ ~job'[j].authorized
        /\ job'[j].occurrence \in {0, job[j].occurrence}

\* Rewriting one row leaves the others as they are.
LEMMA OneRow ==
    ASSUME TypeOK, NEW i \in Jobs, NEW row, Save(i, row),
           job[i].state # "absent" /\ ~job[i].authorized =>
              ~row.authorized /\ row.occurrence \in {0, job[i].occurrence}
    PROVE  \A j \in Jobs : KeepsRevoked(j)
<1>1. job'[i] = row /\ \A j \in Jobs \ {i} : job'[j] = job[j]
  BY DEF Save, TypeOK
<1>. QED
  BY <1>1 DEF KeepsRevoked

\* The owner's edits.
LEMMA EditsKeepRevoked ==
    ASSUME AutonomyInv, NEW i \in Jobs,
           \/ Create(i) \/ Pause(i) \/ Cancel(i) \/ TimePasses(i)
           \/ \E review \in BOOLEAN : Resume(i, review)
    PROVE  \A j \in Jobs : KeepsRevoked(j)
<1>0. TypeOK /\ job[i] \in Job
  BY DEF AutonomyInv, TypeOK
<1>1. CASE Create(i)
  <2>1. PICK kind \in Kinds : Save(i, [NoJob EXCEPT !.kind = kind, !.state = "ready",
                                                    !.authorized = TRUE])
    BY <1>1 DEF Create
  <2>2. job[i].state = "absent"
    BY <1>1 DEF Create
  <2>. QED
    BY <1>0, <2>1, <2>2, OneRow
<1>2. CASE Pause(i)
  <2>1. PICK row : row = IF job[i].state = "running"
                         THEN [job[i] EXCEPT !.pauseAfterRun = TRUE]
                         ELSE [job[i] EXCEPT !.state = "paused"]
    OBVIOUS
  <2>2. row.authorized = job[i].authorized /\ row.occurrence = job[i].occurrence
    BY <1>0, <2>1 DEF Job
  <2>3. Save(i, row)
    BY <1>2, <2>1 DEF Pause, Save
  <2>. QED
    BY <1>0, <2>2, <2>3, OneRow
<1>3. CASE Cancel(i)
  <2>1. PICK row : row = [job[i] EXCEPT !.authorized = FALSE,
                    !.state = IF job[i].state \in {"running", "cancel_requested"}
                              THEN "cancel_requested" ELSE "cancelled"]
    OBVIOUS
  <2>2. row.authorized = FALSE /\ row.occurrence = job[i].occurrence
    BY <1>0, <2>1 DEF Job
  <2>3. Save(i, row)
    BY <1>3, <2>1 DEF Cancel, Save
  <2>. QED
    BY <1>0, <2>2, <2>3, OneRow
<1>4. CASE TimePasses(i)
  <2>1. PICK row \in {[job[i] EXCEPT !.due = TRUE], [job[i] EXCEPT !.expired = TRUE]} : Save(i, row)
    BY <1>0, <1>4 DEF TimePasses, Save, TypeOK
  <2>2. row.authorized = job[i].authorized /\ row.occurrence = job[i].occurrence
    BY <1>0, <2>1 DEF Job
  <2>. QED
    BY <1>0, <2>1, <2>2, OneRow
<1>5. ASSUME NEW review \in BOOLEAN, Resume(i, review)
      PROVE  \A j \in Jobs : KeepsRevoked(j)
  <2>1. PICK row : row = [job[i] EXCEPT !.state = "ready", !.pauseAfterRun = FALSE]
    OBVIOUS
  <2>2. row.authorized = job[i].authorized /\ row.occurrence = job[i].occurrence
    BY <1>0, <2>1 DEF Job
  <2>3. Save(i, row)
    BY <1>5, <2>1 DEF Resume, Save
  <2>. QED
    BY <1>0, <2>2, <2>3, OneRow
<1>. QED
  BY <1>1, <1>2, <1>3, <1>4, <1>5

\* The writes of a process: recovery, observation, claim, deferral, receipt.
LEMMA RunsKeepRevoked ==
    ASSUME AutonomyInv, NEW h \in Hosts,
           Recover(h) \/ RefreshDue(h) \/ Claim(h) \/ AcquireRoot(h) \/ Finish(h)
    PROVE  \A j \in Jobs : KeepsRevoked(j)
<1>0. TypeOK
  BY DEF AutonomyInv
<1>1. job' = job => \A j \in Jobs : KeepsRevoked(j)
  BY DEF KeepsRevoked
<1>2. CASE Recover(h)
  <2>1. job' = Recovered
    BY <1>2 DEF Recover
  <2>. QED
    BY <1>0, <2>1, RecoveredRows DEF KeepsRevoked
<1>3. CASE RefreshDue(h)
  <2>1. PICK i \in Jobs : Observed(h, i) \/ job' = job
    BY <1>3, Refreshed
  <2>2. CASE Observed(h, i)
    BY <2>2, Observation DEF KeepsRevoked
  <2>. QED
    BY <1>1, <2>1, <2>2
<1>4. CASE Claim(h)
  <2>1. CASE job' = job
    BY <1>1, <2>1
  <2>2. ASSUME NEW i \in Claimable,
               Save(i, [job[i] EXCEPT !.state = "expired", !.last = "expired"])
        PROVE  \A j \in Jobs : KeepsRevoked(j)
    <3>1. i \in Jobs /\ job[i] \in Job
      BY <1>0 DEF Claimable, TypeOK
    <3>2. PICK row : row = [job[i] EXCEPT !.state = "expired", !.last = "expired"]
      OBVIOUS
    <3>3. row.authorized = job[i].authorized /\ row.occurrence = job[i].occurrence
      BY <3>1, <3>2 DEF Job
    <3>. QED
      BY <1>0, <2>2, <3>1, <3>2, <3>3, OneRow
  <2>3. ASSUME NEW i \in Claimable, job[i].authorized,
               Save(i, [job[i] EXCEPT !.state = "running", !.occurrence = runs + 1])
        PROVE  \A j \in Jobs : KeepsRevoked(j)
    <3>1. i \in Jobs
      BY DEF Claimable
    <3>. QED
      BY <1>0, <2>3, <3>1, OneRow
  <2>. QED
    BY <1>4, <2>1, <2>2, <2>3, ClaimKinds
<1>5. CASE AcquireRoot(h) /\ job' # job
  <2>1. PICK i : i = host[h].job
    OBVIOUS
  <2>2. i \in Jobs
    BY <1>5, <2>1 DEF AutonomyInv, HasRecordedRun, AcquireRoot, InRun
  <2>3. PICK s : Save(i, [job[i] EXCEPT !.occurrence = 0, !.due = FALSE, !.state = s])
    BY <1>5, <2>1, Zenon DEF AcquireRoot
  <2>4. PICK row : row = [job[i] EXCEPT !.occurrence = 0, !.due = FALSE, !.state = s]
    OBVIOUS
  <2>5. row.authorized = job[i].authorized /\ row.occurrence = 0
    BY <1>0, <2>2, <2>4 DEF Job, TypeOK
  <2>. QED
    BY <1>0, <2>2, <2>3, <2>4, <2>5, OneRow
<1>6. CASE Finish(h) /\ job' # job
  <2>1. PICK i : i = host[h].job
    OBVIOUS
  <2>2. i \in Jobs
    BY <1>6, <2>1 DEF AutonomyInv, HasRecordedRun, Finish, InRun
  <2>3. PICK o, s, b, d : Save(i, [job[i] EXCEPT !.occurrence = 0, !.last = o, !.state = s,
                                                 !.pending = b, !.due = d])
    BY <1>6, <2>1, Zenon DEF Finish
  <2>4. PICK row : row = [job[i] EXCEPT !.occurrence = 0, !.last = o, !.state = s,
                                        !.pending = b, !.due = d]
    OBVIOUS
  <2>5. row.authorized = job[i].authorized /\ row.occurrence = 0
    BY <1>0, <2>2, <2>4 DEF Job, TypeOK
  <2>. QED
    BY <1>0, <2>2, <2>3, <2>4, <2>5, OneRow
<1>. QED
  BY <1>1, <1>2, <1>3, <1>4, <1>5, <1>6

\* A cancelled job never regains its authority and is never given another
\* occurrence, whatever a late observation of its source, a receipt or a
\* resume writes (autonomy_cancel, autonomy_observed, autonomy_claim).
THEOREM RevokedStays == Spec => RevokedForGood
<1>1. ASSUME AutonomyInv, [Next]_vars
      PROVE  \A j \in Jobs : KeepsRevoked(j)
  <2>1. job' = job => \A j \in Jobs : KeepsRevoked(j)
    BY DEF KeepsRevoked
  <2>2. ASSUME NEW i \in Jobs,
               \/ Create(i) \/ Pause(i) \/ Cancel(i) \/ TimePasses(i)
               \/ \E review \in BOOLEAN : Resume(i, review)
        PROVE  \A j \in Jobs : KeepsRevoked(j)
    BY <1>1, <2>2, EditsKeepRevoked
  <2>3. ASSUME NEW h \in Hosts, HostStep(h)
        PROVE  \A j \in Jobs : KeepsRevoked(j)
    <3>1. CASE Recover(h) \/ RefreshDue(h) \/ Claim(h) \/ AcquireRoot(h) \/ Finish(h)
      BY <1>1, <3>1, RunsKeepRevoked
    <3>2. CASE Bind(h) \/ NextTick(h) \/ TakeLane(h) \/ CancelExecution(h)
               \/ Compose(h) \/ Validate(h) \/ Dispatch(h) \/ RunEnds(h)
      BY <2>1, <3>2 DEF Bind, NextTick, TakeLane, CancelExecution, Compose, Validate,
                        Dispatch, RunEnds
    <3>. QED
      BY <2>3, <3>1, <3>2 DEF HostStep
  <2>4. ASSUME NEW h \in Hosts, Launch(h) \/ Interrupt(h) \/ HostCrashes(h)
        PROVE  \A j \in Jobs : KeepsRevoked(j)
    BY <2>1, <2>4 DEF Launch, Interrupt, HostCrashes
  <2>5. CASE SetPolicy \/ ForegroundChanges \/ UNCHANGED vars
    BY <2>1, <2>5 DEF SetPolicy, ForegroundChanges, vars
  <2>. QED
    BY <1>1, <2>2, <2>3, <2>4, <2>5 DEF Next
<1>2. AutonomyInv /\ [Next]_vars =>
         [\A j \in Jobs : job[j].state # "absent" /\ ~job[j].authorized =>
            /\ ~job'[j].authorized
            /\ job'[j].occurrence \in {0, job[j].occurrence}]_vars
  BY <1>1 DEF KeepsRevoked
<1>. QED
  BY <1>2, AutonomyInvariant, PTL DEF Spec, RevokedForGood
=============================================================================
