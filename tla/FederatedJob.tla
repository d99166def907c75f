---------------------------- MODULE FederatedJob ----------------------------
(***************************************************************************)
(* One federated dispatch job from its enqueue to its end: the record on   *)
(* the head node (routes/federation.ts, scheduling.ts, pause-resume.ts),   *)
(* the listener daemon of each host (scripts/quack-listener.mjs), and the  *)
(* resume state each host keeps on disk (federated-resume-state.ts).       *)
(*                                                                         *)
(* Every change of the record is one step: the code makes it under the     *)
(* job's lock.  A request of a listener is the change it makes together    *)
(* with what becomes of the answer.  Clocks are replaced by expiry steps:  *)
(* a lease, a claim, a grant or a released pause runs out at any moment    *)
(* allowed by the order in which the code computes their ends.             *)
(***************************************************************************)
EXTENDS Naturals, FiniteSets

CONSTANTS
  Hosts,        \* worker hosts
  NoHost,       \* no host bound
  MaxEpochs,    \* leases the head node issues
  MaxChildren,  \* dispatch processes that are started
  MaxRetries,   \* maxRetries of the record
  MaxRestarts,  \* restarts of listener daemons
  Telemetry,    \* TRUE: the worker posts its session's events to the head node
  Faults        \* see below

ASSUME JobAssumption ==
  /\ IsFiniteSet(Hosts) /\ NoHost \notin Hosts
  /\ MaxEpochs \in Nat /\ MaxChildren \in Nat
  /\ MaxRetries \in Nat /\ MaxRestarts \in Nat
  /\ Telemetry \in BOOLEAN
  \* throw: a request of a listener fails before the head node sees it;
  \* lost: its answer is lost; refuse: it is answered with an error; launch: a resumed process does not start, or the
  \* record of its start is not written; stop: a local stop is not confirmed.
  /\ Faults \subseteq {"throw", "lost", "refuse", "launch", "stop"}

VARIABLES
  job,        \* the record's scheduling part: status, host, session, activity
  lease,      \* its lease: the number of its issue (0: none), and whether it lives
  pause,      \* its pause: the paused session, state, claim and start grant
  child,      \* the dispatch processes started so far
  arm,        \* the resume state on each host's disk
  listener,   \* the execution each host's daemon has in flight
  count       \* leases issued, retries used, restarts used

vars == <<job, lease, pause, child, arm, listener, count>>

Terminal == {"completed", "failed", "rejected", "blocked", "canceled"}
Status == {"queued", "assigned", "running", "awaiting_approval"} \cup Terminal
ReleasedOnly == {"released", "resume_claimed", "approved"}   \* mutant of Released
Released == {"released", "resume_requested", "resume_claimed", "approved"}
PauseState == {"none", "attached", "manual"} \cup Released
Decisions == {"none", "approved", "rejected"}
Children == 1..MaxChildren
Sessions == 0..MaxChildren
Epochs == 0..MaxEpochs

\* A session pauses at most once, since a resumed run is a session of its own:
\* the paused session stands for the generation and the release nonce.  A claim
\* brings a lease of its own, so the lease stands for the claim's and the
\* grant's tokens.
NoLease == [id |-> 0, live |-> FALSE]
NoPause == [session |-> 0, state |-> "none", decision |-> "none", due |-> FALSE,
            claim |-> FALSE, grant |-> 0, fresh |-> FALSE, used |-> FALSE, resumed |-> 0]
Unarmed == [session |-> 0, status |-> "none", decision |-> "none", grant |-> 0, resumed |-> 0]
Idle == [pc |-> "idle", epoch |-> 0, session |-> 0, old |-> 0, grant |-> 0,
         announced |-> FALSE, outcome |-> "none"]

Steps == {"idle", "announce", "check", "start", "poll", "pause", "arm", "release",
          "report", "abort", "request", "claim", "ack", "install", "reserve",
          "resumed", "close"}

\* The dispatch processes.  A resumed one names the session it resumes.
Started == {s \in Children : child[s].phase # "none"}
Running(h) == {s \in Started : child[s].host = h /\ child[s].phase = "running"}
Active(h) == {s \in Started : child[s].host = h /\ child[s].phase \in {"running", "paused"}}
NewSession == Cardinality(Started) + 1
Spawn(h, from, epoch) ==
  child' = [child EXCEPT ![NewSession] = [host |-> h, phase |-> "running", from |-> from,
                                     epoch |-> epoch, saved |-> FALSE]]

\* recoverFederatedRunIdentity: the session of the task's checkpoint.
Checkpointed(h, s) ==
  /\ child[s].saved
  /\ \A t \in Started : child[t].host = h /\ child[t].saved => t <= s

\* federatedJobHoldsWorkerAttachment
Attached ==
  \/ job.status \in {"queued", "assigned", "running"}
  \/ /\ job.status = "awaiting_approval"
     /\ pause.state \in {"none", "attached", "resume_claimed", "approved"}

Init ==
  /\ job = [status |-> "queued", host |-> NoHost, session |-> 0, active |-> FALSE,
            manual |-> FALSE]
  /\ lease = NoLease /\ pause = NoPause
  /\ child = [s \in Children |-> [host |-> NoHost, phase |-> "none", from |-> 0, epoch |-> 0,
                          saved |-> FALSE]]
  /\ arm = [h \in Hosts |-> Unarmed]
  /\ listener = [h \in Hosts |-> Idle]
  /\ count = [epochs |-> 0, retries |-> 0, restarts |-> 0]

-----------------------------------------------------------------------------
(* The head node's scheduler tick.                                           *)

NewLease ==
  /\ count.epochs < MaxEpochs
  /\ count' = [count EXCEPT !.epochs = @ + 1]
  /\ lease' = [id |-> count.epochs + 1, live |-> TRUE]

\* prepareFederatedAssignment: the readiness gate and the routing admit the job.
Assign(h) ==
  /\ job.status = "queued" /\ NewLease
  /\ job' = [job EXCEPT !.status = "assigned", !.host = h]
  /\ UNCHANGED <<pause, child, arm, listener>>

\* ... or block it until its evidence or a listener appears.
BlockUnready ==
  /\ job.status = "queued"
  /\ job' = [job EXCEPT !.status = "blocked"]
  /\ UNCHANGED <<lease, pause, child, arm, listener, count>>

\* isUnstartedFederatedBlock: a blocked job that no worker touched.
Unstarted ==
  /\ job.status = "blocked" /\ ~job.manual /\ ~job.active
  /\ job.host = NoHost /\ job.session = 0 /\ lease = NoLease /\ pause = NoPause

\* recheckRecoverableFederatedBlocks
Recheck ==
  /\ Unstarted
  /\ job' = [job EXCEPT !.status = "queued"]
  /\ UNCHANGED <<lease, pause, child, arm, listener, count>>

\* releasedPauseNeedsRecovery: the latest deadline of the handshake is over, and
\* no live lease shows that the listener still watches a granted start.
PauseOverdue ==
  /\ job.status = "awaiting_approval" /\ pause.state \in Released
  /\ CASE pause.grant # 0 -> ~pause.fresh
       [] pause.grant = 0 /\ pause.state = "resume_claimed" -> ~pause.claim
       [] OTHER -> pause.due
  /\ (pause.state = "approved" /\ pause.grant # 0) => ~lease.live

Handover ==
  /\ job' = [job EXCEPT !.status = "blocked", !.manual = TRUE]
  /\ lease' = NoLease /\ pause' = [pause EXCEPT !.state = "manual"]

\* recoverStaleFederatedLeases: a pause whose handshake ran out ...
RecoverPause ==
  /\ PauseOverdue /\ Handover
  /\ UNCHANGED <<child, arm, listener, count>>

\* Mutant of CanRetry: what a worker has reported is not looked at.
RetryActive == count.retries < MaxRetries /\ job.status \in {"assigned", "running"}

\* staleLeaseCanAutoRetry
CanRetry ==
  /\ count.retries < MaxRetries
  /\ job.status = "assigned" /\ job.session = 0 /\ ~job.active

\* ... and an expired lease: back into the queue if no worker was ever heard of,
\* a hand over to the operator otherwise.
RecoverLease ==
  /\ ~PauseOverdue /\ Attached /\ lease.id # 0 /\ ~lease.live
  /\ job' = IF CanRetry
            THEN [job EXCEPT !.status = "queued", !.host = NoHost]
            ELSE [job EXCEPT !.status = "blocked", !.manual = TRUE]
  /\ count' = [count EXCEPT !.retries = @ + 1]
  /\ lease' = NoLease
  /\ UNCHANGED <<pause, child, arm, listener>>

\* Mutant of Cancel: a status the other components do not know.
CancelMisspelt ==
  /\ job.status # "canceled"
  /\ job' = [job EXCEPT !.status = "cancelled"]
  /\ UNCHANGED <<lease, pause, child, arm, listener, count>>

\* The cancel route; the lease and the host stay on the record.
Cancel ==
  /\ job.status # "canceled"
  /\ job' = [job EXCEPT !.status = "canceled"]
  /\ UNCHANGED <<lease, pause, child, arm, listener, count>>

-----------------------------------------------------------------------------
(* Time.  The grant ends no later than its claim and the lease at its issue. *)

ExpireLease ==
  /\ lease.live
  /\ lease' = [lease EXCEPT !.live = FALSE]
  /\ pause' = [pause EXCEPT !.fresh = FALSE]
  /\ UNCHANGED <<job, child, arm, listener, count>>

ExpirePause ==
  /\ job.status = "awaiting_approval"
  /\ \/ /\ pause.state \in Released /\ ~pause.due
        /\ pause' = [pause EXCEPT !.due = TRUE]
     \/ pause.claim /\ pause' = [pause EXCEPT !.claim = FALSE, !.fresh = FALSE]
     \/ pause.fresh /\ pause' = [pause EXCEPT !.fresh = FALSE]
  /\ UNCHANGED <<job, lease, child, arm, listener, count>>

-----------------------------------------------------------------------------
(* The events route: what a report of host h does to the record.             *)

HostMatches(h) == job.host \in {h, NoHost}
NoReport == UNCHANGED <<job, lease, pause>>

\* Mutant of Allowed: a blocked job takes reports.
AllowedBlocked(st) ==
  job.status \in {"queued", "assigned", "running", "awaiting_approval", "blocked"}

\* allowedFederatedStatusTransitions, for the reports a dispatch sends.
Allowed(st) ==
  \/ job.status = "queued"
  \/ job.status \in {"assigned", "running", "awaiting_approval"} /\ st \notin {"queued", "assigned"}

\* A report without a grant.  It is bound to the host, not to the lease.
PlainAccepted(h, st) ==
  /\ HostMatches(h) /\ pause.state = "none" /\ Allowed(st)
  /\ st = "running" => (lease.id # 0 /\ lease.live)

ReportPlain(h, st, s) ==
  IF PlainAccepted(h, st)
  THEN /\ job' = [job EXCEPT !.status = st, !.host = h, !.active = TRUE,
                             !.session = IF s # 0 THEN s ELSE @]
       /\ lease' = IF st = "running" THEN lease ELSE NoLease
       /\ UNCHANGED pause
  ELSE NoReport

\* transitionFederatedPause: the current session under the current live lease,
\* and a later occurrence than the one on record.
PauseAccepted(h, e, s) ==
  /\ job.host = h /\ job.status \in {"assigned", "running"}
  /\ job.session = s /\ lease.id = e /\ lease.live
  /\ pause.state = "none" \/ (pause.used /\ pause.resumed = s)

ReportPause(h, e, s) ==
  IF PauseAccepted(h, e, s)
  THEN /\ job' = [job EXCEPT !.status = "awaiting_approval", !.active = TRUE]
       /\ pause' = [NoPause EXCEPT !.state = "attached", !.session = s]
       /\ UNCHANGED lease
  ELSE NoReport

\* transitionFederatedResumeRunning: the first use of the grant starts the run,
\* its repetition for the same session changes nothing.
ResumeAccepted(h, g, s) ==
  /\ HostMatches(h) /\ pause.grant = g /\ g # 0 /\ lease.id = g /\ lease.live
  /\ IF pause.used THEN pause.resumed = s /\ job.session = s /\ job.status = "running"
     ELSE job.status = "awaiting_approval" /\ pause.state = "approved"

ReportResumed(h, g, s) ==
  IF ResumeAccepted(h, g, s)
  THEN /\ job' = [job EXCEPT !.status = "running", !.session = s, !.active = TRUE]
       /\ pause' = [pause EXCEPT !.used = TRUE, !.resumed = s]
       /\ UNCHANGED lease
  ELSE NoReport

\* transitionFederatedResumeTerminal: the end of a resumed run needs the consumed
\* grant and its session; a rejected blueprint closes the job without one.
CloseAccepted(h, g, s, st) ==
  /\ HostMatches(h) /\ pause.grant = g /\ g # 0 /\ lease.id = g /\ lease.live
  /\ \/ pause.used /\ pause.resumed = s /\ job.status = "running"
     \/ /\ st = "rejected" /\ s = 0 /\ ~pause.used /\ pause.state = "approved"
        /\ job.status = "awaiting_approval" /\ pause.decision = "rejected"

ReportClosed(h, g, s, st) ==
  IF CloseAccepted(h, g, s, st)
  THEN /\ job' = [job EXCEPT !.status = st, !.active = TRUE]
       /\ pause' = [pause EXCEPT !.used = TRUE]
       /\ lease' = NoLease
  ELSE NoReport

\* The worker's telemetry: an event that names the session, without a status.
ForwardEvents(s) ==
  /\ Telemetry /\ HostMatches(child[s].host)
  /\ child[s].phase \in {"running", "paused"} /\ child[s].epoch # 0
  /\ job.status \notin Terminal /\ job.session # s
  /\ job' = [job EXCEPT !.session = s, !.host = child[s].host, !.active = TRUE]
  /\ UNCHANGED <<lease, pause, child, arm, listener, count>>

-----------------------------------------------------------------------------
(* The listener daemon: a job assigned to it.                                *)

Goto(h, step) == listener' = [listener EXCEPT ![h].pc = step]
Drop(h) == listener' = [listener EXCEPT ![h] = Idle]
Fail(h) == listener' = [listener EXCEPT ![h].pc = "report", ![h].outcome = "failed"]

\* assignedJobsToStart: runJob keeps the lease it saw.
PickAssigned(h) ==
  /\ listener[h].pc = "idle" /\ job.status = "assigned" /\ job.host = h
  /\ listener' = [listener EXCEPT ![h] = [Idle EXCEPT !.pc = "announce", !.epoch = lease.id]]
  /\ UNCHANGED <<job, lease, pause, child, arm, count>>

\* The running report before the start.  The answer is not looked at.
AnnounceRunning(h) ==
  /\ listener[h].pc = "announce"
  /\ \/ ReportPlain(h, "running", 0) /\ Goto(h, "check")
     \/ "refuse" \in Faults /\ NoReport /\ Goto(h, "check")
     \/ "lost" \in Faults /\ ReportPlain(h, "running", 0) /\ Goto(h, "abort")
     \/ "throw" \in Faults /\ NoReport /\ Goto(h, "abort")
  /\ UNCHANGED <<child, arm, count>>

\* resolveFederatedStartClaim: the local monitor asks the head node for the exact
\* live lease, then starts the process unless the task already runs there.
CheckClaim(h) ==
  /\ listener[h].pc = "check"
  /\ IF /\ job.status \in {"assigned", "running"} /\ job.host = h
        /\ lease.id = listener[h].epoch /\ lease.live
     THEN Goto(h, "start") ELSE Fail(h)
  /\ UNCHANGED <<job, lease, pause, child, arm, count>>

StartChild(h) ==
  /\ listener[h].pc = "start" /\ NewSession \in Children
  /\ IF Active(h) = {}
     THEN /\ Spawn(h, 0, listener[h].epoch)
          /\ listener' = [listener EXCEPT ![h].pc = "poll", ![h].session = NewSession]
     ELSE Fail(h) /\ UNCHANGED child
  /\ UNCHANGED <<job, lease, pause, arm, count>>

\* The process writes its first checkpoint, ends, or stops at a human gate.
ChildStep(s) ==
  /\ child[s].phase = "running"
  /\ \/ ~child[s].saved /\ child' = [child EXCEPT ![s].saved = TRUE]
     \/ \E phase \in {"ok", "bad"} : child' = [child EXCEPT ![s].phase = phase]
     \/ /\ child[s].saved /\ NewSession \in Children
        /\ child' = [child EXCEPT ![s].phase = "paused"]
  /\ UNCHANGED <<job, lease, pause, arm, listener, count>>

\* pollLocalDispatch watches the process and renews its lease.  A renewal that
\* fails ends the execution, unless a resumed run is still unannounced; one that
\* succeeds moves the lease's end, and one that is refused is ignored.
Watching(h) == listener[h].pc = "poll" /\ listener[h].session # 0
Watched(h) == child[listener[h].session].phase

RenewFails(h) ==
  /\ Watching(h) /\ Watched(h) \in {"running", "paused"} /\ "throw" \in Faults
  /\ listener[h].grant = 0 \/ listener[h].announced
  /\ Goto(h, "abort")
  /\ UNCHANGED <<job, lease, pause, child, arm, count>>

\* runJob's report of an exception.
Abort(h) ==
  /\ listener[h].pc = "abort"
  /\ \/ ReportPlain(h, "failed", 0)
     \/ "throw" \in Faults /\ NoReport
  /\ Drop(h) /\ UNCHANGED <<child, arm, count>>

\* The process has ended, or its record is gone after a decision.  A resumed run
\* that was never announced is left to the lease's end.
Settled(h) ==
  /\ Watching(h) /\ Watched(h) \in {"ok", "bad", "decided"}
  /\ LET outcome == IF Watched(h) = "ok" THEN "completed" ELSE "failed"
     IN CASE listener[h].grant = 0 ->
               listener' = [listener EXCEPT ![h].pc = "report", ![h].outcome = outcome]
          [] listener[h].announced /\ Watched(h) # "decided" /\ listener[h].grant # 0 ->
               listener' = [listener EXCEPT ![h].pc = "close", ![h].outcome = outcome]
          [] OTHER -> Drop(h)
  /\ UNCHANGED <<job, lease, pause, child, arm, count>>

\* The terminal report, tried three times.
ReportTerminal(h) ==
  /\ listener[h].pc = "report"
  /\ \/ ReportPlain(h, listener[h].outcome, listener[h].session)
     \/ "throw" \in Faults /\ NoReport
  /\ Drop(h) /\ UNCHANGED <<child, arm, count>>

-----------------------------------------------------------------------------
(* The listener daemon: a pause.                                             *)

\* announcePause: the report.  A repetition of an occurrence that is already
\* released is a receipt.
AnnouncePause(h) ==
  /\ Watching(h) /\ Watched(h) = "paused" /\ listener[h].outcome # "held"
  /\ LET s == listener[h].session
     IN \/ /\ ReportPause(h, listener[h].epoch, s)
           /\ CASE job'.status = "awaiting_approval" /\ pause'.session = s /\ pause'.state = "attached" ->
                     Goto(h, "arm")
                [] job'.status = "awaiting_approval" /\ pause'.session = s /\ pause'.state \in Released ->
                     Drop(h)
                [] OTHER -> UNCHANGED listener
        \/ "lost" \in Faults /\ ReportPause(h, listener[h].epoch, s) /\ UNCHANGED listener
  /\ UNCHANGED <<child, arm, count>>

\* armLocalFederatedResume, and the refusal when the checkpoint has moved on.
ArmResume(h) ==
  /\ listener[h].pc = "arm"
  /\ LET s == listener[h].session
     IN IF Checkpointed(h, s)
        THEN /\ arm' = IF arm[h].session = s THEN arm
                       ELSE [arm EXCEPT ![h] = [Unarmed EXCEPT !.session = s, !.status = "armed"]]
             /\ Goto(h, "release")
        ELSE /\ listener' = [listener EXCEPT ![h].pc = "poll", ![h].outcome = "held"]
             /\ UNCHANGED arm
  /\ UNCHANGED <<job, lease, pause, child, count>>

\* releaseFederatedPause gives up the lease.  A refused release is not repeated,
\* a failed request is, from the report on.
ReleaseRecord(h) ==
  IF job.status = "awaiting_approval" /\ job.host = h /\ pause.session = listener[h].session
     /\ pause.state = "attached"
  THEN /\ pause' = [pause EXCEPT !.state = "released"]
       /\ lease' = NoLease /\ UNCHANGED job
  ELSE NoReport

ReleasePause(h) ==
  /\ listener[h].pc = "release"
  /\ \/ /\ ReleaseRecord(h)
        /\ IF job.status = "awaiting_approval" /\ pause'.session = listener[h].session
              /\ pause'.state = "released"
           THEN Drop(h)
           ELSE listener' = [listener EXCEPT ![h].pc = "poll", ![h].outcome = "held"]
     \/ "lost" \in Faults /\ ReleaseRecord(h) /\ Goto(h, "poll")
     \/ "throw" \in Faults /\ NoReport /\ Goto(h, "poll")
  /\ UNCHANGED <<child, arm, count>>

\* The approval routes of the host's monitor.  "approved" stands for every
\* decision that starts a run again, "rejected" for the end of a blueprint.  An
\* armed pause keeps the decision for the listener, any other starts at once,
\* and its process carries neither the job nor the lease.
Decide(s, d) ==
  /\ child[s].phase = "paused" /\ d \in {"approved", "rejected"}
  /\ LET h == child[s].host
         decided == [child EXCEPT ![s].phase = "decided"]
     IN IF arm[h].session = s /\ Checkpointed(h, s)
        THEN /\ arm' = [arm EXCEPT ![h].decision = d, ![h].status = "decided"]
             /\ child' = decided
        ELSE /\ d = "approved" => NewSession \in Children
             /\ child' = IF d = "rejected" THEN decided
                         ELSE [decided EXCEPT ![NewSession] =
                                 [host |-> h, phase |-> "running", from |-> s, epoch |-> 0, saved |-> FALSE]]
             /\ UNCHANGED arm
  /\ UNCHANGED <<job, lease, pause, listener, count>>

-----------------------------------------------------------------------------
(* The listener daemon: a resume.                                            *)

\* reconcileLocalFederatedResumeDecision adopts a decision made before the arm.
Adopts(h) ==
  /\ arm[h].status = "armed" /\ child[arm[h].session].phase = "decided"
  /\ Checkpointed(h, arm[h].session)

\* resumablePausedJobsToStart, with the exact local decision.
PickResumable(h) ==
  /\ listener[h].pc = "idle"
  /\ job.status = "awaiting_approval" /\ job.host = h /\ pause.state \in Released
  /\ arm[h].session = pause.session
  /\ arm[h].decision # "none" \/ Adopts(h)
  /\ arm' = IF arm[h].decision # "none" THEN arm
            ELSE [arm EXCEPT ![h].decision = "approved", ![h].status = "decided"]
  /\ listener' = [listener EXCEPT ![h] =
       [Idle EXCEPT !.old = pause.session,
                    !.epoch = lease.id,
                    !.grant = IF pause.state = "approved" THEN pause.grant ELSE 0,
                    !.pc = CASE pause.state = "released" -> "request"
                             [] pause.state = "resume_requested" -> "claim"
                             [] pause.state = "resume_claimed" -> "ack"
                             [] OTHER -> "install"]]
  /\ UNCHANGED <<job, lease, pause, child, count>>

\* assertGeneration
SamePause(h) ==
  job.status = "awaiting_approval" /\ job.host = h /\ pause.session = listener[h].old

\* Whatever request of the handshake is refused, fails or loses its answer ends
\* the execution; a later tick takes the pause up where the record stands.

\* requestFederatedResume
RequestResume(h) ==
  /\ listener[h].pc = "request"
  /\ LET ok == SamePause(h) /\ pause.state = "released"
     IN /\ pause' = IF ok THEN [pause EXCEPT !.state = "resume_requested",
                                             !.decision = arm[h].decision]
                    ELSE pause
        /\ IF ok THEN Goto(h, "claim") \/ ("lost" \in Faults /\ Drop(h)) ELSE Drop(h)
  /\ UNCHANGED <<job, lease, child, arm, count>>

\* claimFederatedResume: a lease of its own; an unhealthy host hands the job over.
ClaimResume(h) ==
  /\ listener[h].pc = "claim"
  /\ LET ok == SamePause(h) /\ pause.state = "resume_requested"
     IN \/ /\ ok /\ NewLease
           /\ pause' = [pause EXCEPT !.state = "resume_claimed", !.claim = TRUE, !.grant = 0]
           /\ \/ listener' = [listener EXCEPT ![h].pc = "ack", ![h].epoch = count.epochs + 1]
              \/ "lost" \in Faults /\ Drop(h)
           /\ UNCHANGED job
        \/ ok /\ Handover /\ Drop(h) /\ UNCHANGED count
        \/ ~ok /\ NoReport /\ Drop(h) /\ UNCHANGED count
  /\ UNCHANGED <<child, arm>>

\* acknowledgeFederatedResumeStart issues the start grant once.
AckResume(h) ==
  /\ listener[h].pc = "ack"
  /\ LET ok == /\ SamePause(h) /\ pause.state \in {"resume_claimed", "approved"}
               /\ pause.claim /\ lease.id = listener[h].epoch /\ lease.live
               /\ pause.grant = 0 \/ (pause.fresh /\ ~pause.used)
     IN IF ok
        THEN /\ pause' = IF pause.grant # 0 THEN pause
                         ELSE [pause EXCEPT !.state = "approved", !.grant = lease.id, !.fresh = TRUE]
             /\ \/ listener' = [listener EXCEPT ![h].pc = "install", ![h].grant = lease.id]
                \/ "lost" \in Faults /\ Drop(h)
        ELSE Drop(h) /\ UNCHANGED pause
  /\ UNCHANGED <<job, lease, child, arm, count>>

GrantFresh(h) == pause.grant = listener[h].grant /\ pause.fresh

\* installLocalFederatedResumeStartGrant
InstallGrant(h) ==
  /\ listener[h].pc = "install"
  /\ IF /\ arm[h].session = listener[h].old
        /\ IF arm[h].grant = 0 THEN GrantFresh(h) ELSE arm[h].grant = listener[h].grant
     THEN /\ arm' = [arm EXCEPT ![h].grant = listener[h].grant]
          /\ Goto(h, "reserve")
     ELSE Drop(h) /\ UNCHANGED arm
  /\ UNCHANGED <<job, lease, pause, child, count>>

\* The federated-resume start route runs under the task's admission fence.
CarrierAny(h) == Active(h)   \* mutant of Carrier: any process of the task is taken up
Carrier(h) == {s \in Active(h) : child[s].epoch = arm[h].grant}
\* Mutant of StartFresh: a consumed grant starts again.
StartAgain(h) ==
  arm[h].status \in {"decided", "reserved", "started"} /\ GrantFresh(h) /\ Active(h) = {}
StartFresh(h) == arm[h].status = "decided" /\ GrantFresh(h) /\ Active(h) = {}

\* reserveLocalFederatedResumeStart consumes the grant before the process starts,
\* finalizeLocalFederatedResumeStart records the session.
LaunchResumed(h) ==
  /\ listener[h].pc = "reserve" /\ StartFresh(h) /\ arm[h].decision = "approved"
  /\ NewSession \in Children
  /\ \/ /\ Spawn(h, arm[h].session, listener[h].grant)
        /\ \/ arm' = [arm EXCEPT ![h].status = "started", ![h].resumed = NewSession]
           \/ "launch" \in Faults /\ arm' = [arm EXCEPT ![h].status = "reserved"]
        /\ \/ listener' = [listener EXCEPT ![h].pc = "resumed", ![h].session = NewSession]
           \/ "lost" \in Faults /\ Drop(h)
     \/ /\ "launch" \in Faults
        /\ arm' = [arm EXCEPT ![h].status = "reserved"]
        /\ Drop(h) /\ UNCHANGED child
  /\ UNCHANGED <<job, lease, pause, count>>

\* A rejected blueprint consumes the grant and starts nothing.
RejectResumed(h) ==
  /\ listener[h].pc = "reserve"
  /\ \/ StartFresh(h) /\ arm[h].decision = "rejected"
     \/ arm[h].status = "terminal" /\ Active(h) = {}
  /\ arm' = [arm EXCEPT ![h].status = "terminal"]
  /\ listener' = [listener EXCEPT ![h].pc = "close", ![h].outcome = "rejected"]
  /\ UNCHANGED <<job, lease, pause, child, count>>

\* The process of an earlier start under the same grant is taken up.
ReplayResumed(h) ==
  /\ listener[h].pc = "reserve" /\ arm[h].status \in {"reserved", "started"}
  /\ \E s \in Carrier(h) :
       /\ arm' = [arm EXCEPT ![h].status = "started", ![h].resumed = s]
       /\ listener' = [listener EXCEPT ![h].pc = "resumed", ![h].session = s]
  /\ UNCHANGED <<job, lease, pause, child, count>>

RefuseResumed(h) ==
  /\ listener[h].pc = "reserve"
  /\ \/ arm[h].status \in {"reserved", "started"} /\ Carrier(h) = {}
     \/ arm[h].status = "terminal" /\ Active(h) # {}
     \/ arm[h].status = "decided" /\ ~StartFresh(h)
  /\ Drop(h)
  /\ UNCHANGED <<job, lease, pause, child, arm, count>>

\* announceResumed.  A run whose report is not acknowledged is stopped and closed;
\* if the stop is not confirmed it is watched, and announced again.
AnnounceResumed(h) ==
  /\ listener[h].pc = "resumed" \/ (Watching(h) /\ listener[h].grant # 0 /\ ~listener[h].announced)
  /\ LET l == listener[h]
         stop == [child EXCEPT ![l.session].phase = "bad"]
         Unacknowledged ==
           IF l.pc = "poll" THEN UNCHANGED <<child, listener>>
           ELSE \/ /\ child' = stop
                   /\ listener' = [listener EXCEPT ![h].pc = "close", ![h].outcome = "failed"]
                \/ "stop" \in Faults /\ Goto(h, "poll") /\ UNCHANGED child
     IN \/ /\ ReportResumed(h, l.grant, l.session)
           /\ IF ResumeAccepted(h, l.grant, l.session)
              THEN /\ listener' = [listener EXCEPT ![h].pc = "poll", ![h].announced = TRUE]
                   /\ UNCHANGED child
              ELSE Unacknowledged
        \/ "lost" \in Faults /\ ReportResumed(h, l.grant, l.session) /\ Unacknowledged
        \/ "throw" \in Faults /\ NoReport /\ Unacknowledged
  /\ UNCHANGED <<arm, count>>

\* announceResumeTerminal, tried three times.
CloseResumed(h) ==
  /\ listener[h].pc = "close"
  /\ LET l == listener[h]
     IN \/ ReportClosed(h, l.grant, l.session, l.outcome)
        \/ "throw" \in Faults /\ NoReport
  /\ Drop(h) /\ UNCHANGED <<child, arm, count>>

\* The daemon is started again; its host's processes go on.
Restart(h) ==
  /\ listener[h].pc # "idle" /\ count.restarts < MaxRestarts
  /\ count' = [count EXCEPT !.restarts = @ + 1]
  /\ Drop(h) /\ UNCHANGED <<job, lease, pause, child, arm>>

-----------------------------------------------------------------------------
Scheduler ==
  \/ \E h \in Hosts : Assign(h)
  \/ BlockUnready \/ Recheck \/ RecoverPause \/ RecoverLease

Dispatching(h) ==
  \/ PickAssigned(h) \/ AnnounceRunning(h) \/ CheckClaim(h) \/ StartChild(h)
  \/ Abort(h) \/ Settled(h) \/ ReportTerminal(h)

Pausing(h) == AnnouncePause(h) \/ ArmResume(h) \/ ReleasePause(h)

Resuming(h) ==
  \/ PickResumable(h) \/ RequestResume(h) \/ ClaimResume(h) \/ AckResume(h)
  \/ InstallGrant(h) \/ LaunchResumed(h) \/ RejectResumed(h) \/ ReplayResumed(h)
  \/ RefuseResumed(h) \/ AnnounceResumed(h) \/ CloseResumed(h)

Next ==
  \/ Scheduler \/ Cancel \/ ExpireLease \/ ExpirePause
  \/ \E h \in Hosts : Dispatching(h) \/ Pausing(h) \/ Resuming(h) \/ RenewFails(h) \/ Restart(h)
  \/ \E s \in Children : ForwardEvents(s) \/ ChildStep(s) \/ (\E d \in Decisions : Decide(s, d))

Spec == Init /\ [][Next]_vars

-----------------------------------------------------------------------------
TypeOK ==
  /\ job \in [status : Status, host : Hosts \cup {NoHost}, session : Sessions,
              active : BOOLEAN, manual : BOOLEAN]
  /\ lease \in [id : Epochs, live : BOOLEAN]
  /\ pause \in [session : Sessions, state : PauseState, decision : Decisions, due : BOOLEAN,
                claim : BOOLEAN, grant : Epochs, fresh : BOOLEAN, used : BOOLEAN,
                resumed : Sessions]
  /\ child \in [Children -> [host : Hosts \cup {NoHost}, from : Sessions, epoch : Epochs,
                             saved : BOOLEAN,
                             phase : {"none", "running", "paused", "decided", "ok", "bad"}]]
  /\ arm \in [Hosts -> [session : Sessions, decision : Decisions, grant : Epochs,
                        resumed : Sessions,
                        status : {"none", "armed", "decided", "reserved", "started", "terminal"}]]
  /\ listener \in [Hosts -> [pc : Steps, epoch : Epochs, session : Sessions, old : Sessions,
                             grant : Epochs, announced : BOOLEAN,
                             outcome : {"none", "held"} \cup Terminal]]
  /\ count \in [epochs : Epochs, retries : Epochs, restarts : 0..MaxRestarts]

\* No two processes work on the job at once, on one host or on two: neither the
\* retry of an expired lease nor a resume starts a second one beside the first.
OneChild == Cardinality({s \in Started : child[s].phase = "running"}) <= 1

\* A pause is resumed under a grant at most once, however often the handshake is
\* repeated, its answers are lost or the daemon is started again.
ResumedOnce ==
  \A s, t \in Started :
    (s # t /\ child[s].from # 0 /\ child[s].from = child[t].from)
      => child[s].epoch = 0 \/ child[t].epoch = 0

\* A granted start that the head node recorded is the one that the host made.
SameSession ==
  (pause.used /\ pause.resumed # 0)
    => /\ child[pause.resumed].from = pause.session
       /\ child[pause.resumed].epoch = pause.grant

\* A job that was handed over to the operator, or that has ended, is never started
\* again: only an operator's cancel, or the recheck of a job no worker ever touched,
\* changes its status.
EndStays ==
  [][ job.status \in Terminal /\ job'.status # job.status
        => \/ job'.status = "canceled"
           \/ ~job.manual /\ job.host = NoHost /\ Started = {} ]_vars

-----------------------------------------------------------------------------
(* Fairness: the scheduler ticks, a daemon goes on with what it has in flight *)
(* and polls for more, and a lease that nobody renews runs out.               *)

Renewed ==
  \E h \in Hosts : /\ listener[h].pc \in {"poll", "arm", "release"}
                   /\ listener[h].epoch = lease.id /\ job.host = h /\ Attached

Unattended == ~Renewed /\ ExpireLease

Fairness ==
  /\ WF_vars(Scheduler) /\ WF_vars(Unattended) /\ WF_vars(ExpirePause)
  /\ \A h \in Hosts : WF_vars(Dispatching(h) \/ Pausing(h) \/ Resuming(h))
  /\ \A s \in Children : WF_vars(ChildStep(s)) /\ WF_vars(ForwardEvents(s))

FairSpec == Init /\ [][Next]_vars /\ Fairness

\* A decision on a released pause takes effect: the job runs on, ends or is handed
\* over to an operator.
DecisionApplied ==
  (job.status = "awaiting_approval" /\ pause.state \in Released /\ arm[job.host].decision # "none")
    ~> (job.status # "awaiting_approval")
=============================================================================
