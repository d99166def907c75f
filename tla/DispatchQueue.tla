--------------------------- MODULE DispatchQueue ---------------------------
(***************************************************************************)
(* The dependency-aware dispatch queue (src/queue/dispatch-queue.ts) with  *)
(* the parts it drives: the concurrency guard, failure propagation, the    *)
(* persisted log, and, as its environment, the dispatch manager's jobs,    *)
(* the human gates, the task views and the duplicate-claimant scan.        *)
(*                                                                         *)
(* The queue runs on one JavaScript thread.  An action is the code between *)
(* two awaits; every await is a point where any other action may run.  The *)
(* threads of the model are the scheduling passes, one enrichment per row, *)
(* one "unblock" continuation per completed task, the recovery scan and    *)
(* the callers of start()/resume() that wait for it.                       *)
(***************************************************************************)
EXTENDS QueueRules

CONSTANTS
  Slots,          \* scheduling passes past their task listing at one time
  MaxKicks,       \* bound: passes waiting for their task listing
  MaxTimers,      \* bound: pending loop timeouts
  MaxRetries,     \* bound: operator retries
  MaxCrashes,     \* bound: monitor restarts
  InitialConfig,  \* the configuration the queue is constructed with
  Configs,        \* the configurations updateConfig may set
  Ops,            \* the operator requests that may arrive
  Faults,         \* the faults that may happen
  External,       \* tasks that a ledger writer may complete outside the queue
  Contestable,    \* tasks that a second spec file may come to claim
  Outcomes        \* how a run may end

OpNames == {"enqueue", "start", "pause", "resume", "stop", "abort", "cancel",
            "retry", "remove", "config", "decide", "outside"}
FaultNames == {"start_throws", "fence", "enrich", "directory",
               "stop_unconfirmed", "lag", "compact", "slow_scan"}
OutcomeNames == {"ok", "bad", "changed", "awaiting"}

ASSUME BoundsAssumption ==
  /\ MaxKicks \in Nat \ {0} /\ MaxTimers \in Nat \ {0}
  /\ MaxRetries \in Nat /\ MaxCrashes \in Nat
  /\ Configs \subseteq Config /\ InitialConfig \in Configs
  /\ Ops \subseteq OpNames /\ Faults \subseteq FaultNames
  /\ Outcomes \subseteq OutcomeNames
  /\ External \subseteq Tasks /\ Contestable \subseteq Tasks

VARIABLES
  mapped,         \* the keys of this.items
  item,           \* item[t]: the queue item object last created for t
  running, paused,
  cfg,            \* this.config
  loopTimer,      \* this.loopTimer # null
  timers,         \* pending loop timeouts, tracked by loopTimer or overwritten
  polls,          \* the keys of this.pollTimers
  guard,          \* this.guard
  dispatchChecks, \* this.dispatchChecks
  kicks,          \* scheduling passes that await their task listing
  pass,           \* pass[p]: a scheduling pass past its task listing
  enr,            \* enr[t]: the enrichment of t's item
  unb,            \* unb[t]: the unblockDependents(t) in flight
  rec,            \* the recovery scan
  waiters,        \* start()/resume() calls that await the recovery scan
  job,            \* job[t]: the dispatch manager's job for t
  gate,           \* tasks with a pending human-gate record on disk
  contested,      \* tasks more than one spec file claims
  approved,       \* tasks whose work really is done
  specDone,       \* tasks shown complete by listTasks without the database
  dbDone,         \* tasks shown complete by listTasks with the database
  disk,           \* disk[t]: what replay() would rebuild for t
  started,        \* history: tasks the queue itself started a worker for
  retries, crashes

lifecycle == <<running, paused, cfg>>
clocks    == <<loopTimer, timers>>
rows      == <<mapped, item, disk>>
lanes     == <<guard, polls>>
threads   == <<pass, dispatchChecks, enr, unb, rec, waiters>>
manager   == <<job, gate>>
views     == <<contested, approved, specDone, dbDone>>
history   == <<started, retries, crashes>>
vars == <<lifecycle, clocks, rows, lanes, kicks, threads, manager, views, history>>

-----------------------------------------------------------------------------
(* Threads.                                                                *)

PassPc == {"idle", "visit", "scan", "resolve", "claim", "fence", "release"}
Dispatching == {"resolve", "claim", "fence", "release"}

\* seen: the rows this pass has visited; view: the tasks its listing showed as
\* done; ids/quar: the claimant ids and the quarantine flag read before the scan.
Pass == [pc : PassPc, task : Tasks \cup {NoTask}, seen : SUBSET Tasks,
         view : SUBSET Tasks, ids : SUBSET Tasks, quar : BOOLEAN]
IdlePass == [pc |-> "idle", task |-> NoTask, seen |-> {}, view |-> {},
             ids |-> {}, quar |-> FALSE]

Enrichment == [pc : {"idle", "list", "scan"}, view : SUBSET Tasks]
NoEnrichment == [pc |-> "idle", view |-> {}]

\* seen: the rows the loop has passed; quar: the completed task is contested, so
\* the loop quarantines; kick: the queue's own poll waits, and schedules next.
Unblocking == [pc : {"idle", "scan", "loop", "refresh"}, cur : Tasks \cup {NoTask},
               ids : SUBSET Tasks, seen : SUBSET Tasks, quar : BOOLEAN, kick : BOOLEAN]
NoUnblocking == [pc |-> "idle", cur |-> NoTask, ids |-> {}, seen |-> {},
                 quar |-> FALSE, kick |-> FALSE]

Recovery == [pc : {"idle", "stat", "claims", "rows"}, todo : SUBSET Tasks,
             bad : SUBSET Tasks, cur : Tasks \cup {NoTask}]
NoRecovery == [pc |-> "idle", todo |-> {}, bad |-> {}, cur |-> NoTask]

\* enrichmentPending
Pending(t) == enr[t].pc # "idle"

Lanes == {t \in mapped : item[t].status \in LaneStatus}

\* No continuation still holds t's old item object.  A removed id is enqueued
\* again only then (bound of the model: one object per id).
Unreferenced(t) ==
  /\ ~Pending(t)
  /\ \A p \in Slots : pass[p].task # t
  /\ \A u \in Tasks : unb[u].cur # t
  /\ t \notin rec.todo

\* A new row goes to the end of this.items, so loops in flight will meet it.
Appended(t) ==
  /\ pass' = [p \in Slots |-> [pass[p] EXCEPT !.seen = @ \ {t}]]
  /\ unb' = [c \in Tasks |-> [unb[c] EXCEPT !.seen = @ \ {t}]]

-----------------------------------------------------------------------------
(* Helpers that stand for the small private methods.                       *)

\* scheduleNext(): one more pass, if the queue is running and not paused.
Kicked(r, p) == IF r /\ ~p /\ kicks < MaxKicks THEN kicks + 1 ELSE kicks

\* this.loopTimer = setTimeout(...): an earlier timeout is not cleared.
SetLoopTimer ==
  /\ loopTimer' = TRUE
  /\ timers' = IF timers < MaxTimers THEN timers + 1 ELSE timers

\* clearTimeout(this.loopTimer): only the tracked timeout goes away.
ClearLoopTimer ==
  /\ loopTimer' = FALSE
  /\ timers' = IF loopTimer THEN timers - 1 ELSE timers

\* The cost charged with a lane may exhaust the fleet budget.
Tips == IF cfg.budgeted THEN BOOLEAN ELSE {FALSE}

SetStatus(t, s) == item' = [item EXCEPT ![t].status = s]

\* Mutant: the rows a failure takes down are not logged.
HandleTaskFailureUnlogged(t) ==
  LET after  == [item EXCEPT ![t].status = "failed"]
      blocks == FailureBlocks(t, mapped, after, cfg.failurePropagation)
      skips  == FailureSkips(t, mapped, after, cfg.failurePropagation)
  IN  /\ item' = [u \in Tasks |-> [item[u] EXCEPT
                    !.status = AfterFailure(t, u, blocks, skips, @)]]
      /\ disk' = Logged(disk, t, "failed")
      /\ paused' = (paused \/ cfg.pauseOnFailure)
      /\ IF cfg.pauseOnFailure /\ ~paused THEN ClearLoopTimer ELSE UNCHANGED clocks

\* handleTaskFailure(t) on the rows, the log and the pause flag.
HandleTaskFailure(t) ==
  LET after  == [item EXCEPT ![t].status = "failed"]
      blocks == FailureBlocks(t, mapped, after, cfg.failurePropagation)
      skips  == FailureSkips(t, mapped, after, cfg.failurePropagation)
  IN  /\ item' = [u \in Tasks |-> [item[u] EXCEPT
                    !.status = AfterFailure(t, u, blocks, skips, @)]]
      /\ disk' = [u \in Tasks |-> [disk[u] EXCEPT
                    !.status = IF @ = Absent THEN Absent
                               ELSE AfterFailure(t, u, blocks, skips, @)]]
      /\ paused' = (paused \/ cfg.pauseOnFailure)
      /\ IF cfg.pauseOnFailure /\ ~paused THEN ClearLoopTimer ELSE UNCHANGED clocks

-----------------------------------------------------------------------------
(* The dispatch manager, as the queue sees it.  A job is running, awaiting   *)
(* (exited at a human gate) or terminal.  After an operator stop its status  *)
(* reads "stopped" at once while cleanup is pending: killed when the end of  *)
(* the process tree is confirmed, stopping when it is not.                   *)

JobState == {"none", "running", "awaiting", "stopping", "killed", "stopped",
             "ok", "bad", "changed"}
CleanupPending == {"stopping", "killed"}

\* getActiveJob(t)
Active(t) == job[t] \in {"running", "awaiting"}

\* The refusals of start() that the queue's own history can cause.
StartAllowed(t) == ~Active(t) /\ job[t] \notin CleanupPending /\ t \notin gate

\* stop(t): its answer and the job it leaves.
StopResults(t) ==
  LET mayFail == job[t] = "running" /\ "stop_unconfirmed" \in Faults
      ended   == job[t] \notin {"running", "awaiting"} \cup CleanupPending
  IN  {res \in BOOLEAN \X JobState :
         \/ res = <<TRUE, "killed">> /\ job[t] \in {"running", "stopping", "killed"}
         \/ res = <<FALSE, "stopping">> /\ (job[t] \in {"awaiting", "stopping"} \/ mayFail)
         \/ res = <<FALSE, job[t]>> /\ (ended \/ mayFail)}

\* cancel() and abort() take a job that already ended as stopped.
AlreadyStopped(t) == job[t] # "none" /\ ~Active(t) /\ job[t] \notin CleanupPending
LaneStops(t) == IF AlreadyStopped(t) THEN {<<TRUE, job[t]>>} ELSE StopResults(t)

-----------------------------------------------------------------------------
(* Operator requests.                                                      *)

HasRecoveredPendingRows == \E t \in mapped : item[t].status = "recovered_pending_scan"

\* ensureRecoveryScan(): join the scan in flight or begin one.
EnsureRecoveryScan ==
  rec' = IF rec.pc = "idle" THEN [NoRecovery EXCEPT !.pc = "stat"] ELSE rec

\* The part of start() after the recovery scan.
StartBody(isEmpty) ==
  /\ running' = (running \/ ~isEmpty)
  /\ paused' = (IF running THEN paused ELSE FALSE)
  /\ kicks' = IF running THEN kicks ELSE Kicked(~isEmpty, FALSE)

\* compact(): at a drain the log may be long enough to be replaced by a snapshot
\* of the rows still mapped.
Compactions ==
  {disk} \cup (IF "compact" \in Faults
               THEN {[t \in Tasks |-> IF t \in mapped THEN item[t] ELSE NoRow]} ELSE {})

\* start(): a queue with replayed rows first waits for the recovery scan.  An
\* empty queue drains on the spot.
CallStart(isEmpty) ==
  IF HasRecoveredPendingRows
  THEN /\ waiters' = waiters \cup {"start"}
       /\ EnsureRecoveryScan
       /\ UNCHANGED <<running, paused, kicks>>
  ELSE /\ StartBody(isEmpty)
       /\ UNCHANGED <<waiters, rec>>

Start ==
  /\ "start" \in Ops
  /\ CallStart(mapped = {})
  /\ disk' \in (IF mapped = {} /\ ~running THEN Compactions ELSE {disk})
  /\ UNCHANGED <<cfg, clocks, mapped, item, lanes, pass, dispatchChecks, enr, unb,
                 manager, views, history>>

\* enqueue(t), also the step that enqueueMultiple and enqueueSubtasks repeat.  The
\* duplicate-claimant check the route made is from an earlier moment, so a
\* contested id may still get in.
Enqueue(t) ==
  /\ "enqueue" \in Ops
  /\ t \notin mapped /\ ~Active(t) /\ Unreferenced(t)
  /\ mapped' = mapped \cup {t}
  /\ item' = [item EXCEPT ![t] = NewItem]
  /\ disk' = [disk EXCEPT ![t] = LoggedRow(NewItem)]
  /\ enr' = [enr EXCEPT ![t] = [NoEnrichment EXCEPT !.pc = "list"]]
  /\ IF cfg.autoStartOnEnqueue /\ ~running /\ ~paused
     THEN CallStart(FALSE)
     ELSE /\ kicks' = Kicked(running, paused)
          /\ UNCHANGED <<running, paused, waiters, rec>>
  /\ Appended(t)
  /\ UNCHANGED <<cfg, clocks, lanes, dispatchChecks, manager, views, history>>

Pause ==
  /\ "pause" \in Ops /\ ~paused
  /\ paused' = TRUE
  /\ ClearLoopTimer
  /\ UNCHANGED <<running, cfg, rows, lanes, kicks, threads, manager, views, history>>

ResumeBody ==
  /\ paused' = FALSE
  /\ kicks' = Kicked(running /\ paused, FALSE)

Resume ==
  /\ "resume" \in Ops
  /\ IF HasRecoveredPendingRows
     THEN /\ waiters' = waiters \cup {"resume"}
          /\ EnsureRecoveryScan
          /\ UNCHANGED <<paused, kicks>>
     ELSE ResumeBody /\ UNCHANGED <<waiters, rec>>
  /\ UNCHANGED <<running, cfg, clocks, rows, lanes, pass, dispatchChecks, enr, unb,
                 manager, views, history>>

Stop ==
  /\ "stop" \in Ops
  /\ running' = FALSE /\ paused' = FALSE
  /\ ClearLoopTimer
  /\ UNCHANGED <<cfg, rows, lanes, kicks, threads, manager, views, history>>

\* abort(): every lane whose job is stopped, or found stopped, is given back;
\* the others keep their lane and get a poll timer.
Abort ==
  /\ "abort" \in Ops
  /\ running' = FALSE /\ paused' = FALSE
  /\ ClearLoopTimer
  /\ \E res \in [Lanes -> BOOLEAN \X JobState], tips \in Tips :
       /\ \A t \in Lanes : res[t] \in LaneStops(t)
       /\ LET done == {t \in Lanes : res[t][1]} IN
          /\ job' = [t \in Tasks |-> IF t \in Lanes THEN res[t][2] ELSE job[t]]
          /\ item' = [t \in Tasks |-> IF t \in done
                        THEN [item[t] EXCEPT !.status = "stopped"] ELSE item[t]]
          /\ disk' = [t \in Tasks |-> IF t \in done /\ disk[t].status # Absent
                        THEN [disk[t] EXCEPT !.status = "stopped"] ELSE disk[t]]
          /\ guard' = OnTaskComplete(guard, Cardinality(done), tips /\ done # {})
          /\ polls' = (polls \ done) \cup (Lanes \ done)
  /\ UNCHANGED <<cfg, mapped, kicks, threads, gate, views, history>>

\* cancel(t), acknowledged: a lane is given back, any other row just becomes
\* stopped.
Cancel(t) ==
  /\ "cancel" \in Ops /\ t \in mapped
  /\ IF t \in Lanes
     THEN \E res \in LaneStops(t), tips \in Tips :
            /\ res[1]
            /\ job' = [job EXCEPT ![t] = res[2]]
            /\ guard' = OnTaskComplete(guard, 1, tips)
            /\ polls' = polls \ {t}
     ELSE UNCHANGED <<job, guard, polls>>
  /\ SetStatus(t, "stopped")
  /\ disk' = Logged(disk, t, "stopped")
  /\ UNCHANGED <<lifecycle, clocks, mapped, kicks, threads, gate, views, history>>

\* cancel(t) answering false: the stop is not confirmed, the lane stays watched.
CancelUnconfirmed(t) ==
  /\ "cancel" \in Ops /\ t \in Lanes
  /\ \E res \in LaneStops(t) : ~res[1] /\ job' = [job EXCEPT ![t] = res[2]]
  /\ polls' = polls \cup {t}
  /\ UNCHANGED <<lifecycle, clocks, rows, guard, kicks, threads, gate, views, history>>

Retry(t) ==
  /\ "retry" \in Ops /\ retries < MaxRetries
  /\ t \in mapped /\ item[t].status = "failed"
  /\ SetStatus(t, "queued")
  /\ disk' = [disk EXCEPT ![t] = LoggedRow(item[t])]
  /\ kicks' = Kicked(running, paused)
  /\ retries' = retries + 1
  /\ UNCHANGED <<lifecycle, clocks, mapped, lanes, threads, manager, views,
                 started, crashes>>

\* remove(t): nothing is written to the log.
Remove(t) ==
  /\ "remove" \in Ops /\ t \in mapped \ Lanes
  /\ mapped' = mapped \ {t}
  /\ UNCHANGED <<lifecycle, clocks, item, disk, lanes, kicks, threads, manager, views,
                 history>>

UpdateConfig ==
  /\ "config" \in Ops
  /\ cfg' \in Configs \ {cfg}
  /\ UNCHANGED <<running, paused, clocks, rows, lanes, kicks, threads, manager,
                 views, history>>

-----------------------------------------------------------------------------
(* Human gates: the approve and reject routes.  The decision is written and  *)
(* the manager's pause released under one reservation, so a route is a step. *)

\* resolveApprovalPauseDecision(t) is refused while a process may be alive.
GateDecidable(t) == t \in gate /\ job[t] \notin {"running", "stopped"} \cup CleanupPending

\* recordApprovalResume: an awaiting row, or a running row whose poll has not
\* yet seen the pause that the manager has just released.
ResumesRow(t) ==
  /\ t \in mapped
  /\ \/ item[t].status = "awaiting_approval"
     \/ item[t].status = "running" /\ job[t] = "awaiting"

\* Approve t's gate and start the replacement worker.
Approve(t) ==
  /\ "decide" \in Ops /\ GateDecidable(t)
  /\ gate' = gate \ {t}
  /\ job' = [job EXCEPT ![t] = "running"]
  /\ IF ResumesRow(t)
     THEN /\ item' = [item EXCEPT ![t] = Resumed(@, "running")]
          /\ disk' = [disk EXCEPT ![t] = IF @.status = Absent THEN @ ELSE Resumed(@, "running")]
     ELSE UNCHANGED <<item, disk>>
  /\ UNCHANGED <<lifecycle, clocks, mapped, lanes, kicks, threads, views, history>>

\* Approve t's gate, but the synchronous start() throws: requeueApprovalResume
\* gives the lane back and makes the row ready again, to resume later.
ApproveStartThrows(t) ==
  /\ "decide" \in Ops /\ "start_throws" \in Faults /\ GateDecidable(t)
  /\ gate' = gate \ {t}
  /\ job' = [job EXCEPT ![t] = IF @ = "awaiting" THEN "none" ELSE @]
  /\ IF ResumesRow(t)
     THEN /\ item' = [item EXCEPT ![t] = Resumed(@, "ready")]
          /\ disk' = [disk EXCEPT ![t] = IF @.status = Absent THEN @ ELSE Resumed(@, "ready")]
          /\ guard' = OnTaskComplete(guard, 1, FALSE)
          /\ polls' = polls \ {t}
          /\ kicks' = Kicked(running, paused)
     ELSE UNCHANGED <<item, disk, guard, polls, kicks>>
  /\ UNCHANGED <<lifecycle, clocks, mapped, threads, views, history>>

\* Reject t's gate: settleApprovalRejection fails the row and gives its lane back.
Reject(t) ==
  /\ "decide" \in Ops /\ GateDecidable(t)
  /\ gate' = gate \ {t}
  /\ job' = [job EXCEPT ![t] = IF @ = "awaiting" THEN "none" ELSE @]
  /\ IF ResumesRow(t)
     THEN /\ HandleTaskFailure(t)
          /\ \E tips \in Tips : guard' = OnTaskComplete(guard, 1, tips)
          /\ polls' = polls \ {t}
          /\ kicks' = Kicked(running, paused')
     ELSE UNCHANGED <<item, disk, paused, clocks, guard, polls, kicks>>
  /\ UNCHANGED <<running, cfg, mapped, threads, views, history>>

-----------------------------------------------------------------------------
(* Scheduling passes: scheduleNextAfterReadiness, updateReadiness.         *)

Ready(t) == item[t].status = "ready"

\* The rows whose own outcome counts as a dependency done.
DoneInQueueAnyEnd ==                        \* mutant: any end counts
  {t \in mapped : item[t].status \in {"completed", "failed", "skipped"}}
DoneInQueue == {t \in mapped : item[t].status = "completed"}

\* The listing (with the database) has answered; the completed rows are read now.
ListDone(p) ==
  /\ kicks > 0 /\ pass[p].pc = "idle"
  /\ kicks' = kicks - 1
  /\ pass' = [pass EXCEPT ![p] = [IdlePass EXCEPT !.pc = "visit",
        !.view = dbDone \cup DoneInQueue]]
  /\ UNCHANGED <<lifecycle, clocks, rows, lanes, dispatchChecks, enr, unb, rec, waiters,
                 manager, views, history>>

\* The rows updateReadiness still has to look at.
Refreshable(t) ==
  /\ t \in mapped /\ ~Pending(t)
  /\ \/ item[t].status = "queued"
     \/ item[t].status = "blocked" /\ item[t].dup # {}

\* The row and the log after the claimant scan of one visit.  The row's status
\* is not read again after the scan.
Refreshed(t, view, ids, quar) ==
  LET unmet == Unmet(t, view)
      bad   == ids \cap contested
      clear == IF quar
               THEN [item[t] EXCEPT !.dup = {}, !.blockedBy = unmet,
                                    !.status = IF @ = "blocked" THEN "queued" ELSE @]
               ELSE [item[t] EXCEPT !.blockedBy = unmet]
  IN  IF bad # {} THEN [item[t] EXCEPT !.blockedBy = unmet \cup (bad \ {t}), !.dup = bad]
      ELSE IF unmet = {} THEN [clear EXCEPT !.status = "ready"] ELSE clear

ApplyRefresh(t, view, ids, quar) ==
  /\ item' = [item EXCEPT ![t] = Refreshed(t, view, ids, quar)]
  /\ disk' = IF ids \cap contested = {} /\ Unmet(t, view) = {}
             THEN Logged(disk, t, "ready") ELSE disk

\* Visit one row.  With no claimant to check the visit ends at once, otherwise
\* the claimant scan is awaited.  The Map order of the visits is left open: skip
\* is the part of the Map the loop has already passed with nothing to do.
Visit(p, t) ==
  /\ pass[p].pc = "visit" /\ Refreshable(t) /\ t \notin pass[p].seen
  /\ LET ids  == Satisfiers(t, pass[p].view) \cup item[t].dup
         quar == item[t].dup # {}
     IN  IF ids = {}
         THEN /\ ApplyRefresh(t, pass[p].view, ids, quar)
              /\ pass' = [pass EXCEPT ![p].seen = @ \cup {t}]
         ELSE /\ \E skip \in SUBSET {u \in mapped : ~Refreshable(u)} :
                   pass' = [pass EXCEPT ![p] = [@ EXCEPT !.pc = "scan", !.task = t,
                              !.seen = pass[p].seen \cup {t} \cup skip,
                              !.ids = ids, !.quar = quar]]
              /\ UNCHANGED <<item, disk>>
  /\ UNCHANGED <<lifecycle, clocks, mapped, lanes, kicks, dispatchChecks, enr, unb, rec,
                 waiters, manager, views, history>>

VisitScanned(p) ==
  /\ pass[p].pc = "scan"
  /\ ApplyRefresh(pass[p].task, pass[p].view, pass[p].ids, pass[p].quar)
  /\ pass' = [pass EXCEPT ![p] = [@ EXCEPT !.pc = "visit", !.task = NoTask,
                                           !.ids = {}, !.quar = FALSE]]
  /\ UNCHANGED <<lifecycle, clocks, mapped, lanes, kicks, dispatchChecks, enr, unb, rec,
                 waiters, manager, views, history>>

Visited(p) ==
  pass[p].pc = "visit" /\ \A t \in Tasks : Refreshable(t) => t \in pass[p].seen

Idle(p) == pass' = [pass EXCEPT ![p] = IdlePass]

\* Rows the selection may pick: the best priority; equal ones by enqueue time,
\* which the model leaves open.
Selectable == {t \in mapped : Ready(t) /\ ~Pending(t)}
SelectNextTask == {t \in Selectable : \A u \in Selectable : item[t].prio <= item[u].prio}

\* The lifecycle changed while the readiness I/O was in flight.
PassStale(p) ==
  /\ Visited(p) /\ (~running \/ paused)
  /\ Idle(p)
  /\ UNCHANGED <<lifecycle, clocks, rows, lanes, kicks, dispatchChecks, enr, unb, rec,
                 waiters, manager, views, history>>

PassBudgetExhausted(p) ==
  /\ Visited(p) /\ running /\ ~paused
  /\ CanStart(guard, cfg) = "fleet_budget_exhausted"
  /\ paused' = TRUE /\ ClearLoopTimer
  /\ Idle(p)
  /\ UNCHANGED <<running, cfg, rows, lanes, kicks, dispatchChecks, enr, unb, rec,
                 waiters, manager, views, history>>

\* No lane, or the cooldown is on: try again when a new timeout fires.
PassWaits(p) ==
  /\ Visited(p) /\ running /\ ~paused
  /\ CanStart(guard, cfg) \in {"concurrency_limit", "cooldown"}
  /\ SetLoopTimer
  /\ Idle(p)
  /\ UNCHANGED <<lifecycle, rows, lanes, kicks, dispatchChecks, enr, unb, rec,
                 waiters, manager, views, history>>

HasWork == \E t \in mapped : item[t].status \in
             {"recovered_pending_scan", "queued", "ready"} \cup LaneStatus

\* checkDrained
PassFindsNothing(p) ==
  /\ Visited(p) /\ running /\ ~paused
  /\ CanStart(guard, cfg) = "allowed" /\ Selectable = {}
  /\ running' = HasWork
  /\ disk' \in (IF HasWork THEN {disk} ELSE Compactions)
  /\ Idle(p)
  /\ UNCHANGED <<paused, cfg, clocks, mapped, item, lanes, kicks, dispatchChecks, enr,
                 unb, rec, waiters, manager, views, history>>

\* The pick is already being dispatched by another pass.
PassYields(p) ==
  /\ Visited(p) /\ running /\ ~paused
  /\ CanStart(guard, cfg) = "allowed"
  /\ SelectNextTask \cap dispatchChecks # {}
  /\ Idle(p)
  /\ UNCHANGED <<lifecycle, clocks, rows, lanes, kicks, dispatchChecks, enr, unb, rec,
                 waiters, manager, views, history>>

PassSelects(p, t) ==
  /\ Visited(p) /\ running /\ ~paused
  /\ CanStart(guard, cfg) = "allowed"
  /\ t \in SelectNextTask \ dispatchChecks
  /\ dispatchChecks' = dispatchChecks \cup {t}
  /\ pass' = [pass EXCEPT ![p] = [IdlePass EXCEPT !.pc = "resolve", !.task = t]]
  /\ UNCHANGED <<lifecycle, clocks, rows, lanes, kicks, enr, unb, rec, waiters,
                 manager, views, history>>

TimerFiresTracked ==                        \* mutant: this.loopTimer is not reset
  /\ timers > 0
  /\ timers' = timers - 1
  /\ kicks' = Kicked(running, paused)
  /\ UNCHANGED <<lifecycle, loopTimer, rows, lanes, threads, manager, views, history>>

\* A timeout fires, the tracked one or an overwritten one: both reset this.loopTimer.
TimerFires ==
  /\ timers > 0
  /\ timers' = timers - 1
  /\ loopTimer' = FALSE
  /\ kicks' = Kicked(running, paused)
  /\ UNCHANGED <<lifecycle, rows, lanes, threads, manager, views, history>>

CooldownEnds ==
  /\ guard.cooling
  /\ guard' = [guard EXCEPT !.cooling = FALSE]
  /\ UNCHANGED <<lifecycle, clocks, rows, polls, kicks, threads, manager, views, history>>

-----------------------------------------------------------------------------
(* dispatchTask: resolve the dependencies, scan the claimants, pass the      *)
(* decomposition fence, start the worker, release the fence.                 *)

EndDispatchMarked(p) ==                     \* mutant: no finally
  pass' = [pass EXCEPT ![p] = IdlePass] /\ UNCHANGED dispatchChecks

\* finally: the pass ends and the task may be picked again.
EndDispatch(p) ==
  /\ pass' = [pass EXCEPT ![p] = IdlePass]
  /\ dispatchChecks' = dispatchChecks \ {pass[p].task}

\* The recheck after every await: stop, pause, cancel and the like win.
DispatchCurrent(p) == running /\ ~paused /\ Ready(pass[p].task)

DispatchStale(p) ==
  /\ pass[p].pc \in {"resolve", "claim", "fence"} /\ ~DispatchCurrent(p)
  /\ EndDispatch(p)
  /\ UNCHANGED <<lifecycle, clocks, rows, lanes, kicks, enr, unb, rec, waiters,
                 manager, views, history>>

\* resolveCurrentDependencies: the database view alone, not the completed rows.
Resolve(p) ==
  /\ pass[p].pc = "resolve" /\ DispatchCurrent(p)
  /\ Unmet(pass[p].task, dbDone) = {}
  /\ pass' = [pass EXCEPT ![p] = [@ EXCEPT !.pc = "claim", !.view = dbDone]]
  /\ UNCHANGED <<lifecycle, clocks, rows, lanes, kicks, dispatchChecks, enr, unb, rec,
                 waiters, manager, views, history>>

\* A dependency is not done in that view: back to queued, nothing scheduled.
ResolveUnmet(p) ==
  /\ pass[p].pc = "resolve" /\ DispatchCurrent(p)
  /\ LET t == pass[p].task IN
     /\ Unmet(t, dbDone) # {}
     /\ item' = [item EXCEPT ![t] = [@ EXCEPT !.status = "queued",
                                              !.blockedBy = Unmet(t, dbDone)]]
  /\ EndDispatch(p)
  /\ UNCHANGED <<lifecycle, clocks, mapped, disk, lanes, kicks, enr, unb, rec, waiters,
                 manager, views, history>>

Claimants(p) == {pass[p].task} \cup Satisfiers(pass[p].task, pass[p].view)

Claim(p) ==
  /\ pass[p].pc = "claim" /\ DispatchCurrent(p)
  /\ Claimants(p) \cap contested = {}
  /\ item' = [item EXCEPT ![pass[p].task] = [@ EXCEPT !.dup = {}, !.blockedBy = {}]]
  /\ pass' = [pass EXCEPT ![p].pc = "fence"]
  /\ UNCHANGED <<lifecycle, clocks, mapped, disk, lanes, kicks, dispatchChecks, enr, unb,
                 rec, waiters, manager, views, history>>

ClaimContested(p) ==
  /\ pass[p].pc = "claim" /\ DispatchCurrent(p)
  /\ LET t == pass[p].task  bad == Claimants(p) \cap contested IN
     /\ bad # {}
     /\ item' = [item EXCEPT ![t] = [@ EXCEPT !.status = "blocked",
                                              !.blockedBy = bad \ {t}, !.dup = bad]]
  /\ EndDispatch(p)
  /\ UNCHANGED <<lifecycle, clocks, mapped, disk, lanes, kicks, enr, unb, rec, waiters,
                 manager, views, history>>

\* startDispatch inside the fence: the worker starts and the row takes its lane.
\* Unless "slow_scan" is a fault, a readiness scan of the same row that an earlier
\* pass has in flight is over by now.
FenceAdmits(p) ==
  /\ pass[p].pc = "fence" /\ DispatchCurrent(p)
  /\ \/ "slow_scan" \in Faults
     \/ \A q \in Slots : pass[q].pc = "scan" => pass[q].task # pass[p].task
  /\ LET t == pass[p].task IN
     /\ StartAllowed(t)
     /\ job' = [job EXCEPT ![t] = "running"]
     /\ SetStatus(t, "running")
     /\ started' = started \cup {t}
  /\ guard' = OnTaskStart(guard, cfg)
  /\ pass' = [pass EXCEPT ![p].pc = "release"]
  /\ UNCHANGED <<lifecycle, clocks, mapped, disk, polls, kicks, dispatchChecks, enr, unb,
                 rec, waiters, gate, views, retries, crashes>>

\* manager.start() throws: a dispatch error, and no pass is scheduled for it.
StartThrows(p) ==
  /\ pass[p].pc = "fence" /\ DispatchCurrent(p)
  /\ "start_throws" \in Faults \/ ~StartAllowed(pass[p].task)
  /\ HandleTaskFailure(pass[p].task)
  /\ EndDispatch(p)
  /\ UNCHANGED <<running, cfg, mapped, lanes, kicks, enr, unb, rec, waiters, manager,
                 views, history>>

\* The fence refuses because of a duplicate claimant.
FenceContested(p) ==
  /\ pass[p].pc = "fence" /\ DispatchCurrent(p)
  /\ pass[p].task \in contested
  /\ item' = [item EXCEPT ![pass[p].task] = [@ EXCEPT !.status = "blocked",
                                                      !.dup = {pass[p].task}]]
  /\ EndDispatch(p)
  /\ UNCHANGED <<lifecycle, clocks, mapped, disk, lanes, kicks, enr, unb, rec, waiters,
                 manager, views, history>>

\* An error before the start attempt defers the row; the log calls it ready.
DispatchDeferred(p) ==
  /\ pass[p].pc \in {"resolve", "claim", "fence"} /\ DispatchCurrent(p)
  /\ "fence" \in Faults
  /\ SetStatus(pass[p].task, "queued")
  /\ disk' = Logged(disk, pass[p].task, "ready")
  /\ IF loopTimer THEN UNCHANGED clocks ELSE SetLoopTimer
  /\ EndDispatch(p)
  /\ UNCHANGED <<lifecycle, mapped, lanes, kicks, enr, unb, rec, waiters, manager,
                 views, history>>

\* The fence finds the task decomposed into subtasks meanwhile.
FenceDecomposed(p) ==
  /\ pass[p].pc = "fence" /\ DispatchCurrent(p) /\ "fence" \in Faults
  /\ SetStatus(pass[p].task, "skipped")
  /\ disk' = Logged(disk, pass[p].task, "skipped")
  /\ kicks' = Kicked(running, paused)
  /\ EndDispatch(p)
  /\ UNCHANGED <<lifecycle, clocks, mapped, lanes, enr, unb, rec, waiters, manager,
                 views, history>>

ReleaseUnwatched(p) ==                      \* mutant: no startPollingTask
  /\ pass[p].pc = "release"
  /\ disk' = Logged(disk, pass[p].task, "running")
  /\ kicks' = Kicked(running, paused)
  /\ EndDispatch(p)
  /\ UNCHANGED <<lifecycle, clocks, mapped, item, lanes, enr, unb, rec, waiters, manager,
                 views, history>>

\* The fence is released: if the row still runs under a running queue, the start
\* is logged and watched; otherwise neither happens.
Release(p) ==
  /\ pass[p].pc = "release"
  /\ LET t == pass[p].task IN
     IF running /\ ~paused /\ t \in mapped /\ item[t].status = "running"
     THEN /\ disk' = Logged(disk, t, "running")
          /\ polls' = polls \cup {t}
          /\ kicks' = Kicked(running, paused)
     ELSE UNCHANGED <<disk, polls, kicks>>
  /\ EndDispatch(p)
  /\ UNCHANGED <<lifecycle, clocks, mapped, item, guard, enr, unb, rec, waiters, manager,
                 views, history>>

-----------------------------------------------------------------------------
(* checkTaskCompletion, one tick of t's poll timer that finds something.     *)

Watched(t) == t \in polls /\ t \in Lanes

PollAwaitingForgets(t) ==                   \* mutant: the timer goes with the worker
  /\ Watched(t) /\ job[t] = "awaiting" /\ item[t].status = "running"
  /\ SetStatus(t, "awaiting_approval")
  /\ disk' = Logged(disk, t, "awaiting_approval")
  /\ polls' = polls \ {t}
  /\ UNCHANGED <<lifecycle, clocks, mapped, guard, kicks, threads, manager, views, history>>

PollAwaiting(t) ==
  /\ Watched(t) /\ job[t] = "awaiting" /\ item[t].status = "running"
  /\ SetStatus(t, "awaiting_approval")
  /\ disk' = Logged(disk, t, "awaiting_approval")
  /\ UNCHANGED <<lifecycle, clocks, mapped, lanes, kicks, threads, manager, views, history>>

PollResumed(t) ==
  /\ Watched(t) /\ job[t] = "running" /\ item[t].status = "awaiting_approval"
  /\ item' = [item EXCEPT ![t] = Resumed(@, "running")]
  /\ disk' = [disk EXCEPT ![t] = IF @.status = Absent THEN @ ELSE Resumed(@, "running")]
  /\ UNCHANGED <<lifecycle, clocks, mapped, lanes, kicks, threads, manager, views, history>>

\* The lane is given back with the cost of the run.
PollEnds(t) ==
  /\ Watched(t)
  /\ polls' = polls \ {t}
  /\ \E tips \in Tips : guard' = OnTaskComplete(guard, 1, tips)

\* The newest session says approved: completed, then the dependents are looked at.
PollApproved(t) ==
  /\ job[t] = "ok" /\ unb[t].pc = "idle" /\ PollEnds(t)
  /\ SetStatus(t, "completed")
  /\ disk' = Logged(disk, t, "completed")
  /\ unb' = [unb EXCEPT ![t] = [NoUnblocking EXCEPT !.pc = "scan", !.kick = TRUE]]
  /\ UNCHANGED <<lifecycle, clocks, mapped, kicks, pass, dispatchChecks, enr, rec, waiters,
                 manager, views, history>>

PollSpecChanged(t) ==
  /\ job[t] = "changed" /\ PollEnds(t)
  /\ SetStatus(t, "blocked")
  /\ disk' = Logged(disk, t, "blocked")
  /\ kicks' = Kicked(running, paused)
  /\ UNCHANGED <<lifecycle, clocks, mapped, threads, manager, views, history>>

\* Any other end, an operator stop whose cleanup is still pending included.
PollFailed(t) ==
  /\ job[t] \in {"bad", "stopped"} \cup CleanupPending /\ PollEnds(t)
  /\ HandleTaskFailure(t)
  /\ kicks' = Kicked(running, paused')
  /\ UNCHANGED <<running, cfg, mapped, threads, manager, views, history>>

-----------------------------------------------------------------------------
(* unblockDependents(c).                                                   *)

\* The rows that list c: those it may unblock, or put under quarantine.
Waiting(c) == {t \in mapped : /\ item[t].status = "queued" \/ item[t].dup # {}
                              /\ c \in item[t].blockedBy}

EndUnblockSilently(c) ==                    \* mutant: no scheduleNext afterwards
  unb' = [unb EXCEPT ![c] = NoUnblocking] /\ UNCHANGED kicks

EndUnblock(c) ==
  /\ unb' = [unb EXCEPT ![c] = NoUnblocking]
  /\ kicks' = IF unb[c].kick THEN Kicked(running, paused) ELSE kicks

\* The claimant scan of c itself: a contested c quarantines its dependents.
UnblockScanned(c) ==
  /\ unb[c].pc = "scan"
  /\ unb' = [unb EXCEPT ![c] = [@ EXCEPT !.pc = "loop", !.quar = c \in contested]]
  /\ UNCHANGED <<lifecycle, clocks, rows, lanes, kicks, pass, dispatchChecks, enr, rec,
                 waiters, manager, views, history>>

\* The rest of one visit, after the quarantine of t was rescanned; left is what
\* stays contested.
Unblocked(row, left) ==
  LET q == [row EXCEPT !.dup = left,
              !.status = IF left = {} /\ @ = "blocked" THEN "queued" ELSE @]
  IN  IF left = {} /\ q.blockedBy = {} THEN [q EXCEPT !.status = "ready"] ELSE q

ApplyUnblock(c, t, row, left) ==
  LET d == [disk EXCEPT ![t].blockedBy = @ \ {c}]
  IN  /\ item' = [item EXCEPT ![t] = Unblocked(row, left)]
      /\ disk' = IF left = {} /\ row.blockedBy = {} THEN Logged(d, t, "ready") ELSE d

\* Visit one row: c leaves its blockedBy, unless c is contested.  If there are
\* claimants to check, their scan is awaited.
UnblockVisit(c, t) ==
  /\ unb[c].pc = "loop" /\ t \in Waiting(c) \ unb[c].seen
  /\ LET ids == IF unb[c].quar THEN item[t].dup \cup {c} ELSE item[t].dup \ {c} IN
     IF ids = {}
     THEN /\ ApplyUnblock(c, t, [item[t] EXCEPT !.blockedBy = @ \ {c}], {})
          /\ unb' = [unb EXCEPT ![c].seen = @ \cup {t}]
     ELSE /\ item' = [item EXCEPT ![t].blockedBy = IF unb[c].quar THEN @ ELSE @ \ {c}]
          /\ \E skip \in SUBSET (mapped \ Waiting(c)) :
               unb' = [unb EXCEPT ![c] = [@ EXCEPT !.pc = "refresh", !.cur = t,
                                             !.ids = ids, !.seen = unb[c].seen \cup {t} \cup skip]]
          /\ UNCHANGED disk
  /\ UNCHANGED <<lifecycle, clocks, mapped, lanes, kicks, pass, dispatchChecks, enr, rec,
                 waiters, manager, views, history>>

\* refreshDuplicateQuarantine has its scan.
UnblockRefreshed(c) ==
  /\ unb[c].pc = "refresh"
  /\ LET t == unb[c].cur  left == unb[c].ids \cap contested IN
     IF unb[c].quar
     THEN item' = [item EXCEPT ![t].dup = left] /\ UNCHANGED disk
     ELSE ApplyUnblock(c, t, item[t], left)
  /\ unb' = [unb EXCEPT ![c] = [@ EXCEPT !.pc = "loop", !.cur = NoTask, !.ids = {}]]
  /\ UNCHANGED <<lifecycle, clocks, mapped, lanes, kicks, pass, dispatchChecks, enr, rec,
                 waiters, manager, views, history>>

UnblockDone(c) ==
  /\ unb[c].pc = "loop" /\ Waiting(c) \subseteq unb[c].seen
  /\ EndUnblock(c)
  /\ UNCHANGED <<lifecycle, clocks, rows, lanes, pass, dispatchChecks, enr, rec, waiters,
                 manager, views, history>>

\* notifyExternalCompletion(c): a ledger writer finished c outside the queue.
ExternalCompletion(c) ==
  /\ c \in External /\ c \notin approved /\ unb[c].pc = "idle"
  /\ approved' = approved \cup {c}
  /\ specDone' = specDone \cup (IF "lag" \in Faults THEN {} ELSE {c})
  /\ dbDone' = dbDone \cup {c}
  /\ unb' = [unb EXCEPT ![c] = [NoUnblocking EXCEPT !.pc = "scan"]]
  /\ UNCHANGED <<lifecycle, clocks, rows, lanes, kicks, pass, dispatchChecks, enr, rec,
                 waiters, contested, manager, history>>

-----------------------------------------------------------------------------
(* Enrichment: read the spec's priority and dependencies (without the        *)
(* database), then scan the claimants of the satisfied ones.                 *)

\* What follows an enrichment: the recovery scan goes on to its next row, any
\* other enrichment schedules a pass.
AfterEnrichment(t) ==
  IF t = rec.cur
  THEN /\ rec' = [rec EXCEPT !.cur = NoTask, !.todo = @ \ {t}]
       /\ UNCHANGED kicks
  ELSE kicks' = Kicked(running, paused) /\ UNCHANGED rec

\* enrichQueueItem from the claimant scan on: the row it leaves, and the rest.
Enriched(t, view) ==
  LET bad   == Satisfiers(t, view) \cap contested
      unmet == Unmet(t, view) \cup bad
      ready == unmet = {} /\ item[t].status = "queued"
  IN  [item[t] EXCEPT !.prio = Priority[t], !.blockedBy = unmet, !.dup = bad,
                      !.status = IF ready THEN "ready" ELSE item[t].status]

Enrich(t, view) ==
  /\ item' = [item EXCEPT ![t] = Enriched(t, view)]
  /\ disk' = IF item[t].status = "queued" /\ Enriched(t, view).status = "ready"
             THEN Logged(disk, t, "ready") ELSE disk
  /\ enr' = [enr EXCEPT ![t] = NoEnrichment]
  /\ AfterEnrichment(t)

EnrichListed(t) ==
  /\ enr[t].pc = "list"
  /\ IF Satisfiers(t, specDone) = {}
     THEN Enrich(t, specDone)
     ELSE /\ enr' = [enr EXCEPT ![t] = [pc |-> "scan", view |-> specDone]]
          /\ item' = [item EXCEPT ![t].prio = Priority[t]]
          /\ UNCHANGED <<disk, kicks, rec>>
  /\ UNCHANGED <<lifecycle, clocks, mapped, lanes, pass, dispatchChecks, unb, waiters,
                 manager, views, history>>

EnrichScanned(t) ==
  /\ enr[t].pc = "scan"
  /\ Enrich(t, enr[t].view)
  /\ UNCHANGED <<lifecycle, clocks, mapped, lanes, pass, dispatchChecks, unb, waiters,
                 manager, views, history>>

\* Reading the spec fails: an enqueued row is blocked; the recovery scan rejects,
\* leaving its row queued and the rows after it unscanned.
EnrichFails(t) ==
  /\ "enrich" \in Faults /\ Pending(t)
  /\ enr' = [enr EXCEPT ![t] = NoEnrichment]
  /\ IF t = rec.cur
     THEN /\ rec' = NoRecovery /\ waiters' = {}
          /\ UNCHANGED <<item, kicks>>
     ELSE /\ SetStatus(t, "blocked")
          /\ kicks' = Kicked(running, paused)
          /\ UNCHANGED <<rec, waiters>>
  /\ UNCHANGED <<lifecycle, clocks, mapped, disk, lanes, pass, dispatchChecks, unb,
                 manager, views, history>>

-----------------------------------------------------------------------------
(* scanRecoveredRows.                                                      *)

\* The task directory cannot be read: the rows stay as they are, the callers of
\* start() and resume() return.
RecoveryUnavailable ==
  /\ "directory" \in Faults /\ rec.pc = "stat"
  /\ rec' = NoRecovery /\ waiters' = {}
  /\ UNCHANGED <<lifecycle, clocks, rows, lanes, kicks, pass, dispatchChecks, enr, unb,
                 manager, views, history>>

RecoveryListed ==
  /\ rec.pc = "stat"
  /\ rec' = [rec EXCEPT !.pc = "claims", !.todo =
               {t \in mapped : item[t].status = "recovered_pending_scan"}]
  /\ UNCHANGED <<lifecycle, clocks, rows, lanes, kicks, pass, dispatchChecks, enr, unb,
                 waiters, manager, views, history>>

RecoveryScanned ==
  /\ rec.pc = "claims"
  /\ rec' = [rec EXCEPT !.pc = "rows", !.bad = rec.todo \cap contested]
  /\ UNCHANGED <<lifecycle, clocks, rows, lanes, kicks, pass, dispatchChecks, enr, unb,
                 waiters, manager, views, history>>

\* The next row: blocked when contested, otherwise queued and enriched.  Its
\* status is not read again.
RecoverRow(t) ==
  /\ rec.pc = "rows" /\ rec.cur = NoTask /\ t \in rec.todo
  /\ IF t \in rec.bad
     THEN /\ item' = [item EXCEPT ![t] = [@ EXCEPT !.status = "blocked", !.dup = {t}]]
          /\ rec' = [rec EXCEPT !.todo = @ \ {t}]
          /\ UNCHANGED enr
     ELSE /\ item' = [item EXCEPT ![t] = [@ EXCEPT !.status = "queued", !.dup = {}]]
          /\ enr' = [enr EXCEPT ![t] = [NoEnrichment EXCEPT !.pc = "list"]]
          /\ rec' = [rec EXCEPT !.cur = t]
  /\ UNCHANGED <<lifecycle, clocks, mapped, disk, lanes, kicks, pass, dispatchChecks, unb,
                 waiters, manager, views, history>>

RecoveryDone ==
  /\ rec.pc = "rows" /\ rec.cur = NoTask /\ rec.todo = {}
  /\ rec' = NoRecovery
  /\ UNCHANGED <<lifecycle, clocks, rows, lanes, kicks, pass, dispatchChecks, enr, unb,
                 waiters, manager, views, history>>

\* A start() that waited for the scan goes on.
StartContinues ==
  /\ "start" \in waiters /\ rec.pc = "idle"
  /\ waiters' = waiters \ {"start"}
  /\ StartBody(mapped = {})
  /\ disk' \in (IF mapped = {} /\ ~running THEN Compactions ELSE {disk})
  /\ UNCHANGED <<cfg, clocks, mapped, item, lanes, pass, dispatchChecks, enr, unb, rec,
                 manager, views, history>>

ResumeContinues ==
  /\ "resume" \in waiters /\ rec.pc = "idle"
  /\ waiters' = waiters \ {"resume"}
  /\ ResumeBody
  /\ UNCHANGED <<running, cfg, clocks, rows, lanes, pass, dispatchChecks, enr, unb, rec,
                 manager, views, history>>

-----------------------------------------------------------------------------
(* The environment.                                                        *)

\* A worker ends.
RunEnds(t, o) ==
  /\ job[t] = "running" /\ o \in Outcomes
  /\ job' = [job EXCEPT ![t] = o]
  /\ gate' = IF o = "awaiting" THEN gate \cup {t} ELSE gate
  /\ approved' = IF o = "ok" THEN approved \cup {t} ELSE approved
  /\ IF o = "ok" /\ "lag" \notin Faults
     THEN specDone' = specDone \cup {t} /\ dbDone' = dbDone \cup {t}
     ELSE UNCHANGED <<specDone, dbDone>>
  /\ UNCHANGED <<lifecycle, clocks, rows, lanes, kicks, threads, contested, history>>

\* The dashboard starts t past the queue, overriding a paused run if there is one.
StartOutside(t) ==
  /\ "outside" \in Ops /\ job[t] \notin {"running"} \cup CleanupPending
  /\ job' = [job EXCEPT ![t] = "running"]
  /\ gate' = gate \ {t}
  /\ UNCHANGED <<lifecycle, clocks, rows, lanes, kicks, threads, views, history>>

\* The cleanup after an operator stop is proven complete.
StopCleanedUp(t) ==
  /\ job[t] \in CleanupPending
  /\ job' = [job EXCEPT ![t] = "stopped"]
  /\ UNCHANGED <<lifecycle, clocks, rows, lanes, kicks, threads, gate, views, history>>

\* An approval reaches the session view or the database view.
Publish(t) ==
  /\ t \in approved
  /\ \/ t \notin specDone /\ specDone' = specDone \cup {t} /\ UNCHANGED dbDone
     \/ t \notin dbDone /\ dbDone' = dbDone \cup {t} /\ UNCHANGED specDone
  /\ UNCHANGED <<lifecycle, clocks, rows, lanes, kicks, threads, contested, approved,
                 manager, history>>

\* A second spec file for t appears, or is cleaned up.
ContestChanges(t) ==
  /\ t \in Contestable
  /\ contested' = IF t \in contested THEN contested \ {t} ELSE contested \cup {t}
  /\ UNCHANGED <<lifecycle, clocks, rows, lanes, kicks, threads, approved, specDone,
                 dbDone, manager, history>>

\* The guard after recovery: onTaskStart() for every row that awaits approval.
RecoveredGuardEmpty(held) ==                \* mutant: recovered lanes not counted
  [runningCount |-> 0, cooling |-> FALSE, exhausted |-> FALSE]
RecoveredGuard(held) ==
  [runningCount |-> Cardinality(held),
   cooling |-> InitialConfig.cooldown /\ held # {}, exhausted |-> FALSE]

\* The monitor dies and is constructed again: replay(), then recoverState().
\* Workers die with it; gate records and the log survive.
Crash ==
  /\ crashes < MaxCrashes
  /\ crashes' = crashes + 1
  /\ LET known == {t \in Tasks : disk[t].status # Absent}
         held  == {t \in known : disk[t].status = "awaiting_approval"}
     IN  /\ mapped' = known
         /\ item' = [t \in Tasks |-> IF t \in known THEN Recovered(disk[t]) ELSE NewItem]
         /\ guard' = RecoveredGuard(held)
         /\ polls' = held
         /\ rec' = IF known = {} THEN NoRecovery ELSE [NoRecovery EXCEPT !.pc = "stat"]
  /\ running' = FALSE /\ paused' = FALSE /\ cfg' = InitialConfig
  /\ loopTimer' = FALSE /\ timers' = 0 /\ kicks' = 0
  /\ pass' = [p \in Slots |-> IdlePass] /\ dispatchChecks' = {}
  /\ enr' = [t \in Tasks |-> NoEnrichment] /\ unb' = [t \in Tasks |-> NoUnblocking]
  /\ waiters' = {}
  /\ job' = [t \in Tasks |-> "none"]
  /\ UNCHANGED <<disk, gate, views, started, retries>>

-----------------------------------------------------------------------------
Init ==
  /\ mapped = {} /\ item = [t \in Tasks |-> NewItem]
  /\ running = FALSE /\ paused = FALSE /\ cfg = InitialConfig
  /\ loopTimer = FALSE /\ timers = 0 /\ kicks = 0
  /\ polls = {} /\ guard = [runningCount |-> 0, cooling |-> FALSE, exhausted |-> FALSE]
  /\ pass = [p \in Slots |-> IdlePass] /\ dispatchChecks = {}
  /\ enr = [t \in Tasks |-> NoEnrichment] /\ unb = [t \in Tasks |-> NoUnblocking]
  /\ rec = NoRecovery /\ waiters = {}
  /\ job = [t \in Tasks |-> "none"] /\ gate = {}
  /\ contested = {} /\ approved = {} /\ specDone = {} /\ dbDone = {}
  /\ disk = [t \in Tasks |-> NoRow]
  /\ started = {}
  /\ retries = 0 /\ crashes = 0

Operator ==
  \/ Start \/ Pause \/ Resume \/ Stop \/ Abort \/ UpdateConfig
  \/ \E t \in Tasks : Enqueue(t) \/ Cancel(t) \/ CancelUnconfirmed(t) \/ Retry(t)
                      \/ Remove(t) \/ Approve(t) \/ ApproveStartThrows(t) \/ Reject(t)
                      \/ ExternalCompletion(t) \/ StartOutside(t)

PassStep(p) ==
  \/ ListDone(p) \/ VisitScanned(p) \/ PassStale(p) \/ PassBudgetExhausted(p)
  \/ PassWaits(p) \/ PassFindsNothing(p) \/ PassYields(p)
  \/ \E t \in Tasks : Visit(p, t) \/ PassSelects(p, t)

DispatchStep(p) ==
  \/ DispatchStale(p) \/ Resolve(p) \/ ResolveUnmet(p) \/ Claim(p) \/ ClaimContested(p)
  \/ FenceAdmits(p) \/ StartThrows(p) \/ FenceContested(p) \/ DispatchDeferred(p)
  \/ FenceDecomposed(p) \/ Release(p)

Poll(t) ==
  PollAwaiting(t) \/ PollResumed(t) \/ PollApproved(t) \/ PollSpecChanged(t) \/ PollFailed(t)

UnblockStep(c) ==
  \/ UnblockScanned(c) \/ UnblockRefreshed(c) \/ UnblockDone(c)
  \/ \E t \in Tasks : UnblockVisit(c, t)

EnrichStep(t) == EnrichListed(t) \/ EnrichScanned(t) \/ EnrichFails(t)

RecoveryStep ==
  \/ RecoveryUnavailable \/ RecoveryListed \/ RecoveryScanned \/ RecoveryDone
  \/ StartContinues \/ ResumeContinues
  \/ \E t \in Tasks : RecoverRow(t)

Environment ==
  \/ TimerFires \/ CooldownEnds \/ Crash
  \/ \E t \in Tasks : StopCleanedUp(t) \/ Publish(t) \/ ContestChanges(t)
                      \/ \E o \in Outcomes : RunEnds(t, o)

Next ==
  \/ Operator \/ RecoveryStep \/ Environment
  \/ \E p \in Slots : PassStep(p) \/ DispatchStep(p)
  \/ \E t \in Tasks : Poll(t) \/ UnblockStep(t) \/ EnrichStep(t)

Spec == Init /\ [][Next]_vars

\* Awaited I/O completes, timers fire, the polls tick and the workers end.  The
\* operator, the faults and the task views owe nothing.
Fairness ==
  /\ \A p \in Slots : WF_vars(PassStep(p)) /\ WF_vars(DispatchStep(p))
  /\ \A t \in Tasks : /\ WF_vars(Poll(t)) /\ WF_vars(UnblockStep(t))
                      /\ WF_vars(EnrichStep(t)) /\ WF_vars(\E o \in Outcomes : RunEnds(t, o))
  /\ WF_vars(RecoveryStep) /\ WF_vars(TimerFires) /\ WF_vars(CooldownEnds)
FairSpec == Spec /\ Fairness

-----------------------------------------------------------------------------
TypeOK ==
  /\ mapped \subseteq Tasks /\ item \in [Tasks -> Item] /\ disk \in [Tasks -> DiskRow]
  /\ running \in BOOLEAN /\ paused \in BOOLEAN /\ cfg \in Configs
  /\ loopTimer \in BOOLEAN /\ timers \in 0..MaxTimers /\ (loopTimer => timers > 0)
  /\ polls \subseteq Tasks /\ guard \in Guard /\ dispatchChecks \subseteq Tasks
  /\ kicks \in 0..MaxKicks /\ pass \in [Slots -> Pass] /\ enr \in [Tasks -> Enrichment]
  /\ unb \in [Tasks -> Unblocking] /\ rec \in Recovery /\ waiters \subseteq {"start", "resume"}
  /\ job \in [Tasks -> JobState] /\ gate \subseteq Tasks /\ contested \subseteq Tasks
  /\ approved \subseteq Tasks /\ specDone \subseteq Tasks /\ dbDone \subseteq Tasks
  /\ started \subseteq Tasks
  /\ retries \in 0..MaxRetries /\ crashes \in 0..MaxCrashes
  /\ \A p \in Slots : pass[p].task = NoTask => pass[p].pc \in {"idle", "visit"}
  /\ \A c \in Tasks : unb[c].cur = NoTask => unb[c].pc # "refresh"

\* The guard never counts fewer lanes than the queue holds: a row that is running
\* or awaits approval always has its slot in ConcurrencyGuard.runningCount, so
\* canStart() cannot admit work into an occupied lane it has forgotten.
GuardNeverUndercounts == guard.runningCount >= Cardinality(Lanes)

\* No worker is ever started before the work its dependencies name is really
\* done, whatever stale view, scan or notification made the row ready.
StartedDepsMet == \A t \in started : \A d \in Deps[t] : Resolved(d, approved)

\* A row is made ready only when its dependencies really are done: readiness,
\* enrichment and unblocking, which work on different views and on a blockedBy
\* list that others edit, never lose an open dependency.
ReadyDepsMet ==
  \A t \in mapped : Ready(t) => \A d \in Deps[t] : Resolved(d, approved)

\* Every row the queue holds is in the log, and an outcome or a human gate that
\* the queue reports is what a restart would replay.
OutcomesDurable ==
  \A t \in mapped :
    /\ disk[t].status # Absent
    /\ item[t].status \in {"completed", "failed", "skipped", "stopped", "awaiting_approval"}
         => disk[t].status = item[t].status

\* dispatchChecks: two passes never dispatch the same task at the same time, and
\* a task is never left marked once its dispatch has ended.
DispatchMutex ==
  /\ \A p, q \in Slots :
       p # q /\ pass[p].pc \in Dispatching /\ pass[q].pc \in Dispatching
         => pass[p].task # pass[q].task
  /\ dispatchChecks = {pass[p].task : p \in {q \in Slots : pass[q].pc \in Dispatching}}

\* Every held lane is watched: the row has a poll timer, or the dispatch that
\* will set it has not yet released the admission fence.
LaneWatched ==
  \A t \in Lanes :
    t \in polls \/ \E p \in Slots : pass[p].pc = "release" /\ pass[p].task = t

\* A completed row stays completed, across passes, scans, notifications and
\* restarts, until the operator cancels or removes it.
CompletedIsFinal ==
  [][\A t \in mapped \cap mapped' :
       item[t].status = "completed" /\ ~Cancel(t)
         => item'[t].status = "completed"]_vars

Settled(t) == item[t].status \in {"completed", "failed", "blocked", "skipped", "stopped"}

\* A dependency of t was given up, or is not in the queue at all.
Hopeless(t) == \E d \in Deps[t] : d \notin approved /\ (d \notin mapped \/ Settled(d))

\* Nothing is under way that could schedule another pass.
Quiet ==
  /\ kicks = 0 /\ timers = 0 /\ polls = {} /\ waiters = {} /\ rec.pc = "idle"
  /\ \A p \in Slots : pass[p].pc = "idle"
  /\ \A t \in Tasks : enr[t].pc = "idle" /\ unb[t].pc = "idle"

\* dispatchTask put t back: queued, although the last the log says is "ready", for a
\* dependency whose own row is completed.
PutBack(t) ==
  /\ item[t].status = "queued" /\ disk[t].status = "ready"
  /\ item[t].blockedBy \cap DoneInQueue # {}

\* A running queue settles every row whose dependencies can still be met, whatever
\* order enrichments, polls, unblockings, timeouts and the task views take: each
\* end of a lane, and each readiness it causes, is followed by a pass that sees it.
\* The one row it may leave behind is a row that dispatchTask put back because the
\* database listing did not show yet what the queue had already seen completed: no
\* pass is scheduled for that row, so it stays once nothing else is under way, even
\* after the listing has caught up.
EventuallySettles ==
  \A t \in Tasks :
    (t \in mapped /\ running) ~> (Settled(t) \/ Hopeless(t) \/ (PutBack(t) /\ Quiet))

=============================================================================
