# A verification project for Quack Harness

Quack Harness dispatches coding tasks to worker agents: a monitor process keeps a
queue of task specs, starts one worker per task when its dependencies are done, stops
at human gates, judges the outcome, and shares work with other hosts. This directory
holds TLA+ modules that model its core, TLC configurations that check them on small
instances, and TLAPS proofs that hold for every instance.

Paths below are relative to the repository (`src/queue/...` is the TypeScript source).

## 1. Inventory

| Part | State it keeps | Operations | Talks to | What is hard |
|---|---|---|---|---|
| Dispatch queue (`src/queue/dispatch-queue.ts`) | rows, lifecycle flags, loop timers, poll timers, tasks being dispatched | enqueue, start, pause, resume, stop, abort, cancel, retry, remove, configuration, gate decisions, passes, polls | guard, propagator, log, manager, task views, claimant scan, admission fence | every `await` interleaves; rows are written from six continuations; restarts |
| Concurrency guard (`concurrency-guard.ts`) | lane count, last start, money spent | canStart, onTaskStart, onTaskComplete | queue | checked long before it is updated |
| Failure propagator (`failure-propagator.ts`) | none | findAllDependents, propagateFailure | queue | transitive reach |
| Queue persistence (`queue-persistence.ts`) | log, snapshot | append, replay, compact | queue | crash between the steps of a compaction |
| Dispatch manager (`src/monitor/dispatch-manager.ts`) | jobs, processes, stop barriers, decision reservations, worktrees, containers | start, stop, exit handlers, resolveApprovalPauseDecision, recovery | queue, routes, dispatcher, disk | stops that cannot be confirmed; durable pauses |
| Queue and gate routes (`server.ts`, `routes/queue.ts`) | none | approve, reject, verification results, queue commands | queue, manager | a decision races the poll |
| Task views (`task-service.ts`, `event-reader.ts`, `verification-store.ts`) | sessions, ledger, database projection | listTasks, recordVerification | queue, routes | two views that lag differently |
| Federated jobs (`src/monitor/federation/`, `scripts/quack-listener.mjs`) | job records, leases, pauses and grants on the head node; executions and resume state on each host | assign, report, renew, expire, pause, release, decide, resume, cancel, retry | head node, listener daemons, routes | late, lost and repeated requests; expired leases; a daemon that restarts in the middle of a handshake |
| Owner-fenced lock (`federation/store.ts`) | lock file, owner files, release and reclaim markers, quarantines | acquire, fence, release, reclaim, complete, restore, retire | ledger, verification store, preflight jobs, queue admission | many processes, every check is old when its rename happens, owners die |
| Decomposition (`src/preflight/`) | transaction journal, spec files, temporaries and backups, Git index and branch, status outbox | finalize, recover, fence an admission, project the status | queue fence, task specs, Git | crash or failing call at any file write; other commits |
| Task creation (`src/core/task-creation-reservation.ts`) | reservation files | reserve, release, take over | all writers of specs | concurrent processes, dead owners |
| Judgment (`src/judgment/`) | none | reduceJudgment | dispatcher | precedence of verdicts |
| Workflow (`src/workflow/`, `src/workflows/`) | task workflow state | validated transitions, verify and fix loops | routes | illegal sequences |
| Dispatcher (`src/dispatcher/`) | checkpoint, blueprint and diff approval records, branch, the run's memory | gate, blueprint, approvals, branch, worker, seal, judge, verify, retry, publish | manager, approval routes, Git, Docker | a run is killed between two writes and resumed; the spec is edited while a decision is pending |
| Preparation (`prep-scheduler.ts`, `preflight-job-store.ts`) | prep queue, job records | reserve, update, recover, reconcile | preflight | owner death |

The remaining parts (command line, dashboard, language-model access, templates,
analytics, storage) are I/O and formatting; `PROJECT.json` lists them with the reason
they are not modelled.

What makes each part correct, in the order of the plan: the **queue** starts no worker
before its dependencies are really done, never forgets a lane it has given out, never
dispatches one task twice at a time, watches every lane, keeps every outcome across a
restart and settles every row that can be settled; the **log** replays to the rows it
was written for; a **federated job** has one worker at a time, is resumed once per
decision and stays ended; the **lock** tells one of two callbacks that overlapped that it was not
alone, unless its fence missed a control file; a **decomposition** is applied whole or not at all; the
**dispatcher** publishes only what it has judged and verified, and never drops a decision
a human may still give; a **task id** is given out once; a **judgment** never approves over a blocking
finding; a **workflow** makes only declared transitions.

## 2. Modules

| Module | What it holds |
|---|---|
| `QueueRules` | state-free rules: dependency resolution, failure propagation, the guard, the log lines |
| `DispatchQueue` | the queue's state and its 62 actions, the environment, the specification, the properties |
| `MCDispatchQueue` | task graphs and configurations for TLC |
| `DispatchQueueType` | proof that the specification is type correct |
| `DispatchQueueGuard` | proofs that the guard never counts fewer lanes than are held, and that a held lane is polled |
| `DispatchQueueSafety` | proofs that tasks become ready and start in dependency order, are dispatched once at a time, outcomes last, and completed rows stay completed |
| `FencedFileLock` | the owner-fenced file lock: each write, and each listing of control files, a step of its own |
| `FencedFileLockProof` | proofs that it is typed, that overlapping callbacks are both reported only past a missed control file, and that only a scavenger leaves a release marker that cannot be retired |
| `FederatedJob` | one federated dispatch job: head node, listener daemons, resume state on disk |
| `FederatedJobProof` | proofs that it is typed, resumes a pause once and records the run that started, and that a job has one process at a time and stays ended |
| `DecompositionJournal` | the decomposition transaction: finalizer, recovery, admission |
| `AtomicPublication` | what a decomposition promises its readers; `DecompositionJournal` implements it |
| `DispatchPipeline` | the runs of one task over its checkpoint, approval records and branch |
| `DecompositionJournalProof` | proofs that it is typed, reports, admits and refuses as it should, and implements `AtomicPublication` |
| `DispatchPipelineProof` | proofs that a run publishes what its judge approved last, or the work of a cut-off seal, and that pends are kept and briefs bound |
| `TaskReservation` | the reservation of a task directory between processes |
| `TaskReservationProof` | proofs that a holder has its record, one caller writes, and nothing is left behind |
| `MCFencedFileLock`, `MCFederatedJob`, `MCDecompositionJournal`, `MCDispatchPipeline`, `MCTaskReservation` | instances for TLC |

### How DispatchQueue corresponds to the code

The queue runs on one JavaScript thread. An action is the code between two awaits of
I/O; at every such await any other action may run. (An `await` that has nothing to scan
continues in the same turn and is not an interleaving point.)

| Variables | Code |
|---|---|
| `mapped`, `item` | the keys of `this.items` and the item objects; a continuation may hold an object that was removed from the map |
| `running`, `paused`, `cfg`, `loopTimer`, `polls`, `dispatchChecks`, `guard` | the fields of the same name |
| `timers` | pending loop timeouts, also those `loopTimer` no longer refers to |
| `kicks`, `pass` | scheduling passes: waiting for their listing, and past it |
| `enr`, `unb`, `rec`, `waiters` | the other continuations: enrichments, `unblockDependents` loops, the recovery scan, callers waiting for it |
| `disk` | what `replay()` would rebuild for each row |
| `job`, `gate` | the manager's jobs and the pending gate records on disk |
| `approved`, `specDone`, `dbDone`, `contested` | the truth, the two task views, and the ids claimed by more than one spec file |
| `started` | history, for the properties |

The life of a row: `Enqueue` creates it and starts its enrichment (`EnrichListed`,
`EnrichScanned`, `EnrichFails`). A pass lists the tasks (`ListDone`), visits the rows
(`Visit`, `VisitScanned`), reads the guard and selects (`PassSelects` and the five other
ends of a pass), resolves and scans again (`Resolve`, `Claim` and their refusals), and
enters the admission fence (`FenceAdmits`, `StartThrows`, `FenceContested`,
`DispatchDeferred`, `FenceDecomposed`), after which `Release` sets the poll timer. Polls
(`PollAwaiting`, `PollResumed`, `PollApproved`, `PollSpecChanged`, `PollFailed`) end the
lane; an approval is followed by `UnblockScanned`, `UnblockVisit`, `UnblockRefreshed`,
`UnblockDone`. `Crash` stands for a restart: `replay()`, `recoverState()`, then the
recovery scan.

What is abstracted: names, messages, times and reasons; money (`exhausted` says that the
budget is used up, and a charged cost may make it so); the order of the `Map`, which is
left open; equal priorities, whose order by enqueue time is left open. Assumptions: state
persistence is on; every task has a spec file; the approve and reject routes are steps,
because the manager's reservation excludes starts, stops and other decisions while one is
written; both completion views only grow and show only work that is really done; workers
die with the monitor, and an operator-stop barrier that survives it is seen only as a
start that may throw; an id that was removed is enqueued again once no continuation holds
its old object.

### How FencedFileLock corresponds to the code

A process owns the lock while its owner file is hard-linked to the lock path. A file is
the token of the acquisition that wrote it, and a hard link is the same token, so `lock`,
`quarantine[m]` and `occupant[m]` say which file is linked where. `markers` are the
release and reclaim records; any process that meets one completes it. `retired` are the
owner files renamed aside on their way out. `Begin` to `LinkLock` are
`withOwnerFencedFileLock`'s loop: `reconcileControlRequests` reads four listings and goes
through each (`Begin`, `List`, `VisitMarker`, `VisitQuarantine`, `ReconcileDone`),
`scavengeInertCrashArtifacts` lists owner files, asks once for control files and unlinks
what it takes for dead (`Scavenge`, `Look`, `Sweep`, `UnlinkInert`), and
`tryAcquireFederatedJobLock` writes and links (`WriteOwner`, `LinkLock`). `Fence` is
`hasControlRequests` before the callback, one listing per step. `Section`, `AssertOwner`
and `PublishRelease` are the callback, the ownership check and the release; `Complete` to
`UnlinkMarker` are `completeReleaseArtifact`, `completeReclaimRequest`,
`restoreDisplacedQuarantine`, `clearCanonicalForQuarantineRestore` and the two retire
functions (`Retire`, `RenameOwner`, `UnlinkOwner`, `UnlinkMarker`). `missed` and `swept`
are history, for the properties.

A check and the write after it are separate steps, and so are the four listings of control
files: another process may run between any two. The reads inside one other check are one
step: those of the provenance of a marker, of an owner file's references before it is
retired, and of one file by the scavenger. A scavenger looks at a bounded number of files
from a cursor on, so it may leave any of those it listed. Ages are abstracted: a dead owner
is stale, a live one is not.

### How FederatedJob corresponds to the code

| Variables | Code |
|---|---|
| `job`, `lease`, `pause` | the record on the head node: `FederatedJobRecord`, its lease and its pause with claim and start grant |
| `child` | the dispatch processes that were ever started, each a session of its own |
| `arm` | `federated-resume-state.ts`: the armed pause, the local decision and the reservation on each host's disk |
| `listener` | the execution in flight in each host's daemon, with its program counter |
| `count` | leases, retries and restarts so far |

Every change of the record is one step because the code makes it under the job's lock
(the module above). A listener's request is the head node's change together with the fate
of its answer: accepted, refused, failed before the head saw it (`throw`), or answered to
nobody (`lost`). Time is replaced by expiry actions, allowed whenever the order of the
computed deadlines allows it. A pause is named by the session that paused and a lease by
its number, which stand for the code's nonces, generations and tokens.

### How DecompositionJournal corresponds to the code

One process at a time holds the task-creation reservation, so `pc` is one program counter
for the finalizer (`decomposition-finalizer.ts`), recovery at the server's start and
before a mutation, and the admission fence of a dispatch. `op` is the file operation under
way, one step per durable call of `decomposition-file-io.ts` (temporary, link, backup
claim, quarantine, unlink, directory flush), and of its clean-up when a call fails: a file
whose temporary name could not be unlinked is renamed aside, found to have two names, put
back and relieved of the name aside (`SetAside`, `PutBack`, `ForgetAside`). `index`, `lock` and `candidate` are Git's
index, `index.lock` and the private next index. `Crash` empties the program counter and
keeps the disk; a failing call (`faults`) takes the code's error path at that step (an
error of a read, and one that the retries of an unlink or a rename absorb, is no step);
`OtherCommit` is everyone else on the branch. `files`, `temps` and `backup` hold whose
bytes are where; the contents are only old, new or half-written.

`Atomic` is the refinement: the branch is `tree`, the files and the index together are
`view`, a journal is `fenced`, the outbox or the status store is `noticed`. The mapping
shows that the many durable steps of the transaction are one `Publish` between `Begin` and
`End`, and that `End` never happens with mixed files or an unannounced publication.

### How DispatchPipeline corresponds to the code

| Variables | Code |
|---|---|
| `briefRec`, `diffRec` | `approvals/<task>.json` and `approvals/<task>-judge.json` with their spec identity |
| `cp` | `checkpoint-<task>.json` through `CheckpointManager` |
| `git` | the head of the task's branch and its working tree |
| `spec` | the authoritative contract, and whether a second file claims the task id |
| `pc`, `m` | the run in `dispatchTaskWithAuth`: the stage, and what it holds in memory |
| `m.answer` | the judge's last answer in this run, about which diff, and whether verification let it stand |
| `torn`, `published` | history: work of seals that were cut off between their commit and their checkpoint; what was published: the branch head, the diff the run holds, and the answer it rests on |

One action per durable write, so a crash may fall between any two. A run loads the spec,
checks that it is still the authoritative one, stops at a live pend, and goes through
gate, blueprint, approval, branch, worker, seal, review, judge, intent cutover and
verification, retrying after a REVISE. Stages of the checkpoint are skipped as the code
skips them (the judge is never skipped). `ApproveBrief`, `RejectBrief`, `ApproveDiff`,
`RejectDiff`, `Recycle` and `Revise` are the routes of `server.ts` with the start that
follows. A spec is the number of its contract and a diff the number of its work; what a
model, a reviewer or a rule answers is any answer. At most one run is alive at a time,
which is what the dispatch manager and `DispatchQueue`'s `DispatchMutex` are for. The
configuration of a task stays the same in all its runs. Then every approved record that a
run in loop mode finds can be reused: `evaluateLoopReview` approves for itself under
`requireCrossModel` only with the cross-model review (`loop-gate.ts:340`), a human's
approval keeps the review, and a hold saves it again (`dispatcher.ts:3006`). So the fresh
review of an approved record that cannot be reused (`1477`, `2519`) is never taken.

### How TaskReservation corresponds to the code

| Variables | Code |
|---|---|
| `lock` | the record hard-linked to `.task-creation.lock`, named by its caller |
| `requests`, `quar` | the reclaim request markers and quarantines, named by the caller that made them |
| `pc`, `why`, `todo`, `seen` | a caller in `withTaskCreationReservation`, what its check or removal is for, the listing it works through, the record it looked at |
| `life` | whether the caller's process lives, or died, or died at least `staleMs` ago |
| `written` | the callers whose file or text was published |
| `moved`, `replaced`, `repaired` | history: live owners whose record a reclaimer moved away, a rename overwrote, or a repair of a dead reclaimer's work put back |

Every file system call that others can tell apart is a step: `ListRequests` to
`Reconciled` are `reconcileInterruptedReclaims`; `CheckRequests` and `CheckQuarantines` the
two listings of `hasReclaimArtifacts`, before the link and after it; `Link` the
publication; `Check` and `Write` the operation; `ReadOwn` and `RemoveOwn` are
`removeOwnedLock`; `Request` to `Withdraw` are `reclaimStaleLock`. All callers want the same
id, or the same version of a spec, so `Check` stands for the claimant scan of
`writeTaskFilesWithResult` and for the comparison of a canonical mutation alike.
`DecompositionJournal` uses one program counter because of this reservation; the
departures below say when it does not hold. Release tombstones and staging files have unique
names and block nobody; `rename` replaces a file, as it does on POSIX.

### Bounds

Queue: `Slots` passes past their listing at one time, `MaxKicks` passes waiting for it
(more are the same wake-up), `MaxTimers` (two in `QueueCommands`: the tracked timeout and an
overwritten one), `MaxRetries`, `MaxCrashes`; two or three tasks.
Two passes are enough for every conflict between passes, since each conflict is between a
pair; three tasks are needed only for a decomposed dependency. The constants `Ops`, `Faults`,
`Outcomes`, `External` and `Contestable` choose what the operator and the environment may
do, so that each run asks one question with a state space TLC can exhaust. `slow_scan`
lets a readiness scan of a row outlast a whole dispatch of the same row by another pass.
No run switches it on: with it a lane can be lost for ever, so `EventuallySettles` fails
(see the departures), and with two passes and every kind of row TLC does not finish. The
theorems cover it, since they hold for every choice of `Faults`. A row that waits for two tasks is not in any run: with the interleavings of two
unblocking loops its state space is too large beside the other questions.

Lock: three processes (an owner, a process that takes its place and a completer that comes
late), one acquisition each, one death; the theorems cover all other instances. Within
these bounds acquisitions are missed (`missed`) and markers swept (`swept`); two missed
acquisitions that are both reported need five processes. Job: two hosts, three leases, three processes, one retry and one daemon
restart, so that a resumed process, its predecessor and a retry can meet. Journal: two
children, so that one can exist without the other; two crashes, so that recovery itself is
interrupted; two failing calls, one forward and one while undoing; one foreign commit.
Pipeline: three runs (a first, one that is interrupted, one that resumes), one crash, one
edit, and four configurations that switch the execution mode, both gates, the intent
judgment and the timeout; `Kinds` are the ways a run is started. Reservation: four callers
(two reclaimers of one stale record and two that acquire behind them), one death, and a
record of a dead owner or none at the start; a caller waits and tries again without limit,
with one exception: a caller whose staging file may not be removed, and that no longer finds
the record it took back, ends, where the code may try again with a second record.

## 3. What TLC checks

Passing runs. `CHECK_DEADLOCK FALSE` stands where the system may rightly stop: a drained
queue, a lock or a reservation nobody wants any more, an ended job, a published or abandoned task.
`JournalAtomic` checks for deadlock too.

| Run | Instance | Properties |
|---|---|---|
| `QueueCommands` | two free tasks, two passes, two timeouts, all lifecycle commands, unconfirmed stops | `TypeOK`, `GuardNeverUndercounts`, `DispatchMutex` |
| `QueueRecovery` | b after a, gates, a restart, failing scans, lagging views, compaction | `OutcomesDurable`, `GuardNeverUndercounts`, `ReadyDepsMet`, `LaneWatched`, `CompletedIsFinal` |
| `QueueSplit` | a decomposed dependency, contested at will, its subtask finished outside, fences that meet a claimant | `ReadyDepsMet`, `StartedDepsMet` |
| `QueueConfig` | two free tasks, configuration changes, removals, gates, dashboard starts, throwing starts | `OutcomesDurable`, `GuardNeverUndercounts` |
| `QueueSettles` | b after a, two passes, lagging views, fairness | `LaneWatched`, `ReadyDepsMet`, `EventuallySettles` |
| `LockFence` | three processes, one death, every delay between listings, checks and writes | `TypeOK`, `CleanExclusive`, `Retirable` |
| `FederatedResume` | two hosts, failing, lost and late requests, failing launches, a daemon restart | `TypeOK`, `OneChild`, `ResumedOnce`, `SameSession`, `EndStays` |
| `FederatedSettles` | one host, all faults, fairness | `DecisionApplied` |
| `JournalAtomic` | two children, two crashes, two failing calls, a foreign commit, fairness | `TypeOK`, `ReportTrue`, `AdmittedWhole`, `RefusalExplained`, `Atomic`, `JournalSettles` |
| `PipelineGates` | three runs, a crash, an edit, expiring pends, throws | `TypeOK`, `PassedPublished`, `BriefBound`, `PendKept` |
| `ReservationRace` | four callers, a stale record, one death, timeouts, failing operations and clean-ups | `TypeOK`, `HolderRecorded`, `OneWriter`, `LeftBehind` |

`LaneWatched` is asked only where nothing pauses or stops the queue: after a halt during
the release of a fence the running row is not polled, and nothing polls it later.
`CompletedIsFinal` is asked only where no scan is slow and no task contested: a stale scan
may write over a completed row just as it does over a running one; it excepts the step of
`cancel()` itself, which stops a row in any status. `OneChild` and `EndStays`
are asked without the fault `refuse` and `BriefBound` without `revert`; they fail with
them, see below.

Fairness. Queue (`QueueSettles`): weak fairness of the steps of each pass, dispatch, poll,
unblocking, enrichment and of the recovery scan, of loop timers, of the cooldown and of
workers ending. These are awaited I/O, `setTimeout`,
`setInterval` and child processes with a time limit, and the event loop serves each
eventually. The task views owe nothing: a listing may lag for ever. Job (`FederatedSettles`): the scheduler's tick, the loop of each daemon, the
worker processes, the expiry of a released pause, and of a lease that nobody renews. The
tick and the loops are timers; the rest are deadlines. Journal (`JournalAtomic`): the
process goes on, is started again after a crash, and recovers; crashes and failures are
bounded. Operators and faults owe nothing.

### Where the code departs from what it says

`PipelineCrash` states the comment "Re-judge after retry using a fresh durable output
seal" (`dispatcher.ts:3400`) as `PublishedJudged` and TLC shows a behaviour that breaks
it: a retry commits its sealed output to the branch, the run is killed before the
checkpoint has the new diff (`dispatcher.ts:3413`), the resumed run judges the diff of the
checkpoint (`2396`), approves it, and publishes the branch, which holds the retry's work.

Other departures met while modelling. The model behaves as the code does, and no run
states the sentence.

Queue:

* `maxConcurrent` is exceeded when two passes read a free lane before either takes it
  (`dispatch-queue.ts:848`).
* a cancelled row is made ready again by a readiness scan in flight (`:931`), and started.
* a pause while the admission fence is released leaves a running row unpolled (`:1060`).
* the poll gives away the lane of a stop that was not confirmed (`:1163`).
* `continue_all` promises "attempt all tasks regardless" (`queue-types.ts:22`); a
  dependent of a failed task waits for ever, since a failed row completes no dependency.
* `skip_dependents` promises "only direct dependents" (`queue-types.ts:21`);
  `findAllDependents` is transitive.
* `remove()` leaves no log line (`dispatch-queue.ts:617`), so a restart brings the row
  back.
* after a start that throws, `dispatchTask` returns without `scheduleNext()` (`:1127`).
* so it does after it put a row back to `queued` (`:993`), because the database listing did
  not show yet what the queue had seen completed: the row stays, with no timer or pass, also
  when the listing has caught up. TLC finds this in 25 steps when `EventuallySettles` does
  not except it; it excepts only such a row (`PutBack`), and only while nothing else is under
  way (`Quiet`).
* a readiness scan slower than another pass's dispatch of the same row writes `ready`
  over `running` (`:931`); the slot of that lane is then leaked.
* `enqueueSubtasks` promises "automatic dependency chaining" and ignores `dependsOn`
  (`:271`).

Lock:

* a completer delayed before its rename (`store.ts:2064`) or its unlink (`:1317`) may move
  or delete the lock of a later owner, so two callbacks can be inside together; the
  ownership check afterwards tells at least one of them, but for the next item
  (`CleanExclusive`, proved).
* the fence before a callback is four listings (`:2326`), and between them a release
  quarantine and a reclaim quarantine can fill and empty. Two callbacks that were inside
  together can then both be told that they held the lock, against "restored live ownership
  must remain exclusive" (`tests/monitor/federation-store.test.ts:774`). It takes five
  processes, one of which dies holding the lock: A, inside, is moved away by R, late in its
  reclaim of the dead owner's lock; B links the free path and reads three empty listings; C,
  late in the release of A's acquisition before, moves B's lock into a release quarantine; R
  puts A back; B reads the fourth listing empty and enters; A is checked and leaves; C puts B
  back, and B is checked. TLC replays exactly this as a scripted behaviour of the module; it
  is beyond the three processes of `LockFence`, where acquisitions are missed but not two
  that are both reported.
* the scavenger asks for control files once (`:1168`) and unlinks afterwards (`:1202`): an
  owner that publishes its marker and dies in between loses its owner file, and the marker
  then blocks every acquisition. A file already renamed aside goes even while a control file
  exists (`:1196`): when it goes between another process's rename (`:1845`) and unlink
  (`:1859`), the retirement returns false and its marker stays without an owner file. No
  crash is needed for that. The comment at `:1165` defers the clean-up "until the bounded
  reconciliation pass has retired every control artifact".
* a scavenger whose file went before its unlink throws, and the acquisition fails (`:1112`).
* a release that runs while its lock sits in the quarantine of another release finds
  neither the lock nor a reclaim of it and reports success (`:2097`); the completer then
  puts the lock back, and nobody releases it before its process dies.
* a death between the unlink of the owner file and of the release marker leaves a marker
  that no process accepts (`Retirable` names this state and the scavenger's, no other).

Federated job:

* the daemon ignores a refused "running" report and works on while the head node requeues
  the job; a second worker may start, or the job is blocked for its evidence and taken up
  again as one that no worker ever touched.
* the daemon sends no session before the first pause report (`quack-listener.mjs:1991`),
  and the head refuses a pause of a job without one (`pause-resume.ts:60`), unless the
  worker's telemetry has told it; the runs have telemetry on.
* approving a pause locally before it is armed starts a process that no grant binds.
* a terminal report is accepted from the right host under an older lease.
* a refused release of a pause is not tried again by the same execution.

Journal:

* recovery refuses, and the project stays fenced, when a write stopped half way and left a
  temporary that is not the target, or when recovery itself stopped while it held
  `index.lock`, or when somebody else committed first, or when the clean-up of a write that
  could not unlink its temporary name stopped; `RefusalExplained` says that these four are
  all.
* the last of them: one failing unlink makes `removeClaimedFile` rename the published file
  aside, see a second name, and link it back (`decomposition-file-io.ts:137`, `150`). A crash
  before the name aside is unlinked (`151`), or an unlink that fails there too, leaves three
  names, which the resume refuses as an unexpected link count
  (`decomposition-transaction-journal.ts:1094`) or as no link pair (`1109`).

Reservation:

* two callers can be in their operation together, against "no second process can pass the
  same ownership check concurrently" (`task-creation-reservation.ts:594`). A reclaimer saw
  the stale record; another one removed it; a new owner linked its record, which the first
  reclaimer then moved away; a second new owner, past its first check, linked its own; and
  the restoring rename (`:256`) replaced it. When the marker is withdrawn both pass their
  second check. Three callers, or a restore that does not replace, are not enough for this.
* there is a second way, with two deaths and five callers. A reclaimer moves a live record
  that was linked after it looked, and dies. Its marker is reaped, so the record's owner sees
  no marker; another reclaimer then observes a second stale record under the name; a repair
  that looked while the name was free renames the owner's record back over it (`:363`); the
  owner sees no quarantine and enters; and the other reclaimer moves its record away. TLC
  does not reach this within the bounds of `ReservationRace` (one death); it came out of the
  proof, when the invariant without `repaired` failed to be inductive. `HolderRecorded` and
  `OneWriter` except only a record that was exposed in one of these two ways.
* an acquirer that takes its record back (`:566`) while a reclaimer holds it in its
  quarantine throws, and the reclaimer restores it afterwards (`:256`): the record of a live
  process that does not run any operation blocks the directory until that process dies
  (`LeftBehind` excepts exactly the records that were moved).

Pipeline:

* in loop mode a crash between the checkpoint of a retry's seal (`3413`) and its review
  skips the review; the judge still runs.
* a fresh dispatch consumes an approval given for another diff, or another brief, of the
  same contract (`2532`, `1499`).
* in dispatch mode an automatic approval writes no record, so a brief that a human
  rejected later can be resumed.
* the guard of a start uses the default timeout of 24 hours (`775`), the gates the
  configured one.
* reverting an edit while a run is in flight restores the brief of the contract before it
  (fault `revert`).
* the checkpoint is deleted before anything is published (`3792`).

## 4. What is proved

The proofs hold for every value of the constants: any finite set of tasks with any
dependencies and subtasks, any number of passes, processes, callers, children, starts,
crashes and faults, all configurations and requests. They use the named assumptions on the
constants, which TLC evaluates in every run of those modules: `TasksAssumption` and
`BoundsAssumption` (queue), `LockAssumption` (lock), `ChildrenAssumption`,
`BoundsAssumption` and `NoneAssumption` (journal), `PipelineAssumption` and
`NoneAssumption` (pipeline), `ReservationConstants` (reservation), `JobAssumption` (job). A
`NoneAssumption` says that what stands for "no record" is not a record. Five theorems have
a further hypothesis on the constants, because the code does not do what they say without
it: `BriefsBound`, no fault `revert`; `OneChildAtATime` and `EndsForGood`, no fault
`refuse`; `LanesPolled` and `CompletedStays`, see there.

* `TypeCorrect` (`DispatchQueueType`): `Spec => []TypeOK`. `TypeOK` is inductive as it
  stands, because it carries the two facts that let a continuation use its task (a pass
  without a task is idle or visiting; an unblock loop without a row is not refreshing
  one) and `loopTimer => timers > 0`: whatever was overwritten, `loopTimer` stands only while
  a timeout is pending. A timeout that fired without resetting it would break this, and a
  deferred row would then never be tried again (`else if (!this.loopTimer)`, `:1120`). One lemma per action; the record types are closed under one-field updates, and
  each lemma builds the new record one field at a time.
* `LanesCounted` (`DispatchQueueGuard`): `Spec => []GuardNeverUndercounts`. Inductive
  together with `TypeOK`. The argument is accounting: `LanesGivenBack` shows that a step
  which removes a set of lanes may lower the count by at most its size; every action but
  one is an instance of it (with the empty set, one row, or the rows an abort stopped),
  `FenceAdmits` adds one lane and one to the count, and a restart counts exactly the rows
  it recovers as awaiting approval. The converse does not hold, and is not claimed: the
  code can leak a slot (the slow readiness scan above).
* `LanesPolled` (`DispatchQueueGuard`): `NeverHalted => (Spec => []LaneWatched)`. The
  hypothesis `NeverHalted` rules out the requests `pause` and `stop` and configurations that
  pause on a failure or have a fleet budget; everything else may happen, abort, unconfirmed
  cancels, gates, faults and restarts included. It is needed: `Release` sets the poll timer
  only if the queue still runs, so a halt between the start and the release leaves a row
  running that no loop polls. The inductive invariant `LanesAttended` says what
  `LaneWatched` does not: a release that is to set the timer will find its row running and
  the queue unhalted (`Attended`). `abort()` halts the queue too, but leaves only lanes to
  which it gives a timer itself.
* `StartsInOrder`, `ReadyInOrder`, `OneDispatchPerTask` and `OutcomesLast`
  (`DispatchQueueSafety`): `StartedDepsMet`, `ReadyDepsMet`, `DispatchMutex` and
  `OutcomesDurable`, with every fault allowed, the slow scan included. They share one
  inductive invariant, `Safe`. Its first idea is that a view of the task service may be old
  but is never wrong: what a pass, an enrichment or a finished job was told is approved was
  approved then and is now (`ViewsSound`). What is still open for a task therefore only
  shrinks (`Unmet`), and a decision taken on an old view errs on the side of waiting. The
  second is about `blockedBy`: a list that is not empty names everything that is open, and a
  ready, running or awaiting row has nothing open, in the item and in the log alike
  (`RowsSound`), which is why a restart loses nothing. `PassesSound`: a pass beyond its
  dependency check found nothing open. `UnblockingSound`: `unblockDependents(k)` runs for a
  `k` that is done, and the row it refreshes still has its complete list when the await
  returns. `StartsSound` relates a start to the row it was made for. Each action but
  enqueue and crash has one effect on rows, `RowsMove`, proved once per action. The mutex
  needs only that a mark stands exactly while some pass is between taking and dropping it.
* `CompletedStays` (`DispatchQueueSafety`): `NoStaleScan => (Spec => CompletedIsFinal)`, an
  action property. Three threads write the status of a row that they looked at before an
  await: the readiness visit, the recovery scan and `unblockDependents()`, when it rescans a
  quarantine. `NoStaleScan` (`Contestable = {}` and no fault `slow_scan`) rules out the
  first and the third, which really do write over a completed row (see the departures);
  failures, restarts, gates, requests and any number of passes remain. The inductive
  invariant `Early`, on top of `Safe`, says that whoever still has a row to write finds it
  early in its life: the row of a readiness scan or of an enrichment has not been started
  (`ScansEarly`, `EnrichesEarly`), what the recovery scan has before it is as the restart
  left it or stopped (`RecoversEarly`), and a dispatch has its row to itself
  (`DispatchesAlone`), so that its start takes no row from under one of the others. Most
  steps are calm: they write a row in a way that `RowsEarly` allows and bring no thread to a
  row (`CalmStep`). Six need an argument of their own: enqueue, a pass that takes a row up,
  the start, the listing of the recovery, each row it takes up, and a restart, where a
  completed row comes back because of `OutcomesDurable`.

* `LockTyped` and `NeverBothReported` (`FencedFileLockProof`): `Spec => []TypeOK` and
  `Spec => []CleanExclusive` of `FencedFileLock`, for any number of processes,
  acquisitions and deaths. `TypeOK` needs `Fitting` (a process that looks for the lock has
  an acquisition left, one that has it has used one). `CleanExclusive` needs three more
  facts: a token at a path, or reported, was acquired (`Acquired`); a callback under way is
  not reported yet (`HeldUnreported`); and of two tokens that were inside together one is
  `missed` or `Lost`, that is, acquired, at no path and not reported (`OneLost`). A lost token
  stays lost, because a step brings to a path only what is at another path or a fresh token;
  the fence makes the pair satisfy `OneLost` when it arises: either it admits the callback
  while a control file exists, which is what `missed` records, or no marker and no quarantine
  exists, and then at most the token at the lock path is anywhere. All actions but four are
  `Quiet` (one process moves, no token appears), and one lemma shows that quiet steps keep
  the invariant.
* `MarkersRetire` (`FencedFileLockProof`): `Spec => []Retirable`. A marker can be judged
  only by the owner file it names, so nobody may delete the file and leave the marker,
  unless it is just about to unlink the marker too (a process that dies there is a case
  the property names). The scavenger does so nevertheless, and the property names that too
  (`swept`). A marker is published once, by its owner, while it still has the
  file (`Published`); while a marker exists its file does, under its name or renamed
  aside, or a process is at its `unlink_marker`, or a scavenger took it (`Retiring`); who
  retires a file for want of a marker does so after the marker is gone for good
  (`Orphaned`).

* `ReservationTyped`, `HolderKept`, `WriterAlone` and `NothingLeft` (`TaskReservationProof`):
  `TypeOK`, `HolderRecorded`, `OneWriter` and `LeftBehind`, for any number of callers and
  deaths. None of the three is inductive: whether a caller in its operation is safe depends
  on what it saw at its two listings, and on what every reclaimer saw before. The invariant
  follows a record from its link on. `Placed`: until the caller has looked for markers, its
  record is under the name or in some quarantine. `Inspected`: once it saw no marker, no
  reclaimer is at work (`Announced`: a live reclaimer has its marker), so its record is under
  the name with nobody about to move it, or in the quarantine of a dead reclaimer.
  `Entered`: once it saw no quarantine either, it is under the name and stays there, because
  whoever observes it from now on finds a live owner (`Observed`). Each of these excepts the
  exposed records and nothing else. `Raced` carries this to the writers: who is past the
  check while another wrote shares an exposed record with it.
* `PipelineTyped`, `PublishedPassed`, `PendsKept` and `BriefsBound` (`DispatchPipelineProof`):
  `TypeOK`, `PassedPublished`, the action property `PendKept`, and `BriefBound`, for all
  configurations, starts, retries, edits and crashes. `Safe` is the invariant of the first
  three: `Holding` (what the memory of a run has at each stage), `Approving` (a verdict
  APPROVE past the judge is its answer about the diff in hand, and past verification a
  verified one), `Headed` (the branch head is the diff in hand, and the diff of the
  checkpoint a run resumes from, but for work of a cut-off seal), `NoPend` (past the guard of a start
  there is no live pend, and a run that writes one is at its last step) and `Staged` (a stage
  counts as done in memory only while the checkpoint says so). `BriefsBound` adds `Growing`
  (contracts only grow, so a record that can be consumed is of the contract in hand) and
  `Backed` (in loop mode an approval in the checkpoint stands in the record). It assumes that
  no edit brings an old contract back while a run is in flight: with that fault the code
  really restores the old brief, and the property fails (see the departures).
* `JobTypeCorrect`, `ResumesOnce`, `RecordsStartedRun`, `OneChildAtATime` and `EndsForGood`
  (`FederatedJobProof`): `TypeOK`, `ResumedOnce`, `SameSession`, `OneChild` and the action
  property `EndStays`, for any number of hosts, leases, processes, retries and daemon
  restarts; the first three with every fault. The invariant has four layers, each of which
  needs the ones before it. `Typed` adds to the types that a retry used up a lease
  (`RetriesBound`), without which the count of retries has no bound. `Chain` is about the
  processes alone: sessions are numbered as they start, a daemon and a resume state only
  name processes of their own host, and what was resumed under a grant is over, its resume
  state is used up, and no daemon watches it (`Spent`) - so nothing arms it again. `Grants`
  is about tokens, which are ids of leases: the lease of a plain start is never a grant
  (`Plain`), the lease of a claim is in nobody's hands until it is granted (`NotClaimed`),
  and whoever holds the grant on record holds it for the pause on record (`Fits`). A change
  of the record leaves tokens that fit fitting (`Fitting`), because a grant is a lease newer
  than every token and because the pause moves forward only. `Single` is about the start:
  what is queued or assigned was never active (`Untouched`), a daemon that has the lease of
  the record and has not started yet finds no process, and past its report the record is
  active or the start will be denied (`FirstStart`); so there is one plain start, every
  other process replaces one that has stopped, and only one is at work (`OneActive`). A host
  that is not the record's cannot spoil this for one that is: its reports are refused. The
  hypothesis is used in one place, the running report whose answer the daemon does not look
  at; with `refuse` TLC shows both properties violated (see the departures).
* `JournalTyped`, `ReportsTrue`, `RefusalsExplained`, `AdmissionsWhole` and
  `JournalImplements` (`DecompositionJournalProof`): `TypeOK`, `ReportTrue`,
  `RefusalExplained`, `AdmittedWhole`, and the refinement `Spec => Atomic`, for any number of
  children, crashes, failing calls and foreign commits. The invariant is about places.
  `Fencing`, `Answering`, `Indexed` and `Announced` say for each place of the process what
  journal, branch, index, lock and outbox it can meet. `Placed` says where the tree is whole:
  new on every place from the end of the writes to the compare-and-swap, and for ever after
  the branch moved, since no file operation starts any more; old where recovery is done.
  `Kept` is what recovery may rely on after a stop anywhere (a missing parent has its backup,
  a child is new or absent). `Purpose` and `Progress` carry both through the single steps of
  a file operation. The refinement maps `CreateJournal` to `Begin`, `UpdateRef` to
  `Publish`, `WriteOutbox` and `NoticeCommitted` to `Notice`, `FinishJournal` and
  `RemoveJournal` to `End`; each other step touches only what readers may not rely on while
  the journal fences them, or nothing (`ViewTrue` is why `End` is legal).

Only model-checked: what the prover cannot state or prove. `EventuallySettles`,
`DecisionApplied` and `JournalSettles` are liveness under fairness, and the finding is a
counterexample. Every other property of a passing run is a theorem.

## 5. Plan

Done: `DispatchQueue`, `FencedFileLock`, `FederatedJob`, `DecompositionJournal`,
`DispatchPipeline` and `TaskReservation` with the proofs above.

1. `QueueLog`: the log and snapshot files, compaction with a crash between its steps, and
   replay, shown to implement the durable rows that `DispatchQueue` uses.
2. `DispatchManager`: jobs, stop barriers and decision reservations, refining the job
   states that `DispatchQueue` assumes.
3. `Judgment` and `Workflow`: the reducer and the transition table against reference
   definitions.
4. `PreflightJobs`, the one-use admission marker and the fleet budget.

## 6. Not modelled

Worker internals, prompts and model calls; container commands; HTTP and SSE formatting;
the dashboard; statistics; money amounts. In the queue: `getStats`, event emission, the
fallback for tasks without a spec file, a listing that rejects, and
`enqueueAllEligible`'s filter (it then calls the modelled enqueue). In the lock: the
process-local completion of a release whose marker could not be published
(`store.ts:1903-2002`, `2155-2203`), which only a failing file call leads to; retries of
transient file errors, staging files, the heartbeat's timestamps, and the operator's offline
recovery.
In the federation: host readiness and routing, verified synchronisation, deployment jobs.
In the decomposition: planning, verification and repair of plans, legacy journals, and
mutations of a spec other than a decomposition. In the reservation: records in the older
directory form, malformed records, other file errors, and the clean-up of staging files and
tombstones. In the dispatcher: shared, Docker and
feature branches, dry runs, the integration judge of a final subtask, replanning,
enrichment, checkpoints that are too old, a configuration that changes between two runs of a
task, and the steps inside one publication.
