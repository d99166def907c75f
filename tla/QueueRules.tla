----------------------------- MODULE QueueRules -----------------------------
(***************************************************************************)
(* The state-free rules of the dispatch queue: dependency resolution,      *)
(* failure propagation, the concurrency guard, task selection and the      *)
(* meaning of the persisted log rows.  DispatchQueue applies them to its   *)
(* variables.                                                              *)
(***************************************************************************)
EXTENDS Integers, FiniteSets

CONSTANTS
  Tasks,          \* the task ids that have a spec file
  NoTask,         \* "no task": not an id
  Deps,           \* Deps[t]: the ids t's spec names in Blocked By
  Subtasks,       \* Subtasks[t]: the ids "<t>-A", "<t>-B", ... that exist
  Priority        \* Priority[t]: 0 (P0-CRITICAL) to 3 (P3-LOW)

ASSUME TasksAssumption ==
  /\ IsFiniteSet(Tasks)
  /\ NoTask \notin Tasks
  /\ Deps \in [Tasks -> SUBSET Tasks]
  /\ Subtasks \in [Tasks -> SUBSET Tasks]
  /\ Priority \in [Tasks -> 0..99]

-----------------------------------------------------------------------------
(* Queue rows.                                                             *)

Status == {"recovered_pending_scan", "queued", "ready", "running",
           "awaiting_approval", "completed", "failed", "blocked",
           "skipped", "stopped"}

LaneStatus == {"running", "awaiting_approval"}

\* blockedBy and dup (duplicateBlockedBy) are lists without repetition in the
\* code; only membership is ever tested, so they are sets here.
Item == [status : Status, prio : 0..99, blockedBy : SUBSET Tasks,
         dup : SUBSET Tasks, resume : BOOLEAN]

\* The row enqueue() creates: priority 99 and an empty blockedBy until the
\* asynchronous enrichment has read the spec.
NewItem == [status |-> "queued", prio |-> 99, blockedBy |-> {},
            dup |-> {}, resume |-> FALSE]

Config == [maxConcurrent : Nat \ {0},
           failurePropagation : {"fail_fast", "skip_dependents", "continue_all"},
           pauseOnFailure : BOOLEAN, autoStartOnEnqueue : BOOLEAN,
           cooldown : BOOLEAN, budgeted : BOOLEAN]

\* A row that goes on after its human gate resumes the paused run.
Resumed(row, s) == [row EXCEPT !.status = s, !.resume = TRUE]

-----------------------------------------------------------------------------
(* resolveDependencies: a dependency is met by itself being done or, when it *)
(* has been decomposed, by all of its subtasks being done.                   *)

\* Mutant: a decomposed dependency counts as met whatever its subtasks do.
UnmetIgnoringSubtasks(t, done) == {d \in Deps[t] \ done : Subtasks[d] = {}}

Unmet(t, done) ==
  UNION { IF d \in done THEN {}
          ELSE IF Subtasks[d] # {} THEN Subtasks[d] \ done ELSE {d} :
          d \in Deps[t] }

Satisfiers(t, done) ==
  UNION { IF d \in done THEN {d}
          ELSE IF Subtasks[d] \subseteq done THEN Subtasks[d] ELSE {} :
          d \in Deps[t] }

\* What "dependency d is done" means, whichever view of the world is asked.
Resolved(d, done) ==
  d \in done \/ (Subtasks[d] # {} /\ Subtasks[d] \subseteq done)

-----------------------------------------------------------------------------
(* propagateFailure.                                                       *)

\* findAllDependents: the least set of rows closed under "is blocked by the
\* failed task or by a member".  The code's breadth-first search computes it.
Dependents(t, rows, it) ==
  LET Closed(S) == \A u \in rows : it[u].blockedBy \cap (S \cup {t}) # {} => u \in S
  IN  {u \in rows : \A S \in SUBSET rows : Closed(S) => u \in S}

NotStarted(it, u) == it[u].status \in {"queued", "ready"}

\* The rows a failure of t blocks, and the ones it skips.
FailureBlocks(t, rows, it, strategy) ==
  IF strategy = "skip_dependents"
  THEN {u \in Dependents(t, rows, it) : NotStarted(it, u)} ELSE {}

FailureSkips(t, rows, it, strategy) ==
  IF strategy = "fail_fast"
  THEN {u \in rows \ {t} : NotStarted(it, u)} ELSE {}

\* The statuses handleTaskFailure leaves behind: t failed, its victims blocked
\* or skipped.  st maps a row to its present status (in memory or on disk).
AfterFailure(t, u, blocks, skips, st) ==
  IF u = t THEN "failed"
  ELSE IF u \in skips THEN "skipped" ELSE IF u \in blocks THEN "blocked" ELSE st

-----------------------------------------------------------------------------
(* ConcurrencyGuard.  Money is abstracted: exhausted says that the spent     *)
(* total plus the next estimate has reached the fleet budget.                *)

Guard == [runningCount : Nat, cooling : BOOLEAN, exhausted : BOOLEAN]

CanStart(g, cfg) ==
  IF g.runningCount >= cfg.maxConcurrent THEN "concurrency_limit"
  ELSE IF g.cooling THEN "cooldown"
  ELSE IF cfg.budgeted /\ g.exhausted THEN "fleet_budget_exhausted"
  ELSE "allowed"

OnTaskStart(g, cfg) ==
  [g EXCEPT !.runningCount = @ + 1, !.cooling = cfg.cooldown]

\* n lanes are given back; tips says whether the cost charged with them
\* exhausts the budget.
OnTaskCompleteTwice(g, n, tips) ==          \* mutant: each lane counted twice
  [g EXCEPT !.runningCount = IF @ >= 2 * n THEN @ - 2 * n ELSE 0,
            !.exhausted = @ \/ tips]

OnTaskComplete(g, n, tips) ==
  [g EXCEPT !.runningCount = IF @ >= n THEN @ - n ELSE 0,
            !.exhausted = @ \/ tips]

-----------------------------------------------------------------------------
(* The persisted log.  A row's disk value is the fold of the log lines       *)
(* written for it; replay() applies a line only to a row it knows.           *)

Absent == "absent"
DiskRow == [status : Status \cup {Absent}, prio : 0..99, blockedBy : SUBSET Tasks,
            dup : SUBSET Tasks, resume : BOOLEAN]
NoRow == [NewItem EXCEPT !.status = Absent]

\* Mutant: one kind of line is not written.
LoggedButGates(d, t, s) ==
  [d EXCEPT ![t].status = IF @ = Absent \/ s = "awaiting_approval" THEN @ ELSE s]

\* A log line that only sets the status of t.
Logged(d, t, s) ==
  [d EXCEPT ![t].status = IF @ = Absent THEN Absent ELSE s]

LoggedRow(row) == [row EXCEPT !.status = "queued", !.dup = {}]

\* Mutant: every row but a gated one is run again.
RecoveredAll(row) ==
  [row EXCEPT !.status = IF @ = "awaiting_approval" THEN @ ELSE "recovered_pending_scan"]

\* The row recoverState() builds: a runnable row waits for the claimant scan.
Recovered(row) ==
  [row EXCEPT !.status = IF @ \in {"queued", "ready", "running"}
                         THEN "recovered_pending_scan" ELSE @]
=============================================================================
