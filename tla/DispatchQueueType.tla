------------------------- MODULE DispatchQueueType --------------------------
(***************************************************************************)
(* DispatchQueue is type correct, for every task graph, every number of    *)
(* concurrent passes and every setting of the bounds.                      *)
(***************************************************************************)
EXTENDS DispatchQueue, FiniteSetTheorems, TLAPS

-----------------------------------------------------------------------------
(* The record types are closed under the updates the actions make.         *)

\* A queue item keeps its type when one field is replaced.
LEMMA ItemUpdates ==
  ASSUME NEW r \in Item
  PROVE  /\ \A s \in Status : [r EXCEPT !.status = s] \in Item
         /\ \A n \in 0..99 : [r EXCEPT !.prio = n] \in Item
         /\ \A S \in SUBSET Tasks : [r EXCEPT !.blockedBy = S] \in Item
         /\ \A S \in SUBSET Tasks : [r EXCEPT !.dup = S] \in Item
         /\ [r EXCEPT !.resume = TRUE] \in Item
  BY DEF Item

\* So does a persisted row.
LEMMA DiskUpdates ==
  ASSUME NEW r \in DiskRow
  PROVE  /\ \A s \in Status : [r EXCEPT !.status = s] \in DiskRow
         /\ [r EXCEPT !.status = Absent] \in DiskRow
         /\ \A S \in SUBSET Tasks : [r EXCEPT !.blockedBy = S] \in DiskRow
         /\ \A S \in SUBSET Tasks : [r EXCEPT !.dup = S] \in DiskRow
         /\ [r EXCEPT !.resume = TRUE] \in DiskRow
  BY DEF DiskRow

\* A scheduling pass.
LEMMA PassUpdates ==
  ASSUME NEW r \in Pass
  PROVE  /\ \A s \in PassPc : [r EXCEPT !.pc = s] \in Pass
         /\ \A u \in Tasks \cup {NoTask} : [r EXCEPT !.task = u] \in Pass
         /\ \A S \in SUBSET Tasks : [r EXCEPT !.seen = S] \in Pass
         /\ \A S \in SUBSET Tasks : [r EXCEPT !.view = S] \in Pass
         /\ \A S \in SUBSET Tasks : [r EXCEPT !.ids = S] \in Pass
         /\ \A b \in BOOLEAN : [r EXCEPT !.quar = b] \in Pass
  BY DEF Pass

\* An unblockDependents() in flight.
LEMMA UnblockingUpdates ==
  ASSUME NEW r \in Unblocking
  PROVE  /\ \A s \in {"idle", "scan", "loop", "refresh"} : [r EXCEPT !.pc = s] \in Unblocking
         /\ \A u \in Tasks \cup {NoTask} : [r EXCEPT !.cur = u] \in Unblocking
         /\ \A S \in SUBSET Tasks : [r EXCEPT !.ids = S] \in Unblocking
         /\ \A S \in SUBSET Tasks : [r EXCEPT !.seen = S] \in Unblocking
         /\ \A b \in BOOLEAN : [r EXCEPT !.quar = b] \in Unblocking
         /\ \A b \in BOOLEAN : [r EXCEPT !.kick = b] \in Unblocking
  BY DEF Unblocking

\* The recovery scan.
LEMMA RecoveryUpdates ==
  ASSUME NEW r \in Recovery
  PROVE  /\ \A s \in {"idle", "stat", "claims", "rows"} : [r EXCEPT !.pc = s] \in Recovery
         /\ \A S \in SUBSET Tasks : [r EXCEPT !.todo = S] \in Recovery
         /\ \A S \in SUBSET Tasks : [r EXCEPT !.bad = S] \in Recovery
         /\ \A u \in Tasks \cup {NoTask} : [r EXCEPT !.cur = u] \in Recovery
  BY DEF Recovery

\* The concurrency guard: what onTaskStart() and onTaskComplete() return.
LEMMA GuardStart ==
  ASSUME NEW g \in Guard, NEW cf \in Config
  PROVE  /\ OnTaskStart(g, cf) \in Guard
         /\ OnTaskStart(g, cf).runningCount = g.runningCount + 1
<1> DEFINE h == [g EXCEPT !.runningCount = @ + 1]
<1>1. h \in Guard /\ h.runningCount = g.runningCount + 1
  BY DEF Guard
<1>2. cf.cooldown \in BOOLEAN
  BY Zenon DEF Config
<1>3. \A b \in BOOLEAN : [h EXCEPT !.cooling = b] \in Guard
                         /\ [h EXCEPT !.cooling = b].runningCount = h.runningCount
  BY <1>1 DEF Guard
<1>4. OnTaskStart(g, cf) = [h EXCEPT !.cooling = cf.cooldown]
  BY Zenon DEF OnTaskStart
<1> QED
  BY <1>1, <1>2, <1>3, <1>4, Zenon

\* onTaskComplete() gives n lanes back, never below zero.
LEMMA GuardComplete ==
  ASSUME NEW g \in Guard, NEW n \in Nat, NEW tips \in BOOLEAN
  PROVE  /\ OnTaskComplete(g, n, tips) \in Guard
         /\ OnTaskComplete(g, n, tips).runningCount =
              IF g.runningCount >= n THEN g.runningCount - n ELSE 0
<1> DEFINE h == [g EXCEPT !.runningCount = IF @ >= n THEN @ - n ELSE 0]
<1>1. h \in Guard
  BY DEF Guard
<1>2. (h.exhausted \/ tips) \in BOOLEAN
  BY <1>1, Zenon DEF Guard
<1>3. [h EXCEPT !.exhausted = h.exhausted \/ tips] \in Guard
  BY <1>1, <1>2 DEF Guard
<1>4. g.exhausted = h.exhausted
  BY DEF Guard
<1>5. OnTaskComplete(g, n, tips) = [h EXCEPT !.exhausted = g.exhausted \/ tips]
  BY Zenon DEF OnTaskComplete
<1>6. OnTaskComplete(g, n, tips) \in Guard
  BY <1>3, <1>4, <1>5, Zenon
<1> QED
  BY <1>6, SMT DEF OnTaskComplete, Guard

\* The constant records have their types.
LEMMA ConstantRecords ==
  /\ NewItem \in Item /\ NoRow \in DiskRow /\ IdlePass \in Pass
  /\ NoEnrichment \in Enrichment /\ NoUnblocking \in Unblocking /\ NoRecovery \in Recovery
<1>1. NewItem \in DiskRow
  BY DEF NewItem, DiskRow, Status
<1>2. NoRow \in DiskRow
  BY <1>1, DiskUpdates DEF NoRow
<1> QED
  BY <1>2 DEF NewItem, Item, Status, IdlePass, Pass, PassPc, NoEnrichment, Enrichment,
      NoUnblocking, Unblocking, NoRecovery, Recovery

\* An item is a persisted row too.
LEMMA ItemIsRow == Item \subseteq DiskRow
  BY DEF Item, DiskRow

\* A resumed row keeps its type, in memory and on disk.
LEMMA ResumedType ==
  ASSUME NEW s \in Status
  PROVE  /\ \A r \in Item : Resumed(r, s) \in Item
         /\ \A r \in DiskRow : Resumed(r, s) \in DiskRow
  BY ItemUpdates, DiskUpdates DEF Resumed

-----------------------------------------------------------------------------
(* The types of the helpers.                                               *)

\* scheduleNext() keeps the number of waiting passes in bounds.
LEMMA KickedType ==
  ASSUME TypeOK, NEW r, NEW q
  PROVE  Kicked(r, q) \in 0..MaxKicks
  BY BoundsAssumption DEF TypeOK, Kicked

\* The same, for a step known only to add at most one pass.
LEMMA KickStep ==
  ASSUME TypeOK, kicks' = kicks \/ (kicks < MaxKicks /\ kicks' = kicks + 1)
  PROVE  kicks' \in 0..MaxKicks
  BY BoundsAssumption DEF TypeOK

\* The conjunct of TypeOK about the loop timeouts.
ClockType == loopTimer \in BOOLEAN /\ timers \in 0..MaxTimers /\ (loopTimer => timers > 0)

\* Clearing the tracked timeout never makes the count of timeouts negative.
LEMMA ClearLoopTimerType == ASSUME TypeOK, ClearLoopTimer PROVE ClockType'
<1>1. timers \in 0..MaxTimers /\ (loopTimer => timers > 0)
  BY DEF TypeOK
<1>2. loopTimer' = FALSE /\ timers' = IF loopTimer THEN timers - 1 ELSE timers
  BY DEF ClearLoopTimer
<1>3. timers' \in 0..MaxTimers
  BY <1>1, <1>2, BoundsAssumption
<1> QED
  BY <1>2, <1>3 DEF ClockType

\* Setting a timeout keeps the clock type.
LEMMA SetLoopTimerType == ASSUME TypeOK, SetLoopTimer PROVE ClockType'
  BY BoundsAssumption DEF TypeOK, SetLoopTimer, ClockType

\* A status line keeps the persisted rows typed.
LEMMA LoggedType ==
  ASSUME NEW d \in [Tasks -> DiskRow], NEW t, NEW s \in Status
  PROVE  Logged(d, t, s) \in [Tasks -> DiskRow]
  BY DiskUpdates DEF Logged

\* The row an enqueue line describes.
LEMMA LoggedRowType == ASSUME NEW r \in Item PROVE LoggedRow(r) \in DiskRow
<1>1. r \in DiskRow
  BY ItemIsRow
<1>2. [r EXCEPT !.status = "queued"] \in DiskRow
  BY <1>1, DiskUpdates DEF Status
<1> QED
  BY <1>2, DiskUpdates DEF LoggedRow

\* A snapshot is a persisted row for every task.
LEMMA CompactionType == ASSUME TypeOK, NEW d \in Compactions PROVE d \in [Tasks -> DiskRow]
  BY ItemIsRow, ConstantRecords DEF TypeOK, Compactions

\* handleTaskFailure() keeps the rows, the pause flag and the clocks typed.
LEMMA FailureType ==
  ASSUME TypeOK, NEW t \in Tasks, HandleTaskFailure(t)
  PROVE  /\ item' \in [Tasks -> Item] /\ disk' \in [Tasks -> DiskRow]
         /\ paused' \in BOOLEAN /\ ClockType'
<1>1. \A u, B, S : \A s \in Status : AfterFailure(t, u, B, S, s) \in Status
  BY DEF AfterFailure, Status
<1>2. \A u \in Tasks : item[u].status \in Status /\ item[u] \in Item
  BY DEF TypeOK, Item
<1>3. \A u \in Tasks : disk[u] \in DiskRow /\ (disk[u].status # Absent => disk[u].status \in Status)
  BY DEF TypeOK, DiskRow
<1>4. item' \in [Tasks -> Item]
  BY <1>1, <1>2, ItemUpdates DEF HandleTaskFailure
<1>5. disk' \in [Tasks -> DiskRow]
  BY <1>1, <1>3, DiskUpdates DEF HandleTaskFailure
<1>6. ClockType'
  BY ClearLoopTimerType DEF HandleTaskFailure, TypeOK, ClockType, clocks
<1>7. paused' \in BOOLEAN
  BY DEF HandleTaskFailure
<1> QED
  BY <1>4, <1>5, <1>6, <1>7

\* stop() leaves a job state.
LEMMA LaneStopsType ==
  ASSUME TypeOK, NEW t \in Tasks, NEW res \in LaneStops(t)
  PROVE  res[2] \in JobState
<1>1. CASE AlreadyStopped(t)
  BY <1>1 DEF LaneStops, TypeOK
<1>2. CASE ~AlreadyStopped(t)
  BY <1>2 DEF LaneStops, StopResults
<1> QED
  BY <1>1, <1>2

\* Tips is a set of answers.
LEMMA TipsType == Tips \subseteq BOOLEAN
  BY DEF Tips

\* resolveDependencies() answers with task ids.
LEMMA UnmetType ==
  ASSUME NEW t \in Tasks, NEW S \in SUBSET Tasks
  PROVE  Unmet(t, S) \subseteq Tasks /\ Satisfiers(t, S) \subseteq Tasks
  BY TasksAssumption DEF Unmet, Satisfiers

\* One readiness visit keeps the rows typed.
LEMMA RefreshType ==
  ASSUME TypeOK, NEW t \in Tasks, NEW view \in SUBSET Tasks, NEW ids \in SUBSET Tasks,
         NEW quar, ApplyRefresh(t, view, ids, quar)
  PROVE  item' \in [Tasks -> Item] /\ disk' \in [Tasks -> DiskRow]
<1>1. Unmet(t, view) \subseteq Tasks
  BY UnmetType
<1>2. item[t] \in Item /\ item[t].status \in Status
  BY DEF TypeOK, Item
<1>3. "queued" \in Status /\ "ready" \in Status
  BY DEF Status
<1>4. [item[t] EXCEPT !.blockedBy = Unmet(t, view)] \in Item
  BY <1>1, <1>2, ItemUpdates
<1> DEFINE x == [[item[t] EXCEPT !.dup = {}] EXCEPT !.blockedBy = Unmet(t, view)]
<1>5. x \in Item
  BY <1>1, <1>2, ItemUpdates
<1>6. [x EXCEPT !.status = IF item[t].status = "blocked" THEN "queued" ELSE item[t].status] \in Item
  BY <1>2, <1>3, <1>5, ItemUpdates
<1>7. \A r \in Item : [r EXCEPT !.status = "ready"] \in Item
  BY <1>3, ItemUpdates
<1>8. [[item[t] EXCEPT !.blockedBy = Unmet(t, view) \cup ((ids \cap contested) \ {t})]
         EXCEPT !.dup = ids \cap contested] \in Item
  BY <1>1, <1>2, ItemUpdates
<1>9. Refreshed(t, view, ids, quar) \in Item
  BY <1>4, <1>6, <1>7, <1>8 DEF Refreshed
<1> QED
  BY <1>3, <1>9, LoggedType DEF ApplyRefresh, TypeOK

\* One unblocking visit keeps the rows typed.
LEMMA UnblockType ==
  ASSUME TypeOK, NEW c \in Tasks, NEW t \in Tasks, NEW row \in Item, NEW left \in SUBSET Tasks,
         ApplyUnblock(c, t, row, left)
  PROVE  item' \in [Tasks -> Item] /\ disk' \in [Tasks -> DiskRow]
<1>1. "queued" \in Status /\ "ready" \in Status /\ row.status \in Status
  BY DEF Status, Item
<1>2. [row EXCEPT !.dup = left] \in Item
  BY ItemUpdates
<1>3. \A r \in Item : [r EXCEPT !.status = "ready"] \in Item
  BY <1>1, ItemUpdates
<1>4. [[row EXCEPT !.dup = left] EXCEPT
        !.status = IF left = {} /\ row.status = "blocked" THEN "queued" ELSE row.status] \in Item
  BY <1>1, <1>2, ItemUpdates
<1>5. Unblocked(row, left) \in Item
  BY <1>3, <1>4 DEF Unblocked
<1>6. [disk EXCEPT ![t].blockedBy = @ \ {c}] \in [Tasks -> DiskRow]
<2>1. disk \in [Tasks -> DiskRow] /\ disk[t].blockedBy \ {c} \in SUBSET Tasks
  BY DEF TypeOK, DiskRow
<2>2. [disk[t] EXCEPT !.blockedBy = @ \ {c}] \in DiskRow
  BY <2>1, DiskUpdates
<2> QED
  BY <2>1, <2>2
<1>7. item' \in [Tasks -> Item]
  BY <1>5 DEF ApplyUnblock, TypeOK
<1>8. disk' \in [Tasks -> DiskRow]
  BY <1>1, <1>6, LoggedType DEF ApplyUnblock
<1> QED
  BY <1>7, <1>8

\* An enrichment keeps what it writes typed.
LEMMA EnrichType ==
  ASSUME TypeOK, NEW t \in Tasks, NEW view \in SUBSET Tasks, Enrich(t, view)
  PROVE  /\ item' \in [Tasks -> Item] /\ disk' \in [Tasks -> DiskRow]
         /\ enr' \in [Tasks -> Enrichment] /\ rec' \in Recovery /\ kicks' \in 0..MaxKicks
<1> DEFINE bad   == Satisfiers(t, view) \cap contested
           unmet == Unmet(t, view) \cup bad
<1>1. bad \subseteq Tasks /\ unmet \subseteq Tasks
  BY UnmetType
<1>2. item[t] \in Item /\ item[t].status \in Status /\ "ready" \in Status
  BY DEF TypeOK, Item, Status
<1>3. [item[t] EXCEPT !.prio = Priority[t]] \in Item
  BY <1>2, ItemUpdates, TasksAssumption
<1>4. [[[item[t] EXCEPT !.prio = Priority[t]] EXCEPT !.blockedBy = unmet] EXCEPT !.dup = bad]
        \in Item
  BY <1>1, <1>3, ItemUpdates
<1>5. \A s \in Status :
        [[[[item[t] EXCEPT !.prio = Priority[t]] EXCEPT !.blockedBy = unmet] EXCEPT !.dup = bad]
           EXCEPT !.status = s] \in Item
  BY <1>4, ItemUpdates
<1>6. item' \in [Tasks -> Item]
<2>1. item \in [Tasks -> Item]
  BY DEF TypeOK
<2>2. Enriched(t, view) \in Item
  BY <1>2, <1>5 DEF Enriched
<2> QED
  BY <2>1, <2>2 DEF Enrich
<1>7. disk' \in [Tasks -> DiskRow]
  BY <1>2, LoggedType DEF Enrich, TypeOK
<1>8. enr' \in [Tasks -> Enrichment]
  BY ConstantRecords DEF Enrich, TypeOK
<1>9. rec' \in Recovery
<2>1. rec.todo \ {t} \in SUBSET Tasks /\ rec \in Recovery
  BY DEF TypeOK, Recovery
<2>2. [rec EXCEPT !.cur = NoTask] \in Recovery
  BY <2>1, RecoveryUpdates
<2>3. [[rec EXCEPT !.cur = NoTask] EXCEPT !.todo = rec.todo \ {t}] \in Recovery
  BY <2>1, <2>2, RecoveryUpdates
<2> QED
  BY <2>1, <2>3 DEF Enrich, AfterEnrichment
<1>10. kicks' \in 0..MaxKicks
  BY KickedType DEF Enrich, AfterEnrichment, TypeOK
<1> QED
  BY <1>6, <1>7, <1>8, <1>9, <1>10

\* start() keeps what it writes typed.
LEMMA CallStartType ==
  ASSUME TypeOK, NEW b \in BOOLEAN, CallStart(b)
  PROVE  /\ running' \in BOOLEAN /\ paused' \in BOOLEAN /\ kicks' \in 0..MaxKicks
         /\ waiters' \subseteq {"start", "resume"} /\ rec' \in Recovery
<1>1. [NoRecovery EXCEPT !.pc = "stat"] \in Recovery
  BY RecoveryUpdates, ConstantRecords
<1>2. kicks' \in 0..MaxKicks
<2>1. kicks \in 0..MaxKicks
  BY DEF TypeOK
<2>2. kicks' = kicks \/ (kicks < MaxKicks /\ kicks' = kicks + 1)
  BY Zenon DEF CallStart, StartBody, Kicked
<2> QED
  BY <2>1, <2>2, BoundsAssumption
<1>3. waiters' \subseteq {"start", "resume"} /\ rec' \in Recovery
  BY <1>1 DEF CallStart, EnsureRecoveryScan, TypeOK
<1>4. running' \in BOOLEAN /\ paused' \in BOOLEAN
<2>1. running \in BOOLEAN /\ paused \in BOOLEAN
  BY DEF TypeOK
<2>2. CASE HasRecoveredPendingRows
  BY <2>1, <2>2 DEF CallStart
<2>3. CASE ~HasRecoveredPendingRows
<3>1. running' = (running \/ ~b) /\ paused' = (IF running THEN paused ELSE FALSE)
  BY <2>3 DEF CallStart, StartBody
<3> QED
  BY <2>1, <3>1
<2> QED
  BY <2>2, <2>3
<1> QED
  BY <1>2, <1>3, <1>4

-----------------------------------------------------------------------------
(* Every action keeps the types: one lemma per action.                       *)

\* Start keeps every variable in its type.
LEMMA StartType == ASSUME TypeOK, Start PROVE TypeOK'
<1>1. running' \in BOOLEAN /\ paused' \in BOOLEAN /\ kicks' \in 0..MaxKicks
      /\ waiters' \subseteq {"start", "resume"} /\ rec' \in Recovery
  BY CallStartType DEF Start
<1>2. disk' \in [Tasks -> DiskRow]
  BY CompactionType DEF TypeOK, Start
<1> QED
  BY <1>1, <1>2 DEF TypeOK, Start, clocks, lanes, manager, views, history

\* Pause keeps every variable in its type.
LEMMA PauseType == ASSUME TypeOK, Pause PROVE TypeOK'
<1>1. ClockType'
  BY ClearLoopTimerType DEF Pause
<1> QED
  BY <1>1 DEF TypeOK, Pause, ClockType, rows, lanes, threads, manager, views, history

\* Resume keeps every variable in its type.
LEMMA ResumeType == ASSUME TypeOK, Resume PROVE TypeOK'
<1>1. kicks' \in 0..MaxKicks
<2>1. kicks' = kicks \/ (kicks < MaxKicks /\ kicks' = kicks + 1)
  BY Zenon DEF Kicked, Resume, ResumeBody
<2> QED
  BY <2>1, KickStep
<1>2. waiters' \subseteq {"start", "resume"}
  BY DEF TypeOK, Resume
<1>3. [NoRecovery EXCEPT !.pc = "stat"] \in Recovery
  BY RecoveryUpdates, ConstantRecords
<1>4. rec' \in Recovery
  BY <1>3 DEF TypeOK, Resume, EnsureRecoveryScan
<1>5. paused' \in BOOLEAN
  BY DEF TypeOK, Resume, ResumeBody
<1> QED
  BY <1>1, <1>2, <1>3, <1>4, <1>5 DEF TypeOK, Resume, clocks, rows, lanes, manager, views,
     history

\* Stop keeps every variable in its type.
LEMMA StopType == ASSUME TypeOK, Stop PROVE TypeOK'
<1>1. ClockType'
  BY ClearLoopTimerType DEF Stop
<1> QED
  BY <1>1 DEF TypeOK, Stop, ClockType, rows, lanes, threads, manager, views, history

\* Abort keeps every variable in its type.
LEMMA AbortType == ASSUME TypeOK, Abort PROVE TypeOK'
<1>1. ClockType'
  BY ClearLoopTimerType DEF Abort
<1>2. item' \in [Tasks -> Item] /\ disk' \in [Tasks -> DiskRow]
<2>1. \A u \in Tasks : /\ item[u] \in Item /\ [item[u] EXCEPT !.status = "stopped"] \in Item
                       /\ disk[u] \in DiskRow /\ [disk[u] EXCEPT !.status = "stopped"] \in DiskRow
  BY ItemUpdates, DiskUpdates DEF TypeOK, Status
<2>2. PICK S : /\ item' = [u \in Tasks |-> IF u \in S
                       THEN [item[u] EXCEPT !.status = "stopped"] ELSE item[u]]
               /\ disk' = [u \in Tasks |-> IF u \in S /\ disk[u].status # Absent
                       THEN [disk[u] EXCEPT !.status = "stopped"] ELSE disk[u]]
  BY Zenon DEF Abort
<2> QED
  BY <2>1, <2>2
<1>3. job' \in [Tasks -> JobState]
  BY LaneStopsType DEF TypeOK, Lanes, Abort
<1>4. guard' \in Guard
<2>1. PICK res \in [Lanes -> BOOLEAN \X JobState], tips \in Tips :
        LET done == {t \in Lanes : res[t][1]}
        IN  guard' = OnTaskComplete(guard, Cardinality(done), tips /\ done # {})
  BY DEF Abort
<2> DEFINE done == {t \in Lanes : res[t][1]}
<2>2. Cardinality(done) \in Nat
<3>1. done \subseteq Tasks /\ IsFiniteSet(Tasks)
  BY TasksAssumption DEF Lanes, TypeOK
<3> QED
  BY <3>1, FS_Subset, FS_CardinalityType
<2>3. (tips /\ done # {}) \in BOOLEAN
  BY Zenon
<2>4. guard \in Guard
  BY DEF TypeOK
<2> QED
  BY <2>1, <2>2, <2>3, <2>4, GuardComplete
<1>5. polls' \subseteq Tasks
  BY DEF TypeOK, Lanes, Abort
<1> QED
  BY <1>1, <1>2, <1>3, <1>4, <1>5 DEF TypeOK, Abort, ClockType, threads, views, history

\* UpdateConfig keeps every variable in its type.
LEMMA UpdateConfigType == ASSUME TypeOK, UpdateConfig PROVE TypeOK'
<1> QED
  BY DEF TypeOK, UpdateConfig, clocks, rows, lanes, threads, manager, views, history

\* Enqueue keeps every variable in its type.
LEMMA EnqueueType == ASSUME NEW t \in Tasks, TypeOK, Enqueue(t) PROVE TypeOK'
<1>1. item' \in [Tasks -> Item]
  BY ConstantRecords DEF TypeOK, Enqueue
<1>2. disk' \in [Tasks -> DiskRow]
  BY LoggedRowType, ConstantRecords DEF TypeOK, Enqueue
<1>3. [NoEnrichment EXCEPT !.pc = "list"] \in Enrichment
  BY DEF NoEnrichment, Enrichment
<1>4. enr' \in [Tasks -> Enrichment]
  BY <1>3 DEF TypeOK, Enqueue
<1>5. pass' \in [Slots -> Pass]
<2>1. \A q \in Slots : pass[q] \in Pass /\ pass[q].seen \ {t} \in SUBSET Tasks
  BY DEF TypeOK, Pass
<2> QED
  BY <2>1, PassUpdates DEF Enqueue, Appended
<1>6. unb' \in [Tasks -> Unblocking]
<2>1. \A u \in Tasks : unb[u] \in Unblocking /\ unb[u].seen \ {t} \in SUBSET Tasks
  BY DEF TypeOK, Unblocking
<2> QED
  BY <2>1, UnblockingUpdates DEF Enqueue, Appended
<1>7. \A q \in Slots : pass'[q].task = NoTask => pass'[q].pc \in {"idle", "visit"}
  BY DEF TypeOK, Enqueue, Appended, Pass
<1>8. ASSUME NEW u \in Tasks PROVE unb'[u].cur = NoTask => unb'[u].pc # "refresh"
<2>1. unb[u] \in Unblocking /\ (unb[u].cur = NoTask => unb[u].pc # "refresh")
  BY DEF TypeOK
<2>2. unb'[u] = [unb[u] EXCEPT !.seen = @ \ {t}]
  BY DEF Enqueue, Appended
<2> QED
  BY <2>1, <2>2 DEF Unblocking
<1>9. running' \in BOOLEAN /\ paused' \in BOOLEAN /\ kicks' \in 0..MaxKicks
      /\ waiters' \subseteq {"start", "resume"} /\ rec' \in Recovery
<2>1. CASE CallStart(FALSE)
  BY <2>1, CallStartType
<2>2. CASE ~CallStart(FALSE)
<3>1. kicks' = Kicked(running, paused) /\ UNCHANGED <<running, paused, waiters, rec>>
  BY <2>2, Zenon DEF Enqueue
<3> QED
  BY <3>1, KickedType DEF TypeOK
<2> QED
  BY <2>1, <2>2
<1> QED
  BY <1>1, <1>2, <1>3, <1>4, <1>5, <1>6, <1>7, <1>8, <1>9 DEF TypeOK, Enqueue,
     clocks, lanes, manager, views, history

\* Cancel keeps every variable in its type.
LEMMA CancelType == ASSUME NEW t \in Tasks, TypeOK, Cancel(t) PROVE TypeOK'
<1>1. item' \in [Tasks -> Item]
  BY ItemUpdates DEF TypeOK, Status, Cancel, SetStatus
<1>2. disk' \in [Tasks -> DiskRow]
  BY LoggedType DEF TypeOK, Status, Cancel
<1>3. guard' \in Guard
<2>1. guard \in Guard /\ 1 \in Nat
  BY DEF TypeOK
<2> QED
  BY <2>1, GuardComplete, TipsType DEF Cancel
<1>4. polls' \subseteq Tasks
  BY DEF TypeOK, Cancel
<1>5. job' \in [Tasks -> JobState]
  BY LaneStopsType DEF TypeOK, Cancel
<1> QED
  BY <1>1, <1>2, <1>3, <1>4, <1>5 DEF TypeOK, Cancel, lifecycle, clocks, threads,
     views, history

\* CancelUnconfirmed keeps every variable in its type.
LEMMA CancelUnconfirmedType ==
  ASSUME NEW t \in Tasks, TypeOK, CancelUnconfirmed(t)
  PROVE  TypeOK'
<1>1. job' \in [Tasks -> JobState]
  BY LaneStopsType DEF TypeOK, CancelUnconfirmed
<1> QED
  BY <1>1 DEF TypeOK, CancelUnconfirmed, lifecycle, clocks, rows, threads, views, history

\* Retry keeps every variable in its type.
LEMMA RetryType == ASSUME NEW t \in Tasks, TypeOK, Retry(t) PROVE TypeOK'
<1>1. item' \in [Tasks -> Item]
  BY ItemUpdates DEF TypeOK, Status, Retry, SetStatus
<1>2. disk' \in [Tasks -> DiskRow]
  BY LoggedRowType DEF TypeOK, Retry
<1>3. kicks' \in 0..MaxKicks
  BY KickedType DEF Retry
<1>4. retries' \in 0..MaxRetries
  BY BoundsAssumption DEF TypeOK, Retry
<1> QED
  BY <1>1, <1>2, <1>3, <1>4 DEF TypeOK, Retry, lifecycle, clocks, lanes, threads, manager,
     views

\* Remove keeps every variable in its type.
LEMMA RemoveType == ASSUME NEW t \in Tasks, TypeOK, Remove(t) PROVE TypeOK'
  BY DEF TypeOK, Remove, lifecycle, clocks, lanes, threads, manager, views, history

\* Approve keeps every variable in its type.
LEMMA ApproveType == ASSUME NEW t \in Tasks, TypeOK, Approve(t) PROVE TypeOK'
<1>1. "running" \in Status
  BY DEF Status
<1>2. item' \in [Tasks -> Item]
  BY <1>1, ResumedType DEF TypeOK, Approve
<1>3. disk' \in [Tasks -> DiskRow]
  BY <1>1, ResumedType DEF TypeOK, Approve
<1>4. job' \in [Tasks -> JobState]
  BY DEF TypeOK, JobState, Approve
<1> QED
  BY <1>1, <1>2, <1>3, <1>4 DEF TypeOK, Approve, lifecycle, clocks, lanes, threads, views,
     history

\* ApproveStartThrows keeps every variable in its type.
LEMMA ApproveStartThrowsType ==
  ASSUME NEW t \in Tasks, TypeOK, ApproveStartThrows(t)
  PROVE  TypeOK'
<1>1. "ready" \in Status
  BY DEF Status
<1>2. item' \in [Tasks -> Item] /\ disk' \in [Tasks -> DiskRow]
<2>1. item \in [Tasks -> Item] /\ disk \in [Tasks -> DiskRow]
  BY DEF TypeOK
<2>2. CASE ResumesRow(t)
<3>1. /\ item' = [item EXCEPT ![t] = Resumed(@, "ready")]
      /\ disk' = [disk EXCEPT ![t] = IF @.status = Absent THEN @ ELSE Resumed(@, "ready")]
  BY <2>2, Zenon DEF ApproveStartThrows
<3> QED
  BY <1>1, <2>1, <3>1, ResumedType
<2>3. CASE ~ResumesRow(t)
  BY <2>1, <2>3 DEF ApproveStartThrows
<2> QED
  BY <2>2, <2>3
<1>3. job' \in [Tasks -> JobState]
  BY DEF TypeOK, JobState, ApproveStartThrows
<1>4. guard' \in Guard
<2>1. guard \in Guard /\ 1 \in Nat
  BY DEF TypeOK
<2> QED
  BY <2>1, GuardComplete, TipsType DEF ApproveStartThrows
<1>5. kicks' \in 0..MaxKicks
<2>1. kicks' = kicks \/ (kicks < MaxKicks /\ kicks' = kicks + 1)
  BY Zenon DEF Kicked, ApproveStartThrows
<2> QED
  BY <2>1, KickStep
<1>6. polls' \subseteq Tasks
  BY DEF TypeOK, ApproveStartThrows
<1> QED
  BY <1>1, <1>2, <1>3, <1>4, <1>5, <1>6 DEF TypeOK, ApproveStartThrows, lifecycle, clocks,
     threads, views, history

\* Reject keeps every variable in its type.
LEMMA RejectType == ASSUME NEW t \in Tasks, TypeOK, Reject(t) PROVE TypeOK'
<1>1. item' \in [Tasks -> Item] /\ disk' \in [Tasks -> DiskRow] /\ paused' \in BOOLEAN /\ ClockType'
  BY FailureType DEF TypeOK, ClockType, clocks, Reject
<1>2. job' \in [Tasks -> JobState]
  BY DEF TypeOK, JobState, Reject
<1>3. guard' \in Guard
<2>1. guard \in Guard /\ 1 \in Nat
  BY DEF TypeOK
<2> QED
  BY <2>1, GuardComplete, TipsType DEF Reject
<1>4. kicks' \in 0..MaxKicks
<2>1. kicks' = kicks \/ (kicks < MaxKicks /\ kicks' = kicks + 1)
  BY Zenon DEF Kicked, Reject
<2> QED
  BY <2>1, KickStep
<1>5. polls' \subseteq Tasks
  BY DEF TypeOK, Reject
<1> QED
  BY <1>1, <1>2, <1>3, <1>4, <1>5 DEF TypeOK, Reject, ClockType, clocks, threads, views,
     history

\* ExternalCompletion keeps every variable in its type.
LEMMA ExternalCompletionType ==
  ASSUME NEW c \in Tasks, TypeOK, ExternalCompletion(c)
  PROVE  TypeOK'
<1>1. [NoUnblocking EXCEPT !.pc = "scan"] \in Unblocking
  BY UnblockingUpdates, ConstantRecords
<1>2. unb' \in [Tasks -> Unblocking]
  BY <1>1 DEF TypeOK, ExternalCompletion
<1>3. [NoUnblocking EXCEPT !.pc = "scan"].pc = "scan"
  BY ConstantRecords DEF Unblocking
<1>4. \A u \in Tasks : unb'[u].cur = NoTask => unb'[u].pc # "refresh"
  BY <1>1, <1>3 DEF TypeOK, ExternalCompletion
<1> QED
  BY <1>1, <1>2, <1>3, <1>4 DEF TypeOK, ExternalCompletion, lifecycle, clocks, rows, lanes,
     manager, history

\* StartOutside keeps every variable in its type.
LEMMA StartOutsideType == ASSUME NEW t \in Tasks, TypeOK, StartOutside(t) PROVE TypeOK'
<1>1. job' \in [Tasks -> JobState]
  BY DEF TypeOK, JobState, StartOutside
<1> QED
  BY <1>1 DEF TypeOK, StartOutside, lifecycle, clocks, rows, lanes, threads, views, history

\* RecoveryUnavailable keeps every variable in its type.
LEMMA RecoveryUnavailableType == ASSUME TypeOK, RecoveryUnavailable PROVE TypeOK'
<1>1. rec' \in Recovery
  BY ConstantRecords DEF RecoveryUnavailable
<1> QED
  BY <1>1 DEF TypeOK, RecoveryUnavailable, lifecycle, clocks, rows, lanes, manager, views,
     history

\* RecoveryListed keeps every variable in its type.
LEMMA RecoveryListedType == ASSUME TypeOK, RecoveryListed PROVE TypeOK'
<1>1. /\ {u \in mapped : item[u].status = "recovered_pending_scan"} \in SUBSET Tasks
      /\ [rec EXCEPT !.pc = "claims"] \in Recovery
  BY RecoveryUpdates DEF TypeOK
<1>2. rec' \in Recovery
  BY <1>1, RecoveryUpdates DEF RecoveryListed
<1> QED
  BY <1>1, <1>2 DEF TypeOK, RecoveryListed, lifecycle, clocks, rows, lanes, manager, views,
     history

\* RecoveryScanned keeps every variable in its type.
LEMMA RecoveryScannedType == ASSUME TypeOK, RecoveryScanned PROVE TypeOK'
<1>1. rec.todo \cap contested \in SUBSET Tasks /\ [rec EXCEPT !.pc = "rows"] \in Recovery
  BY RecoveryUpdates DEF TypeOK
<1>2. rec' \in Recovery
  BY <1>1, RecoveryUpdates DEF RecoveryScanned
<1> QED
  BY <1>1, <1>2 DEF TypeOK, RecoveryScanned, lifecycle, clocks, rows, lanes, manager,
     views, history

\* RecoveryDone keeps every variable in its type.
LEMMA RecoveryDoneType == ASSUME TypeOK, RecoveryDone PROVE TypeOK'
<1>1. rec' \in Recovery
  BY ConstantRecords DEF RecoveryDone
<1> QED
  BY <1>1 DEF TypeOK, RecoveryDone, lifecycle, clocks, rows, lanes, manager, views, history

\* StartContinues keeps every variable in its type.
LEMMA StartContinuesType == ASSUME TypeOK, StartContinues PROVE TypeOK'
<1>1. kicks' \in 0..MaxKicks
<2>1. kicks \in 0..MaxKicks
  BY DEF TypeOK
<2>2. kicks' = kicks \/ (kicks < MaxKicks /\ kicks' = kicks + 1)
  BY Zenon DEF StartContinues, StartBody, Kicked
<2> QED
  BY <2>1, <2>2, BoundsAssumption
<1>2. running' \in BOOLEAN /\ paused' \in BOOLEAN
<2>1. running \in BOOLEAN /\ paused \in BOOLEAN
  BY DEF TypeOK
<2>2. running' = (running \/ ~(mapped = {})) /\ paused' = (IF running THEN paused ELSE FALSE)
  BY DEF StartContinues, StartBody
<2> QED
  BY <2>1, <2>2
<1>3. disk' \in [Tasks -> DiskRow]
  BY CompactionType DEF TypeOK, StartContinues
<1>4. waiters' \subseteq {"start", "resume"}
  BY DEF TypeOK, StartContinues
<1> QED
  BY <1>1, <1>2, <1>3, <1>4 DEF TypeOK, StartContinues, clocks, lanes, manager, views,
     history

\* ResumeContinues keeps every variable in its type.
LEMMA ResumeContinuesType == ASSUME TypeOK, ResumeContinues PROVE TypeOK'
<1>1. kicks' \in 0..MaxKicks
  BY KickedType DEF ResumeContinues, ResumeBody
<1>2. waiters' \subseteq {"start", "resume"}
  BY DEF TypeOK, ResumeContinues
<1>3. paused' \in BOOLEAN
  BY DEF ResumeContinues, ResumeBody
<1> QED
  BY <1>1, <1>2, <1>3 DEF TypeOK, ResumeContinues, clocks, rows, lanes, manager, views,
     history

\* RecoverRow keeps every variable in its type.
LEMMA RecoverRowType == ASSUME NEW t \in Tasks, TypeOK, RecoverRow(t) PROVE TypeOK'
<1>1. "blocked" \in Status /\ "queued" \in Status
  BY DEF Status
<1>2. item' \in [Tasks -> Item]
<2>1. item \in [Tasks -> Item] /\ {t} \in SUBSET Tasks /\ {} \in SUBSET Tasks
  BY DEF TypeOK
<2>2. \A s \in Status : [item[t] EXCEPT !.status = s] \in Item
  BY <2>1, ItemUpdates
<2>3. /\ [item[t] EXCEPT !.status = "blocked", !.dup = {t}] \in Item
      /\ [item[t] EXCEPT !.status = "queued", !.dup = {}] \in Item
  BY <1>1, <2>1, <2>2, ItemUpdates
<2> QED
  BY <2>1, <2>3 DEF RecoverRow
<1>3. [NoEnrichment EXCEPT !.pc = "list"] \in Enrichment
  BY DEF NoEnrichment, Enrichment
<1>4. enr' \in [Tasks -> Enrichment]
  BY <1>3 DEF TypeOK, RecoverRow
<1>5. rec \in Recovery /\ rec.todo \ {t} \in SUBSET Tasks
  BY DEF TypeOK, Recovery
<1>6. [rec EXCEPT !.todo = @ \ {t}] \in Recovery /\ [rec EXCEPT !.cur = t] \in Recovery
  BY <1>5, RecoveryUpdates
<1>7. rec' \in Recovery
  BY <1>6 DEF RecoverRow
<1> QED
  BY <1>1, <1>2, <1>3, <1>4, <1>5, <1>6, <1>7 DEF TypeOK, RecoverRow, lifecycle, clocks,
     lanes, manager, views, history

\* TimerFires keeps every variable in its type.
LEMMA TimerFiresType == ASSUME TypeOK, TimerFires PROVE TypeOK'
<1>1. ClockType'
<2>1. timers \in 0..MaxTimers /\ timers > 0 /\ timers' = timers - 1 /\ loopTimer' = FALSE
  BY DEF TypeOK, TimerFires
<2>2. timers' \in 0..MaxTimers
  BY <2>1, BoundsAssumption
<2> QED
  BY <2>1, <2>2 DEF ClockType
<1>2. kicks' \in 0..MaxKicks
  BY KickedType DEF TimerFires
<1> QED
  BY <1>1, <1>2 DEF TypeOK, TimerFires, ClockType, lifecycle, rows, lanes, threads,
     manager, views, history

\* CooldownEnds keeps every variable in its type.
LEMMA CooldownEndsType == ASSUME TypeOK, CooldownEnds PROVE TypeOK'
<1>1. guard' \in Guard
  BY DEF TypeOK, Guard, CooldownEnds
<1> QED
  BY <1>1 DEF TypeOK, CooldownEnds, lifecycle, clocks, rows, threads, manager, views,
     history

\* Crash keeps every variable in its type.
LEMMA CrashType == ASSUME TypeOK, Crash PROVE TypeOK'
<1>1. item' \in [Tasks -> Item]
<2>1. \A u \in Tasks : disk[u].status # Absent => Recovered(disk[u]) \in Item
<3>1. \A r \in DiskRow : r.status # Absent => r \in Item
  BY DEF DiskRow, Item
<3>2. \A r \in Item : Recovered(r) \in Item
<4>1. \A r \in Item : r.status \in Status /\ "recovered_pending_scan" \in Status
  BY DEF Item, Status
<4> QED
  BY <4>1, ItemUpdates DEF Recovered
<3> QED
  BY <3>1, <3>2 DEF TypeOK
<2> QED
  BY <2>1, ConstantRecords DEF Crash
<1>2. mapped' \subseteq Tasks /\ polls' \subseteq Tasks
  BY DEF Crash
<1>3. guard' \in Guard
<2>1. PICK held : held \subseteq Tasks /\ guard' = RecoveredGuard(held)
  BY DEF Crash
<2>2. Cardinality(held) \in Nat
  BY <2>1, TasksAssumption, FS_Subset, FS_CardinalityType
<2>3. (InitialConfig.cooldown /\ held # {}) \in BOOLEAN
  BY Zenon
<2> QED
  BY <2>1, <2>2, <2>3 DEF RecoveredGuard, Guard
<1>4. [NoRecovery EXCEPT !.pc = "stat"] \in Recovery
  BY RecoveryUpdates, ConstantRecords
<1>5. rec' \in Recovery
  BY <1>4, ConstantRecords DEF Crash
<1>6. /\ pass' \in [Slots -> Pass] /\ enr' \in [Tasks -> Enrichment]
      /\ unb' \in [Tasks -> Unblocking] /\ job' \in [Tasks -> JobState]
  BY ConstantRecords DEF JobState, Crash
<1>7. \A q \in Slots : pass'[q].task = NoTask => pass'[q].pc \in {"idle", "visit"}
  BY DEF IdlePass, Crash
<1>8. \A u \in Tasks : unb'[u].cur = NoTask => unb'[u].pc # "refresh"
  BY DEF NoUnblocking, Crash
<1>9. /\ cfg' \in Configs /\ timers' \in 0..MaxTimers /\ kicks' \in 0..MaxKicks
      /\ crashes' \in 0..MaxCrashes /\ loopTimer' = FALSE
  BY BoundsAssumption DEF TypeOK, Crash
<1> QED
  BY <1>1, <1>2, <1>3, <1>4, <1>5, <1>6, <1>7, <1>8, <1>9 DEF TypeOK, Crash, views

\* StopCleanedUp keeps every variable in its type.
LEMMA StopCleanedUpType == ASSUME NEW t \in Tasks, TypeOK, StopCleanedUp(t) PROVE TypeOK'
<1>1. job' \in [Tasks -> JobState]
  BY DEF TypeOK, JobState, StopCleanedUp
<1> QED
  BY <1>1 DEF TypeOK, StopCleanedUp, lifecycle, clocks, rows, lanes, threads, views, history

\* Publish keeps every variable in its type.
LEMMA PublishType == ASSUME NEW t \in Tasks, TypeOK, Publish(t) PROVE TypeOK'
<1> QED
  BY DEF TypeOK, Publish, lifecycle, clocks, rows, lanes, threads, manager, history

\* ContestChanges keeps every variable in its type.
LEMMA ContestChangesType == ASSUME NEW t \in Tasks, TypeOK, ContestChanges(t) PROVE TypeOK'
<1>1. contested' \subseteq Tasks
  BY DEF TypeOK, ContestChanges
<1> QED
  BY <1>1 DEF TypeOK, ContestChanges, lifecycle, clocks, rows, lanes, threads, manager,
     history

\* RunEnds keeps every variable in its type.
LEMMA RunEndsType ==
  ASSUME NEW t \in Tasks, NEW o \in Outcomes, TypeOK, RunEnds(t, o)
  PROVE  TypeOK'
<1>1. job' \in [Tasks -> JobState]
  BY BoundsAssumption DEF TypeOK, JobState, OutcomeNames, RunEnds
<1> QED
  BY <1>1 DEF TypeOK, RunEnds, lifecycle, clocks, rows, lanes, threads, history

\* ListDone keeps every variable in its type.
LEMMA ListDoneType == ASSUME NEW p \in Slots, TypeOK, ListDone(p) PROVE TypeOK'
<1>1. kicks' \in 0..MaxKicks
  BY BoundsAssumption DEF TypeOK, ListDone
<1>2. dbDone \cup DoneInQueue \in SUBSET Tasks
  BY DEF TypeOK, DoneInQueue
<1>3. [IdlePass EXCEPT !.pc = "visit"] \in Pass /\ [IdlePass EXCEPT !.pc = "visit"].pc = "visit"
  BY DEF IdlePass, Pass, PassPc
<1>4. /\ [[IdlePass EXCEPT !.pc = "visit"] EXCEPT !.view = dbDone \cup DoneInQueue] \in Pass
      /\ [[IdlePass EXCEPT !.pc = "visit"] EXCEPT !.view = dbDone \cup DoneInQueue].pc = "visit"
  BY <1>2, <1>3, PassUpdates DEF Pass
<1>5. pass' \in [Slots -> Pass]
  BY <1>4 DEF TypeOK, ListDone
<1>6. \A q \in Slots : pass'[q].task = NoTask => pass'[q].pc \in {"idle", "visit"}
  BY <1>4 DEF TypeOK, ListDone
<1> QED
  BY <1>1, <1>2, <1>3, <1>4, <1>5, <1>6 DEF TypeOK, ListDone, lifecycle, clocks, rows,
     lanes, manager, views, history

\* VisitScanned keeps every variable in its type.
LEMMA VisitScannedType == ASSUME NEW p \in Slots, TypeOK, VisitScanned(p) PROVE TypeOK'
<1>1. pass[p].task \in Tasks /\ pass[p] \in Pass
  BY DEF TypeOK, Pass, VisitScanned
<1>2. item' \in [Tasks -> Item] /\ disk' \in [Tasks -> DiskRow]
<2>1. pass[p].view \in SUBSET Tasks /\ pass[p].ids \in SUBSET Tasks
  BY <1>1 DEF Pass
<2> QED
  BY <1>1, <2>1, RefreshType DEF VisitScanned
<1>3. \A r \in Pass : /\ [r EXCEPT !.pc = "visit", !.task = NoTask, !.ids = {}, !.quar = FALSE] \in Pass
                        /\ [r EXCEPT !.pc = "visit", !.task = NoTask, !.ids = {}, !.quar = FALSE].pc = "visit"
  BY DEF Pass, PassPc
<1>4. pass' \in [Slots -> Pass]
  BY <1>1, <1>3 DEF TypeOK, VisitScanned
<1>5. \A q \in Slots : pass'[q].task = NoTask => pass'[q].pc \in {"idle", "visit"}
  BY <1>1, <1>3 DEF TypeOK, VisitScanned
<1> QED
  BY <1>1, <1>2, <1>3, <1>4, <1>5 DEF TypeOK, VisitScanned, lifecycle, clocks, lanes,
     manager, views, history

\* PassStale keeps every variable in its type.
LEMMA PassStaleType == ASSUME NEW p \in Slots, TypeOK, PassStale(p) PROVE TypeOK'
<1>1. pass' \in [Slots -> Pass]
  BY ConstantRecords DEF TypeOK, PassStale, Idle
<1>2. \A q \in Slots : pass'[q].task = NoTask => pass'[q].pc \in {"idle", "visit"}
  BY ConstantRecords DEF TypeOK, PassStale, Idle, IdlePass
<1> QED
  BY <1>1, <1>2 DEF TypeOK, PassStale, lifecycle, clocks, rows, lanes, manager, views,
     history

\* PassBudgetExhausted keeps every variable in its type.
LEMMA PassBudgetExhaustedType ==
  ASSUME NEW p \in Slots, TypeOK, PassBudgetExhausted(p)
  PROVE  TypeOK'
<1>1. pass' \in [Slots -> Pass]
  BY ConstantRecords DEF TypeOK, PassBudgetExhausted, Idle
<1>2. \A q \in Slots : pass'[q].task = NoTask => pass'[q].pc \in {"idle", "visit"}
  BY ConstantRecords DEF TypeOK, PassBudgetExhausted, Idle, IdlePass
<1>3. ClockType'
  BY ClearLoopTimerType DEF PassBudgetExhausted
<1> QED
  BY <1>1, <1>2, <1>3 DEF TypeOK, PassBudgetExhausted, ClockType, rows, lanes, manager,
     views, history

\* PassWaits keeps every variable in its type.
LEMMA PassWaitsType == ASSUME NEW p \in Slots, TypeOK, PassWaits(p) PROVE TypeOK'
<1>1. pass' \in [Slots -> Pass]
  BY ConstantRecords DEF TypeOK, PassWaits, Idle
<1>2. \A q \in Slots : pass'[q].task = NoTask => pass'[q].pc \in {"idle", "visit"}
  BY ConstantRecords DEF TypeOK, PassWaits, Idle, IdlePass
<1>3. ClockType'
  BY SetLoopTimerType DEF PassWaits
<1> QED
  BY <1>1, <1>2, <1>3 DEF TypeOK, PassWaits, ClockType, lifecycle, rows, lanes, manager,
     views, history

\* PassFindsNothing keeps every variable in its type.
LEMMA PassFindsNothingType == ASSUME NEW p \in Slots, TypeOK, PassFindsNothing(p) PROVE TypeOK'
<1>1. pass' \in [Slots -> Pass]
  BY ConstantRecords DEF TypeOK, PassFindsNothing, Idle
<1>2. \A q \in Slots : pass'[q].task = NoTask => pass'[q].pc \in {"idle", "visit"}
  BY ConstantRecords DEF TypeOK, PassFindsNothing, Idle, IdlePass
<1>3. disk' \in [Tasks -> DiskRow]
  BY CompactionType DEF TypeOK, PassFindsNothing
<1>4. running' \in BOOLEAN
  BY DEF HasWork, PassFindsNothing
<1> QED
  BY <1>1, <1>2, <1>3, <1>4 DEF TypeOK, PassFindsNothing, clocks, lanes, manager, views,
     history

\* PassYields keeps every variable in its type.
LEMMA PassYieldsType == ASSUME NEW p \in Slots, TypeOK, PassYields(p) PROVE TypeOK'
<1>1. pass' \in [Slots -> Pass]
  BY ConstantRecords DEF TypeOK, PassYields, Idle
<1>2. \A q \in Slots : pass'[q].task = NoTask => pass'[q].pc \in {"idle", "visit"}
  BY ConstantRecords DEF TypeOK, PassYields, Idle, IdlePass
<1> QED
  BY <1>1, <1>2 DEF TypeOK, PassYields, lifecycle, clocks, rows, lanes, manager, views,
     history

\* Visit keeps every variable in its type.
LEMMA VisitType == ASSUME NEW p \in Slots, NEW t \in Tasks, TypeOK, Visit(p, t) PROVE TypeOK'
<1>1. pass[p] \in Pass /\ pass[p].view \in SUBSET Tasks /\ pass[p].seen \in SUBSET Tasks
  BY DEF TypeOK, Pass
<1>2. item[t] \in Item /\ item[t].dup \in SUBSET Tasks
  BY DEF TypeOK, Item
<1>3. ASSUME Satisfiers(t, pass[p].view) \cup item[t].dup = {}
      PROVE  TypeOK'
<2>1. /\ ApplyRefresh(t, pass[p].view, {}, item[t].dup # {})
      /\ pass' = [pass EXCEPT ![p].seen = @ \cup {t}]
  BY <1>3 DEF Visit
<2>2. item' \in [Tasks -> Item] /\ disk' \in [Tasks -> DiskRow]
  BY <1>1, <2>1, RefreshType
<2>3. pass' \in [Slots -> Pass]
  BY <1>1, <2>1, PassUpdates DEF TypeOK
<2>4. \A q \in Slots : pass'[q].task = pass[q].task /\ pass'[q].pc = pass[q].pc
  BY <2>1 DEF TypeOK, Pass
<2> QED
  BY <2>2, <2>3, <2>4 DEF TypeOK, Visit, lifecycle, clocks, lanes, manager, views, history
<1>4. ASSUME Satisfiers(t, pass[p].view) \cup item[t].dup # {}
      PROVE  TypeOK'
<2> DEFINE ids == Satisfiers(t, pass[p].view) \cup item[t].dup
           quar == item[t].dup # {}
<2>1. ids \in SUBSET Tasks /\ quar \in BOOLEAN
  BY <1>1, <1>2, UnmetType
<2>2. PICK skip \in SUBSET mapped :
        pass' = [pass EXCEPT ![p] = [pass[p] EXCEPT !.pc = "scan", !.task = t,
                   !.seen = pass[p].seen \cup {t} \cup skip, !.ids = ids, !.quar = quar]]
  BY <1>4, Zenon DEF Visit
<2>3. pass[p].seen \cup {t} \cup skip \in SUBSET Tasks
  BY <1>1 DEF TypeOK
<2>4. \A r \in Pass : \A S, I \in SUBSET Tasks : \A b \in BOOLEAN :
        /\ [r EXCEPT !.pc = "scan", !.task = t, !.seen = S, !.ids = I, !.quar = b] \in Pass
        /\ [r EXCEPT !.pc = "scan", !.task = t, !.seen = S, !.ids = I, !.quar = b].task = t
  BY DEF Pass, PassPc
<2>7. pass' \in [Slots -> Pass] /\ \A q \in Slots : q # p => pass'[q] = pass[q]
  BY <1>1, <2>1, <2>2, <2>3, <2>4 DEF TypeOK
<2>8. pass'[p].task = t
  BY <1>1, <2>2 DEF TypeOK, Pass
<2>9. item' = item /\ disk' = disk
  BY <1>4 DEF Visit
<2>10. \A q \in Slots : pass'[q].task = NoTask => pass'[q].pc \in {"idle", "visit"}
  BY <2>7, <2>8, TasksAssumption DEF TypeOK
<2> QED
  BY <2>7, <2>9, <2>10
  DEF TypeOK, Visit, lifecycle, clocks, lanes, manager, views, history
<1> QED
  BY <1>1, <1>2, <1>3, <1>4 DEF TypeOK, Visit, lifecycle, clocks, lanes, manager, views,
     history

\* PassSelects keeps every variable in its type.
LEMMA PassSelectsType ==
  ASSUME NEW p \in Slots, NEW t \in Tasks, TypeOK, PassSelects(p, t)
  PROVE  TypeOK'
<1>1. \A r \in Pass : /\ [r EXCEPT !.pc = "resolve", !.task = t] \in Pass
                      /\ [r EXCEPT !.pc = "resolve", !.task = t].task = t
  BY DEF Pass, PassPc
<1>2. pass' \in [Slots -> Pass]
  BY <1>1, ConstantRecords DEF TypeOK, PassSelects
<1>3. \A q \in Slots : pass'[q].task = NoTask => pass'[q].pc \in {"idle", "visit"}
  BY <1>1, ConstantRecords, TasksAssumption DEF TypeOK, PassSelects
<1> QED
  BY <1>1, <1>2, <1>3 DEF TypeOK, PassSelects, lifecycle, clocks, rows, lanes, manager,
     views, history

\* DispatchStale keeps every variable in its type.
LEMMA DispatchStaleType == ASSUME NEW p \in Slots, TypeOK, DispatchStale(p) PROVE TypeOK'
<1>1. pass' \in [Slots -> Pass]
  BY ConstantRecords DEF TypeOK, DispatchStale, EndDispatch
<1>2. \A q \in Slots : pass'[q].task = NoTask => pass'[q].pc \in {"idle", "visit"}
  BY ConstantRecords DEF TypeOK, DispatchStale, EndDispatch, IdlePass
<1>3. dispatchChecks' \subseteq Tasks
  BY DEF TypeOK, DispatchStale, EndDispatch
<1> QED
  BY <1>1, <1>2, <1>3 DEF TypeOK, DispatchStale, lifecycle, clocks, rows, lanes, manager,
     views, history

\* Resolve keeps every variable in its type.
LEMMA ResolveType == ASSUME NEW p \in Slots, TypeOK, Resolve(p) PROVE TypeOK'
<1>1. pass[p].task \in Tasks /\ pass[p] \in Pass
  BY DEF TypeOK, Pass, Resolve
<1>2. \A r \in Pass : /\ [r EXCEPT !.pc = "claim", !.view = dbDone] \in Pass
                        /\ [r EXCEPT !.pc = "claim", !.view = dbDone].task = r.task
  BY DEF TypeOK, Pass, PassPc
<1>3. pass' \in [Slots -> Pass]
  BY <1>1, <1>2 DEF TypeOK, Resolve
<1>4. \A q \in Slots : pass'[q].task = NoTask => pass'[q].pc \in {"idle", "visit"}
  BY <1>1, <1>2, TasksAssumption DEF TypeOK, Resolve
<1> QED
  BY <1>1, <1>2, <1>3, <1>4 DEF TypeOK, Resolve, lifecycle, clocks, rows, lanes, manager,
     views, history

\* ResolveUnmet keeps every variable in its type.
LEMMA ResolveUnmetType == ASSUME NEW p \in Slots, TypeOK, ResolveUnmet(p) PROVE TypeOK'
<1>1. pass' \in [Slots -> Pass]
  BY ConstantRecords DEF TypeOK, ResolveUnmet, EndDispatch
<1>2. \A q \in Slots : pass'[q].task = NoTask => pass'[q].pc \in {"idle", "visit"}
  BY ConstantRecords DEF TypeOK, ResolveUnmet, EndDispatch, IdlePass
<1>3. dispatchChecks' \subseteq Tasks
  BY DEF TypeOK, ResolveUnmet, EndDispatch
<1>4. pass[p].task \in Tasks /\ pass[p] \in Pass
  BY DEF TypeOK, Pass, ResolveUnmet
<1>5. "queued" \in Status
  BY DEF Status
<1>6. item' \in [Tasks -> Item]
<2>1. item \in [Tasks -> Item] /\ Unmet(pass[p].task, dbDone) \in SUBSET Tasks
  BY <1>4, UnmetType DEF TypeOK
<2>2. \A r \in Item, S \in SUBSET Tasks : [r EXCEPT !.status = "queued", !.blockedBy = S] \in Item
  BY <1>5 DEF Item
<2> QED
  BY <2>1, <2>2 DEF ResolveUnmet
<1> QED
  BY <1>1, <1>2, <1>3, <1>4, <1>5, <1>6 DEF TypeOK, ResolveUnmet, lifecycle, clocks, lanes,
     manager, views, history

\* Claim keeps every variable in its type.
LEMMA ClaimType == ASSUME NEW p \in Slots, TypeOK, Claim(p) PROVE TypeOK'
<1>1. pass[p].task \in Tasks /\ pass[p] \in Pass
  BY DEF TypeOK, Pass, Claim
<1>2. \A r \in Pass : [r EXCEPT !.pc = "fence"] \in Pass /\ [r EXCEPT !.pc = "fence"].task = r.task
  BY DEF Pass, PassPc
<1>3. pass' \in [Slots -> Pass]
  BY <1>1, <1>2 DEF TypeOK, Claim
<1>4. \A q \in Slots : pass'[q].task = NoTask => pass'[q].pc \in {"idle", "visit"}
  BY <1>1, <1>2, TasksAssumption DEF TypeOK, Claim
<1>5. \A r \in Item : [r EXCEPT !.dup = {}, !.blockedBy = {}] \in Item
  BY DEF Item
<1>6. item' \in [Tasks -> Item]
  BY <1>5 DEF TypeOK, Claim
<1> QED
  BY <1>1, <1>2, <1>3, <1>4, <1>5, <1>6 DEF TypeOK, Claim, lifecycle, clocks, lanes,
     manager, views, history

\* ClaimContested keeps every variable in its type.
LEMMA ClaimContestedType == ASSUME NEW p \in Slots, TypeOK, ClaimContested(p) PROVE TypeOK'
<1>1. pass' \in [Slots -> Pass]
  BY ConstantRecords DEF TypeOK, ClaimContested, EndDispatch
<1>2. \A q \in Slots : pass'[q].task = NoTask => pass'[q].pc \in {"idle", "visit"}
  BY ConstantRecords DEF TypeOK, ClaimContested, EndDispatch, IdlePass
<1>3. dispatchChecks' \subseteq Tasks
  BY DEF TypeOK, ClaimContested, EndDispatch
<1>4. pass[p].task \in Tasks /\ pass[p] \in Pass
  BY DEF TypeOK, Pass, ClaimContested
<1>5. "blocked" \in Status
  BY DEF Status
<1>6. item' \in [Tasks -> Item]
<2>1. Claimants(p) \cap contested \in SUBSET Tasks /\ item \in [Tasks -> Item]
  BY DEF TypeOK
<2>2. \A r \in Item, S, B \in SUBSET Tasks :
        [r EXCEPT !.status = "blocked", !.blockedBy = B, !.dup = S] \in Item
  BY <1>5 DEF Item
<2> QED
  BY <2>1, <2>2 DEF ClaimContested
<1> QED
  BY <1>1, <1>2, <1>3, <1>4, <1>5, <1>6 DEF TypeOK, ClaimContested, lifecycle, clocks,
     lanes, manager, views, history

\* FenceAdmits keeps every variable in its type.
LEMMA FenceAdmitsType == ASSUME NEW p \in Slots, TypeOK, FenceAdmits(p) PROVE TypeOK'
<1>1. pass[p].task \in Tasks /\ pass[p] \in Pass
  BY DEF TypeOK, Pass, FenceAdmits
<1>2. item' \in [Tasks -> Item]
  BY ItemUpdates DEF TypeOK, Status, FenceAdmits, SetStatus
<1>3. job' \in [Tasks -> JobState]
  BY DEF TypeOK, JobState, FenceAdmits
<1>4. guard' \in Guard
  BY GuardStart, BoundsAssumption DEF TypeOK, FenceAdmits
<1>5. \A r \in Pass : /\ [r EXCEPT !.pc = "release"] \in Pass
                      /\ [r EXCEPT !.pc = "release"].task = r.task
  BY DEF Pass, PassPc
<1>6. pass' \in [Slots -> Pass]
  BY <1>1, <1>5 DEF TypeOK, FenceAdmits
<1>7. \A q \in Slots : pass'[q].task = NoTask => pass'[q].pc \in {"idle", "visit"}
  BY <1>1, <1>5, TasksAssumption DEF TypeOK, FenceAdmits
<1> QED
  BY <1>1, <1>2, <1>3, <1>4, <1>5, <1>6, <1>7 DEF TypeOK, FenceAdmits, lifecycle, clocks,
     views

\* StartThrows keeps every variable in its type.
LEMMA StartThrowsType == ASSUME NEW p \in Slots, TypeOK, StartThrows(p) PROVE TypeOK'
<1>1. pass' \in [Slots -> Pass]
  BY ConstantRecords DEF TypeOK, StartThrows, EndDispatch
<1>2. \A q \in Slots : pass'[q].task = NoTask => pass'[q].pc \in {"idle", "visit"}
  BY ConstantRecords DEF TypeOK, StartThrows, EndDispatch, IdlePass
<1>3. dispatchChecks' \subseteq Tasks
  BY DEF TypeOK, StartThrows, EndDispatch
<1>4. pass[p].task \in Tasks /\ pass[p] \in Pass
  BY DEF TypeOK, Pass, StartThrows
<1>5. item' \in [Tasks -> Item] /\ disk' \in [Tasks -> DiskRow] /\ paused' \in BOOLEAN /\ ClockType'
  BY <1>4, FailureType DEF StartThrows
<1> QED
  BY <1>1, <1>2, <1>3, <1>4, <1>5 DEF TypeOK, StartThrows, ClockType, lanes, manager,
     views, history

\* FenceContested keeps every variable in its type.
LEMMA FenceContestedType == ASSUME NEW p \in Slots, TypeOK, FenceContested(p) PROVE TypeOK'
<1>1. pass' \in [Slots -> Pass]
  BY ConstantRecords DEF TypeOK, FenceContested, EndDispatch
<1>2. \A q \in Slots : pass'[q].task = NoTask => pass'[q].pc \in {"idle", "visit"}
  BY ConstantRecords DEF TypeOK, FenceContested, EndDispatch, IdlePass
<1>3. dispatchChecks' \subseteq Tasks
  BY DEF TypeOK, FenceContested, EndDispatch
<1>4. pass[p].task \in Tasks /\ pass[p] \in Pass
  BY DEF TypeOK, Pass, FenceContested
<1>5. "blocked" \in Status
  BY DEF Status
<1>6. item' \in [Tasks -> Item]
<2>1. \A r \in Item, S \in SUBSET Tasks : [r EXCEPT !.status = "blocked", !.dup = S] \in Item
  BY <1>5 DEF Item
<2> QED
  BY <1>4, <2>1 DEF TypeOK, FenceContested
<1> QED
  BY <1>1, <1>2, <1>3, <1>4, <1>5, <1>6 DEF TypeOK, FenceContested, lifecycle, clocks,
     lanes, manager, views, history

\* DispatchDeferred keeps every variable in its type.
LEMMA DispatchDeferredType == ASSUME NEW p \in Slots, TypeOK, DispatchDeferred(p) PROVE TypeOK'
<1>1. pass' \in [Slots -> Pass]
  BY ConstantRecords DEF TypeOK, DispatchDeferred, EndDispatch
<1>2. \A q \in Slots : pass'[q].task = NoTask => pass'[q].pc \in {"idle", "visit"}
  BY ConstantRecords DEF TypeOK, DispatchDeferred, EndDispatch, IdlePass
<1>3. dispatchChecks' \subseteq Tasks
  BY DEF TypeOK, DispatchDeferred, EndDispatch
<1>4. item' \in [Tasks -> Item]
  BY ItemUpdates DEF TypeOK, Status, DispatchDeferred, SetStatus
<1>5. disk' \in [Tasks -> DiskRow]
  BY LoggedType DEF TypeOK, Status, DispatchDeferred
<1>6. ClockType'
  BY SetLoopTimerType DEF TypeOK, ClockType, clocks, DispatchDeferred
<1> QED
  BY <1>1, <1>2, <1>3, <1>4, <1>5, <1>6 DEF TypeOK, DispatchDeferred, ClockType, lifecycle,
     clocks, lanes, manager, views, history

\* FenceDecomposed keeps every variable in its type.
LEMMA FenceDecomposedType == ASSUME NEW p \in Slots, TypeOK, FenceDecomposed(p) PROVE TypeOK'
<1>1. pass' \in [Slots -> Pass]
  BY ConstantRecords DEF TypeOK, FenceDecomposed, EndDispatch
<1>2. \A q \in Slots : pass'[q].task = NoTask => pass'[q].pc \in {"idle", "visit"}
  BY ConstantRecords DEF TypeOK, FenceDecomposed, EndDispatch, IdlePass
<1>3. dispatchChecks' \subseteq Tasks
  BY DEF TypeOK, FenceDecomposed, EndDispatch
<1>4. item' \in [Tasks -> Item]
  BY ItemUpdates DEF TypeOK, Status, FenceDecomposed, SetStatus
<1>5. disk' \in [Tasks -> DiskRow]
  BY LoggedType DEF TypeOK, Status, FenceDecomposed
<1>6. kicks' \in 0..MaxKicks
  BY KickedType DEF FenceDecomposed
<1> QED
  BY <1>1, <1>2, <1>3, <1>4, <1>5, <1>6 DEF TypeOK, FenceDecomposed, lifecycle, clocks,
     lanes, manager, views, history

\* Release keeps every variable in its type.
LEMMA ReleaseType == ASSUME NEW p \in Slots, TypeOK, Release(p) PROVE TypeOK'
<1>1. pass' \in [Slots -> Pass]
  BY ConstantRecords DEF TypeOK, Release, EndDispatch
<1>2. \A q \in Slots : pass'[q].task = NoTask => pass'[q].pc \in {"idle", "visit"}
  BY ConstantRecords DEF TypeOK, Release, EndDispatch, IdlePass
<1>3. dispatchChecks' \subseteq Tasks
  BY DEF TypeOK, Release, EndDispatch
<1>4. disk' \in [Tasks -> DiskRow]
  BY LoggedType DEF TypeOK, Status, Release
<1>5. polls' \subseteq Tasks
  BY DEF TypeOK, Release
<1>6. kicks' \in 0..MaxKicks
<2>1. kicks' = kicks \/ (kicks < MaxKicks /\ kicks' = kicks + 1)
  BY Zenon DEF Kicked, Release
<2> QED
  BY <2>1, KickStep
<1> QED
  BY <1>1, <1>2, <1>3, <1>4, <1>5, <1>6 DEF TypeOK, Release, lifecycle, clocks, manager,
     views, history

\* PollAwaiting keeps every variable in its type.
LEMMA PollAwaitingType == ASSUME NEW t \in Tasks, TypeOK, PollAwaiting(t) PROVE TypeOK'
<1>1. item' \in [Tasks -> Item]
  BY ItemUpdates DEF TypeOK, Status, PollAwaiting, SetStatus
<1>2. disk' \in [Tasks -> DiskRow]
  BY LoggedType DEF TypeOK, Status, PollAwaiting
<1> QED
  BY <1>1, <1>2 DEF TypeOK, PollAwaiting, lifecycle, clocks, lanes, threads, manager,
     views, history

\* PollResumed keeps every variable in its type.
LEMMA PollResumedType == ASSUME NEW t \in Tasks, TypeOK, PollResumed(t) PROVE TypeOK'
<1>1. "running" \in Status
  BY DEF Status
<1>2. item' \in [Tasks -> Item]
  BY <1>1, ResumedType DEF TypeOK, PollResumed
<1>3. disk' \in [Tasks -> DiskRow]
  BY <1>1, ResumedType DEF TypeOK, PollResumed
<1> QED
  BY <1>1, <1>2, <1>3 DEF TypeOK, PollResumed, lifecycle, clocks, lanes, threads, manager,
     views, history

\* PollApproved keeps every variable in its type.
LEMMA PollApprovedType == ASSUME NEW t \in Tasks, TypeOK, PollApproved(t) PROVE TypeOK'
<1>1. item' \in [Tasks -> Item]
  BY ItemUpdates DEF TypeOK, Status, PollApproved, SetStatus
<1>2. disk' \in [Tasks -> DiskRow]
  BY LoggedType DEF TypeOK, Status, PollApproved
<1>3. guard' \in Guard
<2>1. guard \in Guard /\ 1 \in Nat
  BY DEF TypeOK
<2> QED
  BY <2>1, GuardComplete, TipsType DEF PollApproved, PollEnds
<1>4. polls' \subseteq Tasks
  BY DEF TypeOK, PollEnds, PollApproved
<1>5. /\ [NoUnblocking EXCEPT !.pc = "scan", !.kick = TRUE] \in Unblocking
      /\ [NoUnblocking EXCEPT !.pc = "scan", !.kick = TRUE].pc = "scan"
  BY ConstantRecords DEF Unblocking
<1>6. unb' \in [Tasks -> Unblocking]
  BY <1>5 DEF TypeOK, PollApproved
<1>7. \A u \in Tasks : unb'[u].cur = NoTask => unb'[u].pc # "refresh"
  BY <1>5 DEF TypeOK, PollApproved
<1> QED
  BY <1>1, <1>2, <1>3, <1>4, <1>5, <1>6, <1>7 DEF TypeOK, PollApproved, lifecycle, clocks,
     manager, views, history

\* PollSpecChanged keeps every variable in its type.
LEMMA PollSpecChangedType == ASSUME NEW t \in Tasks, TypeOK, PollSpecChanged(t) PROVE TypeOK'
<1>1. item' \in [Tasks -> Item]
  BY ItemUpdates DEF TypeOK, Status, PollSpecChanged, SetStatus
<1>2. disk' \in [Tasks -> DiskRow]
  BY LoggedType DEF TypeOK, Status, PollSpecChanged
<1>3. guard' \in Guard
<2>1. guard \in Guard /\ 1 \in Nat
  BY DEF TypeOK
<2> QED
  BY <2>1, GuardComplete, TipsType DEF PollSpecChanged, PollEnds
<1>4. polls' \subseteq Tasks
  BY DEF TypeOK, PollEnds, PollSpecChanged
<1>5. kicks' \in 0..MaxKicks
  BY KickedType DEF PollSpecChanged
<1> QED
  BY <1>1, <1>2, <1>3, <1>4, <1>5 DEF TypeOK, PollSpecChanged, lifecycle, clocks, threads,
     manager, views, history

\* PollFailed keeps every variable in its type.
LEMMA PollFailedType == ASSUME NEW t \in Tasks, TypeOK, PollFailed(t) PROVE TypeOK'
<1>1. guard' \in Guard
<2>1. guard \in Guard /\ 1 \in Nat
  BY DEF TypeOK
<2> QED
  BY <2>1, GuardComplete, TipsType DEF PollFailed, PollEnds
<1>2. polls' \subseteq Tasks
  BY DEF TypeOK, PollEnds, PollFailed
<1>3. item' \in [Tasks -> Item] /\ disk' \in [Tasks -> DiskRow] /\ paused' \in BOOLEAN /\ ClockType'
  BY FailureType DEF PollFailed
<1>4. kicks' \in 0..MaxKicks
  BY KickedType DEF PollFailed
<1> QED
  BY <1>1, <1>2, <1>3, <1>4 DEF TypeOK, PollFailed, ClockType, threads, manager, views,
     history

\* UnblockScanned keeps every variable in its type.
LEMMA UnblockScannedType == ASSUME NEW c \in Tasks, TypeOK, UnblockScanned(c) PROVE TypeOK'
<1>1. \A r \in Unblocking, b \in BOOLEAN : /\ [r EXCEPT !.pc = "loop", !.quar = b] \in Unblocking
      /\ [r EXCEPT !.pc = "loop", !.quar = b].pc = "loop"
  BY DEF Unblocking
<1>2. (c \in contested) \in BOOLEAN
  OBVIOUS
<1>3. unb' \in [Tasks -> Unblocking]
  BY <1>1, <1>2 DEF TypeOK, UnblockScanned
<1>4. \A u \in Tasks : unb'[u].cur = NoTask => unb'[u].pc # "refresh"
  BY <1>1, <1>2 DEF TypeOK, UnblockScanned
<1> QED
  BY <1>1, <1>2, <1>3, <1>4 DEF TypeOK, UnblockScanned, lifecycle, clocks, rows, lanes,
     manager, views, history

\* UnblockRefreshed keeps every variable in its type.
LEMMA UnblockRefreshedType == ASSUME NEW c \in Tasks, TypeOK, UnblockRefreshed(c) PROVE TypeOK'
<1>1. unb[c] \in Unblocking /\ unb[c].cur \in Tasks /\ unb[c].ids \cap contested \in SUBSET Tasks
  BY DEF TypeOK, Unblocking, UnblockRefreshed
<1>2. item' \in [Tasks -> Item] /\ disk' \in [Tasks -> DiskRow]
<2>1. CASE unb[c].quar
<3>1. item' = [item EXCEPT ![unb[c].cur].dup = unb[c].ids \cap contested] /\ disk' = disk
  BY <2>1, Zenon DEF UnblockRefreshed
<3> QED
  BY <1>1, <3>1, ItemUpdates DEF TypeOK
<2>2. CASE ~unb[c].quar
<3>1. ApplyUnblock(c, unb[c].cur, item[unb[c].cur], unb[c].ids \cap contested)
  BY <2>2, Zenon DEF UnblockRefreshed
<3>2. item[unb[c].cur] \in Item
  BY <1>1 DEF TypeOK
<3> QED
  BY <1>1, <3>1, <3>2, UnblockType
<2> QED
  BY <2>1, <2>2
<1>3. \A r \in Unblocking : /\ [r EXCEPT !.pc = "loop", !.cur = NoTask, !.ids = {}] \in Unblocking
      /\ [r EXCEPT !.pc = "loop", !.cur = NoTask, !.ids = {}].pc = "loop"
  BY DEF Unblocking
<1>4. unb' \in [Tasks -> Unblocking]
  BY <1>3 DEF TypeOK, UnblockRefreshed
<1>5. \A u \in Tasks : unb'[u].cur = NoTask => unb'[u].pc # "refresh"
  BY <1>3 DEF TypeOK, UnblockRefreshed
<1> QED
  BY <1>1, <1>2, <1>3, <1>4, <1>5 DEF TypeOK, UnblockRefreshed, lifecycle, clocks, lanes,
     manager, views, history

\* UnblockDone keeps every variable in its type.
LEMMA UnblockDoneType == ASSUME NEW c \in Tasks, TypeOK, UnblockDone(c) PROVE TypeOK'
<1>1. unb' \in [Tasks -> Unblocking]
  BY ConstantRecords DEF TypeOK, EndUnblock, UnblockDone
<1>2. \A u \in Tasks : unb'[u].cur = NoTask => unb'[u].pc # "refresh"
  BY DEF TypeOK, EndUnblock, NoUnblocking, UnblockDone
<1>3. kicks' \in 0..MaxKicks
<2>1. kicks' = kicks \/ (kicks < MaxKicks /\ kicks' = kicks + 1)
  BY Zenon DEF Kicked, UnblockDone, EndUnblock
<2> QED
  BY <2>1, KickStep
<1> QED
  BY <1>1, <1>2, <1>3 DEF TypeOK, UnblockDone, lifecycle, clocks, rows, lanes, manager,
     views, history

\* UnblockVisit keeps every variable in its type.
LEMMA UnblockVisitType ==
  ASSUME NEW c \in Tasks, NEW t \in Tasks, TypeOK, UnblockVisit(c, t) PROVE TypeOK'
<1> DEFINE ids == IF unb[c].quar THEN item[t].dup \cup {c} ELSE item[t].dup \ {c}
<1>1. /\ unb \in [Tasks -> Unblocking] /\ unb[c] \in Unblocking /\ item \in [Tasks -> Item]
      /\ unb[c].seen \in SUBSET Tasks
  BY DEF TypeOK, Unblocking
<1>2. /\ item[t] \in Item /\ item[t].dup \in SUBSET Tasks /\ item[t].blockedBy \in SUBSET Tasks
      /\ ids \in SUBSET Tasks
  BY DEF TypeOK, Item
<1>3. \A S \in SUBSET Tasks : [item[t] EXCEPT !.blockedBy = S] \in Item
  BY <1>2, ItemUpdates
<1>4. CASE ids = {}
<2>1. /\ ApplyUnblock(c, t, [item[t] EXCEPT !.blockedBy = @ \ {c}], {})
      /\ unb' = [unb EXCEPT ![c].seen = @ \cup {t}]
  BY <1>4, Zenon DEF UnblockVisit
<2>2. item' \in [Tasks -> Item] /\ disk' \in [Tasks -> DiskRow]
  BY <1>2, <1>3, <2>1, UnblockType
<2>3. unb' \in [Tasks -> Unblocking]
  BY <1>1, <2>1, UnblockingUpdates
<2>4. \A u \in Tasks : unb'[u].cur = unb[u].cur /\ unb'[u].pc = unb[u].pc
  BY <1>1, <2>1 DEF Unblocking
<2> QED
  BY <2>2, <2>3, <2>4 DEF TypeOK, UnblockVisit, lifecycle, clocks, lanes, manager, views,
     history
<1>5. CASE ids # {}
<2>1. PICK skip \in SUBSET mapped :
        unb' = [unb EXCEPT ![c] = [unb[c] EXCEPT !.pc = "refresh", !.cur = t, !.ids = ids,
                                                 !.seen = unb[c].seen \cup {t} \cup skip]]
  BY <1>5, Zenon DEF UnblockVisit
<2>2. unb[c].seen \cup {t} \cup skip \in SUBSET Tasks
  BY <1>1 DEF TypeOK
<2>3. \A r \in Unblocking : \A S, I \in SUBSET Tasks :
        /\ [r EXCEPT !.pc = "refresh", !.cur = t, !.ids = I, !.seen = S] \in Unblocking
        /\ [r EXCEPT !.pc = "refresh", !.cur = t, !.ids = I, !.seen = S].cur = t
  BY DEF Unblocking
<2>6. unb' \in [Tasks -> Unblocking] /\ \A u \in Tasks : u # c => unb'[u] = unb[u]
  BY <1>1, <1>2, <2>1, <2>2, <2>3
<2>7. unb'[c].cur = t
  BY <1>1, <2>1 DEF Unblocking
<2>8. item' \in [Tasks -> Item] /\ disk' = disk
<3>1. item' = [item EXCEPT ![t].blockedBy = IF unb[c].quar THEN @ ELSE @ \ {c}] /\ disk' = disk
  BY <1>5, Zenon DEF UnblockVisit
<3>2. item[t].blockedBy \ {c} \in SUBSET Tasks
  BY <1>2
<3> QED
  BY <1>1, <1>2, <1>3, <3>1, <3>2
<2>9. \A u \in Tasks : unb'[u].cur = NoTask => unb'[u].pc # "refresh"
  BY <2>6, <2>7, TasksAssumption DEF TypeOK
<2> QED
  BY <2>6, <2>8, <2>9
  DEF TypeOK, UnblockVisit, lifecycle, clocks, lanes, manager, views, history
<1> QED
  BY <1>4, <1>5

\* EnrichListed keeps every variable in its type.
LEMMA EnrichListedType == ASSUME NEW t \in Tasks, TypeOK, EnrichListed(t) PROVE TypeOK'
<1>1. specDone \in SUBSET Tasks
  BY DEF TypeOK
<1>2. /\ item' \in [Tasks -> Item] /\ disk' \in [Tasks -> DiskRow]
      /\ enr' \in [Tasks -> Enrichment] /\ rec' \in Recovery /\ kicks' \in 0..MaxKicks
<2>1. CASE Satisfiers(t, specDone) = {}
  BY <1>1, <2>1, EnrichType DEF EnrichListed
<2>2. CASE Satisfiers(t, specDone) # {}
<3>1. [pc |-> "scan", view |-> specDone] \in Enrichment
  BY <1>1 DEF Enrichment
<3>2. item' \in [Tasks -> Item]
<4>1. item' = [item EXCEPT ![t].prio = Priority[t]]
  BY <2>2 DEF EnrichListed
<4>2. item[t] \in Item /\ item \in [Tasks -> Item] /\ Priority[t] \in 0..99
  BY TasksAssumption DEF TypeOK
<4> QED
  BY <4>1, <4>2, ItemUpdates
<3> QED
  BY <2>2, <3>1, <3>2 DEF EnrichListed, TypeOK
<2> QED
  BY <2>1, <2>2
<1> QED
  BY <1>1, <1>2 DEF TypeOK, EnrichListed, lifecycle, clocks, lanes, manager, views, history

\* EnrichScanned keeps every variable in its type.
LEMMA EnrichScannedType == ASSUME NEW t \in Tasks, TypeOK, EnrichScanned(t) PROVE TypeOK'
<1>1. enr[t].view \in SUBSET Tasks
  BY DEF TypeOK, Enrichment
<1>2. /\ item' \in [Tasks -> Item] /\ disk' \in [Tasks -> DiskRow]
      /\ enr' \in [Tasks -> Enrichment] /\ rec' \in Recovery /\ kicks' \in 0..MaxKicks
  BY <1>1, EnrichType DEF EnrichScanned
<1> QED
  BY <1>1, <1>2 DEF TypeOK, EnrichScanned, lifecycle, clocks, lanes, manager, views, history

\* EnrichFails keeps every variable in its type.
LEMMA EnrichFailsType == ASSUME NEW t \in Tasks, TypeOK, EnrichFails(t) PROVE TypeOK'
<1>1. enr' \in [Tasks -> Enrichment]
  BY ConstantRecords DEF TypeOK, EnrichFails
<1>2. rec' \in Recovery /\ waiters' \subseteq {"start", "resume"}
  BY ConstantRecords DEF TypeOK, EnrichFails
<1>3. item' \in [Tasks -> Item]
<2>1. item' = item \/ item' = [item EXCEPT ![t].status = "blocked"]
  BY Zenon DEF EnrichFails, SetStatus
<2>2. item \in [Tasks -> Item] /\ item[t] \in Item /\ "blocked" \in Status
  BY DEF TypeOK, Status
<2>3. [item[t] EXCEPT !.status = "blocked"] \in Item
  BY <2>2, ItemUpdates
<2> QED
  BY <2>1, <2>2, <2>3
<1>4. kicks' \in 0..MaxKicks
<2>1. kicks' = kicks \/ (kicks < MaxKicks /\ kicks' = kicks + 1)
  BY Zenon DEF Kicked, EnrichFails
<2> QED
  BY <2>1, KickStep
<1> QED
  BY <1>1, <1>2, <1>3, <1>4 DEF TypeOK, EnrichFails, lifecycle, clocks, lanes, manager,
     views, history

-----------------------------------------------------------------------------
(* The theorem.                                                            *)

\* The constructed queue is typed.
LEMMA InitType == Init => TypeOK
<1> SUFFICES ASSUME Init PROVE TypeOK
  OBVIOUS
<1>1. guard \in Guard
  BY DEF Init, Guard
<1>2. job \in [Tasks -> JobState]
  BY DEF Init, JobState
<1>3. /\ \A p \in Slots : pass[p].pc = "idle"
      /\ \A c \in Tasks : unb[c].pc = "idle"
  BY DEF Init, IdlePass, NoUnblocking
<1>4. timers \in 0..MaxTimers /\ kicks \in 0..MaxKicks /\ retries \in 0..MaxRetries
      /\ crashes \in 0..MaxCrashes /\ cfg \in Configs
  BY BoundsAssumption DEF Init
<1> QED
  BY <1>1, <1>2, <1>3, <1>4, ConstantRecords DEF Init, TypeOK

\* One step of the queue or of its environment keeps the types.
LEMMA StepType == TypeOK /\ [Next]_vars => TypeOK'
<1> SUFFICES ASSUME TypeOK, [Next]_vars PROVE TypeOK'
  OBVIOUS
<1>1. CASE Operator
  BY <1>1, StartType, PauseType, ResumeType, StopType, AbortType, UpdateConfigType,
     EnqueueType, CancelType, CancelUnconfirmedType, RetryType, RemoveType, ApproveType,
     ApproveStartThrowsType, RejectType, ExternalCompletionType, StartOutsideType
  DEF Operator
<1>2. CASE RecoveryStep
  BY <1>2, RecoveryUnavailableType, RecoveryListedType, RecoveryScannedType,
     RecoveryDoneType, StartContinuesType, ResumeContinuesType, RecoverRowType
  DEF RecoveryStep
<1>3. CASE Environment
  BY <1>3, TimerFiresType, CooldownEndsType, CrashType, StopCleanedUpType, PublishType,
     ContestChangesType, RunEndsType
  DEF Environment
<1>4. ASSUME NEW p \in Slots, PassStep(p) PROVE TypeOK'
  BY <1>4, ListDoneType, VisitScannedType, PassStaleType, PassBudgetExhaustedType,
     PassWaitsType, PassFindsNothingType, PassYieldsType, VisitType, PassSelectsType
  DEF PassStep
<1>5. ASSUME NEW p \in Slots, DispatchStep(p) PROVE TypeOK'
  BY <1>5, DispatchStaleType, ResolveType, ResolveUnmetType, ClaimType, ClaimContestedType,
     FenceAdmitsType, StartThrowsType, FenceContestedType, DispatchDeferredType,
     FenceDecomposedType, ReleaseType
  DEF DispatchStep
<1>6. ASSUME NEW t \in Tasks, Poll(t) PROVE TypeOK'
  BY <1>6, PollAwaitingType, PollResumedType, PollApprovedType, PollSpecChangedType,
     PollFailedType
  DEF Poll
<1>7. ASSUME NEW c \in Tasks, UnblockStep(c) PROVE TypeOK'
  BY <1>7, UnblockScannedType, UnblockRefreshedType, UnblockDoneType, UnblockVisitType
  DEF UnblockStep
<1>8. ASSUME NEW t \in Tasks, EnrichStep(t) PROVE TypeOK'
  BY <1>8, EnrichListedType, EnrichScannedType, EnrichFailsType
  DEF EnrichStep
<1>9. CASE UNCHANGED vars
  BY <1>9 DEF TypeOK, vars, lifecycle, clocks, rows, lanes, threads, manager, views, history
<1> QED
  BY <1>1, <1>2, <1>3, <1>4, <1>5, <1>6, <1>7, <1>8, <1>9 DEF Next

\* Every reachable state of the queue is typed; the loop timeouts, the passes in
\* flight, the retries and the restarts stay within their bounds, and no thread
\* acts for a task it does not have.
THEOREM TypeCorrect == Spec => []TypeOK
<1>1. Init => TypeOK
  BY InitType
<1>2. TypeOK /\ [Next]_vars => TypeOK'
  BY StepType
<1> QED
  BY <1>1, <1>2, PTL DEF Spec
=============================================================================
