------------------------- MODULE DispatchQueueGuard -------------------------
(***************************************************************************)
(* The lanes of the dispatch queue.                                        *)
(*                                                                         *)
(* The concurrency guard never counts fewer lanes than the queue holds.    *)
(* GuardNeverUndercounts is inductive together with TypeOK: an action may  *)
(* give lanes back, at most as many as it takes off the count, and only    *)
(* the admission fence takes a new one.                                    *)
(*                                                                         *)
(* Every held lane is watched, where nothing halts the queue.  LaneWatched *)
(* does not say why the release of a fence will set the timer; the         *)
(* invariant adds that the row still runs under a queue that still runs.   *)
(***************************************************************************)
EXTENDS DispatchQueueType

-----------------------------------------------------------------------------
(* Counting lanes.                                                         *)

\* The rows that hold a lane are finitely many.
LEMMA LanesFinite ==
  ASSUME TypeOK
  PROVE  IsFiniteSet(Lanes) /\ Cardinality(Lanes) \in Nat /\ Lanes \subseteq mapped
<1>1. Lanes \subseteq Tasks /\ Lanes \subseteq mapped
  BY DEF TypeOK, Lanes
<1>2. IsFiniteSet(Lanes)
  BY <1>1, TasksAssumption, FS_Subset
<1> QED
  BY <1>1, <1>2, FS_CardinalityType

\* Lanes may be given back as long as the count falls by no more than them.
LEMMA LanesGivenBack ==
  ASSUME TypeOK, TypeOK', GuardNeverUndercounts, NEW gone \in SUBSET Lanes,
         \A u \in mapped' : item'[u].status \in LaneStatus => u \in Lanes \ gone,
         guard'.runningCount >= guard.runningCount - Cardinality(gone)
  PROVE  GuardNeverUndercounts'
<1>1. IsFiniteSet(Lanes) /\ Cardinality(Lanes) \in Nat
  BY LanesFinite
<1>2. IsFiniteSet(gone) /\ Cardinality(gone) \in Nat
  BY <1>1, FS_Subset, FS_CardinalityType
<1>3. IsFiniteSet(Lanes \ gone) /\ Cardinality(Lanes \ gone) = Cardinality(Lanes) - Cardinality(gone)
<2>1. Lanes \cap gone = gone
  OBVIOUS
<2> QED
  BY <1>1, <2>1, FS_Difference
<1>4. Lanes' \subseteq Lanes \ gone
  BY DEF Lanes
<1>5. Cardinality(Lanes') \in Nat /\ Cardinality(Lanes') <= Cardinality(Lanes \ gone)
  BY <1>3, <1>4, FS_Subset, FS_CardinalityType
<1>6. guard.runningCount \in Nat /\ guard'.runningCount \in Nat
  BY DEF TypeOK, Guard
<1> QED
  BY <1>1, <1>2, <1>3, <1>5, <1>6 DEF GuardNeverUndercounts

\* Nothing given back, nothing taken.
LEMMA LanesKept ==
  ASSUME TypeOK, TypeOK', GuardNeverUndercounts,
         \A u \in mapped' : item'[u].status \in LaneStatus => u \in Lanes,
         guard'.runningCount = guard.runningCount
  PROVE  GuardNeverUndercounts'
<1>1. Cardinality({}) = 0
  BY FS_EmptySet
<1>2. guard.runningCount \in Nat
  BY DEF TypeOK, Guard
<1>3. guard'.runningCount >= guard.runningCount - Cardinality({})
  BY <1>1, <1>2
<1>4. \A u \in mapped' : item'[u].status \in LaneStatus => u \in Lanes \ {}
  OBVIOUS
<1> QED
  BY <1>3, <1>4, LanesGivenBack

\* A step that touches neither the rows nor the count.
LEMMA RowsKept ==
  ASSUME TypeOK, TypeOK', GuardNeverUndercounts, mapped' = mapped, item' = item,
         guard'.runningCount = guard.runningCount
  PROVE  GuardNeverUndercounts'
<1>1. \A u \in mapped' : item'[u].status \in LaneStatus => u \in Lanes
  BY DEF Lanes
<1> QED
  BY <1>1, LanesKept

\* A step that rewrites one row, into a lane only if it was one.
LEMMA RowKept ==
  ASSUME TypeOK, TypeOK', GuardNeverUndercounts, NEW t \in Tasks, NEW r,
         item' = [item EXCEPT ![t] = r], guard'.runningCount = guard.runningCount,
         \/ r.status \notin LaneStatus /\ mapped' \subseteq mapped \cup {t}
         \/ (r.status = item[t].status \/ t \in Lanes) /\ mapped' = mapped
  PROVE  GuardNeverUndercounts'
<1>1. item'[t] = r /\ \A u \in Tasks \ {t} : item'[u] = item[u]
  BY DEF TypeOK
<1>2. mapped' \subseteq Tasks
  BY DEF TypeOK
<1>3. \A u \in mapped' : item'[u].status \in LaneStatus => u \in Lanes
  BY <1>1, <1>2 DEF Lanes
<1> QED
  BY <1>3, LanesKept

\* One lane is given back with its slot.
LEMMA LaneGivenBack ==
  ASSUME TypeOK, TypeOK', GuardNeverUndercounts, NEW t \in Lanes,
         item'[t].status \notin LaneStatus, mapped' = mapped,
         \A u \in Tasks \ {t} : item'[u].status \in LaneStatus => item[u].status \in LaneStatus,
         NEW tips \in BOOLEAN, guard' = OnTaskComplete(guard, 1, tips)
  PROVE  GuardNeverUndercounts'
<1>1. guard \in Guard /\ guard.runningCount \in Nat
  BY DEF TypeOK, Guard
<1>2. guard'.runningCount = IF guard.runningCount >= 1 THEN guard.runningCount - 1 ELSE 0
  BY <1>1, GuardComplete
<1>3. Cardinality({t}) = 1
  BY FS_Singleton
<1>4. guard'.runningCount >= guard.runningCount - Cardinality({t})
  BY <1>1, <1>2, <1>3
<1>5. mapped \subseteq Tasks
  BY DEF TypeOK
<1>6. \A u \in mapped' : item'[u].status \in LaneStatus => u \in Lanes \ {t}
  BY <1>5 DEF Lanes
<1> QED
  BY <1>4, <1>6, LanesGivenBack

-----------------------------------------------------------------------------
(* The status a row is left with.                                          *)

\* The field updates of the actions, as far as the status goes.
LEMMA StatusAfter ==
  ASSUME NEW r \in Item
  PROVE  /\ \A s \in Status : [r EXCEPT !.status = s].status = s
         /\ \A S : [r EXCEPT !.blockedBy = S].status = r.status
         /\ \A S : [r EXCEPT !.dup = S].status = r.status
         /\ \A n : [r EXCEPT !.prio = n].status = r.status
  BY DEF Item

\* Writing the status of a row, in whichever map of rows.
LEMMA StatusWritten ==
  ASSUME TypeOK, NEW t \in Tasks, NEW s \in Status, SetStatus(t, s)
  PROVE  /\ item' = [item EXCEPT ![t] = [item[t] EXCEPT !.status = s]]
         /\ [item[t] EXCEPT !.status = s].status = s
         /\ item'[t].status = s
         /\ \A u \in Tasks \ {t} : item'[u] = item[u]
<1>1. item[t] \in Item /\ item \in [Tasks -> Item]
  BY DEF TypeOK
<1>2. item' = [item EXCEPT ![t] = [item[t] EXCEPT !.status = s]]
  BY DEF SetStatus
<1>3. [item[t] EXCEPT !.status = s].status = s
  BY <1>1, StatusAfter
<1> QED
  BY <1>1, <1>2, <1>3

\* handleTaskFailure() only moves rows out of the lanes.
LEMMA FailureStatus ==
  ASSUME TypeOK, NEW t \in Tasks, HandleTaskFailure(t)
  PROVE  /\ item'[t].status = "failed"
         /\ \A u \in Tasks : item'[u].status \in LaneStatus => item[u].status \in LaneStatus
<1> DEFINE after  == [item EXCEPT ![t].status = "failed"]
           blocks == FailureBlocks(t, mapped, after, cfg.failurePropagation)
           skips  == FailureSkips(t, mapped, after, cfg.failurePropagation)
           new(u) == AfterFailure(t, u, blocks, skips, item[u].status)
<1>1. item' = [u \in Tasks |-> [item[u] EXCEPT !.status = new(u)]]
  BY DEF HandleTaskFailure
<1>2. ASSUME NEW u \in Tasks
      PROVE  item'[u].status = new(u)
<2>1. item[u] \in Item
  BY DEF TypeOK
<2>2. [item[u] EXCEPT !.status = new(u)].status = new(u)
  BY <2>1 DEF Item
<2> QED
  BY <1>1, <2>2
<1> HIDE DEF blocks, skips
<1>3. new(t) = "failed"
  BY DEF AfterFailure
<1>4. \A u \in Tasks : new(u) \in LaneStatus => item[u].status \in LaneStatus
  BY DEF AfterFailure, LaneStatus
<1> QED
  BY <1>2, <1>3, <1>4

\* The readiness refresh keeps the status or makes the row queued or ready.
LEMMA RefreshStatus ==
  ASSUME TypeOK, NEW t \in Tasks, NEW view \in SUBSET Tasks, NEW ids \in SUBSET Tasks,
         NEW quar \in BOOLEAN
  PROVE  Refreshed(t, view, ids, quar).status \in {item[t].status, "queued", "ready"}
<1>1. item[t] \in Item
  BY DEF TypeOK
<1> QED
  BY <1>1 DEF Refreshed, Item

\* So does the visit of unblockDependents().
LEMMA UnblockStatus ==
  ASSUME NEW row \in Item, NEW left \in SUBSET Tasks
  PROVE  Unblocked(row, left).status \in {row.status, "queued", "ready"}
  BY DEF Unblocked, Item

\* So does an enrichment.
LEMMA EnrichStatus ==
  ASSUME TypeOK, NEW t \in Tasks, NEW view \in SUBSET Tasks
  PROVE  Enriched(t, view).status \in {item[t].status, "ready"}
<1>1. item[t] \in Item
  BY DEF TypeOK
<1> QED
  BY <1>1 DEF Enriched, Item

-----------------------------------------------------------------------------
(* The actions.                                                            *)

\* Operator requests that leave rows and count alone.
LEMMA RequestsKeep ==
  ASSUME TypeOK, TypeOK', GuardNeverUndercounts,
         \/ Start \/ Pause \/ Resume \/ Stop \/ UpdateConfig
         \/ \E t \in Tasks : CancelUnconfirmed(t) \/ ExternalCompletion(t) \/ StartOutside(t)
  PROVE  GuardNeverUndercounts'
<1>1. mapped' = mapped /\ item' = item /\ guard' = guard
  BY Zenon DEF Start, Pause, Resume, Stop, UpdateConfig, CancelUnconfirmed,
     ExternalCompletion, StartOutside, rows, lanes
<1> QED
  BY <1>1, RowsKept

\* A new row is queued.
LEMMA EnqueueKeeps ==
  ASSUME TypeOK, TypeOK', GuardNeverUndercounts, NEW t \in Tasks, Enqueue(t)
  PROVE  GuardNeverUndercounts'
<1>1. item' = [item EXCEPT ![t] = NewItem] /\ mapped' = mapped \cup {t} /\ guard' = guard
  BY Zenon DEF Enqueue, lanes
<1>2. NewItem.status \notin LaneStatus
  BY DEF NewItem, LaneStatus
<1> QED
  BY <1>1, <1>2, RowKept

\* cancel() gives the lane of a running row back, and takes none.
LEMMA CancelKeeps ==
  ASSUME TypeOK, TypeOK', GuardNeverUndercounts, NEW t \in Tasks, Cancel(t)
  PROVE  GuardNeverUndercounts'
<1> DEFINE r == [item[t] EXCEPT !.status = "stopped"]
<1>1. item' = [item EXCEPT ![t] = r] /\ r.status = "stopped" /\ mapped' = mapped
  BY StatusWritten DEF Cancel, Status
<1>2. "stopped" \notin LaneStatus
  BY DEF LaneStatus
<1> HIDE DEF r
<1>3. CASE t \in Lanes
<2>1. PICK tips \in Tips : guard' = OnTaskComplete(guard, 1, tips)
  BY <1>3 DEF Cancel
<2>2. item'[t].status \notin LaneStatus /\ \A u \in Tasks \ {t} : item'[u] = item[u]
  BY <1>1, <1>2 DEF TypeOK
<2> QED
  BY <1>1, <1>3, <2>1, <2>2, TipsType, LaneGivenBack
<1>4. CASE t \notin Lanes
<2>1. guard' = guard
  BY <1>4 DEF Cancel
<2> QED
  BY <1>1, <1>2, <2>1, RowKept
<1> QED
  BY <1>3, <1>4

\* retry() queues a failed row, remove() drops a row that holds no lane.
LEMMA RetryRemoveKeep ==
  ASSUME TypeOK, TypeOK', GuardNeverUndercounts, NEW t \in Tasks, Retry(t) \/ Remove(t)
  PROVE  GuardNeverUndercounts'
<1>1. CASE Retry(t)
<2> DEFINE r == [item[t] EXCEPT !.status = "queued"]
<2>1. item' = [item EXCEPT ![t] = r] /\ r.status = "queued"
  BY <1>1, StatusWritten DEF Retry, Status
<2>2. mapped' = mapped /\ guard' = guard
  BY <1>1, Zenon DEF Retry, lanes
<2> HIDE DEF r
<2>3. r.status \notin LaneStatus
  BY <2>1 DEF LaneStatus
<2> QED
  BY <2>1, <2>2, <2>3, RowKept
<1>2. CASE Remove(t)
<2>1. mapped' \subseteq mapped /\ item' = item /\ guard' = guard
  BY <1>2, Zenon DEF Remove, lanes
<2>2. \A u \in mapped' : item'[u].status \in LaneStatus => u \in Lanes
  BY <2>1 DEF Lanes
<2> QED
  BY <2>1, <2>2, LanesKept
<1> QED
  BY <1>1, <1>2

\* abort() gives back the lanes whose jobs it found or made stopped.
LEMMA AbortKeeps ==
  ASSUME TypeOK, TypeOK', GuardNeverUndercounts, Abort
  PROVE  GuardNeverUndercounts'
<1>1. PICK res \in [Lanes -> BOOLEAN \X JobState], tips \in Tips :
        LET done == {t \in Lanes : res[t][1]} IN
          /\ item' = [t \in Tasks |-> IF t \in done
                        THEN [item[t] EXCEPT !.status = "stopped"] ELSE item[t]]
          /\ guard' = OnTaskComplete(guard, Cardinality(done), tips /\ done # {})
  BY Zenon DEF Abort
<1> DEFINE done == {t \in Lanes : res[t][1]}
<1>2. done \in SUBSET Lanes /\ Cardinality(done) \in Nat
  BY LanesFinite, FS_Subset, FS_CardinalityType
<1>3. item' = [t \in Tasks |-> IF t \in done
                 THEN [item[t] EXCEPT !.status = "stopped"] ELSE item[t]]
  BY <1>1
<1>4. guard' = OnTaskComplete(guard, Cardinality(done), tips /\ done # {})
  BY <1>1, Zenon
<1> HIDE DEF done
<1>5. guard \in Guard /\ guard.runningCount \in Nat /\ (tips /\ done # {}) \in BOOLEAN
  BY DEF TypeOK, Guard
<1>6. guard'.runningCount = IF guard.runningCount >= Cardinality(done)
                            THEN guard.runningCount - Cardinality(done) ELSE 0
  BY <1>2, <1>4, <1>5, GuardComplete
<1>7. guard'.runningCount >= guard.runningCount - Cardinality(done)
  BY <1>2, <1>5, <1>6
<1>8. \A u \in Tasks : item[u] \in Item
  BY DEF TypeOK
<1>9. \A u \in done : item'[u].status = "stopped"
<2>1. done \subseteq Tasks
  BY <1>2 DEF TypeOK, Lanes
<2> QED
  BY <1>3, <1>8, <2>1, StatusAfter DEF Status
<1>10. mapped' = mapped /\ mapped \subseteq Tasks
  BY DEF Abort, TypeOK
<1>11. \A u \in mapped' : item'[u].status \in LaneStatus => u \in Lanes \ done
  BY <1>3, <1>9, <1>10 DEF LaneStatus, Lanes
<1> QED
  BY <1>2, <1>7, <1>11, LanesGivenBack

\* Approving a gate keeps the lane, when there is one.
LEMMA ApproveKeeps ==
  ASSUME TypeOK, TypeOK', GuardNeverUndercounts, NEW t \in Tasks, Approve(t)
  PROVE  GuardNeverUndercounts'
<1>1. mapped' = mapped /\ guard' = guard
  BY Zenon DEF Approve, lanes
<1>2. CASE ResumesRow(t)
<2>1. item' = [item EXCEPT ![t] = Resumed(item[t], "running")]
  BY <1>2 DEF Approve
<2>2. t \in Lanes
  BY <1>2 DEF ResumesRow, Lanes, LaneStatus
<2> QED
  BY <1>1, <2>1, <2>2, RowKept
<1>3. CASE ~ResumesRow(t)
<2>1. item' = item
  BY <1>3 DEF Approve
<2> QED
  BY <1>1, <2>1, RowsKept
<1> QED
  BY <1>2, <1>3

\* A start that throws after the approval gives the lane back.
LEMMA ApproveStartThrowsKeeps ==
  ASSUME TypeOK, TypeOK', GuardNeverUndercounts, NEW t \in Tasks, ApproveStartThrows(t)
  PROVE  GuardNeverUndercounts'
<1>1. mapped' = mapped
  BY DEF ApproveStartThrows
<1>2. CASE ResumesRow(t)
<2>1. item' = [item EXCEPT ![t] = Resumed(item[t], "ready")]
      /\ guard' = OnTaskComplete(guard, 1, FALSE)
  BY <1>2 DEF ApproveStartThrows
<2>2. t \in Lanes
  BY <1>2 DEF ResumesRow, Lanes, LaneStatus
<2>3. item[t] \in Item /\ item \in [Tasks -> Item]
  BY DEF TypeOK
<2>4. Resumed(item[t], "ready").status = "ready"
  BY <2>3 DEF Resumed, Item
<2>5. item'[t].status \notin LaneStatus /\ \A u \in Tasks \ {t} : item'[u] = item[u]
  BY <2>1, <2>3, <2>4 DEF LaneStatus
<2> QED
  BY <1>1, <2>1, <2>2, <2>5, LaneGivenBack
<1>3. CASE ~ResumesRow(t)
<2>1. item' = item /\ guard' = guard
  BY <1>3 DEF ApproveStartThrows
<2> QED
  BY <1>1, <2>1, RowsKept
<1> QED
  BY <1>2, <1>3

\* A rejection fails the row and gives its lane back.
LEMMA RejectKeeps ==
  ASSUME TypeOK, TypeOK', GuardNeverUndercounts, NEW t \in Tasks, Reject(t)
  PROVE  GuardNeverUndercounts'
<1>1. mapped' = mapped
  BY DEF Reject
<1>2. CASE ResumesRow(t)
<2>1. HandleTaskFailure(t)
  BY <1>2 DEF Reject
<2>2. PICK tips \in Tips : guard' = OnTaskComplete(guard, 1, tips)
  BY <1>2 DEF Reject
<2>3. t \in Lanes
  BY <1>2 DEF ResumesRow, Lanes, LaneStatus
<2>4. item'[t].status \notin LaneStatus
      /\ \A u \in Tasks : item'[u].status \in LaneStatus => item[u].status \in LaneStatus
  BY <2>1, FailureStatus DEF LaneStatus
<2> QED
  BY <1>1, <2>2, <2>3, <2>4, TipsType, LaneGivenBack
<1>3. CASE ~ResumesRow(t)
<2>1. item' = item /\ guard' = guard
  BY <1>3 DEF Reject
<2> QED
  BY <1>1, <2>1, RowsKept
<1> QED
  BY <1>2, <1>3

\* Passes that only move on.
LEMMA PassesKeep ==
  ASSUME TypeOK, TypeOK', GuardNeverUndercounts, NEW p \in Slots,
         \/ ListDone(p) \/ PassStale(p) \/ PassBudgetExhausted(p) \/ PassWaits(p)
         \/ PassFindsNothing(p) \/ PassYields(p) \/ \E t \in Tasks : PassSelects(p, t)
         \/ DispatchStale(p) \/ Resolve(p) \/ Release(p)
  PROVE  GuardNeverUndercounts'
<1>1. mapped' = mapped /\ item' = item /\ guard' = guard
  BY Zenon DEF ListDone, PassStale, PassBudgetExhausted, PassWaits, PassFindsNothing,
     PassYields, PassSelects, DispatchStale, Resolve, Release, rows, lanes
<1> QED
  BY <1>1, RowsKept

\* A readiness visit, with or without its scan.
LEMMA VisitKeeps ==
  ASSUME TypeOK, TypeOK', GuardNeverUndercounts, NEW p \in Slots,
         VisitScanned(p) \/ \E t \in Tasks : Visit(p, t)
  PROVE  GuardNeverUndercounts'
<1>1. mapped' = mapped /\ guard' = guard
  BY Zenon DEF VisitScanned, Visit, lanes
<1>2. pass[p] \in Pass /\ pass[p].view \in SUBSET Tasks
  BY DEF TypeOK, Pass
<1>3. ASSUME NEW t \in Tasks, NEW view \in SUBSET Tasks, NEW ids \in SUBSET Tasks,
             NEW quar \in BOOLEAN, ApplyRefresh(t, view, ids, quar)
      PROVE  GuardNeverUndercounts'
<2> DEFINE r == Refreshed(t, view, ids, quar)
<2>1. item' = [item EXCEPT ![t] = r]
  BY <1>3 DEF ApplyRefresh
<2>2. r.status \in {item[t].status, "queued", "ready"}
  BY RefreshStatus
<2> HIDE DEF r
<2>3. r.status = item[t].status \/ r.status \notin LaneStatus
  BY <2>2 DEF LaneStatus
<2> QED
  BY <1>1, <2>1, <2>3, RowKept
<1>4. CASE VisitScanned(p)
<2>1. /\ pass[p].task \in Tasks /\ pass[p].ids \in SUBSET Tasks
      /\ pass[p].quar \in BOOLEAN
  BY <1>4 DEF TypeOK, Pass, VisitScanned
<2> QED
  BY <1>2, <1>3, <1>4, <2>1, Zenon DEF VisitScanned
<1>5. ASSUME NEW t \in Tasks, Visit(p, t)
      PROVE  GuardNeverUndercounts'
<2> DEFINE ids == Satisfiers(t, pass[p].view) \cup item[t].dup
           quar == item[t].dup # {}
<2>1. ids \in SUBSET Tasks /\ quar \in BOOLEAN
  BY <1>2, UnmetType DEF TypeOK, Item
<2>2. ApplyRefresh(t, pass[p].view, ids, quar) \/ item' = item
  BY <1>5, Zenon DEF Visit
<2> HIDE DEF ids, quar
<2> QED
  BY <1>1, <1>2, <1>3, <2>1, <2>2, RowsKept
<1> QED
  BY <1>4, <1>5

\* The steps of a dispatch that write the row but start nothing.
LEMMA DispatchesKeep ==
  ASSUME TypeOK, TypeOK', GuardNeverUndercounts, NEW p \in Slots,
         \/ ResolveUnmet(p) \/ Claim(p) \/ ClaimContested(p) \/ FenceContested(p)
         \/ DispatchDeferred(p) \/ FenceDecomposed(p) \/ StartThrows(p)
  PROVE  GuardNeverUndercounts'
<1> DEFINE t == pass[p].task
<1>1. pass[p].pc \in {"resolve", "claim", "fence"}
  BY DEF ResolveUnmet, Claim, ClaimContested, FenceContested, DispatchDeferred,
     FenceDecomposed, StartThrows
<1>2. t \in Tasks
  BY <1>1 DEF TypeOK, Pass
<1>3. mapped' = mapped /\ guard' = guard
  BY Zenon DEF ResolveUnmet, Claim, ClaimContested, FenceContested, DispatchDeferred,
     FenceDecomposed, StartThrows, lanes
<1>4. item[t] \in Item /\ item \in [Tasks -> Item]
  BY <1>2 DEF TypeOK
<1> HIDE DEF t
<1>5. ASSUME NEW r, item' = [item EXCEPT ![t] = r],
             r.status \in {item[t].status, "queued", "blocked", "skipped"}
      PROVE  GuardNeverUndercounts'
<2>1. r.status = item[t].status \/ r.status \notin LaneStatus
  BY <1>5 DEF LaneStatus
<2> QED
  BY <1>2, <1>3, <1>5, <2>1, RowKept
<1>6. CASE ResolveUnmet(p)
<2> DEFINE r == [item[t] EXCEPT !.status = "queued", !.blockedBy = Unmet(t, dbDone)]
<2>1. item' = [item EXCEPT ![t] = r]
  BY <1>6 DEF ResolveUnmet, t
<2>2. r.status = "queued"
  BY <1>4 DEF Item
<2> HIDE DEF r
<2> QED
  BY <1>5, <2>1, <2>2
<1>7. CASE Claim(p)
<2> DEFINE r == [item[t] EXCEPT !.dup = {}, !.blockedBy = {}]
<2>1. item' = [item EXCEPT ![t] = r]
  BY <1>7 DEF Claim, t
<2>2. r.status = item[t].status
  BY <1>4 DEF Item
<2> HIDE DEF r
<2> QED
  BY <1>5, <2>1, <2>2
<1>8. CASE ClaimContested(p)
<2> DEFINE bad == Claimants(p) \cap contested
           r   == [item[t] EXCEPT !.status = "blocked", !.blockedBy = bad \ {t}, !.dup = bad]
<2>1. item' = [item EXCEPT ![t] = r]
  BY <1>8 DEF ClaimContested, t
<2>2. r.status = "blocked"
  BY <1>4 DEF Item
<2> HIDE DEF r
<2> QED
  BY <1>5, <2>1, <2>2
<1>9. CASE FenceContested(p)
<2> DEFINE r == [item[t] EXCEPT !.status = "blocked", !.dup = {t}]
<2>1. item' = [item EXCEPT ![t] = r]
  BY <1>9 DEF FenceContested, t
<2>2. r.status = "blocked"
  BY <1>4 DEF Item
<2> HIDE DEF r
<2> QED
  BY <1>5, <2>1, <2>2
<1>10. CASE DispatchDeferred(p)
<2> DEFINE r == [item[t] EXCEPT !.status = "queued"]
<2>1. SetStatus(t, "queued") /\ "queued" \in Status
  BY <1>10 DEF DispatchDeferred, t, Status
<2>2. item' = [item EXCEPT ![t] = r] /\ r.status = "queued"
  BY <1>2, <2>1, StatusWritten
<2> HIDE DEF r
<2> QED
  BY <1>5, <2>2
<1>11. CASE FenceDecomposed(p)
<2> DEFINE r == [item[t] EXCEPT !.status = "skipped"]
<2>1. SetStatus(t, "skipped") /\ "skipped" \in Status
  BY <1>11 DEF FenceDecomposed, t, Status
<2>2. item' = [item EXCEPT ![t] = r] /\ r.status = "skipped"
  BY <1>2, <2>1, StatusWritten
<2> HIDE DEF r
<2> QED
  BY <1>5, <2>2
<1>12. CASE StartThrows(p)
<2>1. HandleTaskFailure(t)
  BY <1>12 DEF StartThrows, t
<2>2. \A u \in mapped' : item'[u].status \in LaneStatus => u \in Lanes
  BY <1>2, <1>3, <2>1, FailureStatus DEF Lanes, TypeOK
<2> QED
  BY <1>3, <2>2, LanesKept
<1> QED
  BY <1>6, <1>7, <1>8, <1>9, <1>10, <1>11, <1>12

\* The admission fence: the one place where a lane is taken, with its slot.
LEMMA FenceAdmitsKeeps ==
  ASSUME TypeOK, TypeOK', GuardNeverUndercounts, NEW p \in Slots, FenceAdmits(p)
  PROVE  GuardNeverUndercounts'
<1> DEFINE t == pass[p].task
<1>1. t \in Tasks /\ mapped' = mapped
  BY DEF TypeOK, Pass, FenceAdmits
<1>2. SetStatus(t, "running") /\ guard' = OnTaskStart(guard, cfg)
  BY DEF FenceAdmits
<1> HIDE DEF t
<1>3. \A u \in Tasks \ {t} : item'[u] = item[u]
  BY <1>2 DEF SetStatus, TypeOK
<1>4. Lanes' \subseteq Lanes \cup {t}
  BY <1>1, <1>3 DEF Lanes, TypeOK
<1>5. IsFiniteSet(Lanes) /\ Cardinality(Lanes) \in Nat
  BY LanesFinite
<1>6. IsFiniteSet(Lanes \cup {t}) /\ Cardinality(Lanes \cup {t}) <= Cardinality(Lanes) + 1
<2>1. /\ IsFiniteSet(Lanes \cup {t})
      /\ Cardinality(Lanes \cup {t}) =
           IF t \in Lanes THEN Cardinality(Lanes) ELSE Cardinality(Lanes) + 1
  BY <1>5, FS_AddElement, Zenon
<2> QED
  BY <1>5, <2>1
<1>7. Cardinality(Lanes') \in Nat /\ Cardinality(Lanes') <= Cardinality(Lanes \cup {t})
  BY <1>4, <1>6, FS_Subset, FS_CardinalityType
<1>8. Cardinality(Lanes \cup {t}) \in Nat
  BY <1>6, FS_CardinalityType
<1>9. guard \in Guard /\ guard.runningCount \in Nat /\ cfg \in Config
  BY BoundsAssumption DEF TypeOK, Guard
<1>10. guard'.runningCount = guard.runningCount + 1
  BY <1>2, <1>9, GuardStart
<1> QED
  BY <1>5, <1>6, <1>7, <1>8, <1>9, <1>10 DEF GuardNeverUndercounts

\* A poll that finds the worker at its gate, or back from it.
LEMMA GatePollsKeep ==
  ASSUME TypeOK, TypeOK', GuardNeverUndercounts, NEW t \in Tasks,
         PollAwaiting(t) \/ PollResumed(t)
  PROVE  GuardNeverUndercounts'
<1>1. t \in Lanes
  BY DEF PollAwaiting, PollResumed, Watched
<1>2. mapped' = mapped /\ guard' = guard
  BY Zenon DEF PollAwaiting, PollResumed, lanes
<1>3. CASE PollAwaiting(t)
<2>1. SetStatus(t, "awaiting_approval") /\ "awaiting_approval" \in Status
  BY <1>3 DEF PollAwaiting, Status
<2> QED
  BY <1>1, <1>2, <2>1, StatusWritten, RowKept
<1>4. CASE PollResumed(t)
<2>1. item' = [item EXCEPT ![t] = Resumed(item[t], "running")]
  BY <1>4 DEF PollResumed
<2> QED
  BY <1>1, <1>2, <2>1, RowKept
<1> QED
  BY <1>3, <1>4

\* A poll that finds the run ended gives the lane back.
LEMMA EndPollsKeep ==
  ASSUME TypeOK, TypeOK', GuardNeverUndercounts, NEW t \in Tasks,
         PollApproved(t) \/ PollSpecChanged(t) \/ PollFailed(t)
  PROVE  GuardNeverUndercounts'
<1>1. PollEnds(t) /\ mapped' = mapped
  BY Zenon DEF PollApproved, PollSpecChanged, PollFailed
<1>2. PICK tips \in Tips : guard' = OnTaskComplete(guard, 1, tips)
  BY <1>1 DEF PollEnds
<1>3. t \in Lanes
  BY <1>1 DEF PollEnds, Watched
<1>4. /\ item'[t].status \notin LaneStatus
      /\ \A u \in Tasks \ {t} : item'[u].status \in LaneStatus => item[u].status \in LaneStatus
<2>1. CASE PollFailed(t)
  BY <2>1, FailureStatus DEF PollFailed, LaneStatus
<2>2. CASE PollApproved(t) \/ PollSpecChanged(t)
<3>1. SetStatus(t, "completed") \/ SetStatus(t, "blocked")
  BY <2>2 DEF PollApproved, PollSpecChanged
<3>2. "completed" \in Status /\ "blocked" \in Status
  BY DEF Status
<3>3. item'[t].status \in {"completed", "blocked"}
  BY <3>1, <3>2, StatusWritten
<3>4. \A u \in Tasks \ {t} : item'[u] = item[u]
  BY <3>1, <3>2, StatusWritten
<3> QED
  BY <3>3, <3>4 DEF LaneStatus
<2> QED
  BY <2>1, <2>2
<1> QED
  BY <1>1, <1>2, <1>3, <1>4, TipsType, LaneGivenBack

\* unblockDependents() and the enrichments leave the count alone.
LEMMA UnblockEnrichCount ==
  ASSUME NEW t \in Tasks, UnblockStep(t) \/ EnrichStep(t)
  PROVE  mapped' = mapped /\ guard' = guard
<1>1. CASE UnblockStep(t)
  BY <1>1, Zenon DEF UnblockStep, UnblockScanned, UnblockRefreshed, UnblockDone,
     UnblockVisit, rows, lanes
<1>2. CASE EnrichStep(t)
  BY <1>2, Zenon DEF EnrichStep, EnrichListed, EnrichScanned, EnrichFails, lanes
<1> QED
  BY <1>1, <1>2

\* unblockDependents(c).
LEMMA UnblockKeeps ==
  ASSUME TypeOK, TypeOK', GuardNeverUndercounts, NEW c \in Tasks, UnblockStep(c)
  PROVE  GuardNeverUndercounts'
<1>1. mapped' = mapped /\ guard' = guard
  BY UnblockEnrichCount
<1>2. ASSUME NEW t \in Tasks, NEW row \in Item, row.status = item[t].status,
             NEW left \in SUBSET Tasks, ApplyUnblock(c, t, row, left)
      PROVE  GuardNeverUndercounts'
<2> DEFINE r == Unblocked(row, left)
<2>1. item' = [item EXCEPT ![t] = r]
  BY <1>2 DEF ApplyUnblock
<2>2. r.status \in {item[t].status, "queued", "ready"}
  BY <1>2, UnblockStatus
<2> HIDE DEF r
<2>3. r.status = item[t].status \/ r.status \notin LaneStatus
  BY <2>2 DEF LaneStatus
<2> QED
  BY <1>1, <2>1, <2>3, RowKept
<1>3. CASE UnblockScanned(c) \/ UnblockDone(c)
<2>1. item' = item
  BY <1>3, Zenon DEF UnblockScanned, UnblockDone, rows
<2> QED
  BY <1>1, <2>1, RowsKept
<1>4. CASE UnblockRefreshed(c)
<2> DEFINE t == unb[c].cur
           left == unb[c].ids \cap contested
           r == [item[t] EXCEPT !.dup = left]
<2>1. t \in Tasks /\ left \in SUBSET Tasks
  BY <1>4 DEF TypeOK, Unblocking, UnblockRefreshed
<2>2. item' = [item EXCEPT ![t].dup = left] \/ ApplyUnblock(c, t, item[t], left)
  BY <1>4, Zenon DEF UnblockRefreshed
<2> HIDE DEF t, left
<2>3. item[t] \in Item
  BY <2>1 DEF TypeOK
<2>4. r.status = item[t].status
  BY <2>3 DEF Item
<2>5. item' = [item EXCEPT ![t] = r] \/ ApplyUnblock(c, t, item[t], left)
  BY <2>2
<2> HIDE DEF r
<2> QED
  BY <1>1, <1>2, <2>1, <2>3, <2>4, <2>5, RowKept
<1>5. ASSUME NEW t \in Tasks, UnblockVisit(c, t)
      PROVE  GuardNeverUndercounts'
<2> DEFINE b == IF unb[c].quar THEN item[t].blockedBy ELSE item[t].blockedBy \ {c}
           row == [item[t] EXCEPT !.blockedBy = item[t].blockedBy \ {c}]
           r == [item[t] EXCEPT !.blockedBy = b]
<2>1. item[t] \in Item /\ item[t].blockedBy \ {c} \in SUBSET Tasks
  BY DEF TypeOK, Item
<2>2. row \in Item /\ row.status = item[t].status /\ r.status = item[t].status
  BY <2>1 DEF Item
<2>3. ApplyUnblock(c, t, row, {}) \/ item' = [item EXCEPT ![t] = r]
  BY <1>5, Zenon DEF UnblockVisit
<2> HIDE DEF b, row, r
<2> QED
  BY <1>1, <1>2, <2>2, <2>3, RowKept
<1> QED
  BY <1>3, <1>4, <1>5 DEF UnblockStep

\* An enrichment.
LEMMA EnrichKeeps ==
  ASSUME TypeOK, TypeOK', GuardNeverUndercounts, NEW t \in Tasks, EnrichStep(t)
  PROVE  GuardNeverUndercounts'
<1>1. mapped' = mapped /\ guard' = guard
  BY UnblockEnrichCount
<1>2. ASSUME NEW view \in SUBSET Tasks, Enrich(t, view)
      PROVE  GuardNeverUndercounts'
<2> DEFINE r == Enriched(t, view)
<2>1. item' = [item EXCEPT ![t] = r]
  BY <1>2 DEF Enrich
<2>2. r.status \in {item[t].status, "ready"}
  BY EnrichStatus
<2> HIDE DEF r
<2>3. r.status = item[t].status \/ r.status \notin LaneStatus
  BY <2>2 DEF LaneStatus
<2> QED
  BY <1>1, <2>1, <2>3, RowKept
<1>3. specDone \in SUBSET Tasks /\ enr[t].view \in SUBSET Tasks /\ item[t] \in Item
  BY DEF TypeOK, Enrichment
<1>4. CASE EnrichListed(t)
<2> DEFINE r == [item[t] EXCEPT !.prio = Priority[t]]
<2>1. Enrich(t, specDone) \/ item' = [item EXCEPT ![t] = r]
  BY <1>4, Zenon DEF EnrichListed
<2>2. r.status = item[t].status
  BY <1>3 DEF Item
<2> HIDE DEF r
<2> QED
  BY <1>1, <1>2, <1>3, <2>1, <2>2, RowKept
<1>5. CASE EnrichScanned(t)
  BY <1>2, <1>3, <1>5 DEF EnrichScanned
<1>6. CASE EnrichFails(t)
<2> DEFINE r == [item[t] EXCEPT !.status = "blocked"]
<2>1. item' = item \/ SetStatus(t, "blocked")
  BY <1>6, Zenon DEF EnrichFails
<2>2. SetStatus(t, "blocked") => item' = [item EXCEPT ![t] = r] /\ r.status = "blocked"
  BY StatusWritten DEF Status
<2> HIDE DEF r
<2>3. "blocked" \notin LaneStatus
  BY DEF LaneStatus
<2> QED
  BY <1>1, <2>1, <2>2, <2>3, RowKept, RowsKept
<1> QED
  BY <1>4, <1>5, <1>6 DEF EnrichStep

\* The recovery scan and the callers that waited for it.
LEMMA RecoveryKeeps ==
  ASSUME TypeOK, TypeOK', GuardNeverUndercounts, RecoveryStep
  PROVE  GuardNeverUndercounts'
<1>1. CASE \/ RecoveryUnavailable \/ RecoveryListed \/ RecoveryScanned \/ RecoveryDone
           \/ StartContinues \/ ResumeContinues
<2>1. mapped' = mapped /\ item' = item /\ guard' = guard
  BY <1>1, Zenon DEF RecoveryUnavailable, RecoveryListed, RecoveryScanned, RecoveryDone,
     StartContinues, ResumeContinues, rows, lanes
<2> QED
  BY <2>1, RowsKept
<1>2. ASSUME NEW t \in Tasks, RecoverRow(t)
      PROVE  GuardNeverUndercounts'
<2> DEFINE r == [item[t] EXCEPT !.status = "blocked", !.dup = {t}]
           s == [item[t] EXCEPT !.status = "queued", !.dup = {}]
<2>1. mapped' = mapped /\ guard' = guard
  BY <1>2, Zenon DEF RecoverRow, lanes
<2>2. item' = [item EXCEPT ![t] = r] \/ item' = [item EXCEPT ![t] = s]
  BY <1>2, Zenon DEF RecoverRow
<2>3. item[t] \in Item
  BY DEF TypeOK
<2>4. r.status \notin LaneStatus /\ s.status \notin LaneStatus
  BY <2>3 DEF Item, LaneStatus
<2> HIDE DEF r, s
<2> QED
  BY <2>1, <2>2, <2>4, RowKept
<1> QED
  BY <1>1, <1>2 DEF RecoveryStep

\* A restart counts every lane that it recovers.
LEMMA CrashKeeps ==
  ASSUME TypeOK, TypeOK', Crash
  PROVE  GuardNeverUndercounts'
<1> DEFINE known == {t \in Tasks : disk[t].status # Absent}
           held  == {t \in known : disk[t].status = "awaiting_approval"}
<1>1. /\ mapped' = known
      /\ item' = [t \in Tasks |-> IF t \in known THEN Recovered(disk[t]) ELSE NewItem]
      /\ guard' = RecoveredGuard(held)
  BY DEF Crash
<1>2. held \subseteq Tasks /\ IsFiniteSet(held)
  BY TasksAssumption, FS_Subset
<1>3. \A t \in known \ held : Recovered(disk[t]).status \notin LaneStatus
<2>1. SUFFICES ASSUME NEW t \in known \ held PROVE Recovered(disk[t]).status \notin LaneStatus
  OBVIOUS
<2>2. disk[t] \in DiskRow /\ disk[t].status # "awaiting_approval"
  BY DEF TypeOK
<2> QED
  BY <2>2 DEF Recovered, DiskRow, LaneStatus
<1>4. known \subseteq Tasks
  OBVIOUS
<1> HIDE DEF known, held
<1>5. Lanes' \subseteq held
  BY <1>1, <1>3, <1>4 DEF Lanes
<1>6. Cardinality(Lanes') \in Nat /\ Cardinality(held) \in Nat
      /\ Cardinality(Lanes') <= Cardinality(held)
  BY <1>2, <1>5, FS_Subset, FS_CardinalityType
<1>7. guard'.runningCount = Cardinality(held)
  BY <1>1 DEF RecoveredGuard
<1> QED
  BY <1>6, <1>7 DEF GuardNeverUndercounts

\* The environment.
LEMMA EnvironmentKeeps ==
  ASSUME TypeOK, TypeOK', GuardNeverUndercounts, Environment
  PROVE  GuardNeverUndercounts'
<1>1. CASE Crash
  BY <1>1, CrashKeeps
<1>2. CASE CooldownEnds
<2>1. mapped' = mapped /\ item' = item /\ guard' = [guard EXCEPT !.cooling = FALSE]
  BY <1>2, Zenon DEF CooldownEnds, rows
<2>2. guard'.runningCount = guard.runningCount
  BY <2>1 DEF TypeOK, Guard
<2> QED
  BY <2>1, <2>2, RowsKept
<1>3. CASE \/ TimerFires
           \/ \E t \in Tasks : \/ StopCleanedUp(t) \/ Publish(t) \/ ContestChanges(t)
                               \/ \E o \in Outcomes : RunEnds(t, o)
<2>1. mapped' = mapped /\ item' = item /\ guard' = guard
  BY <1>3, Zenon DEF TimerFires, StopCleanedUp, Publish, ContestChanges, RunEnds, rows, lanes
<2> QED
  BY <2>1, RowsKept
<1> QED
  BY <1>1, <1>2, <1>3, Zenon DEF Environment

-----------------------------------------------------------------------------
(* The theorem.                                                            *)

\* The constructed queue holds no lane.
LEMMA InitGuard == Init => GuardNeverUndercounts
<1> SUFFICES ASSUME Init PROVE GuardNeverUndercounts
  OBVIOUS
<1>1. Lanes = {} /\ guard.runningCount = 0
  BY DEF Init, Lanes
<1> QED
  BY <1>1, FS_EmptySet DEF GuardNeverUndercounts

\* One step of the queue or of its environment keeps every lane counted.
LEMMA StepGuard ==
  TypeOK /\ TypeOK' /\ GuardNeverUndercounts /\ [Next]_vars => GuardNeverUndercounts'
<1> SUFFICES ASSUME TypeOK, TypeOK', GuardNeverUndercounts, [Next]_vars
             PROVE  GuardNeverUndercounts'
  OBVIOUS
<1>1. CASE Operator
  BY <1>1, RequestsKeep, EnqueueKeeps, CancelKeeps, RetryRemoveKeep, AbortKeeps,
     ApproveKeeps, ApproveStartThrowsKeeps, RejectKeeps, Zenon DEF Operator
<1>2. CASE RecoveryStep
  BY <1>2, RecoveryKeeps
<1>3. CASE Environment
  BY <1>3, EnvironmentKeeps
<1>4. ASSUME NEW p \in Slots, PassStep(p) PROVE GuardNeverUndercounts'
  BY <1>4, PassesKeep, VisitKeeps, Zenon DEF PassStep
<1>5. ASSUME NEW p \in Slots, DispatchStep(p) PROVE GuardNeverUndercounts'
  BY <1>5, PassesKeep, DispatchesKeep, FenceAdmitsKeeps, Zenon DEF DispatchStep
<1>6. ASSUME NEW t \in Tasks, Poll(t) PROVE GuardNeverUndercounts'
  BY <1>6, GatePollsKeep, EndPollsKeep, Zenon DEF Poll
<1>7. ASSUME NEW t \in Tasks, UnblockStep(t) \/ EnrichStep(t) PROVE GuardNeverUndercounts'
  BY <1>7, UnblockKeeps, EnrichKeeps
<1>8. CASE UNCHANGED vars
<2>1. mapped' = mapped /\ item' = item /\ guard' = guard
  BY <1>8, Zenon DEF vars, rows, lanes
<2> QED
  BY <2>1, RowsKept
<1> QED
  BY <1>1, <1>2, <1>3, <1>4, <1>5, <1>6, <1>7, <1>8 DEF Next

\* In every reachable state, whatever was started, gated, cancelled, aborted,
\* removed or replayed, each row that is running or awaits approval has its slot
\* in ConcurrencyGuard.runningCount.
THEOREM LanesCounted == Spec => []GuardNeverUndercounts
<1>1. Init => GuardNeverUndercounts
  BY InitGuard
<1>2. TypeOK /\ TypeOK' /\ GuardNeverUndercounts /\ [Next]_vars => GuardNeverUndercounts'
  BY StepGuard
<1>3. Spec => []TypeOK
  BY TypeCorrect
<1> QED
  BY <1>1, <1>2, <1>3, PTL DEF Spec

-----------------------------------------------------------------------------
(* Every lane is watched.                                                  *)
(*                                                                         *)
(* The release of the admission fence sets the poll timer of a started row *)
(* only under a running queue, so LaneWatched holds where nothing halts    *)
(* the queue: without pause() and stop(), a pause on failure or a budget.  *)

\* Nothing but a drain or abort() halts the queue.
NeverHalted ==
  /\ "pause" \notin Ops /\ "stop" \notin Ops
  /\ \A f \in Configs : ~f.pauseOnFailure /\ ~f.budgeted

\* t has its poll timer, or a fence is being released that will set it.
Attended(t) ==
  \/ t \in polls
  \/ /\ item[t].status = "running" /\ running /\ ~paused
     /\ \E p \in Slots : pass[p].pc = "release" /\ pass[p].task = t

\* The inductive invariant.
LanesAttended == \A t \in Lanes : Attended(t)

\* A row of a lane was one before, and keeps its timer or its release.
RowGoesOn(u) ==
  /\ u \in Lanes
  /\ u \in polls' \/ (u \notin polls /\ item'[u].status \in {item[u].status, "running"})
RowsGoOn == \A u \in mapped' : item'[u].status \in LaneStatus => RowGoesOn(u)

\* A queue that holds a lane is not halted.
QueueGoesOn == running /\ ~paused /\ Lanes # {} => running' /\ ~paused'

\* No release is over.
ReleasesGoOn ==
  \A p \in Slots : pass[p].pc = "release" =>
    pass'[p].pc = "release" /\ pass'[p].task = pass[p].task

\* Together they keep the invariant.
LEMMA AttendedKept ==
  ASSUME LanesAttended, RowsGoOn, QueueGoesOn, ReleasesGoOn
  PROVE  LanesAttended'
<1> SUFFICES ASSUME NEW t \in Lanes' PROVE Attended(t)'
  BY DEF LanesAttended
<1>1. RowGoesOn(t) /\ Attended(t)
  BY DEF LanesAttended, RowsGoOn, RowGoesOn, Lanes
<1>2. CASE t \in polls'
  BY <1>2 DEF Attended
<1>3. CASE t \notin polls'
<2>1. /\ t \notin polls /\ item'[t].status \in {item[t].status, "running"}
      /\ item[t].status = "running" /\ running /\ ~paused
  BY <1>1, <1>3 DEF RowGoesOn, Attended
<2>2. PICK p \in Slots : pass[p].pc = "release" /\ pass[p].task = t
  BY <1>1, <2>1 DEF Attended
<2>3. running' /\ ~paused'
  BY <1>1, <2>1 DEF QueueGoesOn, RowGoesOn
<2>4. pass'[p].pc = "release" /\ pass'[p].task = t
  BY <2>2 DEF ReleasesGoOn
<2> QED
  BY <2>1, <2>3, <2>4 DEF Attended
<1> QED
  BY <1>2, <1>3

\* The rows go on when none is written.
LEMMA RowsLeft ==
  ASSUME mapped' \subseteq mapped, item' = item, polls \subseteq polls'
  PROVE  RowsGoOn
  BY DEF RowsGoOn, RowGoesOn, Lanes

\* ... or when one is, into a lane only if it was one.
LEMMA OneRowGoesOn ==
  ASSUME TypeOK, TypeOK', NEW t \in Tasks, NEW r, item' = [item EXCEPT ![t] = r],
         \/ /\ r.status \notin LaneStatus /\ mapped' \subseteq mapped \cup {t}
            /\ polls \ {t} \subseteq polls'
         \/ /\ r.status = item[t].status \/ (t \in Lanes /\ r.status = "running")
               \/ (t \in Lanes /\ t \in polls)
            /\ mapped' = mapped /\ polls \subseteq polls'
  PROVE  RowsGoOn
<1>1. item'[t] = r /\ \A u \in Tasks \ {t} : item'[u] = item[u]
  BY DEF TypeOK
<1>2. mapped' \subseteq Tasks
  BY DEF TypeOK
<1> SUFFICES ASSUME NEW u \in mapped', item'[u].status \in LaneStatus PROVE RowGoesOn(u)
  BY DEF RowsGoOn
<1>3. CASE u # t
  BY <1>1, <1>2, <1>3 DEF RowGoesOn, Lanes
<1>4. CASE u = t
  BY <1>1, <1>4 DEF RowGoesOn, Lanes
<1> QED
  BY <1>3, <1>4

\* A failure moves rows out of the lanes, and pauses nothing.
LEMMA FailureGoesOn ==
  ASSUME NeverHalted, TypeOK, TypeOK', NEW t \in Tasks, HandleTaskFailure(t), mapped' = mapped,
         polls \ {t} \subseteq polls'
  PROVE  RowsGoOn /\ paused' = paused
<1>1. item'[t].status \notin LaneStatus
      /\ \A u \in Tasks : item'[u].status \in LaneStatus => item[u].status \in LaneStatus
  BY FailureStatus DEF LaneStatus
<1>2. \A u \in Tasks : item'[u].status \in LaneStatus => item'[u].status = item[u].status
<2> DEFINE after  == [item EXCEPT ![t].status = "failed"]
           blocks == FailureBlocks(t, mapped, after, cfg.failurePropagation)
           skips  == FailureSkips(t, mapped, after, cfg.failurePropagation)
           new(u) == AfterFailure(t, u, blocks, skips, item[u].status)
<2>1. item' = [u \in Tasks |-> [item[u] EXCEPT !.status = new(u)]]
  BY DEF HandleTaskFailure
<2> SUFFICES ASSUME NEW u \in Tasks, item'[u].status \in LaneStatus
             PROVE  item'[u].status = item[u].status
  OBVIOUS
<2>2. item[u] \in Item
  BY DEF TypeOK
<2>3. [item[u] EXCEPT !.status = new(u)].status = new(u)
  BY <2>2 DEF Item
<2>4. item'[u].status = new(u)
  BY <2>1, <2>3
<2> HIDE DEF blocks, skips
<2> QED
  BY <2>4 DEF AfterFailure, LaneStatus
<1>3. mapped' \subseteq Tasks
  BY DEF TypeOK
<1>4. RowsGoOn
  BY <1>1, <1>2, <1>3 DEF RowsGoOn, RowGoesOn, Lanes
<1>5. paused' = (paused \/ cfg.pauseOnFailure) /\ cfg \in Configs /\ paused \in BOOLEAN
  BY DEF HandleTaskFailure, TypeOK
<1>6. ~cfg.pauseOnFailure
  BY <1>5 DEF NeverHalted
<1> QED
  BY <1>4, <1>5, <1>6

\* Requests that write no row.
LEMMA RequestsAttended ==
  ASSUME NeverHalted, TypeOK, LanesAttended,
         \/ Start \/ Pause \/ Resume \/ Stop \/ UpdateConfig
         \/ \E t \in Tasks : CancelUnconfirmed(t) \/ ExternalCompletion(t) \/ StartOutside(t)
  PROVE  LanesAttended'
<1>1. "pause" \notin Ops /\ "stop" \notin Ops
  BY DEF NeverHalted
<1>2. ~Pause /\ ~Stop
  BY <1>1, Zenon DEF Pause, Stop
<1>3. /\ mapped' = mapped /\ item' = item /\ pass' = pass
      /\ polls \subseteq polls'
  BY <1>2, Zenon DEF Start, Resume, UpdateConfig, CancelUnconfirmed, ExternalCompletion,
     StartOutside, rows, lanes, threads
<1>4. QueueGoesOn
<2>1. CASE Start
  BY <2>1 DEF Start, CallStart, StartBody, QueueGoesOn, TypeOK
<2>2. CASE Resume
  BY <2>2 DEF Resume, ResumeBody, QueueGoesOn
<2>3. CASE UpdateConfig
  BY <2>3 DEF UpdateConfig, QueueGoesOn
<2>4. ASSUME NEW t \in Tasks, CancelUnconfirmed(t) \/ ExternalCompletion(t) \/ StartOutside(t)
      PROVE  QueueGoesOn
<3>1. running' = running /\ paused' = paused
  BY <2>4, Zenon DEF CancelUnconfirmed, ExternalCompletion, StartOutside, lifecycle
<3> QED
  BY <3>1 DEF QueueGoesOn
<2> QED
  BY <1>2, <2>1, <2>2, <2>3, <2>4
<1>5. RowsGoOn /\ ReleasesGoOn
  BY <1>3, RowsLeft DEF ReleasesGoOn
<1> QED
  BY <1>4, <1>5, AttendedKept

\* A new row is queued, under a queue that runs on or starts.
LEMMA EnqueueAttended ==
  ASSUME TypeOK, TypeOK', LanesAttended, NEW t \in Tasks, Enqueue(t)
  PROVE  LanesAttended'
<1>1. /\ item' = [item EXCEPT ![t] = NewItem] /\ mapped' = mapped \cup {t}
      /\ polls' = polls
  BY Zenon DEF Enqueue, lanes
<1>2. NewItem.status \notin LaneStatus
  BY DEF NewItem, LaneStatus
<1>3. RowsGoOn
  BY <1>1, <1>2, OneRowGoesOn
<1>4. QueueGoesOn
<2>1. (running' = running /\ paused' = paused) \/ (~running /\ ~paused)
  BY Zenon DEF Enqueue
<2> QED
  BY <2>1 DEF QueueGoesOn
<1>5. ReleasesGoOn
<2>1. pass' = [p \in Slots |-> [pass[p] EXCEPT !.seen = @ \ {t}]]
  BY DEF Enqueue, Appended
<2> SUFFICES ASSUME NEW p \in Slots PROVE pass'[p].pc = pass[p].pc /\ pass'[p].task = pass[p].task
  BY DEF ReleasesGoOn
<2>2. pass[p] \in Pass
  BY DEF TypeOK
<2> QED
  BY <2>1, <2>2 DEF Pass
<1> QED
  BY <1>3, <1>4, <1>5, AttendedKept

\* Requests and polls that end or keep one lane, under a queue left as it was.
LEMMA RowStepAttended ==
  ASSUME TypeOK, TypeOK', LanesAttended, NEW t \in Tasks,
         \/ Cancel(t) \/ Retry(t) \/ Remove(t) \/ Approve(t) \/ ApproveStartThrows(t)
         \/ PollAwaiting(t) \/ PollResumed(t) \/ PollApproved(t) \/ PollSpecChanged(t)
  PROVE  LanesAttended'
<1>1. running' = running /\ paused' = paused /\ pass' = pass
  BY Zenon DEF Cancel, Retry, Remove, Approve, ApproveStartThrows, PollAwaiting, PollResumed,
     PollApproved, PollSpecChanged, lifecycle, threads
<1>2. QueueGoesOn /\ ReleasesGoOn
  BY <1>1 DEF QueueGoesOn, ReleasesGoOn
<1>3. item[t] \in Item
  BY DEF TypeOK
<1>4. ASSUME NEW s \in Status \ LaneStatus, SetStatus(t, s), mapped' = mapped,
             polls \ {t} \subseteq polls'
      PROVE  RowsGoOn
<2> DEFINE r == [item[t] EXCEPT !.status = s]
<2>1. item' = [item EXCEPT ![t] = r] /\ r.status \notin LaneStatus
  BY <1>4, StatusWritten
<2> HIDE DEF r
<2> QED
  BY <1>4, <2>1, OneRowGoesOn
<1>5. CASE Cancel(t)
<2>1. SetStatus(t, "stopped") /\ mapped' = mapped /\ polls \ {t} \subseteq polls'
  BY <1>5 DEF Cancel
<2> QED
  BY <1>2, <1>4, <2>1, AttendedKept DEF Status, LaneStatus
<1>6. CASE Retry(t)
<2>1. SetStatus(t, "queued") /\ mapped' = mapped /\ polls' = polls
  BY <1>6, Zenon DEF Retry, lanes
<2> QED
  BY <1>2, <1>4, <2>1, AttendedKept DEF Status, LaneStatus
<1>7. CASE Remove(t)
<2>1. mapped' \subseteq mapped /\ item' = item /\ polls' = polls
  BY <1>7, Zenon DEF Remove, lanes
<2> QED
  BY <1>2, <2>1, RowsLeft, AttendedKept
<1>8. ASSUME NEW s \in {"running", "ready"}, ResumesRow(t), mapped' = mapped,
             item' = [item EXCEPT ![t] = Resumed(@, s)],
             polls' = polls \/ (s = "ready" /\ polls' = polls \ {t})
      PROVE  RowsGoOn
<2> DEFINE r == Resumed(item[t], s)
<2>1. item' = [item EXCEPT ![t] = r] /\ r.status = s
  BY <1>3, <1>8 DEF Resumed, Item
<2>2. t \in Lanes
  BY <1>8 DEF ResumesRow, Lanes, LaneStatus
<2> HIDE DEF r
<2>3. CASE s = "running"
  BY <1>8, <2>1, <2>2, <2>3, OneRowGoesOn
<2>4. CASE s = "ready"
  BY <1>8, <2>1, <2>2, <2>4, OneRowGoesOn DEF LaneStatus
<2> QED
  BY <2>3, <2>4
<1>9. CASE Approve(t)
<2>1. mapped' = mapped /\ polls' = polls
  BY <1>9, Zenon DEF Approve, lanes
<2>2. CASE ResumesRow(t)
  BY <1>2, <1>8, <1>9, <2>1, <2>2, AttendedKept DEF Approve
<2>3. CASE ~ResumesRow(t)
  BY <1>2, <1>9, <2>1, <2>3, RowsLeft, AttendedKept DEF Approve
<2> QED
  BY <2>2, <2>3
<1>10. CASE ApproveStartThrows(t)
<2>1. mapped' = mapped
  BY <1>10 DEF ApproveStartThrows
<2>2. CASE ResumesRow(t)
  BY <1>2, <1>8, <1>10, <2>1, <2>2, AttendedKept DEF ApproveStartThrows
<2>3. CASE ~ResumesRow(t)
  BY <1>2, <1>10, <2>1, <2>3, RowsLeft, AttendedKept DEF ApproveStartThrows
<2> QED
  BY <2>2, <2>3
<1>11. CASE PollAwaiting(t) \/ PollResumed(t)
<2>1. t \in Lanes /\ t \in polls
  BY <1>11 DEF PollAwaiting, PollResumed, Watched
<2>2. mapped' = mapped /\ polls' = polls
  BY <1>11, Zenon DEF PollAwaiting, PollResumed, lanes
<2>3. PICK r : item' = [item EXCEPT ![t] = r]
  BY <1>11 DEF PollAwaiting, PollResumed, SetStatus
<2>4. RowsGoOn
  BY <2>1, <2>2, <2>3, OneRowGoesOn
<2> QED
  BY <1>2, <2>4, AttendedKept
<1>12. CASE PollApproved(t) \/ PollSpecChanged(t)
<2>1. mapped' = mapped /\ polls' = polls \ {t}
  BY <1>12, Zenon DEF PollApproved, PollSpecChanged, PollEnds
<2>2. SetStatus(t, "completed") \/ SetStatus(t, "blocked")
  BY <1>12, Zenon DEF PollApproved, PollSpecChanged
<2>3. "completed" \in Status \ LaneStatus /\ "blocked" \in Status \ LaneStatus
  BY DEF Status, LaneStatus
<2> QED
  BY <1>2, <1>4, <2>1, <2>2, <2>3, AttendedKept
<1> QED
  BY <1>5, <1>6, <1>7, <1>9, <1>10, <1>11, <1>12

\* A run that fails, or whose gate is rejected, gives its lane back.
LEMMA FailuresAttended ==
  ASSUME NeverHalted, TypeOK, TypeOK', LanesAttended, NEW t \in Tasks,
         Reject(t) \/ PollFailed(t)
  PROVE  LanesAttended'
<1>1. running' = running /\ pass' = pass /\ mapped' = mapped
  BY Zenon DEF Reject, PollFailed, threads
<1>2. RowsGoOn /\ paused' = paused
<2>1. CASE HandleTaskFailure(t) /\ polls' = polls \ {t}
  BY <1>1, <2>1, FailureGoesOn
<2>2. CASE item' = item /\ polls' = polls /\ paused' = paused
  BY <1>1, <2>2, RowsLeft
<2> QED
  BY <2>1, <2>2, Zenon DEF Reject, PollFailed, PollEnds
<1> QED
  BY <1>1, <1>2, AttendedKept DEF QueueGoesOn, ReleasesGoOn

\* abort() leaves no lane without a timer.
LEMMA AbortAttended ==
  ASSUME TypeOK, Abort
  PROVE  LanesAttended'
<1>1. PICK res \in [Lanes -> BOOLEAN \X JobState] :
        LET done == {t \in Lanes : res[t][1]} IN
          /\ item' = [t \in Tasks |-> IF t \in done
                        THEN [item[t] EXCEPT !.status = "stopped"] ELSE item[t]]
          /\ polls' = (polls \ done) \cup (Lanes \ done)
  BY Zenon DEF Abort
<1> DEFINE done == {t \in Lanes : res[t][1]}
<1>2. /\ item' = [t \in Tasks |-> IF t \in done
                    THEN [item[t] EXCEPT !.status = "stopped"] ELSE item[t]]
      /\ polls' = (polls \ done) \cup (Lanes \ done)
  BY <1>1
<1>3. done \subseteq Lanes
  OBVIOUS
<1> HIDE DEF done
<1>4. mapped' = mapped /\ mapped \subseteq Tasks
  BY DEF Abort, TypeOK
<1> SUFFICES ASSUME NEW t \in Lanes' PROVE t \in polls'
  BY DEF LanesAttended, Attended
<1>5. t \in Tasks /\ t \in mapped /\ item'[t].status \in LaneStatus
  BY <1>4 DEF Lanes
<1>6. CASE t \in done
<2>1. item[t] \in Item
  BY <1>5 DEF TypeOK
<2>2. item'[t].status = "stopped"
  BY <1>2, <1>5, <1>6, <2>1, StatusAfter DEF Status
<2> QED
  BY <1>5, <2>2 DEF LaneStatus
<1>7. CASE t \notin done
<2>1. t \in Lanes
  BY <1>2, <1>5, <1>7 DEF Lanes
<2> QED
  BY <1>2, <1>7, <2>1
<1> QED
  BY <1>6, <1>7

\* Passes that only move on: none of them ends a release, and none halts a queue
\* that holds a lane.
LEMMA PassesAttended ==
  ASSUME NeverHalted, TypeOK, LanesAttended, NEW p \in Slots,
         \/ ListDone(p) \/ PassStale(p) \/ PassBudgetExhausted(p) \/ PassWaits(p)
         \/ PassFindsNothing(p) \/ PassYields(p) \/ \E t \in Tasks : PassSelects(p, t)
         \/ DispatchStale(p) \/ Resolve(p)
  PROVE  LanesAttended'
<1>1. mapped' = mapped /\ item' = item /\ polls' = polls
  BY Zenon DEF ListDone, PassStale, PassBudgetExhausted, PassWaits, PassFindsNothing,
     PassYields, PassSelects, DispatchStale, Resolve, rows, lanes
<1>2. pass[p].pc # "release"
  BY DEF ListDone, PassStale, PassBudgetExhausted, PassWaits, PassFindsNothing, PassYields,
     PassSelects, Visited, DispatchStale, Resolve
<1>3. PICK r : pass' = [pass EXCEPT ![p] = r]
  BY DEF ListDone, PassStale, PassBudgetExhausted, PassWaits, PassFindsNothing, PassYields,
     PassSelects, Idle, DispatchStale, EndDispatch, Resolve
<1>4. \A q \in Slots : q # p => pass'[q] = pass[q]
  BY <1>3 DEF TypeOK
<1>5. RowsGoOn /\ ReleasesGoOn
  BY <1>1, <1>2, <1>4, RowsLeft DEF ReleasesGoOn
<1>6. QueueGoesOn
<2>1. CASE PassBudgetExhausted(p)
<3>1. cfg \in Configs /\ ~cfg.budgeted
  BY DEF TypeOK, NeverHalted
<3>2. CanStart(guard, cfg) # "fleet_budget_exhausted"
  BY <3>1 DEF CanStart
<3> QED
  BY <2>1, <3>2 DEF PassBudgetExhausted
<2>2. CASE PassFindsNothing(p)
<3>1. running' = HasWork /\ paused' = paused
  BY <2>2 DEF PassFindsNothing
<3>2. Lanes # {} => HasWork
  BY DEF Lanes, HasWork
<3> QED
  BY <3>1, <3>2 DEF QueueGoesOn
<2>3. CASE \/ ListDone(p) \/ PassStale(p) \/ PassWaits(p) \/ PassYields(p)
           \/ \E t \in Tasks : PassSelects(p, t)
           \/ DispatchStale(p) \/ Resolve(p)
<3>1. running' = running /\ paused' = paused
  BY <2>3, Zenon DEF ListDone, PassStale, PassWaits, PassYields, PassSelects, DispatchStale,
     Resolve, lifecycle
<3> QED
  BY <3>1 DEF QueueGoesOn
<2> QED
  BY <2>1, <2>2, <2>3
<1> QED
  BY <1>5, <1>6, AttendedKept

\* A readiness visit, with or without its scan.
LEMMA VisitAttended ==
  ASSUME TypeOK, TypeOK', LanesAttended, NEW p \in Slots,
         VisitScanned(p) \/ \E t \in Tasks : Visit(p, t)
  PROVE  LanesAttended'
<1>1. mapped' = mapped /\ polls' = polls /\ running' = running /\ paused' = paused
  BY Zenon DEF VisitScanned, Visit, lanes, lifecycle
<1>2. pass[p] \in Pass /\ pass[p].view \in SUBSET Tasks
  BY DEF TypeOK, Pass
<1>3. ASSUME NEW t \in Tasks, NEW view \in SUBSET Tasks, NEW ids \in SUBSET Tasks,
             NEW quar \in BOOLEAN, ApplyRefresh(t, view, ids, quar)
      PROVE  RowsGoOn
<2> DEFINE r == Refreshed(t, view, ids, quar)
<2>1. item' = [item EXCEPT ![t] = r]
  BY <1>3 DEF ApplyRefresh
<2>2. r.status \in {item[t].status, "queued", "ready"}
  BY RefreshStatus
<2> HIDE DEF r
<2>3. r.status = item[t].status \/ r.status \notin LaneStatus
  BY <2>2 DEF LaneStatus
<2> QED
  BY <1>1, <2>1, <2>3, OneRowGoesOn
<1>4. ASSUME VisitScanned(p) PROVE RowsGoOn
<2>1. /\ pass[p].task \in Tasks /\ pass[p].ids \in SUBSET Tasks
      /\ pass[p].quar \in BOOLEAN
  BY <1>4 DEF TypeOK, Pass, VisitScanned
<2> QED
  BY <1>2, <1>3, <1>4, <2>1, Zenon DEF VisitScanned
<1>5. ASSUME NEW t \in Tasks, Visit(p, t)
      PROVE  RowsGoOn
<2> DEFINE ids == Satisfiers(t, pass[p].view) \cup item[t].dup
           quar == item[t].dup # {}
<2>1. ids \in SUBSET Tasks /\ quar \in BOOLEAN
  BY <1>2, UnmetType DEF TypeOK, Item
<2>2. ApplyRefresh(t, pass[p].view, ids, quar) \/ item' = item
  BY <1>5, Zenon DEF Visit
<2> HIDE DEF ids, quar
<2> QED
  BY <1>1, <1>2, <1>3, <2>1, <2>2, RowsLeft
<1>6. ReleasesGoOn
<2>1. pass[p].pc # "release"
  BY DEF VisitScanned, Visit
<2>2. \A q \in Slots : q # p => pass'[q] = pass[q]
  BY DEF VisitScanned, Visit, TypeOK
<2> QED
  BY <2>1, <2>2 DEF ReleasesGoOn
<1>7. RowsGoOn
  BY <1>4, <1>5
<1> QED
  BY <1>1, <1>6, <1>7, AttendedKept DEF QueueGoesOn

\* The steps of a dispatch that write the row but start nothing.
LEMMA DispatchesAttended ==
  ASSUME NeverHalted, TypeOK, TypeOK', LanesAttended, NEW p \in Slots,
         \/ ResolveUnmet(p) \/ Claim(p) \/ ClaimContested(p) \/ FenceContested(p)
         \/ DispatchDeferred(p) \/ FenceDecomposed(p) \/ StartThrows(p)
  PROVE  LanesAttended'
<1> DEFINE t == pass[p].task
<1>1. pass[p].pc \in {"resolve", "claim", "fence"}
  BY DEF ResolveUnmet, Claim, ClaimContested, FenceContested, DispatchDeferred,
     FenceDecomposed, StartThrows
<1>2. t \in Tasks
  BY <1>1 DEF TypeOK, Pass
<1>3. mapped' = mapped /\ polls' = polls /\ running' = running
  BY Zenon DEF ResolveUnmet, Claim, ClaimContested, FenceContested, DispatchDeferred,
     FenceDecomposed, StartThrows, lanes, lifecycle
<1>4. item[t] \in Item /\ item \in [Tasks -> Item]
  BY <1>2 DEF TypeOK
<1>5. ReleasesGoOn
<2>1. PICK r : pass' = [pass EXCEPT ![p] = r]
  BY DEF ResolveUnmet, Claim, ClaimContested, FenceContested, DispatchDeferred,
     FenceDecomposed, StartThrows, EndDispatch
<2>2. \A q \in Slots : q # p => pass'[q] = pass[q]
  BY <2>1 DEF TypeOK
<2> QED
  BY <1>1, <2>2 DEF ReleasesGoOn
<1> HIDE DEF t
<1>6. CASE StartThrows(p)
<2>1. HandleTaskFailure(t)
  BY <1>6 DEF StartThrows, t
<2>2. RowsGoOn /\ paused' = paused
  BY <1>2, <1>3, <2>1, FailureGoesOn
<2> QED
  BY <1>3, <1>5, <2>2, AttendedKept DEF QueueGoesOn
<1>7. CASE \/ ResolveUnmet(p) \/ Claim(p) \/ ClaimContested(p) \/ FenceContested(p)
           \/ DispatchDeferred(p) \/ FenceDecomposed(p)
<2>1. paused' = paused
  BY <1>7, Zenon DEF ResolveUnmet, Claim, ClaimContested, FenceContested, DispatchDeferred,
     FenceDecomposed, lifecycle
<2>2. PICK r : item' = [item EXCEPT ![t] = r]
               /\ r.status \in {item[t].status, "queued", "blocked", "skipped"}
<3> DEFINE bad == Claimants(p) \cap contested
           r1  == [item[t] EXCEPT !.status = "queued", !.blockedBy = Unmet(t, dbDone)]
           r2  == [item[t] EXCEPT !.dup = {}, !.blockedBy = {}]
           r3  == [item[t] EXCEPT !.status = "blocked", !.blockedBy = bad \ {t}, !.dup = bad]
           r4  == [item[t] EXCEPT !.status = "blocked", !.dup = {t}]
           r5  == [item[t] EXCEPT !.status = "queued"]
           r6  == [item[t] EXCEPT !.status = "skipped"]
<3>1. \/ item' = [item EXCEPT ![t] = r1] \/ item' = [item EXCEPT ![t] = r2]
      \/ item' = [item EXCEPT ![t] = r3] \/ item' = [item EXCEPT ![t] = r4]
      \/ item' = [item EXCEPT ![t] = r5] \/ item' = [item EXCEPT ![t] = r6]
<4>1. CASE ResolveUnmet(p)
  BY <4>1 DEF ResolveUnmet, t
<4>2. CASE Claim(p)
  BY <4>2 DEF Claim, t
<4>3. CASE ClaimContested(p)
  BY <4>3 DEF ClaimContested, t
<4>4. CASE FenceContested(p)
  BY <4>4 DEF FenceContested, t
<4>5. CASE DispatchDeferred(p)
  BY <4>5 DEF DispatchDeferred, SetStatus, t
<4>6. CASE FenceDecomposed(p)
  BY <4>6 DEF FenceDecomposed, SetStatus, t
<4> QED
  BY <1>7, <4>1, <4>2, <4>3, <4>4, <4>5, <4>6
<3>2. /\ r1.status = "queued" /\ r2.status = item[t].status /\ r3.status = "blocked"
      /\ r4.status = "blocked" /\ r5.status = "queued" /\ r6.status = "skipped"
  BY <1>4 DEF Item
<3> HIDE DEF r1, r2, r3, r4, r5, r6
<3> QED
  BY <3>1, <3>2
<2>3. r.status = item[t].status \/ r.status \notin LaneStatus
  BY <2>2 DEF LaneStatus
<2>4. RowsGoOn
  BY <1>2, <1>3, <2>2, <2>3, OneRowGoesOn
<2> QED
  BY <1>3, <1>5, <2>1, <2>4, AttendedKept DEF QueueGoesOn
<1> QED
  BY <1>6, <1>7

\* The admission fence: the row it starts waits for the release.
LEMMA FenceAdmitsAttended ==
  ASSUME TypeOK, TypeOK', LanesAttended, NEW p \in Slots, FenceAdmits(p)
  PROVE  LanesAttended'
<1> DEFINE t == pass[p].task
<1>1. t \in Tasks /\ mapped' = mapped /\ polls' = polls /\ running' = running
      /\ paused' = paused /\ running /\ ~paused /\ pass[p].pc = "fence"
  BY Zenon DEF TypeOK, Pass, FenceAdmits, lifecycle, DispatchCurrent
<1>2. SetStatus(t, "running") /\ pass' = [pass EXCEPT ![p].pc = "release"]
  BY DEF FenceAdmits
<1>3. pass'[p].pc = "release" /\ pass'[p].task = t
      /\ \A q \in Slots : q # p => pass'[q] = pass[q]
  BY <1>2 DEF TypeOK, Pass
<1> HIDE DEF t
<1>4. item'[t].status = "running" /\ \A u \in Tasks \ {t} : item'[u] = item[u]
  BY <1>1, <1>2, StatusWritten DEF Status
<1> SUFFICES ASSUME NEW u \in Lanes' PROVE Attended(u)'
  BY DEF LanesAttended
<1>5. CASE u = t
  BY <1>1, <1>3, <1>4, <1>5 DEF Attended
<1>6. CASE u # t
<2>1. u \in Tasks /\ item'[u] = item[u] /\ u \in Lanes
  BY <1>1, <1>4, <1>6 DEF Lanes, TypeOK
<2>2. Attended(u)
  BY <2>1 DEF LanesAttended
<2>3. CASE u \in polls
  BY <1>1, <2>3 DEF Attended
<2>4. CASE u \notin polls
<3>1. PICK q \in Slots : pass[q].pc = "release" /\ pass[q].task = u
  BY <2>2, <2>4 DEF Attended
<3>2. pass'[q].pc = "release" /\ pass'[q].task = u
  BY <1>1, <1>3, <3>1
<3> QED
  BY <1>1, <2>1, <2>2, <2>4, <3>2 DEF Attended
<2> QED
  BY <2>3, <2>4
<1> QED
  BY <1>5, <1>6

\* The release of the fence: a row that still runs gets its timer.
LEMMA ReleaseAttended ==
  ASSUME TypeOK, LanesAttended, NEW p \in Slots, Release(p)
  PROVE  LanesAttended'
<1> DEFINE t == pass[p].task
<1>1. mapped' = mapped /\ item' = item /\ running' = running /\ paused' = paused
  BY Zenon DEF Release, lifecycle
<1>2. \A q \in Slots : q # p => pass'[q] = pass[q]
  BY DEF Release, EndDispatch, TypeOK
<1>3. /\ polls \subseteq polls'
      /\ running /\ ~paused /\ t \in mapped /\ item[t].status = "running" => t \in polls'
  BY DEF Release
<1> HIDE DEF t
<1> SUFFICES ASSUME NEW u \in Lanes' PROVE Attended(u)'
  BY DEF LanesAttended
<1>4. u \in Lanes /\ Attended(u) /\ u \in mapped
  BY <1>1 DEF Lanes, LanesAttended
<1>5. CASE u \in polls'
  BY <1>5 DEF Attended
<1>6. CASE u \notin polls'
<2>1. u \notin polls /\ item[u].status = "running" /\ running /\ ~paused /\ u # t
  BY <1>3, <1>4, <1>6 DEF Attended
<2>2. PICK q \in Slots : pass[q].pc = "release" /\ pass[q].task = u
  BY <1>4, <2>1 DEF Attended
<2>3. pass'[q] = pass[q]
  BY <1>2, <2>1, <2>2 DEF t
<2> QED
  BY <1>1, <2>1, <2>2, <2>3 DEF Attended
<1> QED
  BY <1>5, <1>6

\* unblockDependents() and the enrichments take no lane, whatever row they write.
LEMMA UnblockEnrichAttended ==
  ASSUME TypeOK, TypeOK', LanesAttended, NEW c \in Tasks, UnblockStep(c) \/ EnrichStep(c)
  PROVE  LanesAttended'
<1>1. mapped' = mapped
  BY UnblockEnrichCount
<1>2. polls' = polls /\ running' = running /\ paused' = paused /\ pass' = pass
<2>1. CASE UnblockStep(c)
  BY <2>1, Zenon DEF UnblockStep, UnblockScanned, UnblockRefreshed, UnblockDone,
     UnblockVisit, lanes, lifecycle
<2>2. CASE EnrichStep(c)
  BY <2>2, Zenon DEF EnrichStep, EnrichListed, EnrichScanned, EnrichFails, lanes, lifecycle
<2> QED
  BY <2>1, <2>2
<1>3. \/ item' = item
      \/ \E t \in Tasks : \E r : /\ item' = [item EXCEPT ![t] = r]
                                 /\ r.status = item[t].status \/ r.status \notin LaneStatus
<2>1. ASSUME NEW t \in Tasks, NEW row \in Item, row.status = item[t].status,
             NEW left \in SUBSET Tasks, ApplyUnblock(c, t, row, left)
      PROVE  \E r : /\ item' = [item EXCEPT ![t] = r]
                    /\ r.status = item[t].status \/ r.status \notin LaneStatus
<3>1. item' = [item EXCEPT ![t] = Unblocked(row, left)]
  BY <2>1 DEF ApplyUnblock
<3>2. Unblocked(row, left).status \in {item[t].status, "queued", "ready"}
  BY <2>1, UnblockStatus
<3> QED
  BY <3>1, <3>2 DEF LaneStatus
<2>2. ASSUME NEW view \in SUBSET Tasks, Enrich(c, view)
      PROVE  \E r : /\ item' = [item EXCEPT ![c] = r]
                    /\ r.status = item[c].status \/ r.status \notin LaneStatus
<3>1. item' = [item EXCEPT ![c] = Enriched(c, view)]
  BY <2>2 DEF Enrich
<3>2. Enriched(c, view).status \in {item[c].status, "ready"}
  BY EnrichStatus
<3> QED
  BY <3>1, <3>2 DEF LaneStatus
<2>3. CASE UnblockScanned(c) \/ UnblockDone(c)
  BY <2>3, Zenon DEF UnblockScanned, UnblockDone, rows
<2>4. CASE UnblockRefreshed(c)
<3> DEFINE t == unb[c].cur
           left == unb[c].ids \cap contested
           r == [item[t] EXCEPT !.dup = left]
<3>1. t \in Tasks /\ left \in SUBSET Tasks
  BY <2>4 DEF TypeOK, Unblocking, UnblockRefreshed
<3>2. item' = [item EXCEPT ![t].dup = left] \/ ApplyUnblock(c, t, item[t], left)
  BY <2>4, Zenon DEF UnblockRefreshed
<3> HIDE DEF t, left
<3>3. item[t] \in Item
  BY <3>1 DEF TypeOK
<3>4. r.status = item[t].status
  BY <3>3 DEF Item
<3>5. item' = [item EXCEPT ![t] = r] \/ ApplyUnblock(c, t, item[t], left)
  BY <3>2
<3> HIDE DEF r
<3> QED
  BY <2>1, <3>1, <3>3, <3>4, <3>5
<2>5. ASSUME NEW t \in Tasks, UnblockVisit(c, t)
      PROVE  \E r : /\ item' = [item EXCEPT ![t] = r]
                    /\ r.status = item[t].status \/ r.status \notin LaneStatus
<3> DEFINE b == IF unb[c].quar THEN item[t].blockedBy ELSE item[t].blockedBy \ {c}
           row == [item[t] EXCEPT !.blockedBy = item[t].blockedBy \ {c}]
           r == [item[t] EXCEPT !.blockedBy = b]
<3>1. item[t] \in Item /\ item[t].blockedBy \ {c} \in SUBSET Tasks
  BY DEF TypeOK, Item
<3>2. row \in Item /\ row.status = item[t].status /\ r.status = item[t].status
  BY <3>1 DEF Item
<3>3. ApplyUnblock(c, t, row, {}) \/ item' = [item EXCEPT ![t] = r]
  BY <2>5, Zenon DEF UnblockVisit
<3> HIDE DEF b, row, r
<3> QED
  BY <2>1, <3>2, <3>3
<2>6. specDone \in SUBSET Tasks /\ enr[c].view \in SUBSET Tasks /\ item[c] \in Item
  BY DEF TypeOK, Enrichment
<2>7. CASE EnrichListed(c)
<3> DEFINE r == [item[c] EXCEPT !.prio = Priority[c]]
<3>1. Enrich(c, specDone) \/ item' = [item EXCEPT ![c] = r]
  BY <2>7, Zenon DEF EnrichListed
<3>2. r.status = item[c].status
  BY <2>6 DEF Item
<3> HIDE DEF r
<3> QED
  BY <2>2, <2>6, <3>1, <3>2
<2>8. CASE EnrichScanned(c)
  BY <2>2, <2>6, <2>8 DEF EnrichScanned
<2>9. CASE EnrichFails(c)
<3> DEFINE r == [item[c] EXCEPT !.status = "blocked"]
<3>1. item' = item \/ SetStatus(c, "blocked")
  BY <2>9, Zenon DEF EnrichFails
<3>2. SetStatus(c, "blocked") => item' = [item EXCEPT ![c] = r] /\ r.status = "blocked"
  BY StatusWritten DEF Status
<3> HIDE DEF r
<3>3. "blocked" \notin LaneStatus
  BY DEF LaneStatus
<3> QED
  BY <3>1, <3>2, <3>3
<2> QED
  BY <2>3, <2>4, <2>5, <2>7, <2>8, <2>9 DEF UnblockStep, EnrichStep
<1>4. RowsGoOn
<2>1. CASE item' = item
  BY <1>1, <1>2, <2>1, RowsLeft
<2>2. ASSUME NEW t \in Tasks, NEW r, item' = [item EXCEPT ![t] = r],
             r.status = item[t].status \/ r.status \notin LaneStatus
      PROVE  RowsGoOn
  BY <1>1, <1>2, <2>2, OneRowGoesOn
<2> QED
  BY <1>3, <2>1, <2>2
<1> QED
  BY <1>2, <1>4, AttendedKept DEF QueueGoesOn, ReleasesGoOn

\* The recovery scan and the callers that waited for it.
LEMMA RecoveryAttended ==
  ASSUME TypeOK, TypeOK', LanesAttended, RecoveryStep
  PROVE  LanesAttended'
<1>1. pass' = pass /\ mapped' = mapped /\ polls' = polls
  BY Zenon DEF RecoveryStep, RecoveryUnavailable, RecoveryListed, RecoveryScanned,
     RecoveryDone, RecoverRow, StartContinues, ResumeContinues, rows, lanes
<1>2. QueueGoesOn
<2>1. CASE \/ RecoveryUnavailable \/ RecoveryListed \/ RecoveryScanned \/ RecoveryDone
           \/ \E t \in Tasks : RecoverRow(t)
<3>1. running' = running /\ paused' = paused
  BY <2>1, Zenon DEF RecoveryUnavailable, RecoveryListed, RecoveryScanned, RecoveryDone,
     RecoverRow, lifecycle
<3> QED
  BY <3>1 DEF QueueGoesOn
<2>2. CASE StartContinues \/ ResumeContinues
  BY <2>2 DEF StartContinues, StartBody, ResumeContinues, ResumeBody, QueueGoesOn, TypeOK
<2> QED
  BY <2>1, <2>2 DEF RecoveryStep
<1>3. RowsGoOn
<2>1. CASE item' = item
  BY <1>1, <2>1, RowsLeft
<2>2. ASSUME NEW t \in Tasks, RecoverRow(t)
      PROVE  RowsGoOn
<3> DEFINE r == [item[t] EXCEPT !.status = "blocked", !.dup = {t}]
           s == [item[t] EXCEPT !.status = "queued", !.dup = {}]
<3>1. item' = [item EXCEPT ![t] = r] \/ item' = [item EXCEPT ![t] = s]
  BY <2>2, Zenon DEF RecoverRow
<3>2. item[t] \in Item
  BY DEF TypeOK
<3>3. r.status \notin LaneStatus /\ s.status \notin LaneStatus
  BY <3>2 DEF Item, LaneStatus
<3> HIDE DEF r, s
<3> QED
  BY <1>1, <3>1, <3>3, OneRowGoesOn
<2>3. item' = item \/ \E t \in Tasks : RecoverRow(t)
  BY Zenon DEF RecoveryStep, RecoveryUnavailable, RecoveryListed, RecoveryScanned,
     RecoveryDone, StartContinues, ResumeContinues, rows
<2> QED
  BY <2>1, <2>2, <2>3
<1> QED
  BY <1>1, <1>2, <1>3, AttendedKept DEF ReleasesGoOn

\* A restart polls every lane that it recovers.
LEMMA CrashAttended == ASSUME TypeOK, Crash PROVE LanesAttended'
<1> DEFINE known == {t \in Tasks : disk[t].status # Absent}
           held  == {t \in known : disk[t].status = "awaiting_approval"}
<1>1. /\ mapped' = known /\ polls' = held
      /\ item' = [t \in Tasks |-> IF t \in known THEN Recovered(disk[t]) ELSE NewItem]
  BY DEF Crash
<1>2. \A t \in known \ held : Recovered(disk[t]).status \notin LaneStatus
<2>1. SUFFICES ASSUME NEW t \in known \ held PROVE Recovered(disk[t]).status \notin LaneStatus
  OBVIOUS
<2>2. disk[t] \in DiskRow /\ disk[t].status # "awaiting_approval"
  BY DEF TypeOK
<2> QED
  BY <2>2 DEF Recovered, DiskRow, LaneStatus
<1>3. known \subseteq Tasks
  OBVIOUS
<1> HIDE DEF known, held
<1>4. Lanes' \subseteq held
  BY <1>1, <1>2, <1>3 DEF Lanes
<1> QED
  BY <1>1, <1>4 DEF LanesAttended, Attended

\* The environment, and a step that changes nothing.
LEMMA EnvironmentAttended ==
  ASSUME TypeOK, LanesAttended, Environment \/ UNCHANGED vars
  PROVE  LanesAttended'
<1>1. CASE Crash
  BY <1>1, CrashAttended
<1>2. CASE \/ TimerFires \/ CooldownEnds \/ UNCHANGED vars
           \/ \E t \in Tasks : \/ StopCleanedUp(t) \/ Publish(t) \/ ContestChanges(t)
                               \/ \E o \in Outcomes : RunEnds(t, o)
<2>1. /\ mapped' = mapped /\ item' = item /\ polls' = polls /\ running' = running
      /\ paused' = paused /\ pass' = pass
  BY <1>2, Zenon DEF TimerFires, CooldownEnds, StopCleanedUp, Publish, ContestChanges,
     RunEnds, vars, lifecycle, rows, lanes, threads
<2> QED
  BY <2>1, RowsLeft, AttendedKept DEF QueueGoesOn, ReleasesGoOn
<1> QED
  BY <1>1, <1>2, Zenon DEF Environment

\* One step keeps every lane attended.
LEMMA StepAttended ==
  ASSUME NeverHalted
  PROVE  TypeOK /\ TypeOK' /\ LanesAttended /\ [Next]_vars => LanesAttended'
<1> SUFFICES ASSUME TypeOK, TypeOK', LanesAttended, [Next]_vars
             PROVE  LanesAttended'
  OBVIOUS
<1>1. CASE Operator
  BY <1>1, RequestsAttended, EnqueueAttended, RowStepAttended, AbortAttended,
     FailuresAttended, Zenon DEF Operator
<1>2. CASE RecoveryStep
  BY <1>2, RecoveryAttended
<1>3. CASE Environment \/ UNCHANGED vars
  BY <1>3, EnvironmentAttended
<1>4. ASSUME NEW p \in Slots, PassStep(p) PROVE LanesAttended'
  BY <1>4, PassesAttended, VisitAttended, Zenon DEF PassStep
<1>5. ASSUME NEW p \in Slots, DispatchStep(p) PROVE LanesAttended'
  BY <1>5, PassesAttended, DispatchesAttended, FenceAdmitsAttended, ReleaseAttended, Zenon
     DEF DispatchStep
<1>6. ASSUME NEW t \in Tasks, Poll(t) PROVE LanesAttended'
  BY <1>6, RowStepAttended, FailuresAttended, Zenon DEF Poll
<1>7. ASSUME NEW t \in Tasks, UnblockStep(t) \/ EnrichStep(t) PROVE LanesAttended'
  BY <1>7, UnblockEnrichAttended
<1> QED
  BY <1>1, <1>2, <1>3, <1>4, <1>5, <1>6, <1>7 DEF Next

\* Where nothing halts the queue, each row that is running or awaits approval has
\* its poll timer, or the dispatch that will set it is about to: through gates,
\* cancellations that are not confirmed, abort() and restarts, no lane is held by
\* a row that no loop looks at.
THEOREM LanesPolled == ASSUME NeverHalted PROVE Spec => []LaneWatched
<1>1. Init => LanesAttended
  BY DEF Init, LanesAttended, Lanes
<1>2. TypeOK /\ TypeOK' /\ LanesAttended /\ [Next]_vars => LanesAttended'
  BY StepAttended
<1>3. Spec => []TypeOK
  BY TypeCorrect
<1>4. LanesAttended => LaneWatched
  BY DEF LanesAttended, Attended, LaneWatched
<1> QED
  BY <1>1, <1>2, <1>3, <1>4, PTL DEF Spec
=============================================================================
