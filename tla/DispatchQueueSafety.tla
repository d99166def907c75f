------------------------ MODULE DispatchQueueSafety -------------------------
(***************************************************************************)
(* What the dispatch queue promises about the rows it dispatches, for every *)
(* task graph, every number of concurrent passes and every set of operator *)
(* requests and faults: no task is made ready, or started, before its      *)
(* dependencies are done; two passes never dispatch one task; and a restart *)
(* replays every outcome the queue has reported.  The last section adds    *)
(* that a completed row stays completed.                                   *)
(*                                                                         *)
(* These invariants are not inductive.  A row becomes ready because of     *)
(* a view some thread took earlier, or because its blockedBy list became   *)
(* empty, so the argument is about what every stored view, flag and list   *)
(* says of the tasks whose work really is done (approved): a view may be   *)
(* old, never wrong; and a list that is not empty names all that is open.  *)
(***************************************************************************)
EXTENDS DispatchQueueType

\* What t still waits for, by the work that really is done.
Unfinished(t) == Unmet(t, approved)

Worked == {"ready", "running", "awaiting_approval"}
Durable == {"completed", "failed", "skipped", "stopped", "awaiting_approval"}

\* What a row of t, in memory or in the log, may claim.
RowSound(t, row) ==
  /\ row.status = "completed" => t \in approved
  /\ row.status \in Worked => Unfinished(t) = {}
  /\ row.blockedBy # {} => Unfinished(t) \subseteq row.blockedBy

RowsSound == \A t \in Tasks : RowSound(t, item[t]) /\ RowSound(t, disk[t])

\* The listings and the approvals of the manager show nothing that is not done.
ViewsSound ==
  /\ dbDone \subseteq approved /\ specDone \subseteq approved
  /\ \A t \in Tasks : enr[t].view \subseteq approved
  /\ \A t \in Tasks : job[t] = "ok" => t \in approved

\* Nor does the view a scheduling pass keeps; a pass that goes on to the claim and
\* the fence has found the dependencies of its task done.
PassesSound ==
  \A p \in Slots : /\ pass[p].view \subseteq approved
                   /\ pass[p].pc \in {"claim", "fence"} => Unfinished(pass[p].task) = {}

\* unblockDependents(k) runs for a done task; the list of the row whose scan it
\* awaits names all that the row waits for.
UnblockingSound ==
  \A k \in Tasks :
    /\ unb[k].pc # "idle" => k \in approved
    /\ unb[k].cur # NoTask => Unfinished(unb[k].cur) \subseteq item[unb[k].cur].blockedBy

\* A started worker's dependencies were done.
StartsSound == \A t \in started : Unfinished(t) = {}

\* The inductive invariant.
Safe ==
  TypeOK /\ RowsSound /\ ViewsSound /\ PassesSound /\ UnblockingSound /\ StartsSound
  /\ DispatchMutex /\ OutcomesDurable

-----------------------------------------------------------------------------
(* Dependency resolution.                                                  *)

\* The more is done, the less is unmet.
LEMMA UnmetShrinks ==
  ASSUME NEW t \in Tasks, NEW S, NEW R, S \subseteq R
  PROVE  Unmet(t, R) \subseteq Unmet(t, S)
<1> SUFFICES ASSUME NEW x \in Unmet(t, R) PROVE x \in Unmet(t, S)
  OBVIOUS
<1>1. PICK d \in Deps[t] : x \in (IF d \in R THEN {}
                                  ELSE IF Subtasks[d] # {} THEN Subtasks[d] \ R ELSE {d})
  BY Zenon DEF Unmet
<1>2. x \in (IF d \in S THEN {} ELSE IF Subtasks[d] # {} THEN Subtasks[d] \ S ELSE {d})
  BY <1>1
<1> QED
  BY <1>2, Zenon DEF Unmet

\* What is unmet is not done.
LEMMA UnmetNotDone == ASSUME NEW t, NEW S PROVE Unmet(t, S) \cap S = {}
<1> SUFFICES ASSUME NEW x \in Unmet(t, S) PROVE x \notin S
  OBVIOUS
<1>1. PICK d \in Deps[t] : x \in (IF d \in S THEN {}
                                  ELSE IF Subtasks[d] # {} THEN Subtasks[d] \ S ELSE {d})
  BY Zenon DEF Unmet
<1> QED
  BY <1>1

\* With nothing unmet, every dependency is resolved.
LEMMA NothingUnmet ==
  ASSUME NEW t, NEW S, Unmet(t, S) = {}
  PROVE  \A d \in Deps[t] : Resolved(d, S)
<1> SUFFICES ASSUME NEW d \in Deps[t], d \notin S PROVE Resolved(d, S)
  BY DEF Resolved
<1>1. (IF d \in S THEN {} ELSE IF Subtasks[d] # {} THEN Subtasks[d] \ S ELSE {d}) = {}
  BY Zenon DEF Unmet
<1> QED
  BY <1>1 DEF Resolved

\* A view that is not wrong finds everything unmet that is open.
LEMMA ViewFinds ==
  ASSUME NEW t \in Tasks, NEW view, view \subseteq approved
  PROVE  Unfinished(t) \subseteq Unmet(t, view)
  BY UnmetShrinks DEF Unfinished

\* What is done stays done, so an open dependency is never new.
LEMMA StaysFinished ==
  ASSUME NEW t \in Tasks, approved \subseteq approved'
  PROVE  Unfinished(t)' \subseteq Unfinished(t)
  BY UnmetShrinks DEF Unfinished

-----------------------------------------------------------------------------
(* What a step does to the rows.                                           *)

\* A status t may be given now.
Allowed(t, s) == /\ s = "completed" => t \in approved
                 /\ s \in Worked => Unfinished(t) = {}

\* The log still has t, and follows an outcome that is new.
Recorded(t) ==
  disk[t].status # Absent =>
    /\ disk'[t].status # Absent
    /\ item'[t].status \in Durable =>
         \/ disk'[t].status = item'[t].status
         \/ item'[t].status = item[t].status /\ disk'[t].status = disk[t].status

\* The list of t still names all that t waits for.
Listed(t) == Unfinished(t) \subseteq item[t].blockedBy => Unfinished(t) \subseteq item'[t].blockedBy

RowsMove ==
  /\ mapped' \subseteq mapped
  /\ \A t \in Tasks : RowSound(t, item'[t]) /\ RowSound(t, disk'[t]) /\ Listed(t)
  /\ \A t \in mapped : Recorded(t)

\* The rows and their logged forms are records, and sound.
LEMMA RowTypes ==
  ASSUME Safe, NEW t \in Tasks
  PROVE  /\ item[t] \in Item /\ item[t] \in DiskRow /\ disk[t] \in DiskRow
         /\ item[t].status \in Status /\ item[t].status # Absent
         /\ item \in [Tasks -> Item] /\ disk \in [Tasks -> DiskRow] /\ mapped \subseteq Tasks
         /\ RowSound(t, item[t]) /\ RowSound(t, disk[t])
  BY ItemIsRow DEF Safe, TypeOK, RowsSound, Item, Status, Absent

\* A row with a status it may have, and the rest as it was.
LEMMA StatusSound ==
  ASSUME NEW t, NEW row \in DiskRow, RowSound(t, row), NEW s, Allowed(t, s)
  PROVE  RowSound(t, [row EXCEPT !.status = s])
  BY DEF RowSound, Allowed, DiskRow

\* A row that is not in the log claims nothing.
LEMMA AbsentAllowed == \A t : Allowed(t, Absent) /\ Allowed(t, "queued") /\ Allowed(t, "blocked")
  /\ Allowed(t, "failed") /\ Allowed(t, "skipped") /\ Allowed(t, "stopped")
  BY DEF Allowed, Absent, Worked

\* A worked row has nothing open, so it may have any worked status.
LEMMA WorkedAllowed ==
  ASSUME NEW t, NEW row, RowSound(t, row), row.status \in Worked, NEW s \in Worked
  PROVE  Unfinished(t) = {} /\ Allowed(t, s)
  BY DEF RowSound, Allowed, Worked

\* A status line on a sound log leaves it sound, and never drops a row.
LEMMA LoggedSound ==
  ASSUME Safe, NEW t \in Tasks, NEW s, s # Absent, Allowed(t, s)
  PROVE  /\ \A u \in Tasks : RowSound(u, Logged(disk, t, s)[u])
         /\ \A u \in Tasks : disk[u].status # Absent => Logged(disk, t, s)[u].status # Absent
         /\ \A u \in Tasks : u # t => Logged(disk, t, s)[u] = disk[u]
         /\ disk[t].status # Absent => Logged(disk, t, s)[t].status = s
<1>1. disk \in [Tasks -> DiskRow] /\ disk[t] \in DiskRow /\ RowSound(t, disk[t])
  BY RowTypes
<1> DEFINE q == IF disk[t].status = Absent THEN Absent ELSE s
<1>2. Logged(disk, t, s) = [disk EXCEPT ![t] = [disk[t] EXCEPT !.status = q]]
  BY <1>1 DEF Logged
<1>3. RowSound(t, [disk[t] EXCEPT !.status = q])
  BY <1>1, StatusSound, AbsentAllowed
<1>4. [disk[t] EXCEPT !.status = q].status = q
  BY <1>1 DEF DiskRow
<1> HIDE DEF q
<1>5. \A u \in Tasks : u # t => Logged(disk, t, s)[u] = disk[u]
  BY <1>1, <1>2
<1>6. Logged(disk, t, s)[t] = [disk[t] EXCEPT !.status = q]
  BY <1>1, <1>2
<1>7. \A u \in Tasks : RowSound(u, Logged(disk, t, s)[u])
  BY <1>3, <1>5, <1>6, RowTypes
<1> QED
  BY <1>4, <1>5, <1>6, <1>7, Zenon DEF q

\* A step that replaces one row in memory, and changes the log of that row only.
LEMMA OneRow ==
  ASSUME Safe, NEW t \in Tasks, NEW r, mapped' \subseteq mapped,
         item' = [item EXCEPT ![t] = r], \A u \in Tasks : u # t => disk'[u] = disk[u],
         RowSound(t, r), RowSound(t, disk'[t]),
         Unfinished(t) \subseteq item[t].blockedBy => Unfinished(t) \subseteq r.blockedBy,
         disk[t].status # Absent =>
           /\ disk'[t].status # Absent
           /\ r.status \in Durable =>
                \/ disk'[t].status = r.status
                \/ r.status = item[t].status /\ disk'[t].status = disk[t].status
  PROVE  RowsMove
<1>1. item'[t] = r /\ \A u \in Tasks : u # t => item'[u] = item[u]
  BY RowTypes
<1>2. \A u \in Tasks : RowSound(u, item'[u]) /\ RowSound(u, disk'[u])
  BY <1>1, RowTypes
<1>3. \A u \in Tasks : Listed(u)
  BY <1>1, Zenon DEF Listed
<1>4. \A u \in mapped : Recorded(u)
<2> SUFFICES ASSUME NEW u \in mapped PROVE Recorded(u)
  OBVIOUS
<2>1. u \in Tasks
  BY RowTypes
<2>2. CASE u = t
  BY <1>1, <2>2 DEF Recorded
<2>3. CASE u # t
  BY <1>1, <2>1, <2>3 DEF Recorded
<2> QED
  BY <2>2, <2>3
<1> QED
  BY <1>2, <1>3, <1>4 DEF RowsMove

\* Such a step with the log untouched.
LEMMA OneRowUnlogged ==
  ASSUME Safe, NEW t \in Tasks, NEW r, mapped' \subseteq mapped,
         item' = [item EXCEPT ![t] = r], disk' = disk, RowSound(t, r),
         Unfinished(t) \subseteq item[t].blockedBy => Unfinished(t) \subseteq r.blockedBy,
         r.status \notin Durable \/ r.status = item[t].status
  PROVE  RowsMove
<1>1. RowSound(t, disk'[t])
  BY RowTypes
<1> QED
  BY <1>1, OneRow

\* Such a step with a line in the log: the line gives an outcome when the row does.
LEMMA OneRowLogged ==
  ASSUME Safe, NEW t \in Tasks, NEW r, NEW s \in Status, mapped' \subseteq mapped,
         item' = [item EXCEPT ![t] = r], disk' = Logged(disk, t, s), RowSound(t, r),
         Allowed(t, s),
         Unfinished(t) \subseteq item[t].blockedBy => Unfinished(t) \subseteq r.blockedBy,
         r.status = s \/ r.status \notin Durable
  PROVE  RowsMove
<1>1. s # Absent
  BY DEF Status, Absent
<1>2. /\ RowSound(t, disk'[t]) /\ \A u \in Tasks : u # t => disk'[u] = disk[u]
      /\ disk[t].status # Absent => disk'[t].status = s
  BY <1>1, LoggedSound
<1> QED
  BY <1>1, <1>2, OneRow

\* Setting the status of one row, without a line.
LEMMA StatusUnlogged ==
  ASSUME Safe, NEW t \in Tasks, NEW s \in Status, mapped' \subseteq mapped,
         SetStatus(t, s), disk' = disk, Allowed(t, s), s \notin Durable
  PROVE  RowsMove
<1> DEFINE r == [item[t] EXCEPT !.status = s]
<1>1. item[t] \in Item /\ item[t] \in DiskRow /\ RowSound(t, item[t])
  BY RowTypes
<1>2. RowSound(t, r)
  BY <1>1, StatusSound
<1>3. r.status = s /\ r.blockedBy = item[t].blockedBy
  BY <1>1 DEF Item
<1>4. item' = [item EXCEPT ![t] = r]
  BY DEF SetStatus
<1> HIDE DEF r
<1> QED
  BY <1>2, <1>3, <1>4, OneRowUnlogged

\* Setting the status of one row, and logging it.
LEMMA StatusLogged ==
  ASSUME Safe, NEW t \in Tasks, NEW s \in Status, NEW q \in Status, mapped' \subseteq mapped,
         SetStatus(t, s), disk' = Logged(disk, t, q), Allowed(t, s), Allowed(t, q),
         s = q \/ s \notin Durable
  PROVE  RowsMove
<1> DEFINE r == [item[t] EXCEPT !.status = s]
<1>1. item[t] \in Item /\ item[t] \in DiskRow /\ RowSound(t, item[t])
  BY RowTypes
<1>2. RowSound(t, r)
  BY <1>1, StatusSound
<1>3. r.status = s /\ r.blockedBy = item[t].blockedBy
  BY <1>1 DEF Item
<1>4. item' = [item EXCEPT ![t] = r]
  BY DEF SetStatus
<1> HIDE DEF r
<1> QED
  BY <1>2, <1>3, <1>4, OneRowLogged

\* Leaving the rows alone.
LEMMA RowsStay ==
  ASSUME Safe, mapped' \subseteq mapped, item' = item, disk' = disk
  PROVE  RowsMove
<1>1. \A t \in Tasks : RowSound(t, item'[t]) /\ RowSound(t, disk'[t])
  BY RowTypes
<1>2. \A t \in Tasks : Listed(t)
  BY Zenon DEF Listed
<1>3. \A t \in mapped : Recorded(t)
  BY Zenon DEF Recorded
<1> QED
  BY <1>1, <1>2, <1>3 DEF RowsMove

-----------------------------------------------------------------------------
(* The helpers that write rows.                                            *)

\* updateReadiness: a row leaves "blocked" or "queued" for "ready" only when a view
\* that is not wrong finds nothing unmet.
LEMMA RefreshSafe ==
  ASSUME Safe, NEW t \in Tasks, NEW view \in SUBSET Tasks, view \subseteq approved, NEW ids,
         NEW quar, mapped' \subseteq mapped, ApplyRefresh(t, view, ids, quar)
  PROVE  RowsMove
<1> DEFINE unmet == Unmet(t, view)
           bad   == ids \cap contested
           r     == Refreshed(t, view, ids, quar)
<1>1. /\ item[t] \in Item /\ RowSound(t, item[t]) /\ item' = [item EXCEPT ![t] = r]
      /\ disk' = IF bad = {} /\ unmet = {} THEN Logged(disk, t, "ready") ELSE disk
  BY RowTypes, Zenon DEF ApplyRefresh
<1>2. Unfinished(t) \subseteq unmet
  BY ViewFinds
<1> HIDE DEF unmet
<1>3. CASE bad # {}
<2>1. r = [item[t] EXCEPT !.blockedBy = unmet \cup (bad \ {t}), !.dup = bad]
  BY <1>3, Zenon DEF Refreshed, unmet
<2>2. r.status = item[t].status /\ Unfinished(t) \subseteq r.blockedBy
  BY <1>1, <1>2, <2>1 DEF Item
<2>3. RowSound(t, r)
  BY <1>1, <2>2 DEF RowSound
<2>4. disk' = disk
  BY <1>1, <1>3
<2> HIDE DEF r
<2> QED
  BY <1>1, <2>2, <2>3, <2>4, OneRowUnlogged
<1>4. CASE bad = {} /\ unmet = {}
<2>1. r.status = "ready" /\ Unfinished(t) = {}
<3>1. CASE quar
<4>1. r = [[item[t] EXCEPT !.dup = {}, !.blockedBy = unmet,
               !.status = IF @ = "blocked" THEN "queued" ELSE @] EXCEPT !.status = "ready"]
  BY <1>4, <3>1, Zenon DEF Refreshed, unmet
<4> QED
  BY <1>1, <1>2, <1>4, <4>1 DEF Item
<3>2. CASE ~quar
<4>1. r = [[item[t] EXCEPT !.blockedBy = unmet] EXCEPT !.status = "ready"]
  BY <1>4, <3>2, Zenon DEF Refreshed, unmet
<4> QED
  BY <1>1, <1>2, <1>4, <4>1 DEF Item
<3> QED
  BY <3>1, <3>2
<2>2. RowSound(t, r) /\ Allowed(t, "ready") /\ "ready" \in Status /\ "ready" \notin Durable
  BY <2>1 DEF RowSound, Allowed, Status, Durable
<2> HIDE DEF r
<2> QED
  BY <1>1, <1>4, <2>1, <2>2, OneRowLogged
<1>5. CASE bad = {} /\ unmet # {}
<2>1. /\ Unfinished(t) \subseteq r.blockedBy
      /\ r.status = item[t].status \/ r.status = "queued"
<3>1. CASE quar
<4>1. r = [item[t] EXCEPT !.dup = {}, !.blockedBy = unmet,
               !.status = IF @ = "blocked" THEN "queued" ELSE @]
  BY <1>5, <3>1, Zenon DEF Refreshed, unmet
<4> QED
  BY <1>1, <1>2, <4>1 DEF Item
<3>2. CASE ~quar
<4>1. r = [item[t] EXCEPT !.blockedBy = unmet]
  BY <1>5, <3>2, Zenon DEF Refreshed, unmet
<4> QED
  BY <1>1, <1>2, <4>1 DEF Item
<3> QED
  BY <3>1, <3>2
<2>2. RowSound(t, r) /\ (r.status \notin Durable \/ r.status = item[t].status)
  BY <1>1, <2>1 DEF RowSound, Durable, Worked
<2>3. disk' = disk
  BY <1>1, <1>5
<2> HIDE DEF r
<2> QED
  BY <1>1, <2>1, <2>2, <2>3, OneRowUnlogged
<1> QED
  BY <1>3, <1>4, <1>5

\* unblockDependents: a row becomes ready when its list is empty; row is the row
\* after c has left its list.
LEMMA UnblockSafe ==
  ASSUME Safe, NEW c, NEW t \in Tasks, NEW row \in Item, NEW left, mapped' \subseteq mapped,
         row.status = item[t].status, RowSound(t, row),
         Unfinished(t) \subseteq row.blockedBy, c \notin Unfinished(t),
         ApplyUnblock(c, t, row, left)
  PROVE  RowsMove
<1> DEFINE r == Unblocked(row, left)
           d == [disk EXCEPT ![t].blockedBy = @ \ {c}]
<1>1. /\ item' = [item EXCEPT ![t] = r]
      /\ disk' = IF left = {} /\ row.blockedBy = {} THEN Logged(d, t, "ready") ELSE d
  BY Zenon DEF ApplyUnblock
<1>2. disk[t] \in DiskRow /\ RowSound(t, disk[t]) /\ disk \in [Tasks -> DiskRow]
  BY RowTypes
<1>3. /\ d[t].status = disk[t].status /\ d[t] \in DiskRow
      /\ \A u \in Tasks : u # t => d[u] = disk[u]
  BY <1>2 DEF DiskRow
<1>4. RowSound(t, d[t])
<2>1. d[t].blockedBy = disk[t].blockedBy \ {c}
  BY <1>2 DEF DiskRow
<2> QED
  BY <1>2, <1>3, <2>1 DEF RowSound
<1>5. CASE left = {} /\ row.blockedBy = {}
<2>1. r.status = "ready" /\ r.blockedBy = {} /\ Unfinished(t) = {}
<3>1. r = [[row EXCEPT !.dup = left,
              !.status = IF left = {} /\ @ = "blocked" THEN "queued" ELSE @]
             EXCEPT !.status = "ready"]
<4>1. [row EXCEPT !.dup = left,
              !.status = IF left = {} /\ @ = "blocked" THEN "queued" ELSE @].blockedBy = {}
  BY <1>5 DEF Item
<4> QED
  BY <1>5, <4>1, Zenon DEF Unblocked
<3> QED
  BY <1>5, <3>1 DEF Item
<2>2. RowSound(t, r) /\ Allowed(t, "ready") /\ "ready" \notin Durable
  BY <2>1 DEF RowSound, Allowed, Durable
<2> HIDE DEF r
<2> DEFINE q == IF d[t].status = Absent THEN Absent ELSE "ready"
<2>3. disk' = [d EXCEPT ![t] = [d[t] EXCEPT !.status = q]]
  BY <1>1, <1>2, <1>5 DEF Logged
<2>4. RowSound(t, [d[t] EXCEPT !.status = q])
  BY <1>3, <1>4, <2>2, StatusSound, AbsentAllowed
<2>5. [d[t] EXCEPT !.status = q].status = q
  BY <1>3 DEF DiskRow
<2>6. RowSound(t, disk'[t]) /\ disk'[t].status = q
      /\ \A u \in Tasks : u # t => disk'[u] = disk[u]
  BY <1>2, <1>3, <2>3, <2>4, <2>5
<2>7. disk[t].status # Absent => disk'[t].status # Absent
  BY <1>3, <2>6 DEF Absent
<2> QED
  BY <1>1, <2>1, <2>2, <2>6, <2>7, OneRow
<1>6. CASE ~(left = {} /\ row.blockedBy = {})
<2>1. /\ r.blockedBy = row.blockedBy
      /\ r.status = row.status \/ r.status = "queued"
<3>1. CASE left = {}
<4>1. [row EXCEPT !.dup = left,
              !.status = IF left = {} /\ @ = "blocked" THEN "queued" ELSE @].blockedBy # {}
  BY <1>6, <3>1 DEF Item
<4>2. r = [row EXCEPT !.dup = left,
              !.status = IF left = {} /\ @ = "blocked" THEN "queued" ELSE @]
  BY <4>1, Zenon DEF Unblocked
<4> QED
  BY <4>2 DEF Item
<3>2. CASE left # {}
<4>1. r = [row EXCEPT !.dup = left,
              !.status = IF left = {} /\ @ = "blocked" THEN "queued" ELSE @]
  BY <3>2, Zenon DEF Unblocked
<4> QED
  BY <3>2, <4>1 DEF Item
<3> QED
  BY <3>1, <3>2
<2>2. RowSound(t, r) /\ (r.status \notin Durable \/ r.status = item[t].status)
  BY <2>1 DEF RowSound, Durable, Worked
<2>3. disk' = d
  BY <1>1, <1>6, Zenon
<2> HIDE DEF r, d
<2> QED
  BY <1>1, <1>3, <1>4, <2>1, <2>2, <2>3, OneRow
<1> QED
  BY <1>5, <1>6

\* enrichQueueItem: the list holds all that a view that is not wrong finds unmet.
LEMMA EnrichSafe ==
  ASSUME Safe, NEW t \in Tasks, NEW view, view \subseteq approved,
         mapped' \subseteq mapped, Enrich(t, view)
  PROVE  RowsMove
<1> DEFINE bad   == Satisfiers(t, view) \cap contested
           unmet == Unmet(t, view) \cup bad
           ready == unmet = {} /\ item[t].status = "queued"
           r     == Enriched(t, view)
<1>1. /\ item[t] \in Item /\ RowSound(t, item[t]) /\ item' = [item EXCEPT ![t] = r]
      /\ disk' = IF item[t].status = "queued" /\ r.status = "ready"
                 THEN Logged(disk, t, "ready") ELSE disk
  BY RowTypes, Zenon DEF Enrich
<1>2. Unfinished(t) \subseteq unmet
  BY ViewFinds
<1>3. r = [item[t] EXCEPT !.prio = Priority[t], !.blockedBy = unmet, !.dup = bad,
                          !.status = IF ready THEN "ready" ELSE item[t].status]
  BY Zenon DEF Enriched
<1>4. Unfinished(t) \subseteq r.blockedBy /\ r.blockedBy = unmet
  BY <1>1, <1>2, <1>3 DEF Item
<1>5. CASE ready
<2>1. r.status = "ready" /\ Unfinished(t) = {}
  BY <1>1, <1>2, <1>3, <1>5 DEF Item
<2>2. RowSound(t, r) /\ Allowed(t, "ready") /\ "ready" \in Status /\ "ready" \notin Durable
  BY <2>1 DEF RowSound, Allowed, Status, Durable
<2>3. disk' = Logged(disk, t, "ready")
  BY <1>1, <1>5, <2>1
<2> HIDE DEF r
<2> QED
  BY <1>1, <2>1, <2>2, <2>3, OneRowLogged
<1>6. CASE ~ready
<2>1. r.status = item[t].status
  BY <1>1, <1>3, <1>6 DEF Item
<2>2. RowSound(t, r)
  BY <1>1, <1>4, <2>1 DEF RowSound
<2>3. disk' = disk
  BY <1>1, <2>1
<2> HIDE DEF r
<2> QED
  BY <1>1, <1>4, <2>1, <2>2, <2>3, OneRowUnlogged
<1> QED
  BY <1>5, <1>6

\* handleTaskFailure: the failed row and its victims end alike in memory and log.
LEMMA FailureSafe ==
  ASSUME Safe, NEW t \in Tasks, mapped' \subseteq mapped, HandleTaskFailure(t)
  PROVE  RowsMove
<1> DEFINE after  == [item EXCEPT ![t].status = "failed"]
           blocks == FailureBlocks(t, mapped, after, cfg.failurePropagation)
           skips  == FailureSkips(t, mapped, after, cfg.failurePropagation)
           s(u)   == AfterFailure(t, u, blocks, skips, item[u].status)
           q(u)   == IF disk[u].status = Absent THEN Absent
                     ELSE AfterFailure(t, u, blocks, skips, disk[u].status)
<1>1. /\ item' = [u \in Tasks |-> [item[u] EXCEPT !.status = s(u)]]
      /\ disk' = [u \in Tasks |-> [disk[u] EXCEPT !.status = q(u)]]
  BY DEF HandleTaskFailure
<1>2. \A u \in Tasks :
        \/ s(u) \in {"failed", "skipped", "blocked"} /\ (q(u) = s(u) \/ q(u) = Absent)
        \/ s(u) = item[u].status /\ q(u) = disk[u].status
  BY Zenon DEF AfterFailure
<1>3. \A u \in Tasks : disk[u].status # Absent => q(u) # Absent
  BY DEF AfterFailure, Absent
<1>4. ASSUME NEW u \in Tasks
      PROVE  /\ RowSound(u, item'[u]) /\ RowSound(u, disk'[u])
             /\ item'[u].blockedBy = item[u].blockedBy
             /\ item'[u].status = s(u) /\ disk'[u].status = q(u)
<2>1. item[u] \in Item /\ item[u] \in DiskRow /\ disk[u] \in DiskRow
      /\ RowSound(u, item[u]) /\ RowSound(u, disk[u])
  BY RowTypes
<2>2. item'[u] = [item[u] EXCEPT !.status = s(u)] /\ disk'[u] = [disk[u] EXCEPT !.status = q(u)]
  BY <1>1
<2> HIDE DEF s, q
<2>3. Allowed(u, s(u)) /\ Allowed(u, q(u))
<3>1. Allowed(u, item[u].status) /\ Allowed(u, disk[u].status)
  BY <2>1 DEF RowSound, Allowed
<3>2. s(u) \in {"failed", "skipped", "blocked"} \/ s(u) = item[u].status
  BY <1>2
<3>3. q(u) \in {"failed", "skipped", "blocked", Absent} \/ q(u) = disk[u].status
  BY <1>2
<3> QED
  BY <3>1, <3>2, <3>3, AbsentAllowed
<2> QED
  BY <2>1, <2>2, <2>3, StatusSound DEF Item, DiskRow
<1> HIDE DEF s, q
<1>5. \A u \in Tasks : Listed(u)
  BY <1>4 DEF Listed
<1>6. \A u \in Tasks : Recorded(u)
  BY <1>2, <1>3, <1>4 DEF Recorded
<1>7. mapped \subseteq Tasks
  BY DEF Safe, TypeOK
<1> QED
  BY <1>4, <1>5, <1>6, <1>7 DEF RowsMove

\* A gate decision lets a worked row go on, in memory and in the log.
LEMMA ResumedSafe ==
  ASSUME Safe, NEW t \in Tasks, NEW s \in {"running", "ready"}, mapped' \subseteq mapped,
         item[t].status \in Worked, item' = [item EXCEPT ![t] = Resumed(@, s)],
         disk' = [disk EXCEPT ![t] = IF @.status = Absent THEN @ ELSE Resumed(@, s)]
  PROVE  RowsMove
<1> DEFINE r == Resumed(item[t], s)
<1>1. /\ item[t] \in Item /\ disk[t] \in DiskRow /\ RowSound(t, item[t])
      /\ RowSound(t, disk[t]) /\ disk \in [Tasks -> DiskRow]
  BY RowTypes
<1>2. Unfinished(t) = {} /\ s # Absent /\ s \notin Durable
  BY <1>1, WorkedAllowed DEF Absent, Durable, Worked
<1>3. r.status = s /\ r.blockedBy = item[t].blockedBy
  BY <1>1 DEF Resumed, Item
<1>4. RowSound(t, r)
  BY <1>2, <1>3 DEF RowSound
<1>5. Resumed(disk[t], s).status = s /\ Resumed(disk[t], s).blockedBy = disk[t].blockedBy
  BY <1>1 DEF Resumed, DiskRow
<1>6. RowSound(t, Resumed(disk[t], s))
  BY <1>2, <1>5 DEF RowSound
<1>7. disk'[t] = (IF disk[t].status = Absent THEN disk[t] ELSE Resumed(disk[t], s))
      /\ \A u \in Tasks : u # t => disk'[u] = disk[u]
  BY <1>1, Zenon
<1>8. item' = [item EXCEPT ![t] = r]
  OBVIOUS
<1> HIDE DEF r
<1>9. RowSound(t, disk'[t]) /\ (disk[t].status # Absent => disk'[t].status # Absent)
  BY <1>1, <1>2, <1>5, <1>6, <1>7
<1> QED
  BY <1>2, <1>3, <1>4, <1>7, <1>8, <1>9, OneRow

\* compact(): the snapshot holds the mapped rows as they are.
LEMMA CompactionSafe ==
  ASSUME Safe, mapped' \subseteq mapped, item' = item, disk' \in Compactions \cup {disk}
  PROVE  RowsMove
<1>1. CASE disk' = disk
  BY <1>1, RowsStay
<1>2. CASE disk' = [t \in Tasks |-> IF t \in mapped THEN item[t] ELSE NoRow]
<2>1. \A t \in Tasks : RowSound(t, NoRow)
  BY DEF RowSound, NoRow, NewItem, Absent, Worked
<2>2. \A t \in Tasks : RowSound(t, item'[t]) /\ RowSound(t, disk'[t])
  BY <1>2, <2>1, RowTypes
<2>3. \A t \in Tasks : Listed(t)
  BY Zenon DEF Listed
<2>4. ASSUME NEW t \in mapped PROVE Recorded(t)
<3>1. t \in Tasks
  BY DEF Safe, TypeOK
<3>2. disk'[t] = item[t] /\ item'[t] = item[t] /\ item[t].status # Absent
  BY <1>2, <3>1, RowTypes
<3> QED
  BY <3>2, Zenon DEF Recorded
<2> QED
  BY <2>2, <2>3, <2>4 DEF RowsMove
<1> QED
  BY <1>1, <1>2, Zenon DEF Compactions

-----------------------------------------------------------------------------
(* Every step but a new row and a restart moves the rows soundly.          *)

\* The operator's requests and the environment: the rows they touch.
LEMMA OperatorRows ==
  ASSUME Safe, NEW t \in Tasks,
         \/ Cancel(t) \/ CancelUnconfirmed(t) \/ Retry(t) \/ Remove(t) \/ Approve(t)
         \/ ApproveStartThrows(t) \/ Reject(t)
  PROVE  RowsMove
<1> USE DEF Status
<1>1. CASE Cancel(t)
<2>1. SetStatus(t, "stopped") /\ disk' = Logged(disk, t, "stopped") /\ mapped' = mapped
  BY <1>1, Zenon DEF Cancel
<2> QED
  BY <2>1, AbsentAllowed, StatusLogged
<1>2. CASE CancelUnconfirmed(t)
  BY <1>2, RowsStay DEF CancelUnconfirmed, rows
<1>3. CASE Retry(t)
<2>1. /\ item' = [item EXCEPT ![t] = [item[t] EXCEPT !.status = "queued"]]
      /\ disk' = [disk EXCEPT ![t] = LoggedRow(item[t])] /\ mapped' = mapped
  BY <1>3, Zenon DEF Retry, SetStatus
<2>2. /\ item[t] \in Item /\ item[t] \in DiskRow /\ RowSound(t, item[t])
      /\ disk \in [Tasks -> DiskRow]
  BY RowTypes
<2>3. RowSound(t, [item[t] EXCEPT !.status = "queued"])
      /\ [item[t] EXCEPT !.status = "queued"].status = "queued"
      /\ [item[t] EXCEPT !.status = "queued"].blockedBy = item[t].blockedBy
  BY <2>2, AbsentAllowed, StatusSound DEF Item
<2>4. LoggedRow(item[t]).status = "queued" /\ LoggedRow(item[t]).blockedBy = item[t].blockedBy
  BY <2>2 DEF LoggedRow, Item
<2>5. RowSound(t, LoggedRow(item[t]))
  BY <2>2, <2>4 DEF RowSound, Worked
<2>6. disk'[t] = LoggedRow(item[t]) /\ \A u \in Tasks : u # t => disk'[u] = disk[u]
  BY <2>1, <2>2
<2> QED
  BY <2>1, <2>3, <2>4, <2>5, <2>6, OneRow DEF Absent
<1>4. CASE Remove(t)
  BY <1>4, RowsStay DEF Remove
<1>5. CASE Approve(t)
<2>1. CASE ResumesRow(t)
  BY <1>5, <2>1, ResumedSafe DEF Approve, ResumesRow, Worked
<2>2. CASE ~ResumesRow(t)
  BY <1>5, <2>2, RowsStay DEF Approve
<2> QED
  BY <2>1, <2>2
<1>6. CASE ApproveStartThrows(t)
<2>1. CASE ResumesRow(t)
  BY <1>6, <2>1, ResumedSafe DEF ApproveStartThrows, ResumesRow, Worked
<2>2. CASE ~ResumesRow(t)
  BY <1>6, <2>2, RowsStay DEF ApproveStartThrows
<2> QED
  BY <2>1, <2>2
<1>7. CASE Reject(t)
<2>1. HandleTaskFailure(t) \/ UNCHANGED <<item, disk>>
  BY <1>7, Zenon DEF Reject
<2>2. mapped' = mapped
  BY <1>7, Zenon DEF Reject
<2> QED
  BY <2>1, <2>2, FailureSafe, RowsStay
<1> QED
  BY <1>1, <1>2, <1>3, <1>4, <1>5, <1>6, <1>7

\* abort(): the lanes whose job is stopped end as stopped, in memory and log.
LEMMA AbortRows == ASSUME Safe, Abort PROVE RowsMove
<1>1. PICK done \in SUBSET Lanes :
        /\ item' = [t \in Tasks |-> IF t \in done
                      THEN [item[t] EXCEPT !.status = "stopped"] ELSE item[t]]
        /\ disk' = [t \in Tasks |-> IF t \in done /\ disk[t].status # Absent
                      THEN [disk[t] EXCEPT !.status = "stopped"] ELSE disk[t]]
  BY Zenon DEF Abort
<1>2. mapped' = mapped /\ mapped \subseteq Tasks
  BY RowTypes DEF Abort, Safe, TypeOK
<1>3. ASSUME NEW t \in Tasks
      PROVE  RowSound(t, item'[t]) /\ RowSound(t, disk'[t]) /\ Listed(t) /\ Recorded(t)
<2>1. /\ item[t] \in Item /\ item[t] \in DiskRow /\ disk[t] \in DiskRow
      /\ RowSound(t, item[t]) /\ RowSound(t, disk[t])
  BY RowTypes
<2>2. CASE t \in done
<3>1. item'[t] = [item[t] EXCEPT !.status = "stopped"]
  BY <1>1, <2>2
<3>2. item'[t].status = "stopped" /\ item'[t].blockedBy = item[t].blockedBy
  BY <2>1, <3>1 DEF Item
<3>3. RowSound(t, item'[t]) /\ RowSound(t, [disk[t] EXCEPT !.status = "stopped"])
  BY <2>1, <3>1, AbsentAllowed, StatusSound
<3>4. disk'[t] = (IF disk[t].status # Absent THEN [disk[t] EXCEPT !.status = "stopped"]
                  ELSE disk[t])
  BY <1>1, <2>2
<3>5. RowSound(t, disk'[t]) /\ (disk[t].status # Absent => disk'[t].status = "stopped")
  BY <2>1, <3>3, <3>4 DEF DiskRow
<3> QED
  BY <3>2, <3>3, <3>5 DEF Listed, Recorded, Absent
<2>3. CASE t \notin done
<3>1. item'[t] = item[t] /\ disk'[t] = disk[t]
  BY <1>1, <2>3
<3> QED
  BY <2>1, <3>1 DEF Listed, Recorded
<2> QED
  BY <2>2, <2>3
<1> QED
  BY <1>2, <1>3 DEF RowsMove

\* A scheduling pass.
LEMMA PassRows == ASSUME Safe, NEW p \in Slots, PassStep(p) PROVE RowsMove
<1>1. /\ pass[p] \in Pass /\ pass[p].view \in SUBSET Tasks
      /\ pass[p].task \in Tasks \/ pass[p].pc \in {"idle", "visit"}
      /\ pass[p].view \subseteq approved
  BY DEF Safe, TypeOK, Pass, PassesSound
<1>2. CASE \E t \in Tasks : Visit(p, t)
<2>1. PICK t \in Tasks : Visit(p, t)
  BY <1>2
<2>2. mapped' = mapped
  BY <2>1, Zenon DEF Visit
<2>3. \/ ApplyRefresh(t, pass[p].view, Satisfiers(t, pass[p].view) \cup item[t].dup,
                      item[t].dup # {})
      \/ UNCHANGED <<item, disk>>
  BY <2>1, Zenon DEF Visit
<2> QED
  BY <1>1, <2>2, <2>3, RefreshSafe, RowsStay
<1>3. CASE VisitScanned(p)
<2>1. /\ pass[p].task \in Tasks /\ mapped' = mapped
      /\ ApplyRefresh(pass[p].task, pass[p].view, pass[p].ids, pass[p].quar)
  BY <1>1, <1>3, Zenon DEF VisitScanned
<2> QED
  BY <1>1, <2>1, RefreshSafe
<1>4. CASE PassFindsNothing(p)
<2>1. mapped' = mapped /\ item' = item /\ disk' \in Compactions \cup {disk}
  BY <1>4 DEF PassFindsNothing
<2> QED
  BY <2>1, CompactionSafe
<1>5. CASE \/ ListDone(p) \/ PassStale(p) \/ PassBudgetExhausted(p) \/ PassWaits(p)
           \/ PassYields(p) \/ \E t \in Tasks : PassSelects(p, t)
<2>1. UNCHANGED rows
  BY <1>5, Zenon DEF ListDone, PassStale, PassBudgetExhausted, PassWaits, PassYields, PassSelects
<2> QED
  BY <2>1, RowsStay DEF rows
<1> QED
  BY <1>2, <1>3, <1>4, <1>5 DEF PassStep

\* A dispatch: a row that is still ready has nothing open, and neither has one
\* past the check of its dependencies.
LEMMA DispatchRows == ASSUME Safe, NEW p \in Slots, DispatchStep(p) PROVE RowsMove
<1> DEFINE t == pass[p].task
<1> USE DEF Status
<1>1. /\ pass[p] \in Pass
      /\ pass[p].pc \in Dispatching => t \in Tasks
      /\ pass[p].pc \in {"claim", "fence"} => Unfinished(t) = {}
  BY DEF Safe, TypeOK, Pass, PassesSound, Dispatching
<1>2. CASE \/ DispatchStale(p) \/ Resolve(p)
  BY <1>2, RowsStay DEF DispatchStale, Resolve, rows
<1>3. ASSUME pass[p].pc \in Dispatching, DispatchCurrent(p) PROVE t \in Tasks /\ Unfinished(t) = {}
<2>1. t \in Tasks /\ item[t].status = "ready"
  BY <1>1, <1>3 DEF DispatchCurrent, Ready
<2> QED
  BY <2>1, RowTypes, WorkedAllowed DEF Worked
<1>4. CASE ResolveUnmet(p)
<2> DEFINE r == [item[t] EXCEPT !.status = "queued", !.blockedBy = Unmet(t, dbDone)]
<2>1. item' = [item EXCEPT ![t] = r] /\ disk' = disk /\ mapped' = mapped
  BY <1>4, Zenon DEF ResolveUnmet
<2>2. t \in Tasks /\ Unfinished(t) = {}
  BY <1>3, <1>4 DEF ResolveUnmet, Dispatching
<2>3. r.status = "queued" /\ r.status \notin Durable
  BY <2>2, RowTypes DEF Item, Durable
<2>4. RowSound(t, r)
  BY <2>2, <2>3 DEF RowSound, Worked
<2> HIDE DEF r
<2> QED
  BY <2>1, <2>2, <2>3, <2>4, OneRowUnlogged
<1>5. CASE Claim(p)
<2> DEFINE r == [item[t] EXCEPT !.dup = {}, !.blockedBy = {}]
<2>1. item' = [item EXCEPT ![t] = r] /\ disk' = disk /\ mapped' = mapped
  BY <1>5, Zenon DEF Claim
<2>2. t \in Tasks /\ Unfinished(t) = {}
  BY <1>1, <1>5 DEF Claim, Dispatching
<2>3. r.status = item[t].status /\ RowSound(t, item[t])
  BY <2>2, RowTypes DEF Item
<2>4. RowSound(t, r)
  BY <2>2, <2>3 DEF RowSound
<2> HIDE DEF r
<2> QED
  BY <2>1, <2>2, <2>3, <2>4, OneRowUnlogged
<1>6. CASE ClaimContested(p)
<2> DEFINE bad == Claimants(p) \cap contested
           r   == [item[t] EXCEPT !.status = "blocked", !.blockedBy = bad \ {t}, !.dup = bad]
<2>1. item' = [item EXCEPT ![t] = r] /\ disk' = disk /\ mapped' = mapped
  BY <1>6, Zenon DEF ClaimContested
<2>2. t \in Tasks /\ Unfinished(t) = {}
  BY <1>1, <1>6 DEF ClaimContested, Dispatching
<2>3. r.status = "blocked" /\ r.status \notin Durable
  BY <2>2, RowTypes DEF Item, Durable
<2>4. RowSound(t, r)
  BY <2>2, <2>3 DEF RowSound, Worked
<2> HIDE DEF r
<2> QED
  BY <2>1, <2>2, <2>3, <2>4, OneRowUnlogged
<1>7. CASE FenceAdmits(p)
<2>1. SetStatus(t, "running") /\ disk' = disk /\ mapped' = mapped
  BY <1>7, Zenon DEF FenceAdmits
<2>2. t \in Tasks /\ Allowed(t, "running") /\ "running" \notin Durable
  BY <1>1, <1>7 DEF FenceAdmits, Dispatching, Allowed, Durable
<2> QED
  BY <2>1, <2>2, StatusUnlogged
<1>8. CASE StartThrows(p)
<2>1. HandleTaskFailure(t) /\ mapped' = mapped /\ t \in Tasks
  BY <1>1, <1>8 DEF StartThrows, Dispatching
<2> QED
  BY <2>1, FailureSafe
<1>9. CASE FenceContested(p)
<2> DEFINE r == [item[t] EXCEPT !.status = "blocked", !.dup = {t}]
<2>1. item' = [item EXCEPT ![t] = r] /\ disk' = disk /\ mapped' = mapped
  BY <1>9, Zenon DEF FenceContested
<2>2. t \in Tasks /\ Unfinished(t) = {}
  BY <1>1, <1>9 DEF FenceContested, Dispatching
<2>3. r.status = "blocked" /\ r.status \notin Durable
  BY <2>2, RowTypes DEF Item, Durable
<2>4. RowSound(t, r)
  BY <2>2, <2>3 DEF RowSound, Worked
<2> HIDE DEF r
<2> QED
  BY <2>1, <2>2, <2>3, <2>4, OneRowUnlogged
<1>10. CASE DispatchDeferred(p)
<2>1. SetStatus(t, "queued") /\ disk' = Logged(disk, t, "ready") /\ mapped' = mapped
  BY <1>10, Zenon DEF DispatchDeferred
<2>2. t \in Tasks /\ Unfinished(t) = {}
  BY <1>3, <1>10 DEF DispatchDeferred, Dispatching
<2>3. Allowed(t, "queued") /\ Allowed(t, "ready") /\ "queued" \notin Durable
  BY <2>2 DEF Allowed, Durable, Worked
<2> QED
  BY <2>1, <2>2, <2>3, StatusLogged
<1>11. CASE FenceDecomposed(p)
<2>1. SetStatus(t, "skipped") /\ disk' = Logged(disk, t, "skipped") /\ mapped' = mapped
  BY <1>11, Zenon DEF FenceDecomposed
<2>2. t \in Tasks
  BY <1>1, <1>11 DEF FenceDecomposed, Dispatching
<2> QED
  BY <2>1, <2>2, AbsentAllowed, StatusLogged
<1>12. CASE Release(p)
<2>1. item' = item /\ mapped' = mapped
  BY <1>12, Zenon DEF Release
<2>2. CASE disk' = disk
  BY <2>1, <2>2, RowsStay
<2>3. CASE item[t].status = "running" /\ disk' = Logged(disk, t, "running")
<3>1. t \in Tasks
  BY <1>1, <1>12 DEF Release, Dispatching
<3>2. item' = [item EXCEPT ![t] = item[t]] /\ RowSound(t, item[t])
  BY <2>1, <3>1, RowTypes
<3>3. Allowed(t, "running")
  BY <2>3, <3>2, WorkedAllowed DEF Worked
<3> QED
  BY <2>1, <2>3, <3>1, <3>2, <3>3, OneRowLogged
<2> QED
  BY <1>12, <2>2, <2>3, Zenon DEF Release
<1> QED
  BY <1>2, <1>4, <1>5, <1>6, <1>7, <1>8, <1>9, <1>10, <1>11, <1>12 DEF DispatchStep

\* A poll of a lane.
LEMMA PollRows == ASSUME Safe, NEW t \in Tasks, Poll(t) PROVE RowsMove
<1> USE DEF Status
<1>1. CASE PollAwaiting(t)
<2>1. /\ SetStatus(t, "awaiting_approval") /\ disk' = Logged(disk, t, "awaiting_approval")
      /\ mapped' = mapped /\ item[t].status = "running"
  BY <1>1, Zenon DEF PollAwaiting
<2>2. Allowed(t, "awaiting_approval")
  BY <2>1, RowTypes, WorkedAllowed DEF Worked
<2> QED
  BY <2>1, <2>2, StatusLogged
<1>2. CASE PollResumed(t)
  BY <1>2, ResumedSafe DEF PollResumed, Worked
<1>3. CASE PollApproved(t)
<2>1. /\ SetStatus(t, "completed") /\ disk' = Logged(disk, t, "completed")
      /\ mapped' = mapped /\ job[t] = "ok"
  BY <1>3, Zenon DEF PollApproved
<2>2. Allowed(t, "completed")
  BY <2>1 DEF Allowed, Worked, Safe, ViewsSound
<2> QED
  BY <2>1, <2>2, StatusLogged
<1>4. CASE PollSpecChanged(t)
<2>1. SetStatus(t, "blocked") /\ disk' = Logged(disk, t, "blocked") /\ mapped' = mapped
  BY <1>4, Zenon DEF PollSpecChanged
<2> QED
  BY <2>1, AbsentAllowed, StatusLogged
<1>5. CASE PollFailed(t)
  BY <1>5, FailureSafe DEF PollFailed
<1> QED
  BY <1>1, <1>2, <1>3, <1>4, <1>5 DEF Poll

\* unblockDependents(c): c is done, so taking it off a list loses nothing open.
LEMMA UnblockRows == ASSUME Safe, NEW c \in Tasks, UnblockStep(c) PROVE RowsMove
<1>1. /\ unb[c] \in Unblocking /\ unb[c].cur \in Tasks \cup {NoTask}
      /\ unb[c].cur = NoTask => unb[c].pc # "refresh"
      /\ unb[c].pc # "idle" => c \in approved
      /\ unb[c].cur # NoTask => Unfinished(unb[c].cur) \subseteq item[unb[c].cur].blockedBy
  BY DEF Safe, TypeOK, Unblocking, UnblockingSound
<1>2. CASE \E t \in Tasks : UnblockVisit(c, t)
<2>1. PICK t \in Tasks : UnblockVisit(c, t)
  BY <1>2
<2> DEFINE row == [item[t] EXCEPT !.blockedBy = item[t].blockedBy \ {c}]
<2>2. /\ mapped' = mapped /\ c \in approved /\ c \in item[t].blockedBy
      /\ item[t] \in Item /\ RowSound(t, item[t])
  BY <1>1, <2>1, RowTypes DEF UnblockVisit, Waiting
<2>3. c \notin Unfinished(t)
  BY <2>2, UnmetNotDone DEF Unfinished
<2>4. Unfinished(t) \subseteq item[t].blockedBy \ {c}
  BY <2>2, <2>3 DEF RowSound
<2>5. row \in Item /\ row.status = item[t].status /\ row.blockedBy = item[t].blockedBy \ {c}
  BY <2>2, ItemUpdates DEF Item
<2>6. RowSound(t, row)
  BY <2>2, <2>4, <2>5 DEF RowSound
<2>7. \/ ApplyUnblock(c, t, row, {})
      \/ item' = [item EXCEPT ![t] = item[t]] /\ disk' = disk
      \/ item' = [item EXCEPT ![t] = row] /\ disk' = disk
<3>1. \/ ApplyUnblock(c, t, row, {})
      \/ item' = [item EXCEPT ![t].blockedBy = IF unb[c].quar THEN @ ELSE @ \ {c}] /\ disk' = disk
  BY <2>1, Zenon DEF UnblockVisit
<3>2. [item[t] EXCEPT !.blockedBy = item[t].blockedBy] = item[t]
  BY <2>2 DEF Item
<3>3. CASE unb[c].quar
  BY <3>1, <3>2, <3>3
<3>4. CASE ~unb[c].quar
  BY <3>1, <3>4
<3> QED
  BY <3>3, <3>4
<2> HIDE DEF row
<2>8. CASE ApplyUnblock(c, t, row, {})
  BY <2>2, <2>3, <2>4, <2>5, <2>6, <2>8, UnblockSafe
<2>9. CASE item' = [item EXCEPT ![t] = item[t]] /\ disk' = disk
  BY <2>2, <2>9, OneRowUnlogged
<2>10. CASE item' = [item EXCEPT ![t] = row] /\ disk' = disk
  BY <2>2, <2>4, <2>5, <2>6, <2>10, OneRowUnlogged
<2> QED
  BY <2>7, <2>8, <2>9, <2>10
<1>3. CASE UnblockRefreshed(c)
<2> DEFINE t == unb[c].cur
           left == unb[c].ids \cap contested
           r == [item[t] EXCEPT !.dup = left]
<2>1. /\ t \in Tasks /\ mapped' = mapped /\ c \in approved
      /\ Unfinished(t) \subseteq item[t].blockedBy
      /\ \/ item' = [item EXCEPT ![t] = r] /\ disk' = disk
         \/ ApplyUnblock(c, t, item[t], left)
  BY <1>1, <1>3, TasksAssumption DEF UnblockRefreshed
<2>2. c \notin Unfinished(t)
  BY <2>1, UnmetNotDone DEF Unfinished
<2>3. item[t] \in Item /\ RowSound(t, item[t])
  BY <2>1, RowTypes
<2>4. r.status = item[t].status /\ r.blockedBy = item[t].blockedBy
  BY <2>3 DEF Item
<2>5. RowSound(t, r)
  BY <2>3, <2>4 DEF RowSound
<2> HIDE DEF r, left, t
<2>6. CASE item' = [item EXCEPT ![t] = r] /\ disk' = disk
  BY <2>1, <2>4, <2>5, <2>6, OneRowUnlogged
<2>7. CASE ApplyUnblock(c, t, item[t], left)
  BY <2>1, <2>2, <2>3, <2>7, UnblockSafe
<2> QED
  BY <2>1, <2>6, <2>7
<1>4. CASE UnblockScanned(c) \/ UnblockDone(c)
  BY <1>4, RowsStay DEF UnblockScanned, UnblockDone, rows
<1> QED
  BY <1>2, <1>3, <1>4 DEF UnblockStep

\* An enrichment.
LEMMA EnrichRows == ASSUME Safe, NEW t \in Tasks, EnrichStep(t) PROVE RowsMove
<1>1. specDone \subseteq approved /\ enr[t].view \subseteq approved
  BY DEF Safe, ViewsSound
<1>2. CASE EnrichListed(t)
<2>1. mapped' = mapped
  BY <1>2, Zenon DEF EnrichListed
<2>2. CASE Enrich(t, specDone)
  BY <1>1, <2>1, <2>2, EnrichSafe
<2>3. CASE item' = [item EXCEPT ![t].prio = Priority[t]] /\ disk' = disk
<3> DEFINE r == [item[t] EXCEPT !.prio = Priority[t]]
<3>1. item' = [item EXCEPT ![t] = r] /\ item[t] \in Item /\ RowSound(t, item[t])
  BY <2>3, RowTypes
<3>2. r.status = item[t].status /\ r.blockedBy = item[t].blockedBy
  BY <3>1 DEF Item
<3>3. RowSound(t, r)
  BY <3>1, <3>2 DEF RowSound
<3> HIDE DEF r
<3> QED
  BY <2>1, <2>3, <3>1, <3>2, <3>3, OneRowUnlogged
<2> QED
  BY <1>2, <2>2, <2>3, Zenon DEF EnrichListed
<1>3. CASE EnrichScanned(t)
<2>1. Enrich(t, enr[t].view) /\ mapped' = mapped
  BY <1>3, Zenon DEF EnrichScanned
<2> QED
  BY <1>1, <2>1, EnrichSafe
<1>4. CASE EnrichFails(t)
<2>1. mapped' = mapped /\ disk' = disk /\ (item' = item \/ SetStatus(t, "blocked"))
  BY <1>4, Zenon DEF EnrichFails
<2> QED
  BY <2>1, AbsentAllowed, StatusUnlogged, RowsStay DEF Status, Durable
<1> QED
  BY <1>2, <1>3, <1>4 DEF EnrichStep

\* The recovery scan, and the callers that wait for it.
LEMMA RecoveryRows == ASSUME Safe, RecoveryStep PROVE RowsMove
<1>1. CASE \E t \in Tasks : RecoverRow(t)
<2>1. PICK t \in Tasks : RecoverRow(t)
  BY <1>1
<2>2. mapped' = mapped /\ disk' = disk
  BY <2>1, Zenon DEF RecoverRow
<2>3. PICK s \in {"blocked", "queued"}, D \in SUBSET Tasks :
        item' = [item EXCEPT ![t] = [item[t] EXCEPT !.status = s, !.dup = D]]
  BY <2>1 DEF RecoverRow
<2> DEFINE r == [item[t] EXCEPT !.status = s, !.dup = D]
<2>4. item[t] \in Item /\ RowSound(t, item[t])
  BY RowTypes
<2>5. r.status = s /\ r.blockedBy = item[t].blockedBy
  BY <2>4 DEF Item
<2>6. RowSound(t, r) /\ s \notin Durable
  BY <2>4, <2>5 DEF RowSound, Worked, Durable
<2>7. item' = [item EXCEPT ![t] = r]
  BY <2>3
<2> HIDE DEF r
<2> QED
  BY <2>2, <2>5, <2>6, <2>7, OneRowUnlogged
<1>2. CASE StartContinues
<2>1. mapped' = mapped /\ item' = item /\ disk' \in Compactions \cup {disk}
  BY <1>2 DEF StartContinues
<2> QED
  BY <2>1, CompactionSafe
<1>3. CASE \/ RecoveryUnavailable \/ RecoveryListed \/ RecoveryScanned \/ RecoveryDone
           \/ ResumeContinues
<2>1. UNCHANGED rows
  BY <1>3, Zenon
  DEF RecoveryUnavailable, RecoveryListed, RecoveryScanned, RecoveryDone, ResumeContinues
<2> QED
  BY <2>1, RowsStay DEF rows
<1> QED
  BY <1>1, <1>2, <1>3 DEF RecoveryStep

\* The steps that are left leave the rows alone, but for compaction in start().
LEMMA QuietRows ==
  ASSUME Safe,
         \/ Start \/ Pause \/ Resume \/ Stop \/ UpdateConfig \/ TimerFires \/ CooldownEnds
         \/ \E t \in Tasks : \/ ExternalCompletion(t) \/ StartOutside(t) \/ StopCleanedUp(t)
                             \/ Publish(t) \/ ContestChanges(t) \/ \E o \in Outcomes : RunEnds(t, o)
         \/ UNCHANGED vars
  PROVE  RowsMove
<1>1. CASE Start
<2>1. mapped' = mapped /\ item' = item /\ disk' \in Compactions \cup {disk}
  BY <1>1 DEF Start
<2> QED
  BY <2>1, CompactionSafe
<1>2. CASE Pause \/ Resume \/ Stop \/ UpdateConfig \/ TimerFires \/ CooldownEnds \/ UNCHANGED vars
<2>1. UNCHANGED rows
  BY <1>2, Zenon DEF Pause, Resume, Stop, UpdateConfig, TimerFires, CooldownEnds, vars
<2> QED
  BY <2>1, RowsStay DEF rows
<1>3. ASSUME NEW t \in Tasks, \/ ExternalCompletion(t) \/ StartOutside(t) \/ StopCleanedUp(t)
             \/ Publish(t) \/ ContestChanges(t) \/ \E o \in Outcomes : RunEnds(t, o)
      PROVE  RowsMove
<2>1. UNCHANGED rows
  BY <1>3, Zenon
  DEF ExternalCompletion, StartOutside, StopCleanedUp, Publish, ContestChanges, RunEnds
<2> QED
  BY <2>1, RowsStay DEF rows
<1> QED
  BY <1>1, <1>2, <1>3

\* Every step but an enqueue and a restart.
LEMMA RowsStep ==
  ASSUME Safe, [Next]_vars PROVE RowsMove \/ Crash \/ \E t \in Tasks : Enqueue(t)
<1>1. CASE Operator
  BY <1>1, OperatorRows, AbortRows, QuietRows DEF Operator
<1>2. CASE RecoveryStep
  BY <1>2, RecoveryRows
<1>3. CASE Environment
  BY <1>3, QuietRows DEF Environment
<1>4. ASSUME NEW p \in Slots, PassStep(p) \/ DispatchStep(p) PROVE RowsMove
  BY <1>4, PassRows, DispatchRows
<1>5. ASSUME NEW t \in Tasks, Poll(t) \/ UnblockStep(t) \/ EnrichStep(t) PROVE RowsMove
  BY <1>5, PollRows, UnblockRows, EnrichRows
<1>6. CASE UNCHANGED vars
  BY <1>6, QuietRows
<1> QED
  BY <1>1, <1>2, <1>3, <1>4, <1>5, <1>6, Zenon DEF Next

-----------------------------------------------------------------------------
(* The passes and their marks.                                             *)

\* The passes that dispatch, and the tasks marked for them, element by element.
Exclusive(marks, f) ==
  /\ \A p, q \in Slots :
       p # q /\ f[p].pc \in Dispatching /\ f[q].pc \in Dispatching => f[p].task # f[q].task
  /\ \A p \in Slots : f[p].pc \in Dispatching => f[p].task \in marks
  /\ \A t \in marks : \E p \in Slots : f[p].pc \in Dispatching /\ f[p].task = t

\* That is what DispatchMutex says, of this state and of the next.
LEMMA MutexForm ==
  /\ DispatchMutex <=> Exclusive(dispatchChecks, pass)
  /\ DispatchMutex' <=> Exclusive(dispatchChecks', pass')
<1>1. ASSUME NEW D, NEW f
      PROVE  D = {f[p].task : p \in {q \in Slots : f[q].pc \in Dispatching}}
             <=> /\ \A p \in Slots : f[p].pc \in Dispatching => f[p].task \in D
                 /\ \A t \in D : \E p \in Slots : f[p].pc \in Dispatching /\ f[p].task = t
  OBVIOUS
<1>2. DispatchMutex <=> Exclusive(dispatchChecks, pass)
  BY <1>1 DEF DispatchMutex, Exclusive
<1>3. DispatchMutex' <=> Exclusive(dispatchChecks', pass')
  BY <1>1 DEF DispatchMutex, Exclusive
<1> QED
  BY <1>2, <1>3

\* A pass that does not dispatch, before or after, marks nothing.
LEMMA PassRests ==
  ASSUME Safe, NEW p \in Slots, NEW r, pass' = [pass EXCEPT ![p] = r], approved' = approved,
         dispatchChecks' = dispatchChecks, pass[p].pc \notin Dispatching,
         r.pc \notin Dispatching, r.view \subseteq approved
  PROVE  PassesSound' /\ DispatchMutex'
<1>1. pass'[p] = r /\ \A q \in Slots : q # p => pass'[q] = pass[q]
  BY DEF Safe, TypeOK
<1>2. PassesSound'
  BY <1>1 DEF Safe, PassesSound, Unfinished, Dispatching
<1>3. Exclusive(dispatchChecks, pass)
  BY MutexForm DEF Safe
<1>4. Exclusive(dispatchChecks', pass')
  BY <1>1, <1>3 DEF Exclusive
<1> QED
  BY <1>2, <1>4, MutexForm

\* A dispatching pass that goes on with its task keeps its mark.
LEMMA PassGoesOn ==
  ASSUME Safe, NEW p \in Slots, NEW r, pass' = [pass EXCEPT ![p] = r], approved' = approved,
         dispatchChecks' = dispatchChecks, pass[p].pc \in Dispatching,
         r.pc \in Dispatching, r.view \subseteq approved, r.task = pass[p].task,
         r.pc \in {"claim", "fence"} => Unfinished(r.task) = {}
  PROVE  PassesSound' /\ DispatchMutex'
<1>1. pass'[p] = r /\ \A q \in Slots : q # p => pass'[q] = pass[q]
  BY DEF Safe, TypeOK
<1>2. PassesSound'
  BY <1>1 DEF Safe, PassesSound, Unfinished
<1>3. Exclusive(dispatchChecks, pass)
  BY MutexForm DEF Safe
<1>4. \A q \in Slots : /\ pass'[q].task = pass[q].task
                       /\ pass'[q].pc \in Dispatching <=> pass[q].pc \in Dispatching
  BY <1>1
<1>5. Exclusive(dispatchChecks', pass')
  BY <1>3, <1>4 DEF Exclusive
<1> QED
  BY <1>2, <1>5, MutexForm

\* A pass that begins to dispatch a task nobody marked marks it.
LEMMA PassBegins ==
  ASSUME Safe, NEW p \in Slots, NEW t \in Tasks, PassSelects(p, t)
  PROVE  PassesSound' /\ DispatchMutex'
<1>1. /\ pass' = [pass EXCEPT ![p] = [IdlePass EXCEPT !.pc = "resolve", !.task = t]]
      /\ dispatchChecks' = dispatchChecks \cup {t} /\ t \notin dispatchChecks
      /\ pass[p].pc = "visit" /\ approved' = approved
  BY DEF PassSelects, Visited, views
<1>2. pass'[p] = [IdlePass EXCEPT !.pc = "resolve", !.task = t]
      /\ \A q \in Slots : q # p => pass'[q] = pass[q]
  BY <1>1 DEF Safe, TypeOK
<1>3. pass'[p].pc = "resolve" /\ pass'[p].task = t /\ pass'[p].view = {}
  BY <1>2 DEF IdlePass
<1>4. PassesSound'
  BY <1>1, <1>2, <1>3 DEF Safe, PassesSound, Unfinished
<1>5. Exclusive(dispatchChecks, pass) /\ "visit" \notin Dispatching /\ "resolve" \in Dispatching
  BY MutexForm DEF Safe, Dispatching
<1>6. Exclusive(dispatchChecks', pass')
  BY <1>1, <1>2, <1>3, <1>5 DEF Exclusive
<1> QED
  BY <1>4, <1>6, MutexForm

\* A dispatch that ends takes its own mark away, and no other.
LEMMA PassEnds ==
  ASSUME Safe, NEW p \in Slots, EndDispatch(p), pass[p].pc \in Dispatching, approved' = approved
  PROVE  PassesSound' /\ DispatchMutex'
<1>1. /\ pass'[p] = IdlePass /\ \A q \in Slots : q # p => pass'[q] = pass[q]
      /\ dispatchChecks' = dispatchChecks \ {pass[p].task}
  BY DEF Safe, TypeOK, EndDispatch
<1>2. IdlePass.view = {} /\ IdlePass.pc = "idle" /\ "idle" \notin Dispatching
  BY DEF IdlePass, Dispatching
<1>3. PassesSound'
  BY <1>1, <1>2 DEF Safe, PassesSound, Unfinished
<1>4. Exclusive(dispatchChecks, pass)
  BY MutexForm DEF Safe
<1>5. Exclusive(dispatchChecks', pass')
  BY <1>1, <1>2, <1>4 DEF Exclusive
<1> QED
  BY <1>3, <1>5, MutexForm

-----------------------------------------------------------------------------
(* The parts a step leaves alone, while no work is undone.                 *)

\* The rows, and what the log would give back.
LEMMA RowsCarry ==
  ASSUME Safe, RowsMove, approved \subseteq approved' PROVE RowsSound' /\ OutcomesDurable'
<1>1. ASSUME NEW t \in Tasks, NEW row, RowSound(t, row)
      PROVE  /\ row.status = "completed" => t \in approved'
             /\ row.status \in Worked => Unfinished(t)' = {}
             /\ row.blockedBy # {} => Unfinished(t)' \subseteq row.blockedBy
  BY <1>1, StaysFinished DEF RowSound
<1>2. RowsSound'
<2> SUFFICES ASSUME NEW t \in Tasks PROVE (RowSound(t, item[t]) /\ RowSound(t, disk[t]))'
  BY DEF RowsSound
<2>1. RowSound(t, item'[t]) /\ RowSound(t, disk'[t])
  BY DEF RowsMove
<2> QED
  BY <1>1, <2>1 DEF RowSound
<1>3. OutcomesDurable'
<2> SUFFICES ASSUME NEW t \in mapped'
             PROVE  /\ disk'[t].status # Absent
                    /\ item'[t].status \in Durable => disk'[t].status = item'[t].status
  BY DEF OutcomesDurable, Durable
<2>1. t \in mapped /\ Recorded(t)
  BY DEF RowsMove
<2>2. /\ disk[t].status # Absent
      /\ item[t].status \in Durable => disk[t].status = item[t].status
  BY <2>1 DEF Safe, OutcomesDurable, Durable
<2> QED
  BY <2>1, <2>2 DEF Recorded
<1> QED
  BY <1>2, <1>3

\* The views and the manager's approvals.
LEMMA ViewsCarry ==
  ASSUME Safe, approved \subseteq approved',
         dbDone' \subseteq approved', specDone' \subseteq approved',
         \A t \in Tasks : enr'[t].view \subseteq enr[t].view \/ enr'[t].view \subseteq approved,
         \A t \in Tasks : job'[t] = "ok" => job[t] = "ok" \/ t \in approved'
  PROVE  ViewsSound'
  BY DEF Safe, ViewsSound

\* The passes.
LEMMA PassesCarry ==
  ASSUME Safe, approved \subseteq approved', UNCHANGED <<pass, dispatchChecks>>
  PROVE  PassesSound' /\ DispatchMutex'
<1>1. PassesSound'
<2> SUFFICES ASSUME NEW p \in Slots
             PROVE  /\ pass[p].view \subseteq approved'
                    /\ pass[p].pc \in {"claim", "fence"} => Unfinished(pass[p].task)' = {}
  BY DEF PassesSound, Unfinished
<2>1. /\ pass[p].view \subseteq approved
      /\ pass[p].pc \in {"claim", "fence"} =>
           Unfinished(pass[p].task) = {} /\ pass[p].task \in Tasks
  BY DEF Safe, PassesSound, TypeOK, Pass
<2>2. pass'[p].task = pass[p].task
  OBVIOUS
<2> QED
  BY <2>1, <2>2, UnmetShrinks DEF Unfinished
<1> QED
  BY <1>1, MutexForm DEF Safe

\* The unblocking threads; each that is new or goes on satisfies what it must.
LEMMA UnblockingCarry ==
  ASSUME Safe, RowsMove, approved \subseteq approved', NEW c \in Tasks,
         \A k \in Tasks : k # c => unb'[k] = unb[k],
         unb'[c].pc # "idle" => c \in approved',
         unb'[c].cur # NoTask => /\ unb'[c].cur \in Tasks
                                 /\ Unfinished(unb'[c].cur) \subseteq item'[unb'[c].cur].blockedBy
  PROVE  UnblockingSound'
<1> SUFFICES ASSUME NEW k \in Tasks
             PROVE  /\ unb'[k].pc # "idle" => k \in approved'
                    /\ unb'[k].cur # NoTask =>
                         Unmet(unb'[k].cur, approved') \subseteq item'[unb'[k].cur].blockedBy
  BY DEF UnblockingSound, Unfinished
<1>1. \A t \in Tasks : Unmet(t, approved') \subseteq Unfinished(t)
  BY UnmetShrinks DEF Unfinished
<1>2. CASE k = c
  BY <1>1, <1>2
<1>3. CASE k # c
<2>1. /\ unb'[k] = unb[k] /\ unb[k].pc # "idle" => k \in approved
      /\ unb[k].cur # NoTask => Unfinished(unb[k].cur) \subseteq item[unb[k].cur].blockedBy
      /\ unb[k].cur \in Tasks \cup {NoTask}
  BY <1>3 DEF Safe, UnblockingSound, TypeOK, Unblocking
<2>2. unb[k].cur # NoTask => Listed(unb[k].cur)
  BY <2>1 DEF RowsMove
<2> QED
  BY <1>1, <2>1, <2>2 DEF Listed
<1> QED
  BY <1>2, <1>3

\* With none of them moving.
LEMMA UnblockingStays ==
  ASSUME Safe, RowsMove, approved \subseteq approved', unb' = unb PROVE UnblockingSound'
<1> SUFFICES ASSUME NEW k \in Tasks
             PROVE  /\ unb[k].pc # "idle" => k \in approved'
                    /\ unb'[k].cur # NoTask =>
                         Unmet(unb'[k].cur, approved') \subseteq item'[unb'[k].cur].blockedBy
  BY DEF UnblockingSound, Unfinished
<1>1. /\ unb[k].pc # "idle" => k \in approved
      /\ unb[k].cur # NoTask => Unfinished(unb[k].cur) \subseteq item[unb[k].cur].blockedBy
      /\ unb[k].cur \in Tasks \cup {NoTask}
  BY DEF Safe, UnblockingSound, TypeOK, Unblocking
<1>2. unb[k].cur # NoTask => /\ Listed(unb[k].cur)
                             /\ Unmet(unb[k].cur, approved') \subseteq Unfinished(unb[k].cur)
  BY <1>1, UnmetShrinks DEF RowsMove, Unfinished
<1> QED
  BY <1>1, <1>2 DEF Listed

\* The workers started.
LEMMA StartsCarry ==
  ASSUME Safe, approved \subseteq approved',
         \A t \in started' : t \in started \/ (t \in Tasks /\ Unfinished(t) = {})
  PROVE  StartsSound'
<1> SUFFICES ASSUME NEW t \in started' PROVE Unmet(t, approved') = {}
  BY DEF StartsSound, Unfinished
<1>1. t \in Tasks /\ Unfinished(t) = {}
  BY DEF Safe, StartsSound, TypeOK
<1> QED
  BY <1>1, UnmetShrinks DEF Unfinished

-----------------------------------------------------------------------------
(* Every step keeps the invariant.                                         *)

\* The parts of the invariant but the types.
Kept == /\ RowsSound /\ ViewsSound /\ PassesSound /\ UnblockingSound /\ StartsSound
        /\ DispatchMutex /\ OutcomesDurable

\* A scheduling pass: it keeps a view that the listing has just shown, and marks
\* the task it picks only if no other pass has.
LEMMA PassKeeps == ASSUME Safe, NEW p \in Slots, PassStep(p) PROVE Kept'
<1>1. RowsMove
  BY PassRows
<1>2. UNCHANGED <<views, enr, job, unb, started>>
<2>1. CASE ListDone(p) \/ VisitScanned(p) \/ PassStale(p) \/ PassBudgetExhausted(p)
  BY <2>1, Zenon DEF ListDone, VisitScanned, PassStale, PassBudgetExhausted, manager, history
<2>2. CASE PassWaits(p) \/ PassFindsNothing(p) \/ PassYields(p)
  BY <2>2, Zenon DEF PassWaits, PassFindsNothing, PassYields, manager, history
<2>3. ASSUME NEW t \in Tasks, Visit(p, t) \/ PassSelects(p, t)
      PROVE  UNCHANGED <<views, enr, job, unb, started>>
  BY <2>3, Zenon DEF Visit, PassSelects, manager, history
<2> QED
  BY <2>1, <2>2, <2>3, Zenon DEF PassStep
<1>3. approved' = approved /\ dbDone' = dbDone /\ specDone' = specDone
  BY <1>2 DEF views
<1>4. RowsSound' /\ OutcomesDurable'
  BY <1>1, <1>3, RowsCarry
<1>5. ViewsSound' /\ UnblockingSound' /\ StartsSound'
  BY <1>1, <1>2, <1>3, ViewsCarry, UnblockingStays, StartsCarry DEF Safe, ViewsSound
<1>6. /\ pass \in [Slots -> Pass] /\ pass[p] \in Pass /\ pass[p].view \subseteq approved
      /\ {"idle", "visit", "scan"} \cap Dispatching = {}
  BY DEF Safe, TypeOK, PassesSound, Dispatching
<1>7. PassesSound' /\ DispatchMutex'
<2>1. CASE ListDone(p)
<3> DEFINE r == [IdlePass EXCEPT !.pc = "visit", !.view = dbDone \cup DoneInQueue]
<3>1. pass' = [pass EXCEPT ![p] = r] /\ dispatchChecks' = dispatchChecks /\ pass[p].pc = "idle"
  BY <2>1, Zenon DEF ListDone
<3>2. dbDone \cup DoneInQueue \subseteq approved
  BY RowTypes DEF Safe, ViewsSound, TypeOK, DoneInQueue, RowSound
<3>3. r.pc = "visit" /\ r.view \subseteq approved
  BY <3>2 DEF IdlePass
<3> HIDE DEF r
<3> QED
  BY <1>3, <1>6, <3>1, <3>3, PassRests
<2>2. ASSUME NEW t \in Tasks, Visit(p, t) PROVE PassesSound' /\ DispatchMutex'
<3>1. PICK S \in SUBSET Tasks, u \in {t, pass[p].task}, s \in {"visit", "scan"},
           I \in {pass[p].ids, Satisfiers(t, pass[p].view) \cup item[t].dup}, b \in BOOLEAN :
        pass' = [pass EXCEPT ![p] = [@ EXCEPT !.pc = s, !.task = u, !.seen = S,
                                              !.ids = I, !.quar = b]]
<4> DEFINE ids  == Satisfiers(t, pass[p].view) \cup item[t].dup
           quar == item[t].dup # {}
<4>1. CASE ids = {}
<5>1. pass' = [pass EXCEPT ![p] = [pass[p] EXCEPT !.seen = pass[p].seen \cup {t}]]
  BY <2>2, <4>1, Zenon DEF Visit
<5>2. [pass[p] EXCEPT !.seen = pass[p].seen \cup {t}]
        = [pass[p] EXCEPT !.pc = "visit", !.task = pass[p].task,
                          !.seen = pass[p].seen \cup {t}, !.ids = pass[p].ids,
                          !.quar = pass[p].quar]
  BY <1>6, <2>2 DEF Visit, Pass
<5>3. pass[p].seen \cup {t} \in SUBSET Tasks /\ pass[p].quar \in BOOLEAN
  BY <1>6 DEF Pass
<5> QED
  BY <5>1, <5>2, <5>3
<4>2. CASE ids # {}
<5>1. PICK skip \in SUBSET {u \in mapped : ~Refreshable(u)} :
        pass' = [pass EXCEPT ![p] = [pass[p] EXCEPT !.pc = "scan", !.task = t,
                    !.seen = pass[p].seen \cup {t} \cup skip, !.ids = ids, !.quar = quar]]
  BY <2>2, <4>2, Zenon DEF Visit
<5>2. pass[p].seen \cup {t} \cup skip \in SUBSET Tasks
  BY <1>6 DEF Pass, Safe, TypeOK
<5> QED
  BY <5>1, <5>2
<4> QED
  BY <4>1, <4>2
<3> DEFINE r == [pass[p] EXCEPT !.pc = s, !.task = u, !.seen = S, !.ids = I, !.quar = b]
<3>2. r.pc = s /\ r.view = pass[p].view
  BY <1>6 DEF Pass
<3>3. /\ dispatchChecks' = dispatchChecks /\ pass[p].pc = "visit"
      /\ pass' = [pass EXCEPT ![p] = r]
  BY <2>2, <3>1, Zenon DEF Visit
<3> HIDE DEF r
<3> QED
  BY <1>3, <1>6, <3>2, <3>3, PassRests
<2>3. CASE VisitScanned(p)
<3> DEFINE r == [pass[p] EXCEPT !.pc = "visit", !.task = NoTask, !.ids = {}, !.quar = FALSE]
<3>1. pass' = [pass EXCEPT ![p] = r] /\ dispatchChecks' = dispatchChecks /\ pass[p].pc = "scan"
  BY <2>3, Zenon DEF VisitScanned
<3>2. r.pc = "visit" /\ r.view = pass[p].view
  BY <1>6 DEF Pass
<3> HIDE DEF r
<3> QED
  BY <1>3, <1>6, <3>1, <3>2, PassRests
<2>4. CASE PassStale(p) \/ PassBudgetExhausted(p) \/ PassWaits(p) \/ PassFindsNothing(p)
           \/ PassYields(p)
<3>1. /\ pass' = [pass EXCEPT ![p] = IdlePass] /\ dispatchChecks' = dispatchChecks
      /\ pass[p].pc = "visit"
  BY <2>4, Zenon DEF PassStale, PassBudgetExhausted, PassWaits, PassFindsNothing, PassYields,
     Idle, Visited
<3>2. IdlePass.pc = "idle" /\ IdlePass.view = {}
  BY DEF IdlePass
<3> QED
  BY <1>3, <1>6, <3>1, <3>2, PassRests
<2> QED
  BY <2>1, <2>2, <2>3, <2>4, PassBegins DEF PassStep
<1> QED
  BY <1>4, <1>5, <1>7 DEF Kept

\* A dispatch: the dependencies are checked before the claim and the fence, and
\* the worker starts behind the fence.
LEMMA DispatchKeeps == ASSUME Safe, NEW p \in Slots, DispatchStep(p) PROVE Kept'
<1>1. RowsMove
  BY DispatchRows
<1>2. /\ pass[p] \in Pass /\ pass[p].view \subseteq approved
      /\ pass[p].pc \in {"claim", "fence"} => Unfinished(pass[p].task) = {}
      /\ pass[p].pc \in Dispatching => pass[p].task \in Tasks
  BY DEF Safe, TypeOK, PassesSound, Dispatching, Pass
<1>3. UNCHANGED <<views, enr, unb>>
<2>1. CASE DispatchStale(p) \/ Resolve(p) \/ ResolveUnmet(p) \/ Claim(p) \/ ClaimContested(p)
  BY <2>1, Zenon DEF DispatchStale, Resolve, ResolveUnmet, Claim, ClaimContested
<2>2. CASE FenceAdmits(p) \/ StartThrows(p) \/ FenceContested(p)
  BY <2>2, Zenon DEF FenceAdmits, StartThrows, FenceContested
<2>3. CASE DispatchDeferred(p) \/ FenceDecomposed(p) \/ Release(p)
  BY <2>3, Zenon DEF DispatchDeferred, FenceDecomposed, Release
<2> QED
  BY <2>1, <2>2, <2>3, Zenon DEF DispatchStep
<1>4. approved' = approved /\ dbDone' = dbDone /\ specDone' = specDone
  BY <1>3 DEF views
<1>5. FenceAdmits(p) \/ UNCHANGED <<job, started>>
<2>1. CASE DispatchStale(p) \/ Resolve(p) \/ ResolveUnmet(p) \/ Claim(p) \/ ClaimContested(p)
  BY <2>1, Zenon DEF DispatchStale, Resolve, ResolveUnmet, Claim, ClaimContested, manager, history
<2>2. CASE StartThrows(p) \/ FenceContested(p)
  BY <2>2, Zenon DEF StartThrows, FenceContested, manager, history
<2>3. CASE DispatchDeferred(p) \/ FenceDecomposed(p) \/ Release(p)
  BY <2>3, Zenon DEF DispatchDeferred, FenceDecomposed, Release, manager, history
<2> QED
  BY <2>1, <2>2, <2>3, Zenon DEF DispatchStep
<1>6. RowsSound' /\ OutcomesDurable' /\ UnblockingSound'
  BY <1>1, <1>3, <1>4, RowsCarry, UnblockingStays
<1>7. ViewsSound' /\ StartsSound'
<2>1. /\ \A t \in Tasks : job'[t] = "ok" => job[t] = "ok"
      /\ \A t \in started' : t \in started \/ (t \in Tasks /\ Unfinished(t) = {})
<3>1. CASE FenceAdmits(p)
<4>1. /\ job' = [job EXCEPT ![pass[p].task] = "running"] /\ started' = started \cup {pass[p].task}
      /\ pass[p].pc = "fence"
  BY <3>1, Zenon DEF FenceAdmits
<4> QED
  BY <1>2, <4>1 DEF Safe, TypeOK, Dispatching
<3>2. CASE UNCHANGED <<job, started>>
  BY <3>2
<3> QED
  BY <1>5, <3>1, <3>2
<2> QED
  BY <1>3, <1>4, <2>1, ViewsCarry, StartsCarry DEF Safe, ViewsSound
<1>8. PassesSound' /\ DispatchMutex'
<2>1. CASE Resolve(p)
<3> DEFINE r == [pass[p] EXCEPT !.pc = "claim", !.view = dbDone]
<3>1. /\ pass' = [pass EXCEPT ![p] = r] /\ dispatchChecks' = dispatchChecks
      /\ pass[p].pc = "resolve" /\ Unmet(pass[p].task, dbDone) = {} /\ dbDone \subseteq approved
  BY <2>1, Zenon DEF Resolve, Safe, ViewsSound
<3>2. r.pc = "claim" /\ r.view = dbDone /\ r.task = pass[p].task
  BY <1>2 DEF Pass
<3>3. Unfinished(pass[p].task) = {}
  BY <1>2, <3>1, ViewFinds DEF Dispatching
<3> HIDE DEF r
<3> QED
  BY <1>4, <3>1, <3>2, <3>3, PassGoesOn DEF Dispatching
<2>2. CASE Claim(p) \/ FenceAdmits(p)
<3>1. PICK s \in {"fence", "release"} :
        /\ pass' = [pass EXCEPT ![p] = [pass[p] EXCEPT !.pc = s]]
        /\ dispatchChecks' = dispatchChecks /\ pass[p].pc \in {"claim", "fence"}
  BY <2>2 DEF Claim, FenceAdmits
<3> DEFINE r == [pass[p] EXCEPT !.pc = s]
<3>2. r.pc = s /\ r.view = pass[p].view /\ r.task = pass[p].task
  BY <1>2 DEF Pass
<3>3. pass' = [pass EXCEPT ![p] = r]
  BY <3>1
<3> HIDE DEF r
<3> QED
  BY <1>2, <1>4, <3>1, <3>2, <3>3, PassGoesOn DEF Dispatching
<2>3. CASE ~(Resolve(p) \/ Claim(p) \/ FenceAdmits(p))
<3>1. EndDispatch(p) /\ pass[p].pc \in {"resolve", "claim", "fence", "release"}
<4>1. CASE DispatchStale(p) \/ ResolveUnmet(p) \/ ClaimContested(p) \/ StartThrows(p)
  BY <4>1 DEF DispatchStale, ResolveUnmet, ClaimContested, StartThrows
<4>2. CASE FenceContested(p) \/ DispatchDeferred(p) \/ FenceDecomposed(p) \/ Release(p)
  BY <4>2 DEF FenceContested, DispatchDeferred, FenceDecomposed, Release
<4> QED
  BY <2>3, <4>1, <4>2 DEF DispatchStep
<3> QED
  BY <1>4, <3>1, PassEnds DEF Dispatching
<2> QED
  BY <2>1, <2>2, <2>3
<1> QED
  BY <1>6, <1>7, <1>8 DEF Kept

\* A poll: a row is reported complete only for a job the manager calls approved,
\* and then its dependents are looked at.
LEMMA PollKeeps == ASSUME Safe, NEW t \in Tasks, Poll(t) PROVE Kept'
<1>1. RowsMove
  BY PollRows
<1>2. UNCHANGED <<views, enr, job, pass, dispatchChecks, started>>
<2>1. CASE PollAwaiting(t) \/ PollResumed(t) \/ PollApproved(t)
  BY <2>1, Zenon DEF PollAwaiting, PollResumed, PollApproved, threads, manager, history
<2>2. CASE PollSpecChanged(t) \/ PollFailed(t)
  BY <2>2, Zenon DEF PollSpecChanged, PollFailed, threads, manager, history
<2> QED
  BY <2>1, <2>2, Zenon DEF Poll
<1>3. approved' = approved /\ dbDone' = dbDone /\ specDone' = specDone
  BY <1>2 DEF views
<1>4. /\ RowsSound' /\ OutcomesDurable' /\ ViewsSound' /\ PassesSound' /\ DispatchMutex'
      /\ StartsSound'
  BY <1>1, <1>2, <1>3, RowsCarry, ViewsCarry, PassesCarry, StartsCarry DEF Safe, ViewsSound
<1>5. UnblockingSound'
<2>1. CASE PollApproved(t)
<3>1. /\ unb' = [unb EXCEPT ![t] = [NoUnblocking EXCEPT !.pc = "scan", !.kick = TRUE]]
      /\ job[t] = "ok"
  BY <2>1, Zenon DEF PollApproved
<3>2. t \in approved
  BY <3>1 DEF Safe, ViewsSound
<3>3. /\ unb'[t] = [NoUnblocking EXCEPT !.pc = "scan", !.kick = TRUE]
      /\ \A k \in Tasks : k # t => unb'[k] = unb[k]
  BY <3>1 DEF Safe, TypeOK
<3>4. unb'[t].cur = NoTask
  BY <3>3 DEF NoUnblocking
<3> QED
  BY <1>1, <1>3, <3>2, <3>3, <3>4, UnblockingCarry
<2>2. CASE PollAwaiting(t) \/ PollResumed(t) \/ PollSpecChanged(t) \/ PollFailed(t)
<3>1. unb' = unb
  BY <2>2, Zenon DEF PollAwaiting, PollResumed, PollSpecChanged, PollFailed, threads
<3> QED
  BY <1>1, <1>3, <3>1, UnblockingStays
<2> QED
  BY <2>1, <2>2 DEF Poll
<1> QED
  BY <1>4, <1>5 DEF Kept

\* unblockDependents(c): the row whose scan it awaits keeps a complete list.
LEMMA UnblockKeeps == ASSUME Safe, NEW c \in Tasks, UnblockStep(c) PROVE Kept'
<1>1. RowsMove
  BY UnblockRows
<1>2. UNCHANGED <<views, enr, job, pass, dispatchChecks, started>>
<2>1. CASE UnblockScanned(c) \/ UnblockRefreshed(c) \/ UnblockDone(c)
  BY <2>1, Zenon DEF UnblockScanned, UnblockRefreshed, UnblockDone, manager, history
<2>2. ASSUME NEW t \in Tasks, UnblockVisit(c, t)
      PROVE  UNCHANGED <<views, enr, job, pass, dispatchChecks, started>>
  BY <2>2, Zenon DEF UnblockVisit, manager, history
<2> QED
  BY <2>1, <2>2, Zenon DEF UnblockStep
<1>3. approved' = approved /\ dbDone' = dbDone /\ specDone' = specDone
  BY <1>2 DEF views
<1>4. /\ RowsSound' /\ OutcomesDurable' /\ ViewsSound' /\ PassesSound' /\ DispatchMutex'
      /\ StartsSound'
  BY <1>1, <1>2, <1>3, RowsCarry, ViewsCarry, PassesCarry, StartsCarry DEF Safe, ViewsSound
<1>5. /\ unb \in [Tasks -> Unblocking] /\ unb[c] \in Unblocking
      /\ unb[c].cur # NoTask =>
           unb[c].cur \in Tasks /\ Unfinished(unb[c].cur) \subseteq item[unb[c].cur].blockedBy
      /\ unb[c].pc # "idle" => c \in approved
  BY DEF Safe, TypeOK, UnblockingSound, Unblocking
<1>6. ASSUME NEW r, unb' = [unb EXCEPT ![c] = r], unb[c].pc # "idle",
             r.cur # NoTask => r.cur \in Tasks /\ Unfinished(r.cur) \subseteq item'[r.cur].blockedBy
      PROVE  UnblockingSound'
<2>1. unb'[c] = r /\ \A k \in Tasks : k # c => unb'[k] = unb[k]
  BY <1>5, <1>6
<2> QED
  BY <1>1, <1>3, <1>5, <1>6, <2>1, UnblockingCarry
<1>7. UnblockingSound'
<2>1. ASSUME NEW t \in Tasks, UnblockVisit(c, t) PROVE UnblockingSound'
<3> DEFINE ids == IF unb[c].quar THEN item[t].dup \cup {c} ELSE item[t].dup \ {c}
<3>1. unb[c].pc = "loop" /\ c \in approved /\ t \in Waiting(c)
  BY <1>5, <2>1 DEF UnblockVisit
<3>2. CASE ids = {}
<4> DEFINE r == [unb[c] EXCEPT !.seen = unb[c].seen \cup {t}]
<4>1. unb' = [unb EXCEPT ![c] = r]
  BY <2>1, <3>2, Zenon DEF UnblockVisit
<4>2. r.cur = unb[c].cur
  BY <1>5 DEF Unblocking
<4>3. unb[c].cur # NoTask => Unfinished(unb[c].cur) \subseteq item'[unb[c].cur].blockedBy
  BY <1>1, <1>5 DEF RowsMove, Listed
<4> HIDE DEF r
<4> QED
  BY <1>5, <1>6, <3>1, <4>1, <4>2, <4>3
<3>3. CASE ids # {}
<4>1. PICK skip \in SUBSET (mapped \ Waiting(c)) :
        unb' = [unb EXCEPT ![c] = [unb[c] EXCEPT !.pc = "refresh", !.cur = t, !.ids = ids,
                                     !.seen = unb[c].seen \cup {t} \cup skip]]
  BY <2>1, <3>3, Zenon DEF UnblockVisit
<4> DEFINE r == [unb[c] EXCEPT !.pc = "refresh", !.cur = t, !.ids = ids,
                                     !.seen = unb[c].seen \cup {t} \cup skip]
<4>2. r.cur = t
  BY <1>5 DEF Unblocking
<4>3. Unfinished(t) \subseteq item'[t].blockedBy
<5>1. item[t].blockedBy # {} /\ RowSound(t, item[t])
  BY <3>1, RowTypes DEF Waiting
<5> QED
  BY <1>1, <5>1 DEF RowSound, RowsMove, Listed
<4>4. unb' = [unb EXCEPT ![c] = r]
  BY <4>1
<4> HIDE DEF r
<4> QED
  BY <1>6, <3>1, <4>2, <4>3, <4>4
<3> QED
  BY <3>2, <3>3
<2>2. CASE UnblockScanned(c)
<3> DEFINE r == [unb[c] EXCEPT !.pc = "loop", !.quar = c \in contested]
<3>1. unb' = [unb EXCEPT ![c] = r] /\ unb[c].pc = "scan"
  BY <2>2, Zenon DEF UnblockScanned
<3>2. r.cur = unb[c].cur
  BY <1>5 DEF Unblocking
<3>3. unb[c].cur # NoTask => Unfinished(unb[c].cur) \subseteq item'[unb[c].cur].blockedBy
  BY <1>1, <1>5 DEF RowsMove, Listed
<3> HIDE DEF r
<3> QED
  BY <1>5, <1>6, <3>1, <3>2, <3>3
<2>3. CASE UnblockRefreshed(c)
<3> DEFINE r == [unb[c] EXCEPT !.pc = "loop", !.cur = NoTask, !.ids = {}]
<3>1. unb' = [unb EXCEPT ![c] = r] /\ unb[c].pc = "refresh"
  BY <2>3, Zenon DEF UnblockRefreshed
<3>2. r.cur = NoTask
  BY <1>5 DEF Unblocking
<3> HIDE DEF r
<3> QED
  BY <1>6, <3>1, <3>2
<2>4. CASE UnblockDone(c)
<3>1. unb' = [unb EXCEPT ![c] = NoUnblocking] /\ unb[c].pc = "loop"
  BY <2>4, Zenon DEF UnblockDone, EndUnblock
<3>2. NoUnblocking.cur = NoTask
  BY DEF NoUnblocking
<3> QED
  BY <1>6, <3>1, <3>2
<2> QED
  BY <2>1, <2>2, <2>3, <2>4 DEF UnblockStep
<1> QED
  BY <1>4, <1>7 DEF Kept

\* An enrichment keeps the view it read, and drops it at its end.
LEMMA EnrichKeeps == ASSUME Safe, NEW t \in Tasks, EnrichStep(t) PROVE Kept'
<1>1. RowsMove
  BY EnrichRows
<1>2. UNCHANGED <<views, job, pass, dispatchChecks, unb, started>>
  BY Zenon DEF EnrichStep, EnrichListed, EnrichScanned, EnrichFails, manager, history
<1>3. approved' = approved /\ dbDone' = dbDone /\ specDone' = specDone
  BY <1>2 DEF views
<1>4. RowsSound' /\ OutcomesDurable' /\ PassesSound' /\ DispatchMutex' /\ StartsSound'
      /\ UnblockingSound'
  BY <1>1, <1>2, <1>3, RowsCarry, PassesCarry, StartsCarry, UnblockingStays
<1>5. enr' = [enr EXCEPT ![t] = NoEnrichment]
      \/ enr' = [enr EXCEPT ![t] = [pc |-> "scan", view |-> specDone]]
  BY Zenon DEF EnrichStep, EnrichListed, EnrichScanned, EnrichFails, Enrich
<1>6. \A u \in Tasks : enr'[u].view \subseteq enr[u].view \/ enr'[u].view \subseteq approved
  BY <1>5 DEF Safe, TypeOK, ViewsSound, NoEnrichment
<1>7. ViewsSound'
  BY <1>2, <1>3, <1>6, ViewsCarry DEF Safe, ViewsSound
<1> QED
  BY <1>4, <1>7 DEF Kept

\* The recovery scan begins enrichments with no view.
LEMMA RecoveryKeeps == ASSUME Safe, RecoveryStep PROVE Kept'
<1>1. RowsMove
  BY RecoveryRows
<1>2. /\ UNCHANGED <<views, job, pass, dispatchChecks, unb, started>>
      /\ \/ enr' = enr
         \/ \E t \in Tasks : enr' = [enr EXCEPT ![t] = [NoEnrichment EXCEPT !.pc = "list"]]
<2>1. CASE RecoveryUnavailable \/ RecoveryListed \/ RecoveryScanned \/ RecoveryDone
  BY <2>1, Zenon
  DEF RecoveryUnavailable, RecoveryListed, RecoveryScanned, RecoveryDone, manager, history
<2>2. CASE StartContinues \/ ResumeContinues
  BY <2>2, Zenon DEF StartContinues, ResumeContinues, manager, history
<2>3. CASE \E t \in Tasks : RecoverRow(t)
  BY <2>3, Zenon DEF RecoverRow, manager, history
<2> QED
  BY <2>1, <2>2, <2>3 DEF RecoveryStep
<1>3. approved' = approved /\ dbDone' = dbDone /\ specDone' = specDone
  BY <1>2 DEF views
<1>4. RowsSound' /\ OutcomesDurable' /\ PassesSound' /\ DispatchMutex' /\ StartsSound'
      /\ UnblockingSound'
  BY <1>1, <1>2, <1>3, RowsCarry, PassesCarry, StartsCarry, UnblockingStays
<1>5. \A u \in Tasks : enr'[u].view \subseteq enr[u].view \/ enr'[u].view \subseteq approved
  BY <1>2 DEF Safe, TypeOK, NoEnrichment
<1>6. ViewsSound'
  BY <1>2, <1>3, <1>5, ViewsCarry DEF Safe, ViewsSound
<1> QED
  BY <1>4, <1>6 DEF Kept

\* A step outside these threads: more may be done and shown, and a job may end,
\* but only what is done is approved.
LEMMA OutsideKeeps ==
  ASSUME Safe, RowsMove, UNCHANGED <<pass, dispatchChecks, enr, started>>,
         approved \subseteq approved', dbDone' \subseteq approved', specDone' \subseteq approved',
         \A t \in Tasks : job'[t] = "ok" => job[t] = "ok" \/ t \in approved',
         UnblockingSound'
  PROVE  Kept'
<1>1. RowsSound' /\ OutcomesDurable' /\ PassesSound' /\ DispatchMutex' /\ StartsSound'
  BY RowsCarry, PassesCarry, StartsCarry
<1>2. ViewsSound'
  BY ViewsCarry
<1> QED
  BY <1>1, <1>2 DEF Kept

\* stop() never makes a job an approved one.
LEMMA StopsKeep ==
  ASSUME NEW t \in Tasks, NEW res \in LaneStops(t) PROVE res[2] = "ok" => job[t] = "ok"
<1>1. CASE AlreadyStopped(t)
  BY <1>1 DEF LaneStops
<1>2. CASE ~AlreadyStopped(t)
<2>1. res = <<TRUE, "killed">> \/ res = <<FALSE, "stopping">> \/ res = <<FALSE, job[t]>>
  BY <1>2, Zenon DEF LaneStops, StopResults
<2>2. /\ <<TRUE, "killed">>[2] = "killed" /\ <<FALSE, "stopping">>[2] = "stopping"
      /\ <<FALSE, job[t]>>[2] = job[t]
  OBVIOUS
<2>3. res[2] = "killed" \/ res[2] = "stopping" \/ res[2] = job[t]
  BY <2>1, <2>2, Zenon
<2> QED
  BY <2>3
<1> QED
  BY <1>1, <1>2

\* The operator's requests on one row, but enqueue and the ledger's completions.
LEMMA RequestKeeps ==
  ASSUME Safe, NEW t \in Tasks,
         \/ Cancel(t) \/ CancelUnconfirmed(t) \/ Retry(t) \/ Remove(t) \/ Approve(t)
         \/ ApproveStartThrows(t) \/ Reject(t)
  PROVE  Kept'
<1>1. RowsMove
  BY OperatorRows
<1>2. UNCHANGED <<views, pass, dispatchChecks, enr, unb, started>>
<2>1. CASE Cancel(t) \/ CancelUnconfirmed(t) \/ Retry(t) \/ Remove(t)
  BY <2>1, Zenon DEF Cancel, CancelUnconfirmed, Retry, Remove, threads, history
<2>2. CASE Approve(t) \/ ApproveStartThrows(t) \/ Reject(t)
  BY <2>2, Zenon DEF Approve, ApproveStartThrows, Reject, threads, history
<2> QED
  BY <2>1, <2>2
<1>3. \A u \in Tasks : job'[u] = "ok" => job[u] = "ok"
<2>1. job \in [Tasks -> JobState]
  BY DEF Safe, TypeOK
<2>2. CASE job' = job
  BY <2>2
<2>3. CASE \E res \in LaneStops(t) : job' = [job EXCEPT ![t] = res[2]]
  BY <2>1, <2>3, StopsKeep
<2>4. CASE job' = [job EXCEPT ![t] = "running"]
  BY <2>1, <2>4
<2>5. CASE job' = [job EXCEPT ![t] = IF @ = "awaiting" THEN "none" ELSE @]
  BY <2>1, <2>5
<2>6. CASE Cancel(t) \/ CancelUnconfirmed(t)
  BY <2>2, <2>3, <2>6, Zenon DEF Cancel, CancelUnconfirmed
<2>7. CASE Retry(t) \/ Remove(t)
  BY <2>2, <2>7, Zenon DEF Retry, Remove, manager
<2>8. CASE Approve(t) \/ ApproveStartThrows(t) \/ Reject(t)
  BY <2>4, <2>5, <2>8, Zenon DEF Approve, ApproveStartThrows, Reject
<2> QED
  BY <2>6, <2>7, <2>8
<1>4. UnblockingSound'
  BY <1>1, <1>2, UnblockingStays DEF views
<1> QED
  BY <1>1, <1>2, <1>3, <1>4, OutsideKeeps DEF views, Safe, ViewsSound

\* abort(), and the requests and timers that concern no row.
LEMMA LifecycleKeeps ==
  ASSUME Safe,
         \/ Start \/ Pause \/ Resume \/ Stop \/ UpdateConfig \/ TimerFires \/ CooldownEnds
         \/ Abort \/ UNCHANGED vars
  PROVE  Kept'
<1>1. RowsMove
  BY AbortRows, QuietRows
<1>2. UNCHANGED <<views, pass, dispatchChecks, enr, unb, started>>
<2>1. CASE Start \/ Pause \/ Resume \/ Stop \/ UpdateConfig
  BY <2>1, Zenon DEF Start, Pause, Resume, Stop, UpdateConfig, threads, history
<2>2. CASE TimerFires \/ CooldownEnds \/ Abort \/ UNCHANGED vars
  BY <2>2, Zenon DEF TimerFires, CooldownEnds, Abort, vars, threads, history
<2> QED
  BY <2>1, <2>2
<1>3. \A u \in Tasks : job'[u] = "ok" => job[u] = "ok"
<2>1. CASE Abort
<3>1. PICK res \in [Lanes -> BOOLEAN \X JobState] :
        /\ \A t \in Lanes : res[t] \in LaneStops(t)
        /\ job' = [t \in Tasks |-> IF t \in Lanes THEN res[t][2] ELSE job[t]]
  BY <2>1, Zenon DEF Abort
<3> QED
  BY <3>1, StopsKeep
<2>2. CASE Start \/ Pause \/ Resume \/ Stop \/ UpdateConfig \/ TimerFires \/ CooldownEnds
           \/ UNCHANGED vars
<3>1. job' = job
  BY <2>2, Zenon DEF Start, Pause, Resume, Stop, UpdateConfig, TimerFires, CooldownEnds, vars,
     manager
<3> QED
  BY <3>1
<2> QED
  BY <2>1, <2>2
<1>4. UnblockingSound'
  BY <1>1, <1>2, UnblockingStays DEF views
<1> QED
  BY <1>1, <1>2, <1>3, <1>4, OutsideKeeps DEF views, Safe, ViewsSound

\* What happens to one task outside the queue: workers end, approvals become
\* visible, a ledger writer completes it.
LEMMA OutsideStepKeeps ==
  ASSUME Safe, NEW t \in Tasks,
         \/ ExternalCompletion(t) \/ StartOutside(t) \/ StopCleanedUp(t) \/ Publish(t)
         \/ ContestChanges(t) \/ \E o \in Outcomes : RunEnds(t, o)
  PROVE  Kept'
<1>1. RowsMove
  BY QuietRows
<1>2. /\ UNCHANGED <<pass, dispatchChecks, enr, started>>
      /\ ExternalCompletion(t) \/ unb' = unb
<2>1. CASE ExternalCompletion(t) \/ StartOutside(t) \/ StopCleanedUp(t)
  BY <2>1, Zenon DEF ExternalCompletion, StartOutside, StopCleanedUp, threads, history
<2>2. CASE Publish(t) \/ ContestChanges(t) \/ \E o \in Outcomes : RunEnds(t, o)
  BY <2>2, Zenon DEF Publish, ContestChanges, RunEnds, threads, history
<2> QED
  BY <2>1, <2>2
<1>3. dbDone \subseteq approved /\ specDone \subseteq approved /\ job \in [Tasks -> JobState]
  BY DEF Safe, ViewsSound, TypeOK
<1>4. /\ approved \subseteq approved'
      /\ dbDone' \subseteq approved' /\ specDone' \subseteq approved'
      /\ \A u \in Tasks : job'[u] = "ok" => job[u] = "ok" \/ u \in approved'
<2>1. CASE ExternalCompletion(t)
  BY <1>3, <2>1 DEF ExternalCompletion, manager
<2>2. CASE StartOutside(t) \/ StopCleanedUp(t)
  BY <1>3, <2>2 DEF StartOutside, StopCleanedUp, views
<2>3. CASE Publish(t) \/ ContestChanges(t)
  BY <1>3, <2>3 DEF Publish, ContestChanges, manager
<2>4. ASSUME NEW o \in Outcomes, RunEnds(t, o)
      PROVE  /\ approved \subseteq approved' /\ dbDone' \subseteq approved'
             /\ specDone' \subseteq approved'
             /\ \A u \in Tasks : job'[u] = "ok" => job[u] = "ok" \/ u \in approved'
  BY <1>3, <2>4 DEF RunEnds
<2> QED
  BY <2>1, <2>2, <2>3, <2>4
<1>5. UnblockingSound'
<2>1. CASE ExternalCompletion(t)
<3>1. unb' = [unb EXCEPT ![t] = [NoUnblocking EXCEPT !.pc = "scan"]] /\ t \in approved'
  BY <2>1 DEF ExternalCompletion
<3>2. /\ unb'[t] = [NoUnblocking EXCEPT !.pc = "scan"]
      /\ \A k \in Tasks : k # t => unb'[k] = unb[k]
  BY <3>1 DEF Safe, TypeOK
<3>3. unb'[t].cur = NoTask
  BY <3>2 DEF NoUnblocking
<3> QED
  BY <1>1, <1>4, <3>1, <3>2, <3>3, UnblockingCarry
<2>2. CASE unb' = unb
  BY <1>1, <1>4, <2>2, UnblockingStays
<2> QED
  BY <1>2, <2>1, <2>2
<1> QED
  BY <1>1, <1>2, <1>4, <1>5, OutsideKeeps

\* enqueue(t): the new row lists nothing yet and waits for its enrichment; no
\* thread holds the object that a removed t had.
LEMMA EnqueueKeeps == ASSUME Safe, NEW t \in Tasks, Enqueue(t) PROVE Kept'
<1>1. /\ mapped' = mapped \cup {t} /\ item' = [item EXCEPT ![t] = NewItem]
      /\ disk' = [disk EXCEPT ![t] = LoggedRow(NewItem)]
      /\ enr' = [enr EXCEPT ![t] = [NoEnrichment EXCEPT !.pc = "list"]]
      /\ Appended(t) /\ Unreferenced(t)
  BY Zenon DEF Enqueue
<1>2. UNCHANGED <<views, job, dispatchChecks, started>>
  BY Zenon DEF Enqueue, manager, history
<1>3. approved' = approved /\ dbDone' = dbDone /\ specDone' = specDone
  BY <1>2 DEF views
<1>4. item \in [Tasks -> Item] /\ disk \in [Tasks -> DiskRow] /\ mapped \subseteq Tasks
  BY DEF Safe, TypeOK
<1>5. /\ item'[t] = NewItem /\ disk'[t] = LoggedRow(NewItem)
      /\ \A u \in Tasks : u # t => item'[u] = item[u] /\ disk'[u] = disk[u]
  BY <1>1, <1>4
<1>6. /\ NewItem.status = "queued" /\ NewItem.blockedBy = {}
      /\ LoggedRow(NewItem).status = "queued" /\ LoggedRow(NewItem).blockedBy = {}
  BY DEF NewItem, LoggedRow
<1>7. RowsSound'
  BY <1>3, <1>5, <1>6 DEF Safe, RowsSound, RowSound, Unfinished, Worked
<1>8. OutcomesDurable'
<2> SUFFICES ASSUME NEW u \in mapped'
             PROVE  /\ disk'[u].status # Absent
                    /\ item'[u].status \in Durable => disk'[u].status = item'[u].status
  BY DEF OutcomesDurable, Durable
<2>1. CASE u = t
  BY <1>5, <1>6, <2>1 DEF Absent
<2>2. CASE u # t
<3>1. u \in mapped /\ u \in Tasks
  BY <1>1, <1>4, <2>2
<3> QED
  BY <1>5, <2>2, <3>1 DEF Safe, OutcomesDurable, Durable
<2> QED
  BY <2>1, <2>2
<1>9. \A u \in Tasks : enr'[u].view \subseteq enr[u].view \/ enr'[u].view \subseteq approved
  BY <1>1 DEF Safe, TypeOK, NoEnrichment
<1>10. ViewsSound' /\ StartsSound'
  BY <1>2, <1>3, <1>9, ViewsCarry, StartsCarry DEF Safe, ViewsSound
<1>11. \A p \in Slots : /\ pass'[p].pc = pass[p].pc /\ pass'[p].task = pass[p].task
                        /\ pass'[p].view = pass[p].view
<2> TAKE p \in Slots
<2>1. pass'[p] = [pass[p] EXCEPT !.seen = @ \ {t}] /\ pass[p] \in Pass
  BY <1>1 DEF Appended, Safe, TypeOK
<2> QED
  BY <2>1 DEF Pass
<1>12. PassesSound'
  BY <1>3, <1>11 DEF Safe, PassesSound, Unfinished
<1>13. DispatchMutex'
<2>1. Exclusive(dispatchChecks, pass)
  BY MutexForm DEF Safe
<2>2. Exclusive(dispatchChecks', pass')
  BY <1>2, <1>11, <2>1 DEF Exclusive
<2> QED
  BY <2>2, MutexForm
<1>14. \A k \in Tasks : unb'[k].pc = unb[k].pc /\ unb'[k].cur = unb[k].cur /\ unb[k].cur # t
<2> TAKE k \in Tasks
<2>1. unb'[k] = [unb[k] EXCEPT !.seen = @ \ {t}] /\ unb[k] \in Unblocking /\ unb[k].cur # t
  BY <1>1 DEF Appended, Unreferenced, Safe, TypeOK
<2> QED
  BY <2>1 DEF Unblocking
<1>15. UnblockingSound'
<2> SUFFICES ASSUME NEW k \in Tasks
             PROVE  /\ unb'[k].pc # "idle" => k \in approved
                    /\ unb'[k].cur # NoTask =>
                         Unmet(unb'[k].cur, approved) \subseteq item'[unb'[k].cur].blockedBy
  BY <1>3 DEF UnblockingSound, Unfinished
<2>1. /\ unb[k].pc # "idle" => k \in approved
      /\ unb[k].cur # NoTask => Unfinished(unb[k].cur) \subseteq item[unb[k].cur].blockedBy
      /\ unb[k].cur \in Tasks \cup {NoTask}
  BY DEF Safe, UnblockingSound, TypeOK, Unblocking
<2> QED
  BY <1>5, <1>14, <2>1 DEF Unfinished
<1> QED
  BY <1>7, <1>8, <1>10, <1>12, <1>13, <1>15 DEF Kept

\* A restart rebuilds the rows from the log, which was sound; every thread is gone.
LEMMA CrashKeeps == ASSUME Safe, Crash PROVE Kept'
<1>1. /\ mapped' = {t \in Tasks : disk[t].status # Absent} /\ disk' = disk
      /\ item' = [t \in Tasks |-> IF disk[t].status # Absent THEN Recovered(disk[t]) ELSE NewItem]
      /\ pass' = [p \in Slots |-> IdlePass] /\ dispatchChecks' = {}
      /\ enr' = [t \in Tasks |-> NoEnrichment] /\ unb' = [t \in Tasks |-> NoUnblocking]
      /\ job' = [t \in Tasks |-> "none"]
      /\ UNCHANGED <<views, started>>
  BY DEF Crash
<1>2. approved' = approved /\ dbDone' = dbDone /\ specDone' = specDone
  BY <1>1 DEF views
<1>3. ASSUME NEW t \in Tasks
      PROVE  /\ RowSound(t, item'[t])
             /\ disk[t].status # Absent /\ item'[t].status \in Durable
                  => item'[t].status = disk[t].status
<2>1. disk[t] \in DiskRow /\ RowSound(t, disk[t])
  BY RowTypes
<2>2. CASE disk[t].status # Absent
<3>1. item'[t] = Recovered(disk[t])
  BY <1>1, <2>2
<3>2. /\ item'[t].blockedBy = disk[t].blockedBy
      /\ \/ item'[t].status = "recovered_pending_scan"
         \/ item'[t].status = disk[t].status
  BY <2>1, <3>1 DEF Recovered, DiskRow
<3> QED
  BY <2>1, <3>2 DEF RowSound, Worked, Durable
<2>3. CASE disk[t].status = Absent
<3>1. item'[t] = NewItem
  BY <1>1, <2>3
<3> QED
  BY <2>3, <3>1 DEF RowSound, Worked, NewItem
<2> QED
  BY <2>2, <2>3
<1>4. RowsSound'
<2>1. \A t \in Tasks : RowSound(t, disk'[t]) /\ RowSound(t, item'[t])
  BY <1>1, <1>3, RowTypes
<2> QED
  BY <1>2, <2>1 DEF RowsSound, RowSound, Unfinished
<1>5. OutcomesDurable'
  BY <1>1, <1>3 DEF OutcomesDurable, Durable
<1>6. ViewsSound'
  BY <1>1, <1>2 DEF Safe, ViewsSound, NoEnrichment
<1>7. PassesSound' /\ DispatchMutex'
  BY <1>1 DEF PassesSound, DispatchMutex, IdlePass, Dispatching
<1>8. UnblockingSound'
  BY <1>1 DEF UnblockingSound, NoUnblocking
<1>9. StartsSound'
  BY <1>1, <1>2 DEF Safe, StartsSound, Unfinished
<1> QED
  BY <1>4, <1>5, <1>6, <1>7, <1>8, <1>9 DEF Kept

-----------------------------------------------------------------------------
(* The theorems.                                                           *)

\* Nothing is queued, started or done in the constructed queue.
LEMMA InitSafe == Init => Safe
<1> SUFFICES ASSUME Init PROVE Safe
  OBVIOUS
<1>1. TypeOK
  BY InitType
<1>2. RowsSound
<2> SUFFICES ASSUME NEW t \in Tasks PROVE RowSound(t, item[t]) /\ RowSound(t, disk[t])
  BY DEF RowsSound
<2>1. item[t] = NewItem /\ disk[t] = NoRow
  BY DEF Init
<2> QED
  BY <2>1 DEF RowSound, NewItem, NoRow, Worked, Absent
<1>3. ViewsSound /\ StartsSound /\ OutcomesDurable
  BY DEF Init, ViewsSound, NoEnrichment, StartsSound, OutcomesDurable
<1>4. PassesSound /\ DispatchMutex
  BY DEF Init, PassesSound, DispatchMutex, IdlePass, Dispatching
<1>5. UnblockingSound
  BY DEF Init, UnblockingSound, NoUnblocking
<1> QED
  BY <1>1, <1>2, <1>3, <1>4, <1>5 DEF Safe

\* Every step keeps the invariant.
LEMMA StepSafe == Safe /\ [Next]_vars => Safe'
<1> SUFFICES ASSUME Safe, [Next]_vars PROVE Safe'
  OBVIOUS
<1>1. TypeOK'
  BY StepType DEF Safe
<1>2. Kept'
<2>1. CASE Operator
<3>1. CASE Start \/ Pause \/ Resume \/ Stop \/ Abort \/ UpdateConfig
  BY <3>1, LifecycleKeeps
<3>2. ASSUME NEW t \in Tasks,
             \/ Cancel(t) \/ CancelUnconfirmed(t) \/ Retry(t) \/ Remove(t) \/ Approve(t)
             \/ ApproveStartThrows(t) \/ Reject(t)
      PROVE  Kept'
  BY <3>2, RequestKeeps
<3>3. ASSUME NEW t \in Tasks, ExternalCompletion(t) \/ StartOutside(t) PROVE Kept'
  BY <3>3, OutsideStepKeeps
<3> QED
  BY <2>1, <3>1, <3>2, <3>3, EnqueueKeeps DEF Operator
<2>2. CASE RecoveryStep
  BY <2>2, RecoveryKeeps
<2>3. CASE Environment
  BY <2>3, LifecycleKeeps, CrashKeeps, OutsideStepKeeps DEF Environment
<2>4. ASSUME NEW p \in Slots, PassStep(p) \/ DispatchStep(p) PROVE Kept'
  BY <2>4, PassKeeps, DispatchKeeps
<2>5. ASSUME NEW t \in Tasks, Poll(t) \/ UnblockStep(t) \/ EnrichStep(t) PROVE Kept'
  BY <2>5, PollKeeps, UnblockKeeps, EnrichKeeps
<2>6. CASE UNCHANGED vars
  BY <2>6, LifecycleKeeps
<2> QED
  BY <2>1, <2>2, <2>3, <2>4, <2>5, <2>6, Zenon DEF Next
<1> QED
  BY <1>1, <1>2 DEF Safe, Kept

\* The invariant holds.
LEMMA AlwaysSafe == Spec => []Safe
<1>1. Init => Safe
  BY InitSafe
<1>2. Safe /\ [Next]_vars => Safe'
  BY StepSafe
<1> QED
  BY <1>1, <1>2, PTL DEF Spec

\* It says what the runs check.
LEMMA SafeMeans == Safe => StartedDepsMet /\ ReadyDepsMet /\ OutcomesDurable /\ DispatchMutex
<1> SUFFICES ASSUME Safe PROVE StartedDepsMet /\ ReadyDepsMet
  BY DEF Safe
<1>1. StartedDepsMet
  BY NothingUnmet DEF Safe, StartsSound, StartedDepsMet, Unfinished
<1>2. ASSUME NEW t \in mapped, Ready(t) PROVE Unfinished(t) = {}
<2>1. t \in Tasks /\ item[t].status = "ready"
  BY <1>2 DEF Ready, Safe, TypeOK
<2> QED
  BY <2>1, RowTypes, WorkedAllowed DEF Worked
<1>3. ReadyDepsMet
  BY <1>2, NothingUnmet DEF ReadyDepsMet, Unfinished
<1> QED
  BY <1>1, <1>3

\* Whatever the operator asks, whatever fails and wherever the monitor restarts,
\* the queue starts no worker before the work its task depends on is done: a
\* decomposed dependency through all of its subtasks, a stale listing or a late
\* claimant scan notwithstanding.
THEOREM StartsInOrder == Spec => []StartedDepsMet
<1>1. Safe => StartedDepsMet
  BY SafeMeans
<1> QED
  BY <1>1, AlwaysSafe, PTL

\* No row is called ready while a dependency is open: updateReadiness(),
\* enrichQueueItem() and unblockDependents(), which edit one blockedBy list from
\* views of different moments, agree on that.
THEOREM ReadyInOrder == Spec => []ReadyDepsMet
<1>1. Safe => ReadyDepsMet
  BY SafeMeans
<1> QED
  BY <1>1, AlwaysSafe, PTL

\* dispatchChecks excludes: of any number of scheduling passes, no two dispatch
\* the same task at once, and a mark is there exactly while its dispatch runs.
THEOREM OneDispatchPerTask == Spec => []DispatchMutex
<1>1. Safe => DispatchMutex
  BY SafeMeans
<1> QED
  BY <1>1, AlwaysSafe, PTL

\* replay() brings back every row of the queue, and every outcome or human gate
\* that the queue reports, whatever order the log lines, the compaction and the
\* restarts come in.
THEOREM OutcomesLast == Spec => []OutcomesDurable
<1>1. Safe => OutcomesDurable
  BY SafeMeans
<1> QED
  BY <1>1, AlwaysSafe, PTL

-----------------------------------------------------------------------------
(* A completed row stays completed.                                        *)
(*                                                                         *)
(* Three threads write the status of a row that they looked at before an   *)
(* await: the readiness visit, the recovery scan and unblockDependents()   *)
(* with the rescan of a quarantine.  The claim holds where no task is      *)
(* contested and no readiness scan outlasts the dispatch of its own row:   *)
(* then such a row has not been started when the thread comes back to it.  *)

\* No second claimant ever appears, and no scan is that slow.
NoStaleScan == Contestable = {} /\ "slow_scan" \notin Faults

\* A row that has been started, or whose work is done.
Held == LaneStatus \cup {"completed"}
RecoveredStatus == "recovered_pending_scan"

\* The recovery scan has t before it.
Awaited(t) == t \in rec.todo /\ t # rec.cur

\* Without contested tasks no row is under quarantine, and none is rescanned.
NoQuarantine ==
  /\ contested = {} /\ rec.bad = {}
  /\ \A t \in Tasks : /\ item[t].dup = {} /\ disk[t].dup = {}
                      /\ unb[t].pc # "refresh" /\ ~unb[t].quar

\* The row of a readiness scan has not been started, nor is it being recovered.
ScansEarly ==
  \A p \in Slots : pass[p].pc = "scan" =>
    /\ item[pass[p].task].status \notin Held \cup {RecoveredStatus}
    /\ ~Awaited(pass[p].task)

\* A dispatch has its row to itself: neither the recovery nor an enrichment has it.
DispatchesAlone ==
  \A p \in Slots : pass[p].pc \in Dispatching =>
    /\ pass[p].task \notin rec.todo /\ ~Pending(pass[p].task)
    /\ item[pass[p].task].status # RecoveredStatus

\* Nor has the row of an enrichment been started.
EnrichesEarly ==
  \A t \in Tasks : Pending(t) =>
    item[t].status \notin Held \cup {RecoveredStatus} /\ ~Awaited(t)

\* What the recovery scan has before it is as the restart left it, or cancelled;
\* the row it is at is being enriched.
RecoversEarly ==
  /\ \A t \in Tasks : Awaited(t) => item[t].status \in {RecoveredStatus, "stopped"}
  /\ rec.cur # NoTask => Pending(rec.cur)

\* The inductive invariant, on top of Safe.
Early == NoQuarantine /\ ScansEarly /\ DispatchesAlone /\ EnrichesEarly /\ RecoversEarly

\* What a step may do to a row.
RowEarly(u) ==
  /\ item[u].status = "completed" => item'[u].status = "completed" \/ Cancel(u)
  /\ item'[u].status \in Held => item[u].status \in Held
  /\ item'[u].status = RecoveredStatus => item[u].status = RecoveredStatus
  /\ Awaited(u) => item'[u].status \in {item[u].status, "stopped"}
  /\ item'[u].dup = {} /\ disk'[u].dup = {}
RowsEarly == \A u \in Tasks : RowEarly(u)

\* No pass comes to scan or to dispatch a row.
PassesRest ==
  \A p \in Slots :
    /\ pass'[p].pc = "scan" => pass[p].pc = "scan" /\ pass'[p].task = pass[p].task
    /\ pass'[p].pc \in Dispatching => pass[p].pc \in Dispatching /\ pass'[p].task = pass[p].task

\* No row comes to be enriched or recovered.
ScansRest ==
  /\ \A t \in Tasks : Pending(t)' => Pending(t)
  /\ rec'.todo \subseteq rec.todo /\ rec'.bad = {}
  /\ rec'.cur = rec.cur \/ (rec'.cur = NoTask /\ rec.cur \notin rec'.todo)
  /\ rec'.cur # NoTask => Pending(rec.cur)'

\* No quarantine begins.
NoneContested == contested' = {} /\ \A t \in Tasks : unb'[t].pc # "refresh" /\ ~unb'[t].quar

\* Such steps keep the invariant.
LEMMA EarlyKept ==
  ASSUME Early, TypeOK, TypeOK', RowsEarly, PassesRest, ScansRest, NoneContested
  PROVE  Early'
<1>1. \A t : t \in rec'.todo /\ t # rec'.cur => Awaited(t)
  BY DEF ScansRest, Awaited
<1>2. NoQuarantine'
  BY DEF RowsEarly, RowEarly, ScansRest, NoneContested, NoQuarantine
<1>3. ScansEarly'
<2> SUFFICES ASSUME NEW p \in Slots, pass'[p].pc = "scan"
             PROVE  /\ item'[pass'[p].task].status \notin Held \cup {RecoveredStatus}
                    /\ ~(pass'[p].task \in rec'.todo /\ pass'[p].task # rec'.cur)
  BY DEF ScansEarly, Awaited
<2>1. pass[p].pc = "scan" /\ pass'[p].task = pass[p].task
  BY DEF PassesRest
<2>2. pass[p].task \in Tasks
  BY <2>1 DEF TypeOK, Pass
<2>3. item[pass[p].task].status \notin Held \cup {RecoveredStatus} /\ ~Awaited(pass[p].task)
  BY <2>1 DEF Early, ScansEarly
<2> QED
  BY <1>1, <2>1, <2>2, <2>3 DEF RowsEarly, RowEarly
<1>4. DispatchesAlone'
<2> SUFFICES ASSUME NEW p \in Slots, pass'[p].pc \in Dispatching
             PROVE  /\ pass'[p].task \notin rec'.todo /\ enr'[pass'[p].task].pc = "idle"
                    /\ item'[pass'[p].task].status # RecoveredStatus
  BY DEF DispatchesAlone, Pending
<2>1. pass[p].pc \in Dispatching /\ pass'[p].task = pass[p].task
  BY DEF PassesRest
<2>2. pass[p].task \in Tasks
  BY <2>1 DEF TypeOK, Pass, Dispatching
<2>3. /\ pass[p].task \notin rec.todo /\ ~Pending(pass[p].task)
      /\ item[pass[p].task].status # RecoveredStatus
  BY <2>1 DEF Early, DispatchesAlone
<2> QED
  BY <2>1, <2>2, <2>3 DEF RowsEarly, RowEarly, ScansRest, Pending
<1>5. EnrichesEarly'
<2> SUFFICES ASSUME NEW t \in Tasks, Pending(t)'
             PROVE  /\ item'[t].status \notin Held \cup {RecoveredStatus}
                    /\ ~(t \in rec'.todo /\ t # rec'.cur)
  BY DEF EnrichesEarly, Awaited
<2>1. item[t].status \notin Held \cup {RecoveredStatus} /\ ~Awaited(t)
  BY DEF ScansRest, Early, EnrichesEarly
<2> QED
  BY <1>1, <2>1 DEF RowsEarly, RowEarly
<1>6. RecoversEarly'
<2>1. ASSUME NEW t \in Tasks, t \in rec'.todo /\ t # rec'.cur
      PROVE  item'[t].status \in {RecoveredStatus, "stopped"}
<3>1. item[t].status \in {RecoveredStatus, "stopped"} /\ Awaited(t)
  BY <1>1, <2>1 DEF Early, RecoversEarly
<3> QED
  BY <3>1 DEF RowsEarly, RowEarly
<2>2. rec'.cur # NoTask => Pending(rec.cur)'
  BY DEF ScansRest
<2> QED
  BY <2>1, <2>2 DEF RecoversEarly, Awaited
<1> QED
  BY <1>2, <1>3, <1>4, <1>5, <1>6 DEF Early

\* Such rows are what the claim asks.
LEMMA EarlyStays ==
  ASSUME RowsEarly, NEW t \in Tasks, item[t].status = "completed", ~Cancel(t)
  PROVE  item'[t].status = "completed"
  BY DEF RowsEarly, RowEarly

-----------------------------------------------------------------------------
(* The rows.                                                               *)

\* The status s may be given to t.
Passable(t, s) ==
  /\ item[t].status = "completed" => s = "completed" \/ Cancel(t)
  /\ s \in Held => item[t].status \in Held
  /\ s = RecoveredStatus => item[t].status = RecoveredStatus
  /\ Awaited(t) => s \in {item[t].status, "stopped"}

\* The rows are left alone.
LEMMA RowsLeftEarly ==
  ASSUME Early, item' = item, disk' = disk
  PROVE  RowsEarly
  BY DEF Early, NoQuarantine, RowsEarly, RowEarly

\* One row is written, with a status it may have.
LEMMA OneRowEarly ==
  ASSUME Early, TypeOK, NEW t \in Tasks, NEW r, item' = [item EXCEPT ![t] = r],
         r.dup = {}, Passable(t, r.status), \A u \in Tasks : disk'[u].dup = {}
  PROVE  RowsEarly
<1>1. item'[t] = r /\ \A u \in Tasks \ {t} : item'[u] = item[u]
  BY DEF TypeOK
<1> SUFFICES ASSUME NEW u \in Tasks PROVE RowEarly(u)
  BY DEF RowsEarly
<1>2. CASE u = t
  BY <1>1, <1>2 DEF Passable, RowEarly
<1>3. CASE u # t
  BY <1>1, <1>3 DEF RowEarly, Early, NoQuarantine
<1> QED
  BY <1>2, <1>3

\* The log takes no quarantine in.
LEMMA LogEarly ==
  ASSUME Early, TypeOK, NEW t \in Tasks
  PROVE  /\ \A u \in Tasks : disk[u].dup = {} /\ item[u].dup = {}
         /\ \A s : \A u \in Tasks : Logged(disk, t, s)[u].dup = {}
         /\ item[t] \in Item /\ disk[t] \in DiskRow /\ disk \in [Tasks -> DiskRow]
<1>1. \A u \in Tasks : disk[u].dup = {} /\ item[u].dup = {}
  BY DEF Early, NoQuarantine
<1>2. item[t] \in Item /\ disk \in [Tasks -> DiskRow] /\ disk[t] \in DiskRow
  BY DEF TypeOK
<1>3. ASSUME NEW s, NEW u \in Tasks PROVE Logged(disk, t, s)[u].dup = {}
<2> DEFINE x == IF disk[t].status = Absent THEN Absent ELSE s
           r == [disk[t] EXCEPT !.status = x]
<2>1. Logged(disk, t, s) = [disk EXCEPT ![t] = r]
  BY DEF Logged
<2>2. r.dup = {}
  BY <1>1, <1>2 DEF DiskRow
<2> HIDE DEF r
<2> QED
  BY <1>1, <1>2, <2>1, <2>2
<1> QED
  BY <1>1, <1>2, <1>3

\* A status is written, with its log line or without.
LEMMA StatusEarly ==
  ASSUME Early, TypeOK, NEW t \in Tasks, NEW s \in Status, SetStatus(t, s), Passable(t, s),
         disk' = disk \/ disk' = Logged(disk, t, s) \/ disk' = Logged(disk, t, "ready")
  PROVE  RowsEarly
<1> DEFINE r == [item[t] EXCEPT !.status = s]
<1>1. item[t] \in Item /\ item[t].dup = {} /\ \A u \in Tasks : disk'[u].dup = {}
  BY LogEarly
<1>2. item' = [item EXCEPT ![t] = r] /\ r.status = s /\ r.dup = {}
  BY <1>1 DEF SetStatus, Item
<1> HIDE DEF r
<1> QED
  BY <1>1, <1>2, OneRowEarly

\* A failure takes down rows that wait, and none that the recovery has before it.
LEMMA FailureEarly ==
  ASSUME Early, TypeOK, NEW t \in Tasks, HandleTaskFailure(t),
         item[t].status \in {"ready", "running", "awaiting_approval"}
  PROVE  RowsEarly
<1> DEFINE after  == [item EXCEPT ![t].status = "failed"]
           blocks == FailureBlocks(t, mapped, after, cfg.failurePropagation)
           skips  == FailureSkips(t, mapped, after, cfg.failurePropagation)
           s(u)   == AfterFailure(t, u, blocks, skips, item[u].status)
           q(u)   == IF disk[u].status = Absent THEN Absent
                     ELSE AfterFailure(t, u, blocks, skips, disk[u].status)
<1>1. /\ item' = [u \in Tasks |-> [item[u] EXCEPT !.status = s(u)]]
      /\ disk' = [u \in Tasks |-> [disk[u] EXCEPT !.status = q(u)]]
  BY DEF HandleTaskFailure
<1> SUFFICES ASSUME NEW u \in Tasks PROVE RowEarly(u)
  BY DEF RowsEarly
<1>2. \/ s(u) = item[u].status
      \/ s(u) \in {"failed", "skipped", "blocked"}
         /\ item[u].status \in {"ready", "running", "awaiting_approval", "queued"}
<2>1. u # t => after[u] = item[u]
  BY DEF TypeOK
<2>2. \A v \in blocks \cup skips : NotStarted(after, v)
  BY DEF FailureBlocks, FailureSkips
<2>3. u \in blocks \cup skips /\ u # t => item[u].status \in {"queued", "ready"}
  BY <2>1, <2>2 DEF NotStarted
<2> HIDE DEF after, blocks, skips
<2> QED
  BY <2>3 DEF AfterFailure
<1>3. item[u] \in Item /\ item[u].dup = {} /\ disk[u] \in DiskRow /\ disk[u].dup = {}
  BY LogEarly DEF TypeOK
<1> HIDE DEF s, q
<1>4. item'[u].status = s(u) /\ item'[u].dup = {} /\ disk'[u].dup = {}
  BY <1>1, <1>3 DEF Item, DiskRow
<1>5. Awaited(u) => item[u].status \in {RecoveredStatus, "stopped"}
  BY DEF Early, RecoversEarly
<1>6. s(u) \in {"failed", "skipped", "blocked"} => s(u) \notin Held /\ s(u) # RecoveredStatus
  BY DEF Held, LaneStatus, RecoveredStatus
<1>7. "completed" \notin {"ready", "running", "awaiting_approval", "queued"}
      /\ RecoveredStatus \notin {"ready", "running", "awaiting_approval", "queued"}
      /\ "stopped" \notin {"ready", "running", "awaiting_approval", "queued"}
  BY DEF RecoveredStatus
<1> QED
  BY <1>2, <1>4, <1>5, <1>6, <1>7 DEF RowEarly

-----------------------------------------------------------------------------
(* The steps.                                                              *)

\* What every step is to do: keep the invariant, and the completed rows.
StaysEarly ==
  /\ Early'
  /\ \A t \in mapped \cap mapped' :
       item[t].status = "completed" /\ ~Cancel(t) => item'[t].status = "completed"

\* A step whose rows and threads are as above does so.
LEMMA CalmStep ==
  ASSUME Early, TypeOK, TypeOK', RowsEarly, PassesRest, ScansRest, NoneContested
  PROVE  StaysEarly
<1>1. Early'
  BY EarlyKept
<1>2. mapped \subseteq Tasks
  BY DEF TypeOK
<1> QED
  BY <1>1, <1>2, EarlyStays DEF StaysEarly

\* The passes are left alone.
LEMMA PassesLeft == ASSUME pass' = pass PROVE PassesRest
  BY DEF PassesRest

\* The enrichments and the recovery scan are left alone.
LEMMA ScansLeft == ASSUME Early, enr' = enr, rec' = rec PROVE ScansRest
  BY DEF ScansRest, Pending, Early, NoQuarantine, RecoversEarly

\* So are the claims and the unblocking threads.
LEMMA ClaimsLeft == ASSUME Early, contested' = contested, unb' = unb PROVE NoneContested
  BY DEF NoneContested, Early, NoQuarantine

\* The pass p goes on, neither to a scan nor to a dispatch that it was not at.
LEMMA OnePassRests ==
  ASSUME TypeOK, NEW p \in Slots, NEW r, pass' = [pass EXCEPT ![p] = r],
         r.pc # "scan",
         r.pc \in Dispatching => pass[p].pc \in Dispatching /\ r.task = pass[p].task
  PROVE  PassesRest
<1>1. pass'[p] = r /\ \A q \in Slots \ {p} : pass'[q] = pass[q]
  BY DEF TypeOK
<1> SUFFICES ASSUME NEW q \in Slots
             PROVE  /\ pass'[q].pc = "scan" => pass[q].pc = "scan" /\ pass'[q].task = pass[q].task
                    /\ pass'[q].pc \in Dispatching =>
                         pass[q].pc \in Dispatching /\ pass'[q].task = pass[q].task
  BY DEF PassesRest
<1>2. CASE q = p
  BY <1>1, <1>2
<1>3. CASE q # p
  BY <1>1, <1>3
<1> QED
  BY <1>2, <1>3

\* Steps that write no row and move no thread.
LEMMA QuietEarly ==
  ASSUME NoStaleScan, Early, TypeOK, TypeOK',
         \/ Pause \/ Stop \/ UpdateConfig \/ TimerFires \/ CooldownEnds \/ UNCHANGED vars
         \/ \E t \in Tasks : \/ Remove(t) \/ CancelUnconfirmed(t) \/ StartOutside(t)
                             \/ StopCleanedUp(t) \/ Publish(t) \/ ContestChanges(t)
                             \/ \E o \in Outcomes : RunEnds(t, o)
  PROVE  StaysEarly
<1>1. \A t \in Tasks : ~ContestChanges(t)
  BY DEF NoStaleScan, ContestChanges
<1>2. /\ item' = item /\ disk' = disk /\ pass' = pass /\ enr' = enr /\ rec' = rec
      /\ unb' = unb /\ contested' = contested
  BY <1>1, Zenon DEF Pause, Stop, UpdateConfig, TimerFires, CooldownEnds, vars, Remove,
     CancelUnconfirmed, StartOutside, StopCleanedUp, Publish, RunEnds, rows, threads, views
<1> QED
  BY <1>2, RowsLeftEarly, PassesLeft, ScansLeft, ClaimsLeft, CalmStep

\* A snapshot of the rows, or no change of the log.
LEMMA CompactionEarly ==
  ASSUME Early, TypeOK, item' = item, disk' \in Compactions \cup {disk}
  PROVE  RowsEarly
<1>1. \A u \in Tasks : item[u].dup = {} /\ disk[u].dup = {}
  BY DEF Early, NoQuarantine
<1>2. NoRow.dup = {}
  BY DEF NoRow, NewItem
<1>3. disk' = disk \/ disk' = [t \in Tasks |-> IF t \in mapped THEN item[t] ELSE NoRow]
  BY Zenon DEF Compactions
<1>4. \A u \in Tasks : disk'[u].dup = {}
  BY <1>1, <1>2, <1>3
<1> QED
  BY <1>1, <1>4 DEF RowsEarly, RowEarly

\* ensureRecoveryScan() begins with nothing to recover.
LEMMA EnsureEarly ==
  ASSUME Early, TypeOK, enr' = enr, rec' = rec \/ EnsureRecoveryScan
  PROVE  ScansRest
<1>1. CASE rec' = rec
  BY <1>1, ScansLeft
<1>2. CASE rec' = [NoRecovery EXCEPT !.pc = "stat"]
<2>1. rec'.todo = {} /\ rec'.bad = {} /\ rec'.cur = NoTask
  BY <1>2 DEF NoRecovery
<2> QED
  BY <2>1 DEF ScansRest, Pending
<1> QED
  BY <1>1, <1>2 DEF EnsureRecoveryScan

\* start() and resume(), with the scan they may begin or wait for.
LEMMA StartsEarly ==
  ASSUME Early, TypeOK, TypeOK',
         Start \/ Resume \/ StartContinues \/ ResumeContinues
  PROVE  StaysEarly
<1>1. /\ item' = item /\ pass' = pass /\ enr' = enr /\ unb' = unb /\ contested' = contested
      /\ disk' \in Compactions \cup {disk}
  BY Zenon DEF Start, Resume, StartContinues, ResumeContinues, rows, views
<1>2. rec' = rec \/ EnsureRecoveryScan
  BY Zenon DEF Start, CallStart, Resume, StartContinues, ResumeContinues
<1> QED
  BY <1>1, <1>2, CompactionEarly, PassesLeft, EnsureEarly, ClaimsLeft, CalmStep

\* enqueue(): no thread knows the new row.
LEMMA EnqueueEarly ==
  ASSUME Early, TypeOK, TypeOK', NEW t \in Tasks, Enqueue(t)
  PROVE  StaysEarly
<1>1. /\ mapped' = mapped \cup {t} /\ t \notin mapped /\ Unreferenced(t)
      /\ item' = [item EXCEPT ![t] = NewItem]
      /\ disk' = [disk EXCEPT ![t] = LoggedRow(NewItem)]
      /\ enr' = [enr EXCEPT ![t] = [NoEnrichment EXCEPT !.pc = "list"]]
      /\ contested' = contested
  BY Zenon DEF Enqueue, views
<1>2. rec' = rec \/ rec' = [NoRecovery EXCEPT !.pc = "stat"]
  BY Zenon DEF Enqueue, CallStart, EnsureRecoveryScan
<1>3. /\ \A p \in Slots : pass'[p].pc = pass[p].pc /\ pass'[p].task = pass[p].task
      /\ \A c \in Tasks : unb'[c].pc = unb[c].pc /\ unb'[c].quar = unb[c].quar
<2>1. /\ pass' = [p \in Slots |-> [pass[p] EXCEPT !.seen = @ \ {t}]]
      /\ unb' = [c \in Tasks |-> [unb[c] EXCEPT !.seen = @ \ {t}]]
  BY DEF Enqueue, Appended
<2>2. \A p \in Slots : pass[p] \in Pass
  BY DEF TypeOK
<2>3. \A c \in Tasks : unb[c] \in Unblocking
  BY DEF TypeOK
<2>4. ASSUME NEW p \in Slots PROVE pass'[p].pc = pass[p].pc /\ pass'[p].task = pass[p].task
<3>1. pass'[p] = [pass[p] EXCEPT !.seen = @ \ {t}]
  BY <2>1
<3> QED
  BY <2>2, <3>1 DEF Pass
<2>5. ASSUME NEW c \in Tasks PROVE unb'[c].pc = unb[c].pc /\ unb'[c].quar = unb[c].quar
<3>1. unb'[c] = [unb[c] EXCEPT !.seen = @ \ {t}]
  BY <2>1
<3> QED
  BY <2>3, <3>1 DEF Unblocking
<2> QED
  BY <2>4, <2>5
<1>4. /\ \A p \in Slots : pass[p].task # t
      /\ t \notin rec.todo /\ ~Pending(t)
  BY <1>1 DEF Unreferenced
<1>5. /\ rec'.todo \subseteq rec.todo /\ rec'.bad = {}
      /\ rec'.cur = rec.cur \/ (rec'.cur = NoTask /\ rec'.todo = {})
  BY <1>2 DEF NoRecovery, Early, NoQuarantine
<1>6. /\ item'[t].status = "queued" /\ item'[t].dup = {} /\ disk'[t].dup = {}
      /\ \A u \in Tasks \ {t} : item'[u] = item[u] /\ disk'[u] = disk[u]
<2>1. NewItem.status = "queued" /\ NewItem.dup = {} /\ LoggedRow(NewItem).dup = {}
  BY DEF NewItem, LoggedRow
<2> QED
  BY <1>1, <2>1 DEF TypeOK
<1>7. /\ enr'[t].pc # "idle" /\ \A u \in Tasks \ {t} : enr'[u] = enr[u]
  BY <1>1 DEF TypeOK, NoEnrichment
<1>8. NoQuarantine'
  BY <1>1, <1>3, <1>5, <1>6 DEF NoQuarantine, Early
<1>9. "queued" \notin Held \cup {RecoveredStatus}
  BY DEF Held, LaneStatus, RecoveredStatus
<1>10. ScansEarly'
<2> SUFFICES ASSUME NEW p \in Slots, pass'[p].pc = "scan"
             PROVE  /\ item'[pass'[p].task].status \notin Held \cup {RecoveredStatus}
                    /\ ~(pass'[p].task \in rec'.todo /\ pass'[p].task # rec'.cur)
  BY DEF ScansEarly, Awaited
<2>1. pass[p].pc = "scan" /\ pass'[p].task = pass[p].task
  BY <1>3
<2>2. pass[p].task \in Tasks \ {t}
  BY <1>4, <2>1 DEF TypeOK, Pass
<2> QED
  BY <1>5, <1>6, <2>1, <2>2 DEF Early, ScansEarly, Awaited
<1>11. DispatchesAlone'
<2> SUFFICES ASSUME NEW p \in Slots, pass'[p].pc \in Dispatching
             PROVE  /\ pass'[p].task \notin rec'.todo /\ enr'[pass'[p].task].pc = "idle"
                    /\ item'[pass'[p].task].status # RecoveredStatus
  BY DEF DispatchesAlone, Pending
<2>1. pass[p].pc \in Dispatching /\ pass'[p].task = pass[p].task
  BY <1>3
<2>2. pass[p].task \in Tasks \ {t}
  BY <1>4, <2>1 DEF TypeOK, Pass, Dispatching
<2> QED
  BY <1>5, <1>6, <1>7, <2>1, <2>2 DEF Early, DispatchesAlone, Pending
<1>12. EnrichesEarly'
<2> SUFFICES ASSUME NEW u \in Tasks, enr'[u].pc # "idle"
             PROVE  /\ item'[u].status \notin Held \cup {RecoveredStatus}
                    /\ ~(u \in rec'.todo /\ u # rec'.cur)
  BY DEF EnrichesEarly, Pending, Awaited
<2>1. CASE u = t
  BY <1>4, <1>5, <1>6, <1>9, <2>1
<2>2. CASE u # t
  BY <1>5, <1>6, <1>7, <2>2 DEF Early, EnrichesEarly, Pending, Awaited
<2> QED
  BY <2>1, <2>2
<1>13. RecoversEarly'
<2>1. ASSUME NEW u \in Tasks, u \in rec'.todo /\ u # rec'.cur
      PROVE  item'[u].status \in {RecoveredStatus, "stopped"}
  BY <1>4, <1>5, <1>6, <2>1 DEF Early, RecoversEarly, Awaited
<2>2. rec'.cur # NoTask => enr'[rec'.cur].pc # "idle"
<3> SUFFICES ASSUME rec'.cur # NoTask PROVE enr'[rec'.cur].pc # "idle"
  OBVIOUS
<3>1. rec'.cur = rec.cur /\ rec.cur \in Tasks /\ enr[rec.cur].pc # "idle"
  BY <1>5 DEF Early, RecoversEarly, Pending, TypeOK, Recovery
<3> QED
  BY <1>7, <3>1
<2> QED
  BY <2>1, <2>2 DEF RecoversEarly, Awaited, Pending
<1>14. \A u \in mapped \cap mapped' : item[u].status = "completed" => item'[u].status = "completed"
  BY <1>1, <1>6 DEF TypeOK
<1> QED
  BY <1>8, <1>10, <1>11, <1>12, <1>13, <1>14 DEF StaysEarly, Early

\* Requests, gate decisions and polls write their row and move no thread.
LEMMA RowStepsEarly ==
  ASSUME Early, TypeOK, TypeOK', NEW t \in Tasks,
         \/ Cancel(t) \/ Retry(t) \/ Approve(t) \/ ApproveStartThrows(t) \/ Reject(t)
         \/ PollAwaiting(t) \/ PollResumed(t) \/ PollSpecChanged(t) \/ PollFailed(t)
  PROVE  StaysEarly
<1>1. /\ pass' = pass /\ enr' = enr /\ rec' = rec /\ unb' = unb /\ contested' = contested
  BY Zenon DEF Cancel, Retry, Approve, ApproveStartThrows, Reject, PollAwaiting, PollResumed,
     PollSpecChanged, PollFailed, threads, views
<1>2. PassesRest /\ ScansRest /\ NoneContested
  BY <1>1, PassesLeft, ScansLeft, ClaimsLeft
<1>3. Awaited(t) => item[t].status \in {RecoveredStatus, "stopped"}
  BY DEF Early, RecoversEarly
<1>4. item[t] \in Item /\ item[t].dup = {} /\ disk[t] \in DiskRow /\ disk \in [Tasks -> DiskRow]
      /\ \A u \in Tasks : disk[u].dup = {}
  BY LogEarly
<1> USE DEF Status
<1>5. CASE Cancel(t)
<2>1. SetStatus(t, "stopped") /\ disk' = Logged(disk, t, "stopped")
  BY <1>5 DEF Cancel
<2>2. Passable(t, "stopped")
  BY <1>5 DEF Passable, Held, LaneStatus, RecoveredStatus
<2>3. RowsEarly
  BY <2>1, <2>2, StatusEarly
<2> QED
  BY <1>2, <2>3, CalmStep
<1>6. CASE Retry(t)
<2> DEFINE r == [item[t] EXCEPT !.status = "queued"]
<2>1. /\ item' = [item EXCEPT ![t] = r] /\ disk' = [disk EXCEPT ![t] = LoggedRow(item[t])]
      /\ item[t].status = "failed"
  BY <1>6 DEF Retry, SetStatus
<2>2. r.status = "queued" /\ r.dup = {} /\ LoggedRow(item[t]).dup = {}
  BY <1>4 DEF Item, LoggedRow
<2>3. \A u \in Tasks : disk'[u].dup = {}
  BY <1>4, <2>1, <2>2
<2>4. Passable(t, "queued")
  BY <1>3, <2>1 DEF Passable, Held, LaneStatus, RecoveredStatus
<2> HIDE DEF r
<2>5. RowsEarly
  BY <2>1, <2>2, <2>3, <2>4, OneRowEarly
<2> QED
  BY <1>2, <2>5, CalmStep
<1>7. ASSUME NEW s \in {"running", "ready"}, item[t].status \in LaneStatus,
             item' = [item EXCEPT ![t] = Resumed(@, s)],
             disk' = [disk EXCEPT ![t] = IF @.status = Absent THEN @ ELSE Resumed(@, s)]
      PROVE  RowsEarly
<2> DEFINE r == Resumed(item[t], s)
           d == IF disk[t].status = Absent THEN disk[t] ELSE Resumed(disk[t], s)
<2>1. item' = [item EXCEPT ![t] = r] /\ disk' = [disk EXCEPT ![t] = d]
  BY <1>7
<2>2. r.status = s /\ r.dup = {}
  BY <1>4 DEF Item, Resumed
<2>3. d.dup = {}
  BY <1>4 DEF DiskRow, Resumed
<2>4. Passable(t, s)
  BY <1>3, <1>7 DEF Passable, Held, LaneStatus, RecoveredStatus
<2> HIDE DEF r, d
<2>5. \A u \in Tasks : disk'[u].dup = {}
  BY <1>4, <2>1, <2>3
<2> QED
  BY <2>1, <2>2, <2>4, <2>5, OneRowEarly
<1>8. ResumesRow(t) => item[t].status \in LaneStatus
  BY DEF ResumesRow, LaneStatus
<1>9. CASE Approve(t) \/ ApproveStartThrows(t)
<2>1. CASE ResumesRow(t)
<3>1. RowsEarly
  BY <1>7, <1>8, <1>9, <2>1 DEF Approve, ApproveStartThrows
<3> QED
  BY <1>2, <3>1, CalmStep
<2>2. CASE ~ResumesRow(t)
<3>1. item' = item /\ disk' = disk
  BY <1>9, <2>2 DEF Approve, ApproveStartThrows
<3> QED
  BY <1>2, <3>1, RowsLeftEarly, CalmStep
<2> QED
  BY <2>1, <2>2
<1>10. CASE Reject(t) \/ PollFailed(t)
<2>1. \/ HandleTaskFailure(t) /\ item[t].status \in LaneStatus
      \/ item' = item /\ disk' = disk
<3>1. ASSUME Reject(t), ResumesRow(t) PROVE HandleTaskFailure(t)
  BY <3>1, Zenon DEF Reject
<3>2. ASSUME Reject(t), ~ResumesRow(t) PROVE item' = item /\ disk' = disk
  BY <3>2, Zenon DEF Reject
<3>3. PollFailed(t) => HandleTaskFailure(t) /\ t \in Lanes
  BY Zenon DEF PollFailed, PollEnds, Watched
<3> QED
  BY <1>8, <1>10, <3>1, <3>2, <3>3 DEF Lanes
<2>2. RowsEarly
  BY <2>1, FailureEarly, RowsLeftEarly DEF LaneStatus
<2> QED
  BY <1>2, <2>2, CalmStep
<1>11. CASE PollAwaiting(t)
<2>1. SetStatus(t, "awaiting_approval") /\ disk' = Logged(disk, t, "awaiting_approval")
      /\ item[t].status = "running"
  BY <1>11 DEF PollAwaiting
<2>2. Passable(t, "awaiting_approval")
  BY <1>3, <2>1 DEF Passable, Held, LaneStatus, RecoveredStatus
<2>3. RowsEarly
  BY <2>1, <2>2, StatusEarly
<2> QED
  BY <1>2, <2>3, CalmStep
<1>12. CASE PollResumed(t)
<2>1. RowsEarly
  BY <1>7, <1>12 DEF PollResumed, LaneStatus
<2> QED
  BY <1>2, <2>1, CalmStep
<1>13. CASE PollSpecChanged(t)
<2>1. SetStatus(t, "blocked") /\ disk' = Logged(disk, t, "blocked") /\ t \in Lanes
  BY <1>13 DEF PollSpecChanged, PollEnds, Watched
<2>2. Passable(t, "blocked")
  BY <1>3, <2>1 DEF Passable, Held, Lanes, LaneStatus, RecoveredStatus
<2>3. RowsEarly
  BY <2>1, <2>2, StatusEarly
<2> QED
  BY <1>2, <2>3, CalmStep
<1> QED
  BY <1>5, <1>6, <1>9, <1>10, <1>11, <1>12, <1>13

\* A poll that completes its row: from a lane, so no thread will write over it.
LEMMA PollApprovedEarly ==
  ASSUME Early, TypeOK, TypeOK', NEW t \in Tasks, PollApproved(t)
  PROVE  StaysEarly
<1>1. /\ pass' = pass /\ enr' = enr /\ rec' = rec /\ contested' = contested
      /\ SetStatus(t, "completed") /\ disk' = Logged(disk, t, "completed") /\ t \in Lanes
      /\ unb' = [unb EXCEPT ![t] = [NoUnblocking EXCEPT !.pc = "scan", !.kick = TRUE]]
  BY Zenon DEF PollApproved, PollEnds, Watched, views
<1>2. NoneContested
<2>1. unb'[t].pc = "scan" /\ ~unb'[t].quar /\ \A u \in Tasks \ {t} : unb'[u] = unb[u]
  BY <1>1 DEF TypeOK, NoUnblocking
<2> QED
  BY <1>1, <2>1 DEF NoneContested, Early, NoQuarantine
<1>3. Awaited(t) => item[t].status \in {RecoveredStatus, "stopped"}
  BY DEF Early, RecoversEarly
<1>4. Passable(t, "completed")
  BY <1>1, <1>3 DEF Passable, Held, Lanes, LaneStatus, RecoveredStatus
<1>5. RowsEarly
  BY <1>1, <1>4, StatusEarly DEF Status
<1> QED
  BY <1>1, <1>2, <1>5, PassesLeft, ScansLeft, CalmStep

\* abort() stops rows of lanes only.
LEMMA AbortEarly ==
  ASSUME Early, TypeOK, TypeOK', Abort
  PROVE  StaysEarly
<1>1. PICK done \in SUBSET Lanes :
        /\ item' = [t \in Tasks |-> IF t \in done
                      THEN [item[t] EXCEPT !.status = "stopped"] ELSE item[t]]
        /\ disk' = [t \in Tasks |-> IF t \in done /\ disk[t].status # Absent
                      THEN [disk[t] EXCEPT !.status = "stopped"] ELSE disk[t]]
<2>1. PICK res \in [Lanes -> BOOLEAN \X JobState] :
        LET done == {t \in Lanes : res[t][1]} IN
          /\ item' = [t \in Tasks |-> IF t \in done
                        THEN [item[t] EXCEPT !.status = "stopped"] ELSE item[t]]
          /\ disk' = [t \in Tasks |-> IF t \in done /\ disk[t].status # Absent
                        THEN [disk[t] EXCEPT !.status = "stopped"] ELSE disk[t]]
  BY Zenon DEF Abort
<2>2. {t \in Lanes : res[t][1]} \in SUBSET Lanes
  OBVIOUS
<2> QED
  BY <2>1, <2>2, Zenon
<1>2. /\ pass' = pass /\ enr' = enr /\ rec' = rec /\ unb' = unb /\ contested' = contested
  BY Zenon DEF Abort, threads, views
<1>3. RowsEarly
<2> SUFFICES ASSUME NEW u \in Tasks PROVE RowEarly(u)
  BY DEF RowsEarly
<2>1. item[u] \in Item /\ item[u].dup = {} /\ disk[u] \in DiskRow /\ disk[u].dup = {}
  BY LogEarly
<2>2. CASE u \in done
<3>1. item[u].status \in LaneStatus
  BY <2>2 DEF Lanes
<3>2. item'[u].status = "stopped" /\ item'[u].dup = {} /\ disk'[u].dup = {}
  BY <1>1, <2>1, <2>2 DEF Item, DiskRow
<3> QED
  BY <3>1, <3>2 DEF RowEarly, Held, LaneStatus, RecoveredStatus
<2>3. CASE u \notin done
  BY <1>1, <2>1, <2>3 DEF RowEarly
<2> QED
  BY <2>2, <2>3
<1> QED
  BY <1>2, <1>3, PassesLeft, ScansLeft, ClaimsLeft, CalmStep

\* Passes that find nothing to write.
LEMMA IdlePassesEarly ==
  ASSUME Early, TypeOK, TypeOK', NEW p \in Slots,
         \/ ListDone(p) \/ PassStale(p) \/ PassBudgetExhausted(p) \/ PassWaits(p)
         \/ PassFindsNothing(p) \/ PassYields(p)
  PROVE  StaysEarly
<1>1. /\ item' = item /\ enr' = enr /\ rec' = rec /\ unb' = unb /\ contested' = contested
      /\ disk' \in Compactions \cup {disk}
  BY Zenon DEF ListDone, PassStale, PassBudgetExhausted, PassWaits, PassFindsNothing,
     PassYields, rows, views
<1>2. PassesRest
<2>1. CASE ListDone(p)
<3> DEFINE r == [IdlePass EXCEPT !.pc = "visit", !.view = dbDone \cup DoneInQueue]
<3>1. pass' = [pass EXCEPT ![p] = r]
  BY <2>1 DEF ListDone
<3>2. r.pc = "visit"
  BY DEF IdlePass
<3> HIDE DEF r
<3> QED
  BY <3>1, <3>2, OnePassRests DEF Dispatching
<2>2. CASE ~ListDone(p)
<3>1. pass' = [pass EXCEPT ![p] = IdlePass]
  BY <2>2, Zenon DEF PassStale, PassBudgetExhausted, PassWaits, PassFindsNothing, PassYields, Idle
<3>2. IdlePass.pc = "idle"
  BY DEF IdlePass
<3> QED
  BY <3>1, <3>2, OnePassRests DEF Dispatching
<2> QED
  BY <2>1, <2>2
<1> QED
  BY <1>1, <1>2, CompactionEarly, ScansLeft, ClaimsLeft, CalmStep

\* A pass takes up a row that is as the invariant asks.
LEMMA PassTakes ==
  ASSUME Early, TypeOK, NEW p \in Slots, NEW r, pass' = [pass EXCEPT ![p] = r],
         r.pc = "scan" => /\ item[r.task].status \notin Held \cup {RecoveredStatus}
                          /\ ~Awaited(r.task),
         r.pc \in Dispatching => /\ r.task \notin rec.todo /\ ~Pending(r.task)
                                 /\ item[r.task].status # RecoveredStatus,
         item' = item, disk' = disk, enr' = enr, rec' = rec, unb' = unb, contested' = contested
  PROVE  StaysEarly
<1>1. pass'[p] = r /\ \A q \in Slots \ {p} : pass'[q] = pass[q]
  BY DEF TypeOK
<1>2. NoQuarantine' /\ EnrichesEarly' /\ RecoversEarly'
  BY DEF Early, NoQuarantine, EnrichesEarly, RecoversEarly, Pending, Awaited
<1>3. ScansEarly'
<2> SUFFICES ASSUME NEW q \in Slots, pass'[q].pc = "scan"
             PROVE  /\ item[pass'[q].task].status \notin Held \cup {RecoveredStatus}
                    /\ ~Awaited(pass'[q].task)
  BY DEF ScansEarly, Awaited
<2> QED
  BY <1>1 DEF Early, ScansEarly
<1>4. DispatchesAlone'
<2> SUFFICES ASSUME NEW q \in Slots, pass'[q].pc \in Dispatching
             PROVE  /\ pass'[q].task \notin rec.todo /\ ~Pending(pass'[q].task)
                    /\ item[pass'[q].task].status # RecoveredStatus
  BY DEF DispatchesAlone, Pending
<2> QED
  BY <1>1 DEF Early, DispatchesAlone
<1> QED
  BY <1>2, <1>3, <1>4 DEF StaysEarly, Early

\* The pick of a pass is ready and not being enriched, so the recovery has left it.
LEMMA SelectsEarly ==
  ASSUME Early, TypeOK, NEW p \in Slots, NEW t \in Tasks, PassSelects(p, t)
  PROVE  StaysEarly
<1> DEFINE r == [IdlePass EXCEPT !.pc = "resolve", !.task = t]
<1>1. /\ pass' = [pass EXCEPT ![p] = r] /\ t \in SelectNextTask
      /\ item' = item /\ disk' = disk /\ enr' = enr /\ rec' = rec /\ unb' = unb
      /\ contested' = contested
  BY Zenon DEF PassSelects, rows, views
<1>2. r.pc = "resolve" /\ r.task = t
  BY DEF IdlePass
<1>3. item[t].status = "ready" /\ ~Pending(t)
  BY <1>1 DEF SelectNextTask, Selectable, Ready
<1>4. t \notin rec.todo
  BY <1>3, TasksAssumption DEF Early, RecoversEarly, Awaited, RecoveredStatus
<1> QED
  BY <1>1, <1>2, <1>3, <1>4, PassTakes DEF RecoveredStatus, Dispatching

\* A readiness visit with its scan, of a row that has not been started.
LEMMA RefreshEarly ==
  ASSUME Early, TypeOK, NEW t \in Tasks, NEW view, NEW ids, NEW quar,
         ApplyRefresh(t, view, ids, quar),
         item[t].status \notin Held \cup {RecoveredStatus}, ~Awaited(t)
  PROVE  RowsEarly
<1> DEFINE r == Refreshed(t, view, ids, quar)
<1>1. item' = [item EXCEPT ![t] = r] /\ (disk' = Logged(disk, t, "ready") \/ disk' = disk)
  BY DEF ApplyRefresh
<1>2. item[t] \in Item /\ item[t].dup = {} /\ contested = {}
  BY LogEarly DEF Early, NoQuarantine
<1>3. r.dup = {} /\ r.status \in {item[t].status, "queued", "ready"}
  BY <1>2 DEF Refreshed, Item
<1> HIDE DEF r
<1>4. Passable(t, r.status)
  BY <1>3 DEF Passable, Held, LaneStatus, RecoveredStatus
<1>5. \A u \in Tasks : disk'[u].dup = {}
  BY <1>1, LogEarly
<1> QED
  BY <1>1, <1>3, <1>4, <1>5, OneRowEarly

\* The visit of a row.
LEMMA VisitEarly ==
  ASSUME Early, TypeOK, TypeOK', NEW p \in Slots, NEW t \in Tasks, Visit(p, t)
  PROVE  StaysEarly
<1> DEFINE ids == Satisfiers(t, pass[p].view) \cup item[t].dup
           quar == item[t].dup # {}
<1>1. /\ enr' = enr /\ rec' = rec /\ unb' = unb /\ contested' = contested
      /\ Refreshable(t) /\ pass[p].pc = "visit"
  BY Zenon DEF Visit, views
<1>2. item[t].status = "queued" /\ ~Pending(t)
  BY <1>1 DEF Refreshable, Early, NoQuarantine
<1>3. item[t].status \notin Held \cup {RecoveredStatus} /\ ~Awaited(t)
  BY <1>2 DEF Held, LaneStatus, RecoveredStatus, Early, RecoversEarly
<1>4. pass[p] \in Pass
  BY DEF TypeOK
<1>5. CASE ids = {}
<2> DEFINE r == [pass[p] EXCEPT !.seen = @ \cup {t}]
<2>1. ApplyRefresh(t, pass[p].view, ids, quar) /\ pass' = [pass EXCEPT ![p] = r]
  BY <1>5 DEF Visit
<2>2. r.pc = "visit"
  BY <1>1, <1>4 DEF Pass
<2> HIDE DEF r, ids, quar
<2>3. PassesRest
  BY <2>1, <2>2, OnePassRests DEF Dispatching
<2>4. RowsEarly
  BY <1>3, <2>1, RefreshEarly
<2> QED
  BY <1>1, <2>3, <2>4, ScansLeft, ClaimsLeft, CalmStep
<1>6. CASE ids # {}
<2>1. /\ item' = item /\ disk' = disk
      /\ \E skip \in SUBSET {u \in mapped : ~Refreshable(u)} :
           pass' = [pass EXCEPT ![p] = [@ EXCEPT !.pc = "scan", !.task = t,
                      !.seen = pass[p].seen \cup {t} \cup skip, !.ids = ids, !.quar = quar]]
  BY <1>6, Zenon DEF Visit
<2>2. PICK skip : pass' = [pass EXCEPT ![p] = [@ EXCEPT !.pc = "scan", !.task = t,
                      !.seen = pass[p].seen \cup {t} \cup skip, !.ids = ids, !.quar = quar]]
  BY <2>1
<2> DEFINE r == [pass[p] EXCEPT !.pc = "scan", !.task = t,
                   !.seen = pass[p].seen \cup {t} \cup skip, !.ids = ids, !.quar = quar]
<2>3. pass' = [pass EXCEPT ![p] = r]
  BY <2>2
<2>4. r.pc = "scan" /\ r.task = t
  BY <1>4 DEF Pass
<2> HIDE DEF r, ids, quar
<2> QED
  BY <1>1, <1>3, <2>1, <2>3, <2>4, PassTakes DEF Dispatching
<1> QED
  BY <1>5, <1>6

\* The visit goes on after the scan, with a row that is still as it was before.
LEMMA ScannedEarly ==
  ASSUME Early, TypeOK, TypeOK', NEW p \in Slots, VisitScanned(p)
  PROVE  StaysEarly
<1> DEFINE t == pass[p].task
           r == [pass[p] EXCEPT !.pc = "visit", !.task = NoTask, !.ids = {}, !.quar = FALSE]
<1>1. /\ enr' = enr /\ rec' = rec /\ unb' = unb /\ contested' = contested
      /\ pass[p].pc = "scan" /\ pass' = [pass EXCEPT ![p] = r]
      /\ ApplyRefresh(t, pass[p].view, pass[p].ids, pass[p].quar)
  BY Zenon DEF VisitScanned, views
<1>2. t \in Tasks /\ pass[p] \in Pass
  BY <1>1 DEF TypeOK, Pass
<1>3. item[t].status \notin Held \cup {RecoveredStatus} /\ ~Awaited(t)
  BY <1>1 DEF Early, ScansEarly
<1>4. r.pc = "visit"
  BY <1>2 DEF Pass
<1> HIDE DEF r, t
<1>5. RowsEarly
  BY <1>1, <1>2, <1>3, RefreshEarly
<1>6. PassesRest
  BY <1>1, <1>4, OnePassRests DEF Dispatching
<1> QED
  BY <1>1, <1>5, <1>6, ScansLeft, ClaimsLeft, CalmStep

\* A dispatch that is current has a ready row, which nothing else has.
LEMMA DispatchHas ==
  ASSUME Early, TypeOK, NEW p \in Slots, pass[p].pc \in Dispatching
  PROVE  /\ pass[p] \in Pass /\ pass[p].task \in Tasks
         /\ pass[p].task \notin rec.todo /\ ~Pending(pass[p].task) /\ ~Awaited(pass[p].task)
         /\ DispatchCurrent(p) => item[pass[p].task].status = "ready"
<1>1. pass[p] \in Pass /\ pass[p].task \in Tasks
  BY DEF TypeOK, Pass, Dispatching
<1>2. pass[p].task \notin rec.todo /\ ~Pending(pass[p].task)
  BY DEF Early, DispatchesAlone
<1> QED
  BY <1>1, <1>2 DEF Awaited, DispatchCurrent, Ready

\* A ready row is put back, blocked or skipped.
LEMMA PutBackEarly ==
  ASSUME Early, TypeOK, NEW t \in Tasks, NEW r, item' = [item EXCEPT ![t] = r],
         r.dup = {}, r.status \in {"queued", "ready", "blocked", "skipped"},
         item[t].status = "ready", ~Awaited(t), \A u \in Tasks : disk'[u].dup = {}
  PROVE  RowsEarly
<1>1. Passable(t, r.status)
  BY DEF Passable, Held, LaneStatus, RecoveredStatus
<1> QED
  BY <1>1, OneRowEarly

\* The steps of a dispatch before and after the start.
LEMMA DispatchEarly ==
  ASSUME NoStaleScan, Early, TypeOK, TypeOK', NEW p \in Slots, DispatchStep(p), ~FenceAdmits(p)
  PROVE  StaysEarly
<1> DEFINE t == pass[p].task
<1>1. /\ enr' = enr /\ rec' = rec /\ unb' = unb /\ contested' = contested
      /\ pass[p].pc \in Dispatching
  BY Zenon DEF DispatchStep, DispatchStale, Resolve, ResolveUnmet, Claim, ClaimContested,
     StartThrows, FenceContested, DispatchDeferred, FenceDecomposed, Release, views, Dispatching
<1>2. /\ pass[p] \in Pass /\ t \in Tasks /\ ~Awaited(t)
      /\ DispatchCurrent(p) => item[t].status = "ready"
  BY <1>1, DispatchHas
<1>3. /\ item[t] \in Item /\ item[t].dup = {} /\ \A u \in Tasks : disk[u].dup = {}
      /\ \A s : \A u \in Tasks : Logged(disk, t, s)[u].dup = {}
  BY <1>2, LogEarly
<1>4. contested = {}
  BY DEF Early, NoQuarantine
<1>5. PassesRest
<2>1. CASE Resolve(p)
<3> DEFINE r == [pass[p] EXCEPT !.pc = "claim", !.view = dbDone]
<3>1. pass' = [pass EXCEPT ![p] = r]
  BY <2>1 DEF Resolve
<3>2. r.pc = "claim" /\ r.task = t
  BY <1>2 DEF Pass
<3> HIDE DEF r
<3> QED
  BY <1>1, <3>1, <3>2, OnePassRests
<2>2. CASE Claim(p)
<3> DEFINE r == [pass[p] EXCEPT !.pc = "fence"]
<3>1. pass' = [pass EXCEPT ![p] = r]
  BY <2>2 DEF Claim
<3>2. r.pc = "fence" /\ r.task = t
  BY <1>2 DEF Pass
<3> HIDE DEF r
<3> QED
  BY <1>1, <3>1, <3>2, OnePassRests
<2>3. CASE ~Resolve(p) /\ ~Claim(p)
<3>1. pass' = [pass EXCEPT ![p] = IdlePass]
  BY <2>3, Zenon DEF DispatchStep, DispatchStale, ResolveUnmet, ClaimContested,
     StartThrows, FenceContested, DispatchDeferred, FenceDecomposed, Release, EndDispatch
<3>2. IdlePass.pc = "idle"
  BY DEF IdlePass
<3> QED
  BY <3>1, <3>2, OnePassRests DEF Dispatching
<2> QED
  BY <2>1, <2>2, <2>3
<1>6. CASE DispatchStale(p) \/ Resolve(p)
<2>1. item' = item /\ disk' = disk
  BY <1>6, Zenon DEF DispatchStale, Resolve, rows
<2> QED
  BY <1>1, <1>5, <2>1, RowsLeftEarly, ScansLeft, ClaimsLeft, CalmStep
<1>7. CASE ResolveUnmet(p)
<2> DEFINE r == [item[t] EXCEPT !.status = "queued", !.blockedBy = Unmet(t, dbDone)]
<2>1. item' = [item EXCEPT ![t] = r] /\ disk' = disk /\ DispatchCurrent(p)
  BY <1>7 DEF ResolveUnmet
<2>2. r.dup = {} /\ r.status = "queued"
  BY <1>3 DEF Item
<2> HIDE DEF r, t
<2>3. RowsEarly
  BY <1>2, <1>3, <2>1, <2>2, PutBackEarly
<2> QED
  BY <1>1, <1>5, <2>3, ScansLeft, ClaimsLeft, CalmStep
<1>8. CASE Claim(p)
<2> DEFINE r == [item[t] EXCEPT !.dup = {}, !.blockedBy = {}]
<2>1. item' = [item EXCEPT ![t] = r] /\ disk' = disk /\ DispatchCurrent(p)
  BY <1>8 DEF Claim
<2>2. r.dup = {} /\ r.status = "ready"
  BY <1>2, <1>3, <2>1 DEF Item
<2> HIDE DEF r, t
<2>3. RowsEarly
  BY <1>2, <1>3, <2>1, <2>2, PutBackEarly
<2> QED
  BY <1>1, <1>5, <2>3, ScansLeft, ClaimsLeft, CalmStep
<1>9. ~ClaimContested(p) /\ ~FenceContested(p)
  BY <1>4 DEF ClaimContested, FenceContested
<1>10. CASE StartThrows(p)
<2>1. HandleTaskFailure(t) /\ DispatchCurrent(p)
  BY <1>10, Zenon DEF StartThrows
<2>2. RowsEarly
  BY <1>2, <2>1, FailureEarly
<2> QED
  BY <1>1, <1>5, <2>2, ScansLeft, ClaimsLeft, CalmStep
<1>11. ASSUME NEW s \in {"queued", "skipped"}, SetStatus(t, s), DispatchCurrent(p),
              \A u \in Tasks : disk'[u].dup = {}
       PROVE  StaysEarly
<2> DEFINE r == [item[t] EXCEPT !.status = s]
<2>1. item' = [item EXCEPT ![t] = r]
  BY <1>11 DEF SetStatus
<2>2. r.dup = {} /\ r.status = s
  BY <1>3 DEF Item
<2> HIDE DEF r, t
<2>3. RowsEarly
  BY <1>2, <1>11, <2>1, <2>2, PutBackEarly
<2> QED
  BY <1>1, <1>5, <2>3, ScansLeft, ClaimsLeft, CalmStep
<1>12. CASE DispatchDeferred(p)
  BY <1>3, <1>11, <1>12 DEF DispatchDeferred
<1>13. CASE FenceDecomposed(p)
  BY <1>3, <1>11, <1>13 DEF FenceDecomposed
<1>14. CASE Release(p)
<2>1. item' = item /\ (disk' = Logged(disk, t, "running") \/ disk' = disk)
  BY <1>14, Zenon DEF Release
<2>2. RowsEarly
  BY <1>3, <2>1 DEF RowsEarly, RowEarly, Early, NoQuarantine
<2> QED
  BY <1>1, <1>5, <2>2, ScansLeft, ClaimsLeft, CalmStep
<1> QED
  BY <1>6, <1>7, <1>8, <1>9, <1>10, <1>12, <1>13, <1>14 DEF DispatchStep

\* The start: no readiness scan, enrichment or recovery has the row.
LEMMA AdmitsEarly ==
  ASSUME NoStaleScan, Early, TypeOK, TypeOK', NEW p \in Slots, FenceAdmits(p)
  PROVE  StaysEarly
<1> DEFINE t == pass[p].task
           r == [item[t] EXCEPT !.status = "running"]
           e == [pass[p] EXCEPT !.pc = "release"]
<1>1. /\ enr' = enr /\ rec' = rec /\ unb' = unb /\ contested' = contested /\ disk' = disk
      /\ pass[p].pc = "fence" /\ DispatchCurrent(p)
      /\ item' = [item EXCEPT ![t] = r] /\ pass' = [pass EXCEPT ![p] = e]
      /\ \A q \in Slots : pass[q].pc = "scan" => pass[q].task # t
  BY Zenon DEF FenceAdmits, views, NoStaleScan, SetStatus
<1>2. /\ pass[p] \in Pass /\ t \in Tasks /\ ~Awaited(t) /\ item[t].status = "ready"
      /\ t \notin rec.todo /\ ~Pending(t)
  BY <1>1, DispatchHas DEF Dispatching
<1>3. item[t] \in Item /\ item[t].dup = {}
  BY <1>2, LogEarly
<1>4. r.status = "running" /\ r.dup = {} /\ e.pc = "release" /\ e.task = t
  BY <1>2, <1>3 DEF Item, Pass
<1> HIDE DEF r, e
<1>5. /\ item'[t] = r /\ \A u \in Tasks \ {t} : item'[u] = item[u]
      /\ pass'[p] = e /\ \A q \in Slots \ {p} : pass'[q] = pass[q]
  BY <1>1, <1>2 DEF TypeOK
<1>6. NoQuarantine'
  BY <1>1, <1>4, <1>5 DEF Early, NoQuarantine
<1>7. ScansEarly'
<2> SUFFICES ASSUME NEW q \in Slots, pass'[q].pc = "scan"
             PROVE  /\ item'[pass'[q].task].status \notin Held \cup {RecoveredStatus}
                    /\ ~Awaited(pass'[q].task)
  BY <1>1 DEF ScansEarly, Awaited
<2>1. q # p /\ pass'[q] = pass[q]
  BY <1>4, <1>5
<2>2. pass[q].task \in Tasks \ {t}
  BY <1>1, <2>1 DEF TypeOK, Pass
<2> QED
  BY <1>5, <2>1, <2>2 DEF Early, ScansEarly
<1>8. DispatchesAlone'
<2> SUFFICES ASSUME NEW q \in Slots, pass'[q].pc \in Dispatching
             PROVE  /\ pass'[q].task \notin rec.todo /\ ~Pending(pass'[q].task)
                    /\ item'[pass'[q].task].status # RecoveredStatus
  BY <1>1 DEF DispatchesAlone, Pending
<2>1. pass'[q].task = pass[q].task /\ pass[q].pc \in Dispatching
  BY <1>1, <1>4, <1>5 DEF Dispatching
<2>2. pass[q].task \in Tasks
  BY <2>1, DispatchHas
<2> QED
  BY <1>4, <1>5, <2>1, <2>2 DEF Early, DispatchesAlone, RecoveredStatus
<1>9. EnrichesEarly'
<2> SUFFICES ASSUME NEW u \in Tasks, Pending(u)
             PROVE  item'[u].status \notin Held \cup {RecoveredStatus} /\ ~Awaited(u)
  BY <1>1 DEF EnrichesEarly, Pending, Awaited
<2> QED
  BY <1>2, <1>5 DEF Early, EnrichesEarly
<1>10. RecoversEarly'
<2>1. ASSUME NEW u \in Tasks, Awaited(u) PROVE item'[u].status \in {RecoveredStatus, "stopped"}
  BY <1>2, <1>5, <2>1 DEF Early, RecoversEarly
<2>2. rec.cur # NoTask => Pending(rec.cur)
  BY DEF Early, RecoversEarly
<2> QED
  BY <1>1, <2>1, <2>2 DEF RecoversEarly, Awaited, Pending
<1>11. \A u \in Tasks : item[u].status = "completed" => item'[u].status = "completed"
  BY <1>2, <1>5
<1> QED
  BY <1>6, <1>7, <1>8, <1>9, <1>10, <1>11 DEF StaysEarly, Early, TypeOK

\* The unblocking threads: they quarantine nothing and have no quarantine to rescan.
LEMMA UnblockEarly ==
  ASSUME Early, TypeOK, TypeOK', NEW c \in Tasks, UnblockStep(c)
  PROVE  StaysEarly
<1>1. /\ pass' = pass /\ enr' = enr /\ rec' = rec /\ contested' = contested
  BY Zenon DEF UnblockStep, UnblockScanned, UnblockRefreshed, UnblockDone, UnblockVisit, views
<1>2. contested = {} /\ unb[c].pc # "refresh" /\ ~unb[c].quar /\ unb[c] \in Unblocking
  BY DEF Early, NoQuarantine, TypeOK
<1>3. ASSUME NEW u, unb' = [unb EXCEPT ![c] = u], u.pc # "refresh", ~u.quar
      PROVE  NoneContested
<2>1. unb'[c] = u /\ \A k \in Tasks \ {c} : unb'[k] = unb[k]
  BY <1>3 DEF TypeOK
<2> QED
  BY <1>1, <1>2, <1>3, <2>1 DEF NoneContested, Early, NoQuarantine
<1>4. CASE UnblockScanned(c)
<2> DEFINE u == [unb[c] EXCEPT !.pc = "loop", !.quar = c \in contested]
<2>1. unb' = [unb EXCEPT ![c] = u] /\ item' = item /\ disk' = disk
  BY <1>4 DEF UnblockScanned, rows
<2>2. u.pc = "loop" /\ ~u.quar
  BY <1>2 DEF Unblocking
<2> HIDE DEF u
<2>3. NoneContested
  BY <1>3, <2>1, <2>2
<2> QED
  BY <1>1, <2>1, <2>3, RowsLeftEarly, PassesLeft, ScansLeft, CalmStep
<1>5. CASE UnblockDone(c)
<2>1. unb' = [unb EXCEPT ![c] = NoUnblocking] /\ item' = item /\ disk' = disk
  BY <1>5 DEF UnblockDone, EndUnblock, rows
<2>2. NoUnblocking.pc = "idle" /\ ~NoUnblocking.quar
  BY DEF NoUnblocking
<2>3. NoneContested
  BY <1>3, <2>1, <2>2
<2> QED
  BY <1>1, <2>1, <2>3, RowsLeftEarly, PassesLeft, ScansLeft, CalmStep
<1>6. ASSUME NEW t \in Tasks, UnblockVisit(c, t) PROVE StaysEarly
<2>1. item[t] \in Item /\ item[t].dup = {} /\ disk[t] \in DiskRow
      /\ \A u \in Tasks : disk[u].dup = {}
  BY LogEarly
<2>2. t \in Waiting(c)
  BY <1>6, Zenon DEF UnblockVisit
<2>3. item[t].status = "queued"
  BY <2>1, <2>2 DEF Waiting
<2>4. (IF unb[c].quar THEN item[t].dup \cup {c} ELSE item[t].dup \ {c}) = {}
  BY <1>2, <2>1
<2> DEFINE row == [item[t] EXCEPT !.blockedBy = @ \ {c}]
           r == Unblocked(row, {})
           d == [disk EXCEPT ![t].blockedBy = @ \ {c}]
           u == [unb[c] EXCEPT !.seen = @ \cup {t}]
<2>5. ApplyUnblock(c, t, row, {}) /\ unb' = [unb EXCEPT ![c] = u]
  BY <1>6, <2>4 DEF UnblockVisit
<2>6. item' = [item EXCEPT ![t] = r] /\ (disk' = d \/ disk' = Logged(d, t, "ready"))
  BY <2>5 DEF ApplyUnblock
<2>7. r.dup = {} /\ r.status \in {"queued", "ready"}
<3>1. row \in Item /\ row.status = "queued" /\ row.dup = {}
  BY <2>1, <2>3 DEF Item
<3> HIDE DEF row
<3> QED
  BY <3>1 DEF Unblocked, Item
<2>8. \A k \in Tasks : d[k].dup = {} /\ Logged(d, t, "ready")[k].dup = {}
<3>1. d \in [Tasks -> DiskRow] /\ \A k \in Tasks : d[k].dup = {}
  BY <2>1 DEF TypeOK, DiskRow
<3>2. d[t] \in DiskRow
  BY <3>1
<3> HIDE DEF d
<3> DEFINE e == [d[t] EXCEPT !.status = IF @ = Absent THEN Absent ELSE "ready"]
<3>3. Logged(d, t, "ready") = [d EXCEPT ![t] = e]
  BY DEF Logged
<3>4. e.dup = {}
  BY <3>1, <3>2 DEF DiskRow
<3> HIDE DEF e
<3> QED
  BY <3>1, <3>3, <3>4
<2>9. u.pc = unb[c].pc /\ u.quar = unb[c].quar
  BY <1>2 DEF Unblocking
<2> HIDE DEF r, d, u, row
<2>10. Passable(t, r.status)
  BY <2>3, <2>7 DEF Passable, Held, LaneStatus, RecoveredStatus, Early, RecoversEarly
<2>11. RowsEarly
  BY <2>6, <2>7, <2>8, <2>10, OneRowEarly
<2>12. NoneContested
  BY <1>2, <1>3, <2>5, <2>9
<2> QED
  BY <1>1, <2>11, <2>12, PassesLeft, ScansLeft, CalmStep
<1> QED
  BY <1>2, <1>4, <1>5, <1>6 DEF UnblockStep, UnblockRefreshed

\* The rows of an enrichment, and the recovery scan that waited for it.
LEMMA EnrichEarly ==
  ASSUME Early, TypeOK, TypeOK', NEW t \in Tasks, EnrichStep(t)
  PROVE  StaysEarly
<1>1. /\ pass' = pass /\ unb' = unb /\ contested' = contested /\ Pending(t)
  BY DEF EnrichStep, EnrichListed, EnrichScanned, EnrichFails, views, Pending
<1>2. PassesRest /\ NoneContested
  BY <1>1, PassesLeft, ClaimsLeft
<1>3. item[t].status \notin Held \cup {RecoveredStatus} /\ ~Awaited(t)
  BY <1>1 DEF Early, EnrichesEarly
<1>4. /\ item[t] \in Item /\ item[t].dup = {} /\ \A u \in Tasks : disk[u].dup = {}
      /\ \A s : \A u \in Tasks : Logged(disk, t, s)[u].dup = {}
  BY LogEarly
<1>5. /\ contested = {} /\ rec.bad = {} /\ rec \in Recovery
      /\ rec.cur # NoTask => rec.cur \in Tasks /\ Pending(rec.cur)
  BY DEF Early, NoQuarantine, RecoversEarly, TypeOK, Recovery
<1>6. ASSUME NEW e, enr' = [enr EXCEPT ![t] = e],
             \/ rec' = rec /\ (rec.cur # t \/ e.pc # "idle")
             \/ rec' = [rec EXCEPT !.cur = NoTask, !.todo = @ \ {t}] /\ t = rec.cur
             \/ rec' = NoRecovery
      PROVE  ScansRest
<2>1. enr'[t] = e /\ \A u \in Tasks \ {t} : enr'[u] = enr[u]
  BY <1>6 DEF TypeOK
<2>2. \A u \in Tasks : enr'[u].pc # "idle" => enr[u].pc # "idle"
  BY <1>1, <2>1 DEF Pending
<2>3. CASE rec' = rec /\ (rec.cur # t \/ e.pc # "idle")
  BY <1>5, <2>1, <2>2, <2>3 DEF ScansRest, Pending
<2>4. CASE rec' = [rec EXCEPT !.cur = NoTask, !.todo = @ \ {t}] /\ t = rec.cur
<3>1. rec'.cur = NoTask /\ rec'.todo = rec.todo \ {t} /\ rec'.bad = rec.bad
  BY <1>5, <2>4 DEF Recovery
<3> QED
  BY <1>5, <2>2, <2>4, <3>1 DEF ScansRest, Pending
<2>5. CASE rec' = NoRecovery
<3>1. rec'.cur = NoTask /\ rec'.todo = {} /\ rec'.bad = {}
  BY <2>5 DEF NoRecovery
<3> QED
  BY <2>2, <3>1 DEF ScansRest, Pending
<2> QED
  BY <1>6, <2>3, <2>4, <2>5
<1>7. ASSUME NEW view, Enrich(t, view) PROVE StaysEarly
<2> DEFINE r == Enriched(t, view)
<2>1. /\ item' = [item EXCEPT ![t] = r] /\ enr' = [enr EXCEPT ![t] = NoEnrichment]
      /\ disk' = Logged(disk, t, "ready") \/ disk' = disk
  BY <1>7 DEF Enrich
<2>2. \/ rec' = rec /\ rec.cur # t
      \/ rec' = [rec EXCEPT !.cur = NoTask, !.todo = @ \ {t}] /\ t = rec.cur
  BY <1>7, Zenon DEF Enrich, AfterEnrichment
<2>3. r.dup = {} /\ r.status \in {item[t].status, "ready"}
  BY <1>4, <1>5 DEF Enriched, Item
<2> HIDE DEF r
<2>4. Passable(t, r.status)
  BY <1>3, <2>3 DEF Passable, Held, LaneStatus, RecoveredStatus
<2>5. \A u \in Tasks : disk'[u].dup = {}
  BY <1>4, <2>1
<2>6. RowsEarly
  BY <2>1, <2>3, <2>4, <2>5, OneRowEarly
<2>7. ScansRest
  BY <1>6, <2>1, <2>2
<2> QED
  BY <1>2, <2>6, <2>7, CalmStep
<1>8. CASE EnrichScanned(t)
  BY <1>7, <1>8 DEF EnrichScanned
<1>9. CASE EnrichListed(t)
<2>1. CASE Satisfiers(t, specDone) = {}
  BY <1>7, <1>9, <2>1 DEF EnrichListed
<2>2. CASE Satisfiers(t, specDone) # {}
<3> DEFINE r == [item[t] EXCEPT !.prio = Priority[t]]
           e == [pc |-> "scan", view |-> specDone]
<3>1. /\ item' = [item EXCEPT ![t] = r] /\ enr' = [enr EXCEPT ![t] = e]
      /\ disk' = disk /\ rec' = rec
  BY <1>9, <2>2 DEF EnrichListed
<3>2. r.dup = {} /\ r.status = item[t].status /\ e.pc # "idle"
  BY <1>4 DEF Item
<3> HIDE DEF r, e
<3>3. Passable(t, r.status)
  BY <1>3, <3>2 DEF Passable
<3>4. RowsEarly
  BY <1>4, <3>1, <3>2, <3>3, OneRowEarly
<3>5. ScansRest
  BY <1>6, <3>1, <3>2
<3> QED
  BY <1>2, <3>4, <3>5, CalmStep
<2> QED
  BY <2>1, <2>2
<1>10. CASE EnrichFails(t)
<2>1. enr' = [enr EXCEPT ![t] = NoEnrichment] /\ disk' = disk
  BY <1>10 DEF EnrichFails
<2>2. CASE t = rec.cur
<3>1. rec' = NoRecovery /\ item' = item
  BY <1>10, <2>2 DEF EnrichFails
<3>2. ScansRest
  BY <1>6, <2>1, <3>1
<3> QED
  BY <1>2, <2>1, <3>1, <3>2, RowsLeftEarly, CalmStep
<2>3. CASE t # rec.cur
<3>1. rec' = rec /\ SetStatus(t, "blocked")
  BY <1>10, <2>3 DEF EnrichFails
<3>2. ScansRest
  BY <1>6, <2>1, <2>3, <3>1
<3>3. Passable(t, "blocked")
  BY <1>3 DEF Passable, Held, LaneStatus, RecoveredStatus
<3>4. RowsEarly
  BY <2>1, <3>1, <3>3, StatusEarly DEF Status
<3> QED
  BY <1>2, <3>2, <3>4, CalmStep
<2> QED
  BY <2>2, <2>3
<1> QED
  BY <1>8, <1>9, <1>10 DEF EnrichStep

\* The recovery scan goes on to a row that nothing else has begun with.
LEMMA RecoverRowEarly ==
  ASSUME Early, TypeOK, NEW t \in Tasks, RecoverRow(t)
  PROVE  StaysEarly
<1> DEFINE r == [item[t] EXCEPT !.status = "queued", !.dup = {}]
           e == [NoEnrichment EXCEPT !.pc = "list"]
           s == [rec EXCEPT !.cur = t]
<1>1. /\ pass' = pass /\ unb' = unb /\ contested' = contested /\ disk' = disk
      /\ rec.cur = NoTask /\ t \in rec.todo
  BY DEF RecoverRow, views
<1>2. t \notin rec.bad
  BY DEF Early, NoQuarantine
<1>3. /\ item' = [item EXCEPT ![t] = r] /\ enr' = [enr EXCEPT ![t] = e] /\ rec' = s
  BY <1>2 DEF RecoverRow
<1>4. r.status = "queued" /\ r.dup = {} /\ e.pc = "list"
  BY LogEarly DEF Item, NoEnrichment
<1>5. s.cur = t /\ s.todo = rec.todo /\ s.bad = {}
  BY DEF TypeOK, Recovery, Early, NoQuarantine
<1> HIDE DEF r, e, s
<1>6. /\ item'[t] = r /\ \A u \in Tasks \ {t} : item'[u] = item[u]
      /\ enr'[t] = e /\ \A u \in Tasks \ {t} : enr'[u] = enr[u]
  BY <1>3 DEF TypeOK
<1>7. Awaited(t) /\ item[t].status \in {RecoveredStatus, "stopped"}
  BY <1>1, TasksAssumption DEF Awaited, Early, RecoversEarly
<1>8. \A u \in Tasks : u \in rec'.todo /\ u # rec'.cur => u # t /\ Awaited(u)
  BY <1>1, <1>3, <1>5, TasksAssumption DEF Awaited
<1>9. NoQuarantine'
  BY <1>1, <1>3, <1>4, <1>5, <1>6 DEF Early, NoQuarantine
<1>10. ScansEarly'
<2> SUFFICES ASSUME NEW p \in Slots, pass[p].pc = "scan"
             PROVE  /\ item'[pass[p].task].status \notin Held \cup {RecoveredStatus}
                    /\ ~(pass[p].task \in rec'.todo /\ pass[p].task # rec'.cur)
  BY <1>1 DEF ScansEarly, Awaited
<2>1. /\ item[pass[p].task].status \notin Held \cup {RecoveredStatus}
      /\ ~Awaited(pass[p].task) /\ pass[p].task \in Tasks
  BY DEF Early, ScansEarly, TypeOK, Pass
<2> QED
  BY <1>6, <1>7, <1>8, <2>1
<1>11. DispatchesAlone'
<2> SUFFICES ASSUME NEW p \in Slots, pass[p].pc \in Dispatching
             PROVE  /\ pass[p].task \notin rec'.todo /\ enr'[pass[p].task].pc = "idle"
                    /\ item'[pass[p].task].status # RecoveredStatus
  BY <1>1 DEF DispatchesAlone, Pending
<2>1. /\ pass[p].task \notin rec.todo /\ ~Pending(pass[p].task)
      /\ item[pass[p].task].status # RecoveredStatus /\ pass[p].task \in Tasks
  BY DispatchHas DEF Early, DispatchesAlone
<2> QED
  BY <1>1, <1>3, <1>5, <1>6, <2>1 DEF Pending
<1>12. EnrichesEarly'
<2> SUFFICES ASSUME NEW u \in Tasks, enr'[u].pc # "idle"
             PROVE  /\ item'[u].status \notin Held \cup {RecoveredStatus}
                    /\ ~(u \in rec'.todo /\ u # rec'.cur)
  BY DEF EnrichesEarly, Pending, Awaited
<2>1. CASE u = t
  BY <1>3, <1>4, <1>5, <1>6, <2>1 DEF Held, LaneStatus, RecoveredStatus
<2>2. CASE u # t
  BY <1>6, <1>8, <2>2 DEF Early, EnrichesEarly, Pending
<2> QED
  BY <2>1, <2>2
<1>13. RecoversEarly'
<2>1. ASSUME NEW u \in Tasks, u \in rec'.todo /\ u # rec'.cur
      PROVE  item'[u].status \in {RecoveredStatus, "stopped"}
  BY <1>6, <1>8, <2>1 DEF Early, RecoversEarly
<2>2. enr'[rec'.cur].pc # "idle"
  BY <1>3, <1>4, <1>5, <1>6
<2> QED
  BY <2>1, <2>2 DEF RecoversEarly, Awaited, Pending
<1>14. \A u \in Tasks : item[u].status = "completed" => item'[u].status = "completed"
  BY <1>6, <1>7 DEF RecoveredStatus
<1> QED
  BY <1>9, <1>10, <1>11, <1>12, <1>13, <1>14 DEF StaysEarly, Early, TypeOK

\* The recovery scan begins with rows that only the restart has touched.
LEMMA ListedEarly ==
  ASSUME Early, TypeOK, RecoveryListed
  PROVE  StaysEarly
<1> DEFINE todo == {t \in mapped : item[t].status = RecoveredStatus}
           s == [rec EXCEPT !.pc = "claims", !.todo = todo]
<1>1. /\ pass' = pass /\ unb' = unb /\ contested' = contested /\ disk' = disk /\ item' = item
      /\ enr' = enr /\ rec' = s
  BY DEF RecoveryListed, rows, views, RecoveredStatus
<1>2. s.cur = rec.cur /\ s.todo = todo /\ s.bad = {}
  BY DEF TypeOK, Recovery, Early, NoQuarantine
<1> HIDE DEF s
<1>3. NoQuarantine'
  BY <1>1, <1>2 DEF Early, NoQuarantine
<1>4. ScansEarly'
  BY <1>1, <1>2 DEF Early, ScansEarly, Awaited
<1>5. DispatchesAlone'
  BY <1>1, <1>2 DEF Early, DispatchesAlone, Pending
<1>6. EnrichesEarly'
  BY <1>1, <1>2 DEF Early, EnrichesEarly, Pending, Awaited
<1>7. RecoversEarly'
  BY <1>1, <1>2 DEF Early, RecoversEarly, Pending, Awaited
<1> QED
  BY <1>1, <1>3, <1>4, <1>5, <1>6, <1>7 DEF StaysEarly, Early

\* The rest of the recovery scan, and what finishes outside the queue.
LEMMA OutsideEarly ==
  ASSUME Early, TypeOK, TypeOK',
         \/ RecoveryUnavailable \/ RecoveryScanned \/ RecoveryDone
         \/ \E c \in Tasks : ExternalCompletion(c)
  PROVE  StaysEarly
<1>1. /\ item' = item /\ disk' = disk /\ pass' = pass /\ enr' = enr /\ contested' = contested
  BY Zenon DEF RecoveryUnavailable, RecoveryScanned, RecoveryDone, ExternalCompletion, rows, views
<1>2. CASE RecoveryUnavailable \/ RecoveryDone
<2>1. rec' = NoRecovery /\ unb' = unb
  BY <1>2 DEF RecoveryUnavailable, RecoveryDone
<2>2. ScansRest
  BY <1>1, <2>1 DEF ScansRest, NoRecovery, Pending
<2> QED
  BY <1>1, <2>1, <2>2, RowsLeftEarly, PassesLeft, ClaimsLeft, CalmStep
<1>3. CASE RecoveryScanned
<2>1. rec' = [rec EXCEPT !.pc = "rows", !.bad = rec.todo \cap contested] /\ unb' = unb
  BY <1>3 DEF RecoveryScanned
<2>2. rec'.todo = rec.todo /\ rec'.cur = rec.cur /\ rec'.bad = {}
  BY <2>1 DEF TypeOK, Recovery, Early, NoQuarantine
<2>3. ScansRest
  BY <1>1, <2>2 DEF ScansRest, Pending, Early, RecoversEarly
<2> QED
  BY <1>1, <2>1, <2>3, RowsLeftEarly, PassesLeft, ClaimsLeft, CalmStep
<1>4. ASSUME NEW c \in Tasks, ExternalCompletion(c) PROVE StaysEarly
<2>1. unb' = [unb EXCEPT ![c] = [NoUnblocking EXCEPT !.pc = "scan"]] /\ rec' = rec
  BY <1>4, Zenon DEF ExternalCompletion
<2>2. unb'[c].pc = "scan" /\ ~unb'[c].quar /\ \A u \in Tasks \ {c} : unb'[u] = unb[u]
  BY <2>1 DEF TypeOK, NoUnblocking
<2>3. NoneContested
  BY <1>1, <2>2 DEF NoneContested, Early, NoQuarantine
<2> QED
  BY <1>1, <2>1, <2>3, RowsLeftEarly, PassesLeft, ScansLeft, CalmStep
<1> QED
  BY <1>2, <1>3, <1>4

\* A restart replays the completed rows, and every thread begins anew.
LEMMA CrashEarly ==
  ASSUME Early, Safe, Crash
  PROVE  StaysEarly
<1>1. /\ mapped' = {t \in Tasks : disk[t].status # Absent} /\ disk' = disk
      /\ item' = [t \in Tasks |-> IF disk[t].status # Absent THEN Recovered(disk[t]) ELSE NewItem]
      /\ pass' = [p \in Slots |-> IdlePass] /\ enr' = [t \in Tasks |-> NoEnrichment]
      /\ unb' = [t \in Tasks |-> NoUnblocking] /\ contested' = contested
      /\ rec' = NoRecovery \/ rec' = [NoRecovery EXCEPT !.pc = "stat"]
  BY DEF Crash, views
<1>2. rec'.todo = {} /\ rec'.bad = {} /\ rec'.cur = NoTask
  BY <1>1 DEF NoRecovery
<1>3. /\ \A p \in Slots : pass'[p].pc = "idle"
      /\ \A t \in Tasks : enr'[t].pc = "idle" /\ unb'[t].pc = "idle" /\ ~unb'[t].quar
  BY <1>1 DEF IdlePass, NoEnrichment, NoUnblocking
<1>4. ASSUME NEW t \in Tasks
      PROVE  /\ item'[t].dup = {}
             /\ disk[t].status = "completed" => item'[t].status = "completed"
<2>1. disk[t] \in DiskRow /\ disk[t].dup = {}
  BY DEF Early, NoQuarantine, Safe, TypeOK
<2>2. CASE disk[t].status # Absent
<3>1. item'[t] = Recovered(disk[t])
  BY <1>1, <2>2
<3> QED
  BY <2>1, <3>1 DEF Recovered, DiskRow
<2>3. CASE disk[t].status = Absent
<3>1. item'[t] = NewItem
  BY <1>1, <2>3
<3> QED
  BY <2>3, <3>1 DEF NewItem, Absent
<2> QED
  BY <2>2, <2>3
<1>5. NoQuarantine'
  BY <1>1, <1>2, <1>3, <1>4 DEF Early, NoQuarantine
<1>6. ScansEarly' /\ DispatchesAlone'
  BY <1>3 DEF ScansEarly, DispatchesAlone, Dispatching
<1>7. EnrichesEarly'
  BY <1>3 DEF EnrichesEarly, Pending
<1>8. RecoversEarly'
  BY <1>2 DEF RecoversEarly, Awaited
<1>9. \A t \in mapped : item[t].status = "completed" => item'[t].status = "completed"
  BY <1>4 DEF Safe, OutcomesDurable, TypeOK
<1> QED
  BY <1>5, <1>6, <1>7, <1>8, <1>9 DEF StaysEarly, Early

\* The constructed queue has nothing in flight.
LEMMA InitEarly == Init => Early
<1> SUFFICES ASSUME Init PROVE Early
  OBVIOUS
<1>1. NoQuarantine
  BY DEF Init, NoQuarantine, NoRecovery, NewItem, NoRow, NoUnblocking
<1>2. ScansEarly /\ DispatchesAlone
  BY DEF Init, ScansEarly, DispatchesAlone, IdlePass, Dispatching
<1>3. EnrichesEarly /\ RecoversEarly
  BY DEF Init, EnrichesEarly, RecoversEarly, Awaited, Pending, NoEnrichment, NoRecovery
<1> QED
  BY <1>1, <1>2, <1>3 DEF Early

\* Every step keeps the invariant, and the completed rows.
LEMMA StepEarly ==
  ASSUME NoStaleScan, Safe, Early, [Next]_vars
  PROVE  StaysEarly
<1>1. TypeOK /\ TypeOK'
  BY StepType DEF Safe
<1>2. CASE Operator
<2>1. CASE Start \/ Pause \/ Resume \/ Stop \/ Abort \/ UpdateConfig
  BY <1>1, <2>1, QuietEarly, StartsEarly, AbortEarly
<2>2. ASSUME NEW t \in Tasks, Enqueue(t) PROVE StaysEarly
  BY <1>1, <2>2, EnqueueEarly
<2>3. ASSUME NEW t \in Tasks, CancelUnconfirmed(t) \/ Remove(t) \/ StartOutside(t)
      PROVE  StaysEarly
  BY <1>1, <2>3, QuietEarly
<2>4. ASSUME NEW t \in Tasks,
             Cancel(t) \/ Retry(t) \/ Approve(t) \/ ApproveStartThrows(t) \/ Reject(t)
      PROVE  StaysEarly
  BY <1>1, <2>4, RowStepsEarly
<2>5. ASSUME NEW t \in Tasks, ExternalCompletion(t) PROVE StaysEarly
  BY <1>1, <2>5, OutsideEarly
<2> QED
  BY <1>2, <2>1, <2>2, <2>3, <2>4, <2>5, Zenon DEF Operator
<1>3. CASE RecoveryStep
  BY <1>1, <1>3, OutsideEarly, ListedEarly, StartsEarly, RecoverRowEarly DEF RecoveryStep
<1>4. CASE Environment
<2>1. CASE TimerFires \/ CooldownEnds
  BY <1>1, <2>1, QuietEarly
<2>2. CASE Crash
  BY <2>2, CrashEarly
<2>3. ASSUME NEW t \in Tasks, \/ StopCleanedUp(t) \/ Publish(t) \/ ContestChanges(t)
                              \/ \E o \in Outcomes : RunEnds(t, o)
      PROVE  StaysEarly
  BY <1>1, <2>3, QuietEarly
<2> QED
  BY <1>4, <2>1, <2>2, <2>3, Zenon DEF Environment
<1>5. ASSUME NEW p \in Slots, PassStep(p) PROVE StaysEarly
  BY <1>1, <1>5, IdlePassesEarly, VisitEarly, ScannedEarly, SelectsEarly DEF PassStep
<1>6. ASSUME NEW p \in Slots, DispatchStep(p) PROVE StaysEarly
  BY <1>1, <1>6, DispatchEarly, AdmitsEarly
<1>7. ASSUME NEW t \in Tasks, Poll(t) PROVE StaysEarly
  BY <1>1, <1>7, RowStepsEarly, PollApprovedEarly DEF Poll
<1>8. ASSUME NEW t \in Tasks, UnblockStep(t) \/ EnrichStep(t) PROVE StaysEarly
  BY <1>1, <1>8, UnblockEarly, EnrichEarly
<1>9. CASE UNCHANGED vars
  BY <1>1, <1>9, QuietEarly
<1> QED
  BY <1>2, <1>3, <1>4, <1>5, <1>6, <1>7, <1>8, <1>9, Zenon DEF Next

\* Where no second claimant appears and no readiness scan outlasts the dispatch of
\* its own row, no pass, scan, notification, failure or restart takes the outcome
\* "completed" from a row: only cancel() does.
THEOREM CompletedStays == ASSUME NoStaleScan PROVE Spec => CompletedIsFinal
<1>1. Init => Early
  BY InitEarly
<1>2. Safe /\ Early /\ [Next]_vars => Early'
  BY StepEarly DEF StaysEarly
<1>3. Safe /\ Early /\ [Next]_vars
        => [\A t \in mapped \cap mapped' :
              item[t].status = "completed" /\ ~Cancel(t) => item'[t].status = "completed"]_vars
  BY StepEarly DEF StaysEarly
<1>4. Spec => []Safe
  BY AlwaysSafe
<1> QED
  BY <1>1, <1>2, <1>3, <1>4, PTL DEF Spec, CompletedIsFinal
=============================================================================
