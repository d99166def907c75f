--------------------------- MODULE TaskReservation ---------------------------
(***************************************************************************)
(* The reservation of a task directory, core/task-creation-reservation.ts: *)
(* withTaskCreationReservation() serialises everybody who creates or       *)
(* changes task specs there.  The live name holds the record of an owner.  *)
(* It is taken by a hard link, given back by a rename, and taken from a    *)
(* dead owner by moving it to a quarantine; a request marker announces the *)
(* move, and whoever sees a marker or a quarantine must not enter.         *)
(*                                                                         *)
(* Each step is one call to the file system, or a run of calls between     *)
(* which no other process can tell the difference.  A caller makes one     *)
(* call of withTaskCreationReservation(), with as many rounds as it needs, *)
(* and stands for its process: it is alive after the call until it dies.   *)
(* Staging files and release tombstones have unique names, block nobody    *)
(* and are not in the state; a rename to a tombstone empties the name.     *)
(* The markers and quarantines of a caller's rounds go by the caller.      *)
(*                                                                         *)
(* All callers want the same thing: to create the file that declares one   *)
(* task id, each under a name of its own, or to replace one version of a   *)
(* spec, each with a text of its own.  At most one of them may have it.    *)
(***************************************************************************)
EXTENDS Naturals, FiniteSets

CONSTANTS
  Callers,      \* the calls of withTaskCreationReservation()
  Left,         \* the owner of a record that an earlier process left behind
  None,         \* no record
  MaxCrashes,   \* bound: callers that die
  Faults        \* what else may go wrong

ASSUME ReservationConstants ==
  /\ Left \notin Callers /\ None \notin Callers \cup {Left}
  /\ MaxCrashes \in Nat
  /\ Faults \subseteq {"timeout", "staging", "operation"}

VARIABLES
  pc,         \* where each caller is
  why,        \* what a check of the markers, or a removal, is for
  todo,       \* the rest of a directory listing the caller works through
  seen,       \* the record, or the quarantine, the caller looked at
  life,       \* "alive", "dead", or "aged": dead for at least staleMs
  lock,       \* the record under the live name
  requests,   \* the callers whose reclaim request marker exists
  quar,       \* the record in each caller's quarantine
  written,    \* the callers whose task file was written
  moved,      \* history: live owners whose record another one put into a quarantine
  replaced,   \* history: live owners whose record another one overwrote or took away
  repaired    \* history: live owners whose record the repair of somebody's
              \* interrupted reclaim put back

control == <<pc, why, todo, seen>>
files == <<lock, requests, quar>>
history == <<moved, replaced, repaired>>
vars == <<control, life, files, written, history>>

Owners == Callers \cup {Left}
Ended == {"done", "failed", "crashed"}

TypeOK ==
  /\ pc \in [Callers -> {"start", "requests", "quarantines", "drop", "restore",
                         "markers", "inspect", "wait", "link", "check", "write", "read", "remove",
                         "request", "observe", "move", "verify", "withdraw"} \cup Ended]
  /\ why \in [Callers -> {"none", "pre", "post", "retry", "release", "abort",
                          "denied", "reclaimed", "kept"}]
  /\ todo \in [Callers -> SUBSET Callers]
  /\ seen \in [Callers -> Owners \cup {None}]
  /\ \A p \in Callers : pc[p] \in {"drop", "restore"} => seen[p] \in Callers
  /\ life \in [Callers -> {"alive", "dead", "aged"}]
  /\ lock \in Owners \cup {None}
  /\ requests \subseteq Callers
  /\ quar \in [Callers -> Owners \cup {None}]
  /\ written \subseteq Callers
  /\ moved \subseteq Callers /\ replaced \subseteq Callers /\ repaired \subseteq Callers

Init ==
  /\ pc = [p \in Callers |-> "start"]
  /\ why = [p \in Callers |-> "none"]
  /\ todo = [p \in Callers |-> {}]
  /\ seen = [p \in Callers |-> None]
  /\ life = [p \in Callers |-> "alive"]
  /\ lock \in {None, Left}
  /\ requests = {}
  /\ quar = [p \in Callers |-> None]
  /\ written = {} /\ moved = {} /\ replaced = {} /\ repaired = {}

-----------------------------------------------------------------------------

\* isDeadLocalArtifact(): the process named by an artifact died long enough ago.
Aged(q) == life[q] = "aged"

\* reclaimableLockRecord(): a complete record, old, of a dead process of this host.
Reclaimable(r) == r = Left \/ (r \in Callers /\ Aged(r))

Quarantines == {q \in Callers : quar[q] # None}

Goto(p, to) == pc' = [pc EXCEPT ![p] = to]
For(p, reason) == why' = [why EXCEPT ![p] = reason]

\* The live owner of the record under the live name, whose record another one moves,
\* overwrites or takes away.
Disturbed == {q \in Callers : q = lock /\ life[q] = "alive"}
Displaced == replaced' = replaced \cup Disturbed

\* The call returns, or throws.
End(p, how) ==
  /\ Goto(p, how)
  /\ For(p, "none")
  /\ todo' = [todo EXCEPT ![p] = {}]
  /\ seen' = [seen EXCEPT ![p] = None]

-----------------------------------------------------------------------------
(* reconcileInterruptedReclaims(): markers, then quarantines, of the dead.   *)

\* The next round begins: list the request markers.
ListRequests(p) ==
  /\ pc[p] = "start"
  /\ Goto(p, "requests") /\ For(p, "none")
  /\ todo' = [todo EXCEPT ![p] = requests]
  /\ UNCHANGED <<seen, life, files, written, history>>

\* A listed marker of a dead reclaimer is removed; one that is gone throws.
ReapRequest(p, q) ==
  /\ pc[p] = "requests" /\ q \in todo[p]
  /\ IF Aged(q) /\ q \notin requests
     THEN End(p, "failed") /\ UNCHANGED requests
     ELSE /\ requests' = IF Aged(q) THEN requests \ {q} ELSE requests
          /\ todo' = [todo EXCEPT ![p] = @ \ {q}]
          /\ UNCHANGED <<pc, why, seen>>
  /\ UNCHANGED <<life, lock, quar, written, history>>

ListQuarantines(p) ==
  /\ pc[p] = "requests" /\ todo[p] = {}
  /\ Goto(p, "quarantines")
  /\ todo' = [todo EXCEPT ![p] = Quarantines]
  /\ UNCHANGED <<why, seen, life, files, written, history>>

LookAtRecord(p, q) ==                       \* mutant: the record taken for the path
  /\ pc[p] = "quarantines" /\ q \in todo[p]
  /\ todo' = [todo EXCEPT ![p] = @ \ {q}]
  /\ IF q \notin requests
     THEN Goto(p, "drop") /\ seen' = [seen EXCEPT ![p] = quar[q]]
     ELSE UNCHANGED <<pc, seen>>
  /\ UNCHANGED <<why, life, files, written, history>>

\* What to do with a listed quarantine.  The reclaimer's own marker protects it.
LookQuarantine(p, q) ==
  /\ pc[p] = "quarantines" /\ q \in todo[p]
  /\ todo' = [todo EXCEPT ![p] = @ \ {q}]
  /\ \/ /\ q \notin requests /\ Reclaimable(quar[q]) /\ Aged(q)
        /\ Goto(p, "drop") /\ seen' = [seen EXCEPT ![p] = q]
     \/ /\ q \notin requests /\ ~(Reclaimable(quar[q]) /\ Aged(q))
        /\ lock = None /\ quar[q] # None
        /\ Goto(p, "restore") /\ seen' = [seen EXCEPT ![p] = q]
     \/ /\ \/ q \in requests \/ quar[q] = None
           \/ ~(Reclaimable(quar[q]) /\ Aged(q)) /\ lock # None
        /\ UNCHANGED <<pc, seen>>
  /\ UNCHANGED <<why, life, files, written, history>>

\* removeOwnedLock() of the quarantine; throws if somebody else was faster.
DropQuarantine(p) ==
  /\ pc[p] = "drop"
  /\ IF quar[seen[p]] = None
     THEN End(p, "failed") /\ UNCHANGED quar
     ELSE /\ quar' = [quar EXCEPT ![seen[p]] = None]
          /\ Goto(p, "quarantines") /\ seen' = [seen EXCEPT ![p] = None]
          /\ UNCHANGED <<why, todo>>
  /\ UNCHANGED <<life, lock, requests, written, history>>

\* rename() of the quarantine to the live name, over whatever is there by now.
RestoreQuarantine(p) ==
  /\ pc[p] = "restore"
  /\ IF quar[seen[p]] = None
     THEN UNCHANGED <<lock, quar, replaced, repaired>>
     ELSE /\ lock' = quar[seen[p]] /\ quar' = [quar EXCEPT ![seen[p]] = None]
          /\ Displaced
          /\ repaired' = repaired \cup {q \in Callers : q = quar[seen[p]] /\ life[q] = "alive"}
  /\ Goto(p, "quarantines") /\ seen' = [seen EXCEPT ![p] = None]
  /\ UNCHANGED <<why, todo, life, requests, written, moved>>

Reconciled(p) ==
  /\ pc[p] = "quarantines" /\ todo[p] = {}
  /\ Goto(p, "markers") /\ For(p, "pre")
  /\ UNCHANGED <<todo, seen, life, files, written, history>>

-----------------------------------------------------------------------------
(* acquireTaskCreationReservation() and the operation.                       *)

\* Markers or quarantines keep a caller out: it waits for its next round, or takes
\* back the record it has just published.
KeptOut(p) ==
  IF why[p] = "pre" THEN Goto(p, "wait") /\ For(p, "none")
                    ELSE Goto(p, "read") /\ For(p, "retry")

\* hasReclaimArtifacts(), the listing of the request markers.
CheckRequests(p) ==
  /\ pc[p] = "markers"
  /\ IF requests # {} THEN KeptOut(p) ELSE Goto(p, "inspect") /\ UNCHANGED why
  /\ UNCHANGED <<todo, seen, life, files, written, history>>

\* hasReclaimArtifacts(), the listing of the quarantines.
CheckQuarantines(p) ==
  /\ pc[p] = "inspect"
  /\ IF Quarantines # {}
     THEN KeptOut(p)
     ELSE Goto(p, IF why[p] = "pre" THEN "link" ELSE "check") /\ For(p, "none")
  /\ UNCHANGED <<todo, seen, life, files, written, history>>

LinkAndEnter(p) ==                          \* mutant: markers not checked again
  /\ pc[p] = "link"
  /\ IF lock = None
     THEN lock' = p /\ Goto(p, "check") /\ UNCHANGED why
     ELSE Goto(p, "request") /\ UNCHANGED <<lock, why>>
  /\ UNCHANGED <<todo, seen, life, requests, quar, written, history>>

\* The hard link publishes the record, unless the name is taken.
Link(p) ==
  /\ pc[p] = "link"
  /\ IF lock = None
     THEN lock' = p /\ Goto(p, "markers") /\ For(p, "post")
     ELSE Goto(p, "request") /\ UNCHANGED <<lock, why>>
  /\ UNCHANGED <<todo, seen, life, requests, quar, written, history>>

\* The staging file cannot be removed: a record that was published is taken back.  Then
\* the call throws, or, where the file system denied the removal (EPERM, EACCES), goes on
\* as if the name were taken.
StagingStuck(p) ==
  /\ pc[p] = "link" /\ "staging" \in Faults
  /\ \/ /\ lock = None /\ lock' = p
        /\ Goto(p, "read") /\ (For(p, "abort") \/ For(p, "denied"))
        /\ UNCHANGED <<todo, seen>>
     \/ lock # None /\ End(p, "failed") /\ UNCHANGED lock
     \/ lock # None /\ Goto(p, "request") /\ UNCHANGED <<why, todo, seen, lock>>
  /\ UNCHANGED <<life, requests, quar, written, history>>

\* After a wait the call tries again, or gives up.
TryAgain(p) ==
  /\ pc[p] = "wait"
  /\ Goto(p, "start")
  /\ UNCHANGED <<why, todo, seen, life, files, written, history>>

TimeOut(p) ==
  /\ pc[p] = "wait" /\ "timeout" \in Faults
  /\ End(p, "failed")
  /\ UNCHANGED <<life, files, written, history>>

CheckNothing(p) ==                          \* mutant: claimants not scanned again
  /\ pc[p] = "check"
  /\ Goto(p, "write")
  /\ UNCHANGED <<why, todo, seen, life, files, written, history>>

\* The operation looks first: no other file declares the id, the spec is unchanged.
Check(p) ==
  /\ pc[p] = "check"
  /\ IF written \subseteq {p} THEN Goto(p, "write") /\ UNCHANGED why
                             ELSE Goto(p, "read") /\ For(p, "release")
  /\ UNCHANGED <<todo, seen, life, files, written, history>>

\* Then it publishes its file by one link or rename.
Write(p) ==
  /\ pc[p] = "write"
  /\ written' = written \cup {p}
  /\ Goto(p, "read") /\ For(p, "release")
  /\ UNCHANGED <<todo, seen, life, files, history>>

ThrowsUnreleased(p) ==                      \* mutant: an exception skips the release
  /\ pc[p] \in {"check", "write"} /\ "operation" \in Faults
  /\ End(p, "failed")
  /\ UNCHANGED <<life, files, written, history>>

\* A scan or a write fails; the reservation is released all the same.
OperationThrows(p) ==
  /\ pc[p] \in {"check", "write"} /\ "operation" \in Faults
  /\ Goto(p, "read") /\ For(p, "release")
  /\ UNCHANGED <<todo, seen, life, files, written, history>>

-----------------------------------------------------------------------------
(* removeOwnedLock() of the live name.                                       *)

\* How a removal that found no record, or a record of somebody else, ends the call.
\* (Bound: a denied caller that does not find its record ends too, where the code may
\* try again with a second record; a caller of the model has one at a time.)
RemovalFails(p, missing) ==
  End(p, IF why[p] = "release" /\ missing THEN "done" ELSE "failed")

\* The record is still the caller's.
ReadOwn(p) ==
  /\ pc[p] = "read"
  /\ IF lock = p THEN Goto(p, "remove") /\ UNCHANGED <<why, todo, seen>>
                 ELSE RemovalFails(p, lock = None)
  /\ UNCHANGED <<life, files, written, history>>

\* rename() to the tombstone takes whatever record the name holds by now.
RemoveOwn(p) ==
  /\ pc[p] = "remove"
  /\ lock' = None
  /\ IF lock # p THEN RemovalFails(p, lock = None) /\ Displaced
     ELSE /\ UNCHANGED replaced
          /\ \/ /\ why[p] = "retry"
                /\ Goto(p, "start") /\ For(p, "none") /\ UNCHANGED <<todo, seen>>
             \/ why[p] = "release" /\ End(p, "done")
             \/ why[p] = "abort" /\ End(p, "failed")
             \/ /\ why[p] = "denied"
                /\ Goto(p, "request") /\ For(p, "none") /\ UNCHANGED <<todo, seen>>
  /\ UNCHANGED <<life, requests, quar, written, moved, repaired>>

-----------------------------------------------------------------------------
(* reclaimStaleLock(): announce, observe, move, verify, withdraw.            *)

Request(p) ==
  /\ pc[p] = "request"
  /\ requests' = requests \cup {p}
  /\ Goto(p, "observe")
  /\ UNCHANGED <<why, todo, seen, life, lock, quar, written, history>>

Observe(p) ==
  /\ pc[p] = "observe"
  /\ IF Reclaimable(lock)
     THEN Goto(p, "move") /\ seen' = [seen EXCEPT ![p] = lock] /\ UNCHANGED why
     ELSE Goto(p, "withdraw") /\ For(p, "kept") /\ UNCHANGED seen
  /\ UNCHANGED <<todo, life, files, written, history>>

Move(p) ==
  /\ pc[p] = "move"
  /\ IF lock = None
     THEN Goto(p, "withdraw") /\ For(p, "kept") /\ UNCHANGED <<lock, quar, moved>>
     ELSE /\ quar' = [quar EXCEPT ![p] = lock] /\ lock' = None
          /\ moved' = moved \cup Disturbed
          /\ Goto(p, "verify") /\ UNCHANGED why
  /\ UNCHANGED <<todo, seen, life, requests, written, replaced, repaired>>

\* The record that was moved is the one observed: it is removed.  Another one is
\* renamed back to the live name, over whatever is there by now.
Verify(p) ==
  /\ pc[p] = "verify"
  /\ IF quar[p] = seen[p]
     THEN For(p, "reclaimed") /\ UNCHANGED <<lock, replaced>>
     ELSE For(p, "kept") /\ lock' = quar[p] /\ Displaced
  /\ quar' = [quar EXCEPT ![p] = None]
  /\ Goto(p, "withdraw")
  /\ UNCHANGED <<todo, seen, life, requests, written, moved, repaired>>

Withdraw(p) ==
  /\ pc[p] = "withdraw"
  /\ requests' = requests \ {p}
  /\ Goto(p, IF why[p] = "reclaimed" THEN "start" ELSE "wait")
  /\ For(p, "none") /\ seen' = [seen EXCEPT ![p] = None]
  /\ UNCHANGED <<todo, life, lock, quar, written, history>>

-----------------------------------------------------------------------------

\* A process dies, in the call or after it.
Crash(p) ==
  /\ life[p] = "alive" /\ Cardinality({q \in Callers : life[q] # "alive"}) < MaxCrashes
  /\ life' = [life EXCEPT ![p] = "dead"]
  /\ End(p, IF pc[p] \in {"done", "failed"} THEN pc[p] ELSE "crashed")
  /\ UNCHANGED <<files, written, history>>

\* staleMs go by.
GrowsOld(p) ==
  /\ life[p] = "dead"
  /\ life' = [life EXCEPT ![p] = "aged"]
  /\ UNCHANGED <<control, files, written, history>>

Step(p) ==
  \/ ListRequests(p) \/ ListQuarantines(p) \/ Reconciled(p)
  \/ DropQuarantine(p) \/ RestoreQuarantine(p)
  \/ CheckRequests(p) \/ CheckQuarantines(p)
  \/ Link(p) \/ StagingStuck(p) \/ TryAgain(p) \/ TimeOut(p)
  \/ Check(p) \/ Write(p) \/ OperationThrows(p)
  \/ ReadOwn(p) \/ RemoveOwn(p)
  \/ Request(p) \/ Observe(p) \/ Move(p) \/ Verify(p) \/ Withdraw(p)
  \/ \E q \in Callers : ReapRequest(p, q) \/ LookQuarantine(p, q)

Next == \E p \in Callers : Step(p) \/ Crash(p) \/ GrowsOld(p)

Spec == Init /\ [][Next]_vars

-----------------------------------------------------------------------------

\* The callers in their operation.
Inside == {p \in Callers : pc[p] \in {"check", "write"}}

\* The live owners whose record a rename of somebody else put at risk: the restoring
\* rename of a reclaimer replaced it, or it was put back while another reclaimer, which
\* had looked at the name before, was about to move what is there.
Exposed == replaced \cup repaired

\* Whoever runs its operation has its record under the live name, where it keeps
\* every other acquirer out: moves of stale records do not touch it
\* (reclaimStaleLock, reconcileInterruptedReclaims), unless it was exposed.
HolderRecorded == \A p \in Inside : lock = p \/ p \in Exposed

\* Of the callers that race for one declared id, or for one version of a spec, one
\* gets it: no second claimant and no lost update (assertTaskCreationIdsAvailable, the
\* comparison of a canonical mutation), unless the record of a writer was exposed.
OneWriter == Cardinality(written) > 1 => written \cap Exposed # {}

\* A live process that is through with its call does not hold the directory any
\* longer, whatever its operation threw (withTaskCreationReservation's release): only a
\* record that a reclaimer moved away and put back can stay.
LeftBehind == \A p \in Callers :
  lock = p /\ life[p] = "alive" /\ pc[p] \in {"done", "failed"} => p \in moved
=============================================================================
