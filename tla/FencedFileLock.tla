--------------------------- MODULE FencedFileLock ---------------------------
(***************************************************************************)
(* The owner-fenced file lock of src/monitor/federation/store.ts, which    *)
(* the federation ledger, the verification store, the preflight job store  *)
(* and the queue admission share.  A process owns the lock when its owner  *)
(* file is hard-linked to the lock path.  It gives the lock back by        *)
(* linking a release marker; a peer takes the lock of a dead owner by      *)
(* publishing a reclaim request.  Any process may complete any marker: it  *)
(* renames the lock into the marker's quarantine, looks at what it moved,  *)
(* and deletes it or puts it back.                                         *)
(*                                                                         *)
(* Each write to the file system is a step of its own, and so is the check *)
(* before it: other processes run between the two.  A file is named by the *)
(* token of the acquisition that wrote it, a hard link is the same token.  *)
(***************************************************************************)
EXTENDS Naturals, FiniteSets

CONSTANTS
  Procs,        \* processes that share the lock
  NoToken,      \* no file at a path
  MaxTries,     \* acquisitions per process
  MaxCrashes    \* processes that may die

ASSUME LockAssumption ==
  /\ IsFiniteSet(Procs)
  /\ MaxTries \in Nat \ {0} /\ MaxCrashes \in Nat
  /\ NoToken \notin Procs \X (1..MaxTries)

Tokens == Procs \X (1..MaxTries)
Files == Tokens \cup {NoToken}

\* A marker: who completes it may remove the lock of token `of`.  A release is
\* published by the owner itself, a reclaim by a peer.
Markers == [kind : {"release", "reclaim"}, of : Tokens, by : Procs]
Releases == {m \in Markers : m.kind = "release" /\ m.by = m.of[1]}
Reclaims == {m \in Markers : m.kind = "reclaim" /\ m.by # m.of[1]}
Release(t) == [kind |-> "release", of |-> t, by |-> t[1]]

VARIABLES
  lock,         \* the file at the lock path
  owners,       \* owner files that exist
  retired,      \* owner files renamed aside, ".retired."
  markers,      \* markers that exist
  quarantine,   \* the file in each marker's quarantine
  occupant,     \* the file in each marker's ".occupant" path
  dead,         \* processes that died
  proc,         \* control state of each process
  overlap,      \* history: pairs of acquisitions that were inside together
  clean,        \* history: acquisitions whose caller was told of no lost lock
  missed,       \* history: acquisitions admitted while a control file existed
  swept         \* history: markers that existed when a scavenger deleted their owner file

files == <<lock, owners, retired, markers, quarantine, occupant>>
history == <<overlap, clean, missed, swept>>
vars == <<files, dead, proc, history>>

Paths == Releases \cup Reclaims
Steps == {"idle", "visit", "scavenge", "look", "sweep", "sweep_owner",
          "sweep_retired", "link", "fence", "in", "assert",
          "publish", "reclaim", "request", "complete", "rename", "moved",
          "unlink", "restore", "relink", "restored", "unlink_restored", "evict",
          "evicted", "unlink_occupant", "retire", "rename_owner", "unlink_owner",
          "unlink_marker"}

\* Files that a scavenger may delete, by the name they were listed under.
Artifacts == Tokens \X {"owner", "retired"}

Token(p) == <<p, proc[p].tries>>
Fresh(p) == <<p, proc[p].tries + 1>>
Target(p) == proc[p].marker.of
Marker(p) == proc[p].marker
IsRelease(m) == m.kind = "release"

Goto(p, step) == proc' = [proc EXCEPT ![p].pc = step]

\* isProvablyReclaimableOwner: stale, on this host, and its process is gone.
Reclaimable(t) == t # NoToken /\ t[1] \in dead

Quarantined(m) == quarantine[m] # NoToken \/ occupant[m] # NoToken

\* The four listings of control files, in the order they are read.
Listing(n) ==
  CASE n = 1 -> markers \cap Releases
    [] n = 2 -> {m \in Releases : Quarantined(m)}
    [] n = 3 -> markers \cap Reclaims
    [] n = 4 -> {m \in Reclaims : Quarantined(m)}

HasControl == \E n \in 1..4 : Listing(n) # {}

\* ownerArtifactHasDurableReference over the reclaim quarantines.
HeldForRelease(t) == \E m \in Releases : t \in {quarantine[m], occupant[m]}
HeldForReclaim(t) == \E m \in Reclaims : t \in {quarantine[m], occupant[m]}

-----------------------------------------------------------------------------
(* What completing a marker returns, and to whom: the reconciliation goes on *)
(* to the next marker, a release or a reclaim goes back to its caller.       *)

Rest(p, step, blocked) ==
  proc' = [proc EXCEPT ![p].pc = step, ![p].blocked = blocked,
                       ![p].caller = "reconcile", ![p].marker = Release(<<p, 1>>),
                       ![p].inert = IF step = "sweep" THEN @ ELSE {}]

Return(p, done) ==
  IF proc[p].caller \in {"reconcile", "orphan"}
  THEN Rest(p, "visit", proc[p].blocked \/ ~done)
  ELSE Rest(p, "idle", FALSE)

\* After the quarantine is empty.
Emptied(p) ==
  IF IsRelease(Marker(p)) THEN Goto(p, "retire")
  ELSE IF proc[p].caller = "orphan" THEN Return(p, TRUE)
  ELSE Goto(p, "unlink_marker")

-----------------------------------------------------------------------------
(* withOwnerFencedFileLock: the acquisition loop.                            *)

\* One more attempt: reconcileControlRequests reads the first listing ...
Begin(p) ==
  /\ proc[p].pc = "idle" /\ proc[p].tries < MaxTries
  /\ proc' = [proc EXCEPT ![p].pc = "visit", ![p].todo = Listing(1)]
  /\ UNCHANGED <<files, dead, history>>

\* ... and the next one when it has gone through it.
List(p) ==
  /\ proc[p].pc = "visit" /\ proc[p].todo = {} /\ proc[p].look < 4
  /\ proc' = [proc EXCEPT ![p].look = @ + 1, ![p].todo = Listing(proc[p].look + 1)]
  /\ UNCHANGED <<files, dead, history>>

\* One listed marker is completed.
VisitMarker(p, m) ==
  /\ proc[p].pc = "visit" /\ m \in proc[p].todo /\ proc[p].look \in {1, 3}
  /\ proc' = [proc EXCEPT ![p].pc = IF m \in markers THEN "complete" ELSE "visit",
                ![p].marker = IF m \in markers THEN m ELSE @, ![p].todo = @ \ {m},
                ![p].blocked = @ \/ m \notin markers]
  /\ UNCHANGED <<files, dead, history>>

\* One listed quarantine.  In a release quarantine the owner it is named for is
\* deleted.  A reclaim quarantine is left to its marker, or put back without it.
\* Anything else blocks.
VisitQuarantine(p, m) ==
  /\ proc[p].pc = "visit" /\ m \in proc[p].todo /\ proc[p].look \in {2, 4}
  /\ LET x == quarantine[m]
         left == ~IsRelease(m) /\ (m \in markers \/ x = NoToken)
         known == x \in owners /\ (IsRelease(m) => x = m.of)
         blocks == occupant[m] # NoToken \/ (~left /\ ~known)
     IN proc' = [proc EXCEPT
          ![p].pc = IF left \/ ~known THEN "visit"
                    ELSE IF IsRelease(m) THEN "unlink" ELSE "restore",
          ![p].marker = IF left \/ ~known THEN @ ELSE m,
          ![p].caller = IF left \/ ~known THEN @ ELSE "orphan",
          ![p].todo = @ \ {m}, ![p].blocked = @ \/ blocks]
  /\ UNCHANGED <<files, dead, history>>

\* Only an attempt that nothing blocked goes on.
ReconcileDone(p) ==
  /\ proc[p].pc = "visit" /\ proc[p].todo = {} /\ proc[p].look = 4
  /\ proc' = [proc EXCEPT ![p].pc = IF proc[p].blocked THEN "idle" ELSE "scavenge",
                          ![p].blocked = FALSE, ![p].look = 1]
  /\ UNCHANGED <<files, dead, history>>

\* scavengeInertCrashArtifacts lists the owner files ...
Scavenge(p) ==
  /\ proc[p].pc = "scavenge"
  /\ LET all == (owners \X {"owner"}) \cup (retired \X {"retired"})
     IN proc' = [proc EXCEPT ![p].pc = IF all = {} THEN "sweep" ELSE "look", ![p].inert = all]
  /\ UNCHANGED <<files, dead, history>>

\* ... asks once whether any control file exists, one listing after the other ...
Look(p) ==
  /\ proc[p].pc = "look"
  /\ LET found == Listing(proc[p].look) # {}
         last == found \/ proc[p].look = 4
     IN proc' = [proc EXCEPT ![p].pc = IF last THEN "sweep" ELSE "look",
                   ![p].blocked = found, ![p].look = IF last THEN 1 ELSE @ + 1]
  /\ UNCHANGED <<files, dead, history>>

\* ... looks at the listed files one by one: a file renamed aside may go, and
\* unless there was a control file the file of a dead process that is not the
\* lock ...
Sweep(p, a) ==
  /\ proc[p].pc = "sweep" /\ a \in proc[p].inert /\ a[1] # lock
  /\ \/ a[2] = "retired" /\ a[1] \in retired
     \/ a[2] = "owner" /\ a[1] \in owners /\ Reclaimable(a[1]) /\ ~proc[p].blocked
  /\ proc' = [proc EXCEPT ![p].pc = IF a[2] = "owner" THEN "sweep_owner" ELSE "sweep_retired",
                          ![p].marker = Release(a[1]), ![p].inert = @ \ {a}]
  /\ UNCHANGED <<files, dead, history>>

\* ... and unlinks it.  If it went in the meantime the acquisition fails, unless
\* it went after the last look at it.
UnlinkInert(p) ==
  /\ proc[p].pc \in {"sweep_owner", "sweep_retired"}
  /\ LET aside == proc[p].pc = "sweep_retired"
         there == Target(p) \in IF aside THEN retired ELSE owners
     IN /\ IF aside THEN retired' = retired \ {Target(p)} /\ UNCHANGED owners
                    ELSE owners' = owners \ {Target(p)} /\ UNCHANGED retired
        /\ swept' = IF there THEN swept \cup ({Release(Target(p))} \cap markers) ELSE swept
        /\ \/ Rest(p, "sweep", proc[p].blocked)
           \/ ~there /\ Rest(p, "idle", FALSE)
  /\ UNCHANGED <<lock, markers, quarantine, occupant, dead, overlap, clean, missed>>

\* One pass looks at a bounded number of files and leaves the others; then
\* tryAcquireFederatedJobLock writes the owner file of a fresh token.
WriteOwner(p) ==
  /\ proc[p].pc = "sweep"
  /\ owners' = owners \cup {Fresh(p)}
  /\ proc' = [proc EXCEPT ![p].pc = "link", ![p].inert = {}, ![p].blocked = FALSE]
  /\ UNCHANGED <<lock, retired, markers, quarantine, occupant, dead, history>>

\* The hard link is the acquisition; if the path exists the owner file goes.
LinkLock(p) ==
  /\ proc[p].pc = "link"
  /\ \/ /\ lock = NoToken
        /\ lock' = Fresh(p) /\ UNCHANGED owners
        /\ proc' = [proc EXCEPT ![p].pc = "fence", ![p].tries = @ + 1]
     \/ /\ lock # NoToken
        /\ owners' = owners \ {Fresh(p)} /\ Goto(p, "reclaim") /\ UNCHANGED lock
  /\ UNCHANGED <<retired, markers, quarantine, occupant, dead, history>>

Inside == {p \in Procs \ dead : proc[p].pc \in {"in", "assert"}}

\* The fence: a callback is admitted when each of the four listings was empty
\* at the time it was read.
Fence(p) ==
  /\ proc[p].pc = "fence"
  /\ LET found == Listing(proc[p].look) # {}
         last == found \/ proc[p].look = 4
         admit == last /\ ~found
     IN /\ proc' = [proc EXCEPT ![p].pc = IF found THEN "publish" ELSE IF admit THEN "in" ELSE @,
                                ![p].look = IF last THEN 1 ELSE @ + 1]
        /\ overlap' = IF admit THEN overlap \cup {{Token(p), Token(q)} : q \in Inside}
                      ELSE overlap
        /\ missed' = IF admit /\ HasControl THEN missed \cup {Token(p)} ELSE missed
  /\ UNCHANGED <<files, dead, clean, swept>>

\* The callback runs to its end, or throws and is not checked.
Section(p) ==
  /\ proc[p].pc = "in"
  /\ Goto(p, "assert") \/ Goto(p, "publish")
  /\ UNCHANGED <<files, dead, history>>

\* Mutant: a completed callback is reported without the ownership check.
AssertNothing(p) ==
  /\ proc[p].pc = "assert" /\ clean' = clean \cup {Token(p)}
  /\ Goto(p, "publish") /\ UNCHANGED <<files, dead, overlap, missed, swept>>

\* assertFederatedJobLockOwner after a completed callback: a lost lock turns the
\* result into FederatedJobLockCompletedActionError.
AssertOwner(p) ==
  /\ proc[p].pc = "assert"
  /\ clean' = IF lock = Token(p) /\ Token(p) \in owners
              THEN clean \cup {Token(p)} ELSE clean
  /\ Goto(p, "publish")
  /\ UNCHANGED <<files, dead, overlap, missed, swept>>

\* publishAndCompleteRelease
PublishRelease(p) ==
  /\ proc[p].pc = "publish"
  /\ IF /\ lock = Token(p) \/ HeldForReclaim(Token(p))
        /\ Token(p) \in owners
     THEN /\ markers' = markers \cup {Release(Token(p))}
          /\ proc' = [proc EXCEPT ![p].pc = "complete", ![p].caller = "release",
                                  ![p].marker = Release(Token(p))]
     ELSE Goto(p, "idle") /\ UNCHANGED markers
  /\ UNCHANGED <<lock, owners, retired, quarantine, occupant, dead, history>>

\* Mutant: any lock is reclaimed, whoever holds it.
ReclaimAny(p) ==
  /\ proc[p].pc = "reclaim"
  /\ proc' = [proc EXCEPT ![p].pc = "request", ![p].caller = "reclaim",
                  ![p].marker = [kind |-> "reclaim", of |-> lock, by |-> p]]
  /\ UNCHANGED <<files, dead, history>>

\* tryReclaimFederatedJobLock observes a dead owner ...
Reclaim(p) ==
  /\ proc[p].pc = "reclaim"
  /\ IF Reclaimable(lock)
     THEN proc' = [proc EXCEPT ![p].pc = "request", ![p].caller = "reclaim",
                     ![p].marker = [kind |-> "reclaim", of |-> lock, by |-> p]]
     ELSE Goto(p, "idle")
  /\ UNCHANGED <<files, dead, history>>

\* ... and publishes its request.
Request(p) ==
  /\ proc[p].pc = "request"
  /\ markers' = markers \cup {Marker(p)}
  /\ Goto(p, "complete")
  /\ UNCHANGED <<lock, owners, retired, quarantine, occupant, dead, history>>

-----------------------------------------------------------------------------
(* completeReleaseArtifact and completeReclaimRequest.                       *)

\* hasReleaseArtifactProvenance: the marker must be a link to a file that is
\* still an owner file, the lock or this marker's quarantine.
Provenance(m) == m.of \in owners \cup retired \cup {lock, quarantine[m]}

\* The last look before anything is moved.
Complete(p) ==
  /\ proc[p].pc = "complete"
  /\ LET m == Marker(p)
         x == quarantine[m]
     IN IF IsRelease(Marker(p)) /\ ~Provenance(m) THEN Return(p, FALSE)
        ELSE IF x # NoToken THEN Goto(p, IF x = m.of THEN "unlink" ELSE "restore")
        ELSE IF lock = m.of
             THEN IF IsRelease(Marker(p)) \/ Reclaimable(lock) THEN Goto(p, "rename")
                  ELSE Return(p, FALSE)
        ELSE IF IsRelease(Marker(p)) THEN Goto(p, "retire")
        ELSE IF lock = NoToken
             THEN proc' = [proc EXCEPT ![p].pc = "unlink_marker", ![p].blocked = TRUE]
        ELSE Return(p, FALSE)
  /\ UNCHANGED <<files, dead, history>>

\* renameWithRetry(lockPath, quarantinePath) moves whatever is at the lock path
\* now; between two links of one file rename() does nothing.
Rename(p) ==
  /\ proc[p].pc = "rename"
  /\ IF lock = NoToken
     THEN /\ IF IsRelease(Marker(p)) THEN Goto(p, "moved") ELSE Return(p, FALSE)
          /\ UNCHANGED <<lock, quarantine>>
     ELSE /\ Goto(p, "moved")
          /\ IF lock = quarantine[Marker(p)] THEN UNCHANGED <<lock, quarantine>>
             ELSE /\ quarantine' = [quarantine EXCEPT ![Marker(p)] = lock]
                  /\ lock' = NoToken
  /\ UNCHANGED <<owners, retired, markers, occupant, dead, history>>

\* What was moved: the expected owner is deleted, another one is put back.
Moved(p) ==
  /\ proc[p].pc = "moved"
  /\ Goto(p, IF quarantine[Marker(p)] = Target(p) THEN "unlink" ELSE "restore")
  /\ UNCHANGED <<files, dead, history>>

\* removeQuarantinedLock unlinks the path it has just checked.
UnlinkQuarantine(p) ==
  /\ proc[p].pc = "unlink"
  /\ quarantine' = [quarantine EXCEPT ![Marker(p)] = NoToken]
  /\ Emptied(p)
  /\ UNCHANGED <<lock, owners, retired, markers, occupant, dead, history>>

-----------------------------------------------------------------------------
(* restoreDisplacedQuarantine and clearCanonicalForQuarantineRestore.        *)

\* An occupant of the lock path is cleared only if it is reclaimable, or is the
\* very owner whose release is being completed.
MayEvict(p) ==
  \/ Reclaimable(lock)
  \/ IsRelease(Marker(p)) /\ lock = Target(p) /\ Target(p) \in owners

Restore(p) ==
  /\ proc[p].pc = "restore"
  /\ LET x == quarantine[Marker(p)]
     IN IF x = NoToken THEN Return(p, FALSE)
        ELSE IF lock = x THEN Goto(p, "restored")
        ELSE IF lock = NoToken THEN Goto(p, "relink")
        ELSE IF occupant[Marker(p)] # NoToken THEN Goto(p, "evicted")
        ELSE IF MayEvict(p) THEN Goto(p, "evict") ELSE Return(p, FALSE)
  /\ UNCHANGED <<files, dead, history>>

Relink(p) ==
  /\ proc[p].pc = "relink"
  /\ LET x == quarantine[Marker(p)]
     IN IF x = NoToken THEN Return(p, FALSE) /\ UNCHANGED lock
        ELSE IF lock # NoToken THEN Goto(p, "restore") /\ UNCHANGED lock
        ELSE lock' = x /\ Goto(p, "restored")
  /\ UNCHANGED <<owners, retired, markers, quarantine, occupant, dead, history>>

\* The quarantine is unlinked only while it is the file at the lock path.
Restored(p) ==
  /\ proc[p].pc = "restored"
  /\ LET x == quarantine[Marker(p)]
     IN IF x = NoToken THEN Emptied(p)
        ELSE IF x = lock THEN Goto(p, "unlink_restored") ELSE Return(p, FALSE)
  /\ UNCHANGED <<files, dead, history>>

UnlinkRestored(p) ==
  /\ proc[p].pc = "unlink_restored"
  /\ quarantine' = [quarantine EXCEPT ![Marker(p)] = NoToken]
  /\ Emptied(p)
  /\ UNCHANGED <<lock, owners, retired, markers, occupant, dead, history>>

Evict(p) ==
  /\ proc[p].pc = "evict"
  /\ IF lock = NoToken THEN Return(p, FALSE) /\ UNCHANGED <<lock, occupant>>
     ELSE /\ occupant' = [occupant EXCEPT ![Marker(p)] = lock]
          /\ lock' = NoToken /\ Goto(p, "evicted")
  /\ UNCHANGED <<owners, retired, markers, quarantine, dead, history>>

Evicted(p) ==
  /\ proc[p].pc = "evicted"
  /\ LET x == occupant[Marker(p)]
     IN IF x = NoToken THEN Goto(p, "restore")
        ELSE IF Reclaimable(x) THEN Goto(p, "unlink_occupant") ELSE Return(p, FALSE)
  /\ UNCHANGED <<files, dead, history>>

UnlinkOccupant(p) ==
  /\ proc[p].pc = "unlink_occupant"
  /\ occupant' = [occupant EXCEPT ![Marker(p)] = NoToken]
  /\ Goto(p, "restore")
  /\ UNCHANGED <<lock, owners, retired, markers, quarantine, dead, history>>

-----------------------------------------------------------------------------
(* retireReleaseArtifact and retireReleasedOwnerArtifact.                    *)

\* The owner file goes only when neither the lock nor a reclaim quarantine is a
\* link to it; without the marker, no path at all may be.
Retire(p) ==
  /\ proc[p].pc = "retire"
  /\ LET m == Marker(p)
         orphan == proc[p].caller = "orphan"
     IN IF m \notin markers /\ ~orphan THEN Return(p, FALSE)
        ELSE IF m.of \notin owners \cup retired
             THEN IF orphan THEN Return(p, TRUE) ELSE Goto(p, "unlink_marker")
        ELSE IF \/ lock = m.of \/ HeldForReclaim(m.of)
                \/ orphan /\ (m \in markers \/ HeldForRelease(m.of)) THEN Return(p, FALSE)
        ELSE Goto(p, IF m.of \in owners THEN "rename_owner" ELSE "unlink_owner")
  /\ UNCHANGED <<files, dead, history>>

\* It is renamed aside ...
RenameOwner(p) ==
  /\ proc[p].pc = "rename_owner"
  /\ IF Target(p) \in owners
     THEN /\ owners' = owners \ {Target(p)} /\ retired' = retired \cup {Target(p)}
          /\ Goto(p, "unlink_owner")
     ELSE Return(p, FALSE) /\ UNCHANGED <<owners, retired>>
  /\ UNCHANGED <<lock, markers, quarantine, occupant, dead, history>>

\* Mutant: the marker is forgotten once the owner file is gone.
UnlinkOwnerOnly(p) ==
  /\ proc[p].pc = "unlink_owner"
  /\ retired' = retired \ {Target(p)} /\ Return(p, Target(p) \in retired)
  /\ UNCHANGED <<lock, owners, markers, quarantine, occupant, dead, history>>

\* ... and unlinked.  If it went in the meantime the retirement fails, unless it
\* went after the last look at it.
UnlinkOwner(p) ==
  /\ proc[p].pc = "unlink_owner"
  /\ retired' = retired \ {Target(p)}
  /\ \/ IF proc[p].caller = "orphan" THEN Return(p, TRUE) ELSE Goto(p, "unlink_marker")
     \/ Target(p) \notin retired /\ Return(p, FALSE)
  /\ UNCHANGED <<lock, owners, markers, quarantine, occupant, dead, history>>

UnlinkMarker(p) ==
  /\ proc[p].pc = "unlink_marker"
  /\ markers' = markers \ {Marker(p)}
  /\ Return(p, TRUE)
  /\ UNCHANGED <<lock, owners, retired, quarantine, occupant, dead, history>>

-----------------------------------------------------------------------------
\* A process dies; its files stay.
Crash(p) ==
  /\ Cardinality(dead) < MaxCrashes
  /\ dead' = dead \cup {p}
  /\ UNCHANGED <<files, proc, history>>

AcquireStep(p) ==
  \/ Begin(p) \/ List(p) \/ ReconcileDone(p)
  \/ \E m \in Paths : VisitMarker(p, m) \/ VisitQuarantine(p, m)
  \/ Scavenge(p) \/ Look(p) \/ UnlinkInert(p)
  \/ \E a \in Artifacts : Sweep(p, a)
  \/ WriteOwner(p) \/ LinkLock(p) \/ Fence(p) \/ Reclaim(p) \/ Request(p)

SectionStep(p) == Section(p) \/ AssertOwner(p) \/ PublishRelease(p)

CompleteStep(p) ==
  \/ Complete(p) \/ Rename(p) \/ Moved(p) \/ UnlinkQuarantine(p)
  \/ Restore(p) \/ Relink(p) \/ Restored(p) \/ UnlinkRestored(p)
  \/ Evict(p) \/ Evicted(p) \/ UnlinkOccupant(p)
  \/ Retire(p) \/ RenameOwner(p) \/ UnlinkOwner(p) \/ UnlinkMarker(p)

Step(p) == AcquireStep(p) \/ SectionStep(p) \/ CompleteStep(p)

Init ==
  /\ lock = NoToken /\ owners = {} /\ markers = {}
  /\ quarantine = [m \in Paths |-> NoToken]
  /\ occupant = [m \in Paths |-> NoToken]
  /\ retired = {} /\ dead = {} /\ overlap = {} /\ clean = {} /\ missed = {} /\ swept = {}
  /\ proc = [p \in Procs |->
               [pc |-> "idle", tries |-> 0, look |-> 1, todo |-> {}, inert |-> {},
                blocked |-> FALSE, caller |-> "reconcile",
                marker |-> Release(<<p, 1>>)]]

Next == \E p \in Procs \ dead : Step(p) \/ Crash(p)

Spec == Init /\ [][Next]_vars

-----------------------------------------------------------------------------
\* Every path holds a file of an acquisition, every process is at a step of the
\* protocol on a marker that its kind allows.
TypeOK ==
  /\ lock \in Files /\ owners \subseteq Tokens /\ retired \subseteq Tokens
  /\ markers \subseteq Paths
  /\ quarantine \in [Paths -> Files] /\ occupant \in [Paths -> Files]
  /\ dead \subseteq Procs /\ clean \subseteq Tokens /\ missed \subseteq Tokens
  /\ swept \subseteq Paths
  /\ overlap \subseteq {{t, u} : t \in Tokens, u \in Tokens}
  /\ proc \in [Procs -> [pc : Steps, tries : 0..MaxTries, look : 1..4,
                         todo : SUBSET Paths, inert : SUBSET Artifacts,
                         blocked : BOOLEAN, marker : Paths,
                         caller : {"reconcile", "orphan", "release", "reclaim"}]]

\* Two callbacks that ran together, both reported as done under the lock: at
\* least one was admitted while a control file existed that its four listings,
\* read one after the other, had all missed.
CleanExclusive ==
  \A t, u \in clean : t # u /\ {t, u} \in overlap => t \in missed \/ u \in missed

\* A release marker without provenance is about to be unlinked, or a scavenger
\* deleted its owner file.
Retirable ==
  \A m \in markers \cap Releases :
    \/ Provenance(m)
    \/ \E p \in Procs : proc[p].pc = "unlink_marker" /\ Marker(p) = m
    \/ m \in swept
=============================================================================
