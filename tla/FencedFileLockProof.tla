------------------------ MODULE FencedFileLockProof ------------------------
(***************************************************************************)
(* For every set of processes and every bound: the lock protocol is typed, *)
(* and two callbacks that overlapped are both reported as done under the   *)
(* lock only if one of them was admitted while a control file existed that *)
(* its four listings had missed.                                           *)
(*                                                                         *)
(* The argument: when a callback is admitted and no marker and no          *)
(* quarantine exists, of two callbacks inside together at most one has its *)
(* token at the lock path, and the token of the other is at no path at     *)
(* all.  A token that is at no path never comes back to one, because a     *)
(* rename or a link moves only what is there and a fresh acquisition has a *)
(* fresh token; so the ownership check of that callback fails.             *)
(*                                                                         *)
(* The last part shows that release markers can be retired: a marker is    *)
(* known to anybody only after its owner published it, once; so whoever    *)
(* retires the owner file knows whether there is a marker to unlink next.  *)
(* Only a scavenger does not ask.                                          *)
(***************************************************************************)
EXTENDS FencedFileLock, TLAPS

Proc == [pc : Steps, tries : 0..MaxTries, look : 1..4,
         todo : SUBSET Paths, inert : SUBSET Artifacts, blocked : BOOLEAN, marker : Paths,
         caller : {"reconcile", "orphan", "release", "reclaim"}]

Held == {"fence", "in", "assert"}
Trying == {"visit", "scavenge", "look", "sweep", "sweep_owner", "sweep_retired", "link",
           "reclaim", "request"}
Completing == {"complete", "rename", "moved", "unlink", "restore", "relink", "restored",
               "unlink_restored", "evict", "evicted", "unlink_occupant", "retire",
               "rename_owner", "unlink_owner", "unlink_marker"}

\* A process that looks for the lock has an acquisition left; one that has the
\* lock has used one.
Fits(r) ==
  /\ r.pc \in Trying => r.tries < MaxTries
  /\ r.pc \in Completing /\ r.caller \in {"reconcile", "orphan"} => r.tries < MaxTries
  /\ r.pc \in Held \cup {"publish"} => r.tries > 0

Fitting == \A p \in Procs : Fits(proc[p])

\* A token is at some path; or it was acquired, is at no path and was not
\* reported as done.
Present(t) == t = lock \/ \E m \in Paths : t = quarantine[m] \/ t = occupant[m]
Lost(t) == t[2] <= proc[t[1]].tries /\ ~Present(t) /\ t \notin clean

Acquired == \A t \in Tokens : Present(t) \/ t \in clean => t[2] <= proc[t[1]].tries
HeldUnreported == \A p \in Procs : proc[p].pc \in Held => Token(p) \notin clean
OneLost ==
  \A t, u \in Tokens : t # u /\ {t, u} \in overlap =>
    Lost(t) \/ Lost(u) \/ t \in missed \/ u \in missed

Inv == TypeOK /\ Fitting /\ Acquired /\ HeldUnreported /\ OneLost

\* What all actions but four do: they move one process within the protocol and
\* bring no token to a path that was at none.
Moves(p) ==
  /\ proc' \in [Procs -> Proc]
  /\ \A q \in Procs \ {p} : proc'[q] = proc[q]
  /\ proc'[p].tries = proc[p].tries
  /\ proc'[p].pc \in Held => proc[p].pc \in Held
  /\ Fits(proc'[p])

FilesTyped ==
  /\ lock \in Files /\ owners \subseteq Tokens /\ retired \subseteq Tokens
  /\ markers \subseteq Paths /\ swept \subseteq Paths
  /\ quarantine \in [Paths -> Files] /\ occupant \in [Paths -> Files]

Brings == \A t \in Tokens : Present(t)' => Present(t)

Quiet(p) ==
  /\ Moves(p) /\ FilesTyped' /\ Brings
  /\ UNCHANGED <<dead, overlap, clean, missed>>

-----------------------------------------------------------------------------
LEMMA TypeParts ==
  TypeOK <=> /\ FilesTyped /\ dead \subseteq Procs /\ clean \subseteq Tokens
             /\ missed \subseteq Tokens
             /\ overlap \subseteq {{t, u} : t \in Tokens, u \in Tokens}
             /\ proc \in [Procs -> Proc]
BY DEF TypeOK, FilesTyped, Proc

LEMMA TokenParts ==
  ASSUME NEW t \in Tokens
  PROVE  t[1] \in Procs /\ t[2] \in 1..MaxTries /\ t = <<t[1], t[2]>>
BY DEF Tokens

LEMMA ReleasePath ==
  ASSUME NEW t \in Tokens
  PROVE  Release(t) \in Paths
BY TokenParts DEF Release, Paths, Releases, Markers

LEMMA FirstToken ==
  ASSUME NEW p \in Procs
  PROVE  <<p, 1>> \in Tokens
BY LockAssumption DEF Tokens

LEMMA HeldToken ==
  ASSUME TypeOK, Fitting, NEW p \in Procs, proc[p].pc \in Held \cup {"publish"}
  PROVE  Token(p) \in Tokens
<1>1. proc[p] \in Proc /\ Fits(proc[p])
  BY TypeParts DEF Fitting
<1>2. proc[p].tries \in 1..MaxTries
  BY <1>1, LockAssumption DEF Proc, Fits
<1> QED BY <1>2 DEF Token, Tokens

LEMMA FreshToken ==
  ASSUME TypeOK, Fitting, NEW p \in Procs, proc[p].pc \in Trying
  PROVE  /\ Fresh(p) \in Tokens
         /\ Fresh(p)[1] = p /\ Fresh(p)[2] = proc[p].tries + 1
<1>1. proc[p] \in Proc /\ Fits(proc[p])
  BY TypeParts DEF Fitting
<1>2. proc[p].tries + 1 \in 1..MaxTries
  BY <1>1, LockAssumption DEF Proc, Fits
<1> QED BY <1>2 DEF Fresh, Tokens

\* Replacing the control state of one process.
LEMMA ReplaceMoves ==
  ASSUME TypeOK, NEW p \in Procs, NEW r \in Proc, proc' = [proc EXCEPT ![p] = r],
         r.tries = proc[p].tries, r.pc \in Held => proc[p].pc \in Held, Fits(r)
  PROVE  Moves(p)
<1>1. proc \in [Procs -> Proc]
  BY TypeParts
<1> QED BY <1>1 DEF Moves

\* Going to a step of the protocol.
LEMMA GotoMoves ==
  ASSUME TypeOK, Fitting, NEW p \in Procs, NEW s \in Steps, Goto(p, s),
         s \in Held => proc[p].pc \in Held,
         s \in Trying => proc[p].tries < MaxTries,
         s \in Completing /\ proc[p].caller \in {"reconcile", "orphan"} => proc[p].tries < MaxTries,
         s \in Held \cup {"publish"} => proc[p].tries > 0
  PROVE  Moves(p)
<1>1. proc \in [Procs -> Proc]
  BY TypeParts
<1>2. /\ proc' \in [Procs -> Proc]
      /\ \A q \in Procs \ {p} : proc'[q] = proc[q]
      /\ proc'[p].tries = proc[p].tries /\ proc'[p].pc = s
      /\ proc'[p].caller = proc[p].caller
  BY <1>1 DEF Goto, Proc
<1> QED BY <1>2 DEF Moves, Fits

\* What a completion knows of its process.
LEMMA CompletingTries ==
  ASSUME TypeOK, Fitting, NEW p \in Procs, proc[p].pc \in Completing
  PROVE  /\ proc[p] \in Proc
         /\ proc[p].caller \in {"reconcile", "orphan"} => proc[p].tries < MaxTries
BY TypeParts DEF Fitting, Fits

LEMMA CompletingGoto ==
  ASSUME TypeOK, Fitting, NEW p \in Procs, proc[p].pc \in Completing,
         NEW s \in Completing, Goto(p, s)
  PROVE  Moves(p)
<1>1. s \in Steps /\ s \notin Held /\ s \notin Trying /\ s # "publish"
  BY DEF Completing, Steps, Held, Trying
<1> QED BY <1>1, CompletingTries, GotoMoves

LEMMA RestMoves ==
  ASSUME TypeOK, NEW p \in Procs, NEW s \in {"visit", "sweep", "idle"}, NEW b \in BOOLEAN,
         Rest(p, s, b), s # "idle" => proc[p].tries < MaxTries
  PROVE  Moves(p)
<1>1. proc \in [Procs -> Proc] /\ Release(<<p, 1>>) \in Paths
  BY TypeParts, ReleasePath, FirstToken
<1>2. s \in Steps
  BY DEF Steps
<1> DEFINE k == Release(<<p, 1>>)
           i == IF s = "sweep" THEN proc[p].inert ELSE {}
<1>5. k \in Paths /\ i \in SUBSET Artifacts
  BY <1>1 DEF Proc
<1>6. proc' = [proc EXCEPT ![p].pc = s, ![p].blocked = b, ![p].caller = "reconcile",
                           ![p].marker = k, ![p].inert = i]
  BY <1>1 DEF Rest
<1> HIDE DEF k, i
<1> DEFINE r == [proc[p] EXCEPT !.pc = s, !.blocked = b, !.caller = "reconcile",
                              !.marker = k, !.inert = i]
<1>3. r \in Proc /\ r.tries = proc[p].tries /\ r.pc = s
  BY <1>1, <1>2, <1>5 DEF Proc
<1>4. proc' = [proc EXCEPT ![p] = r]
  BY <1>1, <1>6
<1> HIDE DEF r
<1>7. r.pc \notin Held /\ Fits(r)
  BY <1>3 DEF Fits, Held, Trying, Completing
<1> QED BY <1>3, <1>4, <1>7, ReplaceMoves

LEMMA ReturnMoves ==
  ASSUME TypeOK, Fitting, NEW p \in Procs, proc[p].pc \in Completing,
         NEW done \in BOOLEAN, Return(p, done)
  PROVE  Moves(p)
<1>1. proc[p] \in Proc /\ proc[p].blocked \in BOOLEAN
  BY CompletingTries DEF Proc
<1>2. CASE proc[p].caller \in {"reconcile", "orphan"}
  <2>1. Rest(p, "visit", proc[p].blocked \/ ~done)
    BY <1>2 DEF Return
  <2> QED BY <2>1, <1>2, CompletingTries, RestMoves
<1>3. CASE proc[p].caller \notin {"reconcile", "orphan"}
  <2>1. Rest(p, "idle", FALSE)
    BY <1>3 DEF Return
  <2> QED BY <2>1, RestMoves
<1> QED BY <1>2, <1>3

LEMMA EmptiedMoves ==
  ASSUME TypeOK, Fitting, NEW p \in Procs, proc[p].pc \in Completing, Emptied(p)
  PROVE  Moves(p)
<1>1. "retire" \in Completing /\ "unlink_marker" \in Completing
  BY DEF Completing
<1> QED BY <1>1, CompletingGoto, ReturnMoves DEF Emptied

LEMMA NothingBrought ==
  ASSUME UNCHANGED <<lock, quarantine, occupant>>
  PROVE  Brings
BY DEF Brings, Present

LEMMA StillQuiet ==
  ASSUME TypeOK, NEW p \in Procs, Moves(p), UNCHANGED <<files, dead, history>>
  PROVE  Quiet(p)
<1>1. FilesTyped'
  BY TypeParts DEF FilesTyped, files, history
<1> QED BY <1>1, NothingBrought DEF Quiet, files, history

-----------------------------------------------------------------------------
(* The acquisition loop.                                                     *)

\* Replacing the control state of a process that goes on looking for the lock.
LEMMA TryingQuiet ==
  ASSUME TypeOK, Fitting, NEW p \in Procs, NEW r \in Proc, proc' = [proc EXCEPT ![p] = r],
         r.tries = proc[p].tries, r.pc = "idle" \/ (r.pc \in Trying /\ r.tries < MaxTries),
         UNCHANGED <<files, dead, history>>
  PROVE  Quiet(p)
<1>1. r.pc \notin Held /\ Fits(r)
  BY DEF Fits, Held, Trying, Completing
<1> QED BY <1>1, ReplaceMoves, StillQuiet

LEMMA TryingTries ==
  ASSUME TypeOK, Fitting, NEW p \in Procs, proc[p].pc \in Trying
  PROVE  proc \in [Procs -> Proc] /\ proc[p] \in Proc /\ proc[p].tries < MaxTries
BY TypeParts DEF Fitting, Fits

LEMMA ListingPaths ==
  ASSUME NEW n \in 1..4
  PROVE  Listing(n) \in SUBSET Paths
<1>1. n = 1 \/ n = 2 \/ n = 3 \/ n = 4
  OBVIOUS
<1> QED BY <1>1 DEF Listing, Paths

LEMMA BeginQuiet ==
  ASSUME TypeOK, Fitting, NEW p \in Procs, Begin(p)
  PROVE  Quiet(p)
<1> DEFINE T == Listing(1)
<1>1. T \in SUBSET Paths /\ proc' = [proc EXCEPT ![p].pc = "visit", ![p].todo = T]
  BY ListingPaths DEF Begin
<1> HIDE DEF T
<1>2. proc \in [Procs -> Proc] /\ proc[p].tries < MaxTries
  BY TypeParts DEF Begin
<1> DEFINE r == [proc[p] EXCEPT !.pc = "visit", !.todo = T]
<1>0. "visit" \in Steps
  BY DEF Steps
<1>3. r \in Proc /\ r.tries = proc[p].tries /\ r.pc = "visit"
  BY <1>1, <1>2, <1>0 DEF Proc
<1>4. proc' = [proc EXCEPT ![p] = r]
  BY <1>1, <1>2
<1> HIDE DEF r
<1> QED BY <1>2, <1>3, <1>4, TryingQuiet DEF Begin, Trying

LEMMA ListQuiet ==
  ASSUME TypeOK, Fitting, NEW p \in Procs, List(p)
  PROVE  Quiet(p)
<1>1. proc \in [Procs -> Proc] /\ proc[p] \in Proc /\ proc[p].tries < MaxTries
  BY TryingTries DEF List, Trying
<1> DEFINE n == proc[p].look + 1
           T == Listing(n)
<1>2. n \in 1..4 /\ proc[p].pc = "visit"
  BY <1>1 DEF List, Proc
<1>3. T \in SUBSET Paths
  BY <1>2, ListingPaths
<1>4. proc' = [proc EXCEPT ![p].look = n, ![p].todo = T]
  BY <1>1 DEF List
<1> HIDE DEF n, T
<1> DEFINE r == [proc[p] EXCEPT !.look = n, !.todo = T]
<1>5. r \in Proc /\ r.tries = proc[p].tries /\ r.pc = "visit"
  BY <1>1, <1>2, <1>3 DEF Proc
<1>6. proc' = [proc EXCEPT ![p] = r]
  BY <1>1, <1>4
<1> HIDE DEF r
<1> QED BY <1>1, <1>5, <1>6, TryingQuiet DEF List, Trying

LEMMA VisitQuiet ==
  ASSUME TypeOK, Fitting, NEW p \in Procs, NEW m \in Paths,
         VisitMarker(p, m) \/ VisitQuarantine(p, m)
  PROVE  Quiet(p)
<1>1. proc \in [Procs -> Proc] /\ proc[p] \in Proc /\ Fits(proc[p]) /\ proc[p].pc = "visit"
  BY TypeParts DEF Fitting, VisitMarker, VisitQuarantine
<1>2. \E n \in {"complete", "visit", "unlink", "restore"},
         c \in {"orphan", "reconcile", "release", "reclaim"},
          k \in Paths, b \in BOOLEAN :
        proc' = [proc EXCEPT ![p].pc = n, ![p].caller = c, ![p].marker = k,
                             ![p].todo = @ \ {m}, ![p].blocked = @ \/ b]
  <2>1. CASE VisitMarker(p, m)
    <3> DEFINE n == IF m \in markers THEN "complete" ELSE "visit"
               c == proc[p].caller
               k == IF m \in markers THEN m ELSE proc[p].marker
               b == m \notin markers
    <3>1. /\ n \in {"complete", "visit", "unlink", "restore"} /\ k \in Paths /\ b \in BOOLEAN
          /\ c \in {"orphan", "reconcile", "release", "reclaim"}
      BY <1>1 DEF Proc
    <3>2. proc' = [proc EXCEPT ![p].pc = n, ![p].caller = c, ![p].marker = k,
                               ![p].todo = @ \ {m}, ![p].blocked = @ \/ b]
      BY <1>1, <2>1 DEF VisitMarker, Proc
    <3> HIDE DEF n, c, k, b
    <3> QED BY <3>1, <3>2, ZenonT(60)
  <2>2. CASE VisitQuarantine(p, m)
    <3> DEFINE x == quarantine[m]
               left == ~IsRelease(m) /\ (m \in markers \/ x = NoToken)
               known == x \in owners /\ (IsRelease(m) => x = m.of)
               n == IF left \/ ~known THEN "visit" ELSE IF IsRelease(m) THEN "unlink" ELSE "restore"
               c == IF left \/ ~known THEN proc[p].caller ELSE "orphan"
               k == IF left \/ ~known THEN proc[p].marker ELSE m
               b == occupant[m] # NoToken \/ (~left /\ ~known)
    <3>1. /\ n \in {"complete", "visit", "unlink", "restore"} /\ k \in Paths /\ b \in BOOLEAN
          /\ c \in {"orphan", "reconcile", "release", "reclaim"}
      BY <1>1 DEF Proc
    <3>2. proc' = [proc EXCEPT ![p].pc = n, ![p].caller = c, ![p].marker = k,
                               ![p].todo = @ \ {m}, ![p].blocked = @ \/ b]
      BY <1>1, <2>2, SMTT(30) DEF VisitQuarantine, Proc
    <3> HIDE DEF n, c, k, b
    <3> QED BY <3>1, <3>2, ZenonT(60)
  <2> QED BY <2>1, <2>2, ZenonT(60)
<1>3. PICK n \in {"complete", "visit", "unlink", "restore"},
           c \in {"orphan", "reconcile", "release", "reclaim"},
          k \in Paths, b \in BOOLEAN :
        proc' = [proc EXCEPT ![p].pc = n, ![p].caller = c, ![p].marker = k,
                             ![p].todo = @ \ {m}, ![p].blocked = @ \/ b]
  BY <1>2
<1> DEFINE r == [proc[p] EXCEPT !.pc = n, !.caller = c, !.marker = k,
                              !.todo = @ \ {m}, !.blocked = @ \/ b]
<1>0. n \in Steps
  BY DEF Steps
<1>4. r \in Proc /\ r.tries = proc[p].tries /\ r.pc = n
  BY <1>1, <1>0 DEF Proc
<1>5. proc' = [proc EXCEPT ![p] = r]
  BY <1>1, <1>3
<1> HIDE DEF r
<1>6. r.pc \notin Held /\ Fits(r)
  BY <1>1, <1>4 DEF Fits, Held, Trying, Completing
<1> QED BY <1>4, <1>5, <1>6, ReplaceMoves, StillQuiet DEF VisitMarker, VisitQuarantine

LEMMA ReconcileDoneQuiet ==
  ASSUME TypeOK, Fitting, NEW p \in Procs, ReconcileDone(p)
  PROVE  Quiet(p)
<1>1. proc \in [Procs -> Proc] /\ proc[p] \in Proc /\ proc[p].tries < MaxTries
  BY TryingTries DEF ReconcileDone, Trying
<1> DEFINE n == IF proc[p].blocked THEN "idle" ELSE "scavenge"
<1>2. n \in {"idle", "scavenge"}
  OBVIOUS
<1>3. proc' = [proc EXCEPT ![p].pc = n, ![p].blocked = FALSE, ![p].look = 1]
  BY DEF ReconcileDone
<1> HIDE DEF n
<1> DEFINE r == [proc[p] EXCEPT !.pc = n, !.blocked = FALSE, !.look = 1]
<1>0. n \in Steps /\ 1 \in 1..4
  BY <1>2 DEF Steps
<1>4. r \in Proc /\ r.tries = proc[p].tries /\ r.pc = n
  BY <1>1, <1>2, <1>0 DEF Proc
<1>5. proc' = [proc EXCEPT ![p] = r]
  BY <1>1, <1>3
<1> HIDE DEF r
<1> QED BY <1>1, <1>2, <1>4, <1>5, TryingQuiet DEF ReconcileDone, Trying

LEMMA ScavengeQuiet ==
  ASSUME TypeOK, Fitting, NEW p \in Procs, Scavenge(p)
  PROVE  Quiet(p)
<1>1. proc \in [Procs -> Proc] /\ proc[p] \in Proc /\ proc[p].tries < MaxTries
  BY TryingTries DEF Scavenge, Trying
<1> DEFINE I == (owners \X {"owner"}) \cup (retired \X {"retired"})
           n == IF I = {} THEN "sweep" ELSE "look"
<1>2. n \in {"sweep", "look"} /\ I \in SUBSET Artifacts
  BY TypeParts DEF FilesTyped, Artifacts
<1>3. proc' = [proc EXCEPT ![p].pc = n, ![p].inert = I]
  BY DEF Scavenge
<1> HIDE DEF n, I
<1> DEFINE r == [proc[p] EXCEPT !.pc = n, !.inert = I]
<1>4. r \in Proc /\ r.tries = proc[p].tries /\ r.pc = n
  BY <1>1, <1>2 DEF Proc, Steps
<1>5. proc' = [proc EXCEPT ![p] = r]
  BY <1>1, <1>3
<1> HIDE DEF r
<1> QED BY <1>1, <1>2, <1>4, <1>5, TryingQuiet DEF Scavenge, Trying

LEMMA LookQuiet ==
  ASSUME TypeOK, Fitting, NEW p \in Procs, Look(p)
  PROVE  Quiet(p)
<1>1. proc \in [Procs -> Proc] /\ proc[p] \in Proc /\ proc[p].tries < MaxTries
  BY TryingTries DEF Look, Trying
<1> DEFINE b == Listing(proc[p].look) # {}
           last == b \/ proc[p].look = 4
           n == IF last THEN "sweep" ELSE "look"
           l == IF last THEN 1 ELSE proc[p].look + 1
<1>2. n \in {"sweep", "look"} /\ b \in BOOLEAN /\ l \in 1..4
  BY <1>1 DEF Proc
<1>3. proc' = [proc EXCEPT ![p].pc = n, ![p].blocked = b, ![p].look = l]
  BY <1>1 DEF Look
<1> HIDE DEF b, n, l
<1> DEFINE r == [proc[p] EXCEPT !.pc = n, !.blocked = b, !.look = l]
<1>4. r \in Proc /\ r.tries = proc[p].tries /\ r.pc = n
  BY <1>1, <1>2 DEF Proc, Steps
<1>5. proc' = [proc EXCEPT ![p] = r]
  BY <1>1, <1>3
<1> HIDE DEF r
<1> QED BY <1>1, <1>2, <1>4, <1>5, TryingQuiet DEF Look, Trying

LEMMA SweepQuiet ==
  ASSUME TypeOK, Fitting, NEW p \in Procs, NEW a \in Artifacts, Sweep(p, a)
  PROVE  Quiet(p)
<1>1. proc \in [Procs -> Proc] /\ proc[p] \in Proc /\ proc[p].tries < MaxTries
  BY TryingTries DEF Sweep, Trying
<1> DEFINE n == IF a[2] = "owner" THEN "sweep_owner" ELSE "sweep_retired"
           k == Release(a[1])
<1>2. n \in {"sweep_owner", "sweep_retired"} /\ k \in Paths
  BY ReleasePath DEF Artifacts
<1>3. proc' = [proc EXCEPT ![p].pc = n, ![p].marker = k, ![p].inert = @ \ {a}]
  BY DEF Sweep
<1> HIDE DEF n, k
<1> DEFINE r == [proc[p] EXCEPT !.pc = n, !.marker = k, !.inert = @ \ {a}]
<1>4. r \in Proc /\ r.tries = proc[p].tries /\ r.pc = n
  BY <1>1, <1>2 DEF Proc, Steps
<1>5. proc' = [proc EXCEPT ![p] = r]
  BY <1>1, <1>3
<1> HIDE DEF r
<1> QED BY <1>1, <1>2, <1>4, <1>5, TryingQuiet DEF Sweep, Trying

LEMMA UnlinkInertQuiet ==
  ASSUME TypeOK, Fitting, NEW p \in Procs, UnlinkInert(p)
  PROVE  Quiet(p)
<1>1. proc \in [Procs -> Proc] /\ proc[p] \in Proc /\ proc[p].tries < MaxTries
  BY TryingTries DEF UnlinkInert, Trying
<1>2. Rest(p, "sweep", proc[p].blocked) \/ Rest(p, "idle", FALSE)
  BY DEF UnlinkInert
<1>3. Moves(p)
  <2>1. proc[p].blocked \in BOOLEAN
    BY <1>1 DEF Proc
  <2> QED BY <1>1, <1>2, <2>1, RestMoves
<1>4. owners' \subseteq owners /\ retired' \subseteq retired /\ swept' \subseteq swept \cup markers
  BY DEF UnlinkInert
<1>5. FilesTyped' /\ Brings
  BY <1>4, NothingBrought, TypeParts DEF UnlinkInert, FilesTyped
<1> QED BY <1>3, <1>5 DEF Quiet, UnlinkInert

LEMMA WriteOwnerQuiet ==
  ASSUME TypeOK, Fitting, NEW p \in Procs, WriteOwner(p)
  PROVE  Quiet(p)
<1>1. proc \in [Procs -> Proc] /\ proc[p] \in Proc /\ proc[p].tries < MaxTries
  BY TryingTries DEF WriteOwner, Trying
<1> DEFINE r == [proc[p] EXCEPT !.pc = "link", !.inert = {}, !.blocked = FALSE]
<1>2. r \in Proc /\ r.tries = proc[p].tries /\ r.pc = "link"
  BY <1>1 DEF Proc, Steps
<1>3. proc' = [proc EXCEPT ![p] = r]
  BY <1>1 DEF WriteOwner
<1> HIDE DEF r
<1>4. r.pc \notin Held /\ Fits(r)
  BY <1>1, <1>2 DEF Fits, Held, Trying, Completing
<1>5. Moves(p)
  BY <1>2, <1>3, <1>4, ReplaceMoves
<1>6. owners' \subseteq Tokens
  BY FreshToken, TypeParts DEF WriteOwner, FilesTyped, Trying
<1>7. FilesTyped' /\ Brings
  BY <1>6, NothingBrought, TypeParts DEF WriteOwner, FilesTyped, history
<1> QED BY <1>5, <1>7 DEF Quiet, WriteOwner, history

LEMMA ReclaimQuiet ==
  ASSUME TypeOK, Fitting, NEW p \in Procs \ dead, Reclaim(p)
  PROVE  Quiet(p)
<1>1. CASE ~Reclaimable(lock)
  <2>1. Moves(p)
    BY <1>1, GotoMoves DEF Reclaim, Steps, Held, Trying, Completing
  <2> QED BY <2>1, StillQuiet DEF Reclaim
<1>2. CASE Reclaimable(lock)
  <2> DEFINE k == [kind |-> "reclaim", of |-> lock, by |-> p]
  <2>1. lock \in Tokens /\ lock[1] # p
    BY <1>2, TypeParts DEF FilesTyped, Files, Reclaimable
  <2>2. k \in Paths
    BY <2>1 DEF Paths, Reclaims, Markers
  <2>3. proc' = [proc EXCEPT ![p].pc = "request", ![p].caller = "reclaim", ![p].marker = k]
    BY <1>2 DEF Reclaim
  <2> HIDE DEF k
  <2>4. proc \in [Procs -> Proc]
    BY TypeParts
  <2> DEFINE r == [proc[p] EXCEPT !.pc = "request", !.caller = "reclaim", !.marker = k]
  <2>0. "request" \in Steps
    BY DEF Steps
  <2>5. r \in Proc /\ r.tries = proc[p].tries /\ r.pc = "request"
    BY <2>2, <2>4, <2>0 DEF Proc
  <2>6. proc' = [proc EXCEPT ![p] = r]
    BY <2>3, <2>4
  <2> HIDE DEF r
  <2>7. r.pc \notin Held /\ Fits(r)
    BY <2>5 DEF Reclaim, Fitting, Fits, Held, Trying, Completing
  <2> QED BY <2>5, <2>6, <2>7, ReplaceMoves, StillQuiet DEF Reclaim
<1> QED BY <1>1, <1>2

LEMMA RequestQuiet ==
  ASSUME TypeOK, Fitting, NEW p \in Procs, Request(p)
  PROVE  Quiet(p)
<1>1. Moves(p)
  BY GotoMoves DEF Request, Fitting, Fits, Steps, Held, Trying, Completing
<1>2. Marker(p) \in Paths
  BY TypeParts DEF Marker, Proc
<1>3. FilesTyped' /\ Brings
  BY <1>2, NothingBrought, TypeParts DEF Request, FilesTyped, history
<1> QED BY <1>1, <1>3 DEF Quiet, Request, history

-----------------------------------------------------------------------------
(* The callback and its release.                                             *)

LEMMA SectionQuiet ==
  ASSUME TypeOK, Fitting, NEW p \in Procs, Section(p)
  PROVE  Quiet(p)
<1>1. proc[p].pc = "in" /\ proc[p].tries > 0
  BY DEF Section, Fitting, Fits, Held
<1>2. Moves(p)
  BY <1>1, GotoMoves DEF Section, Steps, Held, Trying, Completing
<1> QED BY <1>2, StillQuiet DEF Section

LEMMA PublishReleaseQuiet ==
  ASSUME TypeOK, Fitting, NEW p \in Procs, PublishRelease(p)
  PROVE  Quiet(p)
<1> DEFINE found == (lock = Token(p) \/ HeldForReclaim(Token(p))) /\ Token(p) \in owners
<1>1. CASE ~found
  <2>1. Goto(p, "idle") /\ UNCHANGED <<files, dead, history>>
    BY <1>1 DEF PublishRelease, files
  <2>2. Moves(p)
    BY <2>1, GotoMoves DEF Steps, Held, Trying, Completing
  <2> QED BY <2>1, <2>2, StillQuiet
<1>2. CASE found
  <2>1. Release(Token(p)) \in Paths
    BY HeldToken, ReleasePath DEF PublishRelease
  <2>2. proc \in [Procs -> Proc]
    BY TypeParts
  <2> DEFINE r == [proc[p] EXCEPT !.pc = "complete", !.caller = "release",
                                !.marker = Release(Token(p))]
  <2>0. "complete" \in Steps
    BY DEF Steps
  <2>3. r \in Proc /\ r.tries = proc[p].tries /\ r.pc = "complete" /\ r.caller = "release"
    BY <2>1, <2>2, <2>0 DEF Proc
  <2>4. proc' = [proc EXCEPT ![p] = r]
    BY <1>2, <2>2 DEF PublishRelease
  <2> HIDE DEF r
  <2>5. r.pc \notin Held /\ Fits(r)
    BY <2>3 DEF Fits, Held, Trying, Completing
  <2>6. Moves(p)
    BY <2>3, <2>4, <2>5, ReplaceMoves
  <2>7. markers' = markers \cup {Release(Token(p))}
    BY <1>2 DEF PublishRelease
  <2>8. FilesTyped' /\ Brings
    BY <2>1, <2>7, NothingBrought, TypeParts DEF PublishRelease, FilesTyped, history
  <2> QED BY <2>6, <2>8 DEF Quiet, PublishRelease, history
<1> QED BY <1>1, <1>2

-----------------------------------------------------------------------------
(* The completion of a marker.                                               *)

LEMMA CompleteQuiet ==
  ASSUME TypeOK, Fitting, NEW p \in Procs, Complete(p)
  PROVE  Quiet(p)
<1> USE DEF Completing
<1>1. proc[p].pc \in Completing
  BY DEF Complete
<1> DEFINE r == [proc[p] EXCEPT !.pc = "unlink_marker", !.blocked = TRUE]
<1>2. \/ Return(p, FALSE) \/ \E s \in Completing : Goto(p, s)
      \/ proc' = [proc EXCEPT ![p].pc = "unlink_marker", ![p].blocked = TRUE]
  BY DEF Complete
<1>3. CASE Return(p, FALSE)
  BY <1>1, <1>3, ReturnMoves, StillQuiet DEF Complete
<1>4. CASE \E s \in Completing : Goto(p, s)
  BY <1>1, <1>4, CompletingGoto, StillQuiet DEF Complete
<1>5. CASE proc' = [proc EXCEPT ![p].pc = "unlink_marker", ![p].blocked = TRUE]
  <2>1. proc \in [Procs -> Proc] /\ Fits(proc[p])
    BY TypeParts DEF Fitting
  <2>0. "unlink_marker" \in Steps
    BY DEF Steps
  <2>2. r \in Proc /\ r.tries = proc[p].tries /\ r.pc = "unlink_marker" /\ r.caller = proc[p].caller
    BY <2>1, <2>0 DEF Proc
  <2>3. proc' = [proc EXCEPT ![p] = r]
    BY <1>5, <2>1
  <2> HIDE DEF r
  <2>4. r.pc \notin Held /\ Fits(r)
    BY <1>1, <2>1, <2>2 DEF Fits, Held, Trying
  <2> QED BY <2>2, <2>3, <2>4, ReplaceMoves, StillQuiet DEF Complete
<1> QED BY <1>2, <1>3, <1>4, <1>5

LEMMA LooksQuiet ==
  ASSUME TypeOK, Fitting, NEW p \in Procs,
         Moved(p) \/ Restore(p) \/ Restored(p) \/ Evicted(p) \/ Retire(p)
  PROVE  Quiet(p)
<1> USE DEF Completing
<1>1. proc[p].pc \in Completing
  BY DEF Moved, Restore, Restored, Evicted, Retire
<1>2. \/ Return(p, FALSE) \/ Return(p, TRUE) \/ Emptied(p) \/ \E s \in Completing : Goto(p, s)
  <2>1. Moved(p) => \E s \in Completing : Goto(p, s)
    BY DEF Moved
  <2>2. Restore(p) => Return(p, FALSE) \/ \E s \in Completing : Goto(p, s)
    BY DEF Restore
  <2>3. Restored(p) => Emptied(p) \/ Return(p, FALSE) \/ \E s \in Completing : Goto(p, s)
    BY DEF Restored
  <2>4. Evicted(p) => Return(p, FALSE) \/ \E s \in Completing : Goto(p, s)
    BY DEF Evicted
  <2>5. Retire(p) => Return(p, FALSE) \/ Return(p, TRUE) \/ \E s \in Completing : Goto(p, s)
    BY DEF Retire
  <2> QED BY <2>1, <2>2, <2>3, <2>4, <2>5
<1>3. UNCHANGED <<files, dead, history>>
  BY DEF Moved, Restore, Restored, Evicted, Retire
<1>4. Moves(p)
  BY <1>1, <1>2, ReturnMoves, EmptiedMoves, CompletingGoto
<1> QED BY <1>3, <1>4, StillQuiet

LEMMA RenameQuiet ==
  ASSUME TypeOK, Fitting, NEW p \in Procs, Rename(p)
  PROVE  Quiet(p)
<1>1. proc[p].pc \in Completing /\ "moved" \in Completing /\ Marker(p) \in Paths
  BY TypeParts DEF Rename, Completing, Marker, Proc
<1>2. Goto(p, "moved") \/ Return(p, FALSE)
  BY DEF Rename
<1>3. Moves(p)
  BY <1>1, <1>2, ReturnMoves, CompletingGoto
<1>4. CASE UNCHANGED <<lock, quarantine>>
  BY <1>3, <1>4, StillQuiet DEF Rename, files, history
<1>5. CASE quarantine' = [quarantine EXCEPT ![Marker(p)] = lock] /\ lock' = NoToken
  <2>1. FilesTyped
    BY TypeParts
  <2>2. FilesTyped'
    BY <1>5, <2>1 DEF Rename, FilesTyped, Files, history
  <2>3. Brings
    BY <1>1, <1>5, <2>1, LockAssumption DEF Rename, Brings, Present, FilesTyped, Tokens
  <2> QED BY <1>3, <2>2, <2>3 DEF Quiet, Rename, history
<1> QED BY <1>4, <1>5 DEF Rename

LEMMA UnlinkQuarantineQuiet ==
  ASSUME TypeOK, Fitting, NEW p \in Procs, UnlinkQuarantine(p) \/ UnlinkRestored(p)
  PROVE  Quiet(p)
<1> USE DEF UnlinkQuarantine, UnlinkRestored, history
<1>1. proc[p].pc \in Completing /\ Marker(p) \in Paths
  BY TypeParts DEF Completing, Marker, Proc
<1>2. Moves(p)
  BY <1>1, EmptiedMoves
<1>3. FilesTyped
  BY TypeParts
<1>4. FilesTyped'
  BY <1>3 DEF FilesTyped, Files
<1>5. Brings
  BY <1>1, <1>3, LockAssumption DEF Brings, Present, FilesTyped, Tokens
<1> QED BY <1>2, <1>4, <1>5 DEF Quiet

LEMMA RelinkQuiet ==
  ASSUME TypeOK, Fitting, NEW p \in Procs, Relink(p)
  PROVE  Quiet(p)
<1>1. /\ proc[p].pc \in Completing /\ Marker(p) \in Paths
      /\ "restore" \in Completing /\ "restored" \in Completing
  BY TypeParts DEF Relink, Completing, Marker, Proc
<1>2. Goto(p, "restore") \/ Goto(p, "restored") \/ Return(p, FALSE)
  BY DEF Relink
<1>3. Moves(p)
  BY <1>1, <1>2, ReturnMoves, CompletingGoto
<1>4. lock' = lock \/ lock' = quarantine[Marker(p)]
  BY DEF Relink
<1>5. FilesTyped
  BY TypeParts
<1>6. FilesTyped'
  BY <1>1, <1>4, <1>5 DEF Relink, FilesTyped, history
<1>7. Brings
  BY <1>1, <1>4 DEF Relink, Brings, Present
<1> QED BY <1>3, <1>6, <1>7 DEF Quiet, Relink, history

LEMMA EvictQuiet ==
  ASSUME TypeOK, Fitting, NEW p \in Procs, Evict(p)
  PROVE  Quiet(p)
<1>1. proc[p].pc \in Completing /\ Marker(p) \in Paths /\ "evicted" \in Completing
  BY TypeParts DEF Evict, Completing, Marker, Proc
<1>2. Goto(p, "evicted") \/ Return(p, FALSE)
  BY DEF Evict
<1>3. Moves(p)
  BY <1>1, <1>2, ReturnMoves, CompletingGoto
<1>4. CASE UNCHANGED <<lock, occupant>>
  BY <1>3, <1>4, StillQuiet DEF Evict, files, history
<1>5. CASE occupant' = [occupant EXCEPT ![Marker(p)] = lock] /\ lock' = NoToken
  <2>1. FilesTyped
    BY TypeParts
  <2>2. FilesTyped'
    BY <1>5, <2>1 DEF Evict, FilesTyped, Files, history
  <2>3. Brings
    BY <1>1, <1>5, <2>1, LockAssumption DEF Evict, Brings, Present, FilesTyped, Tokens
  <2> QED BY <1>3, <2>2, <2>3 DEF Quiet, Evict, history
<1> QED BY <1>4, <1>5 DEF Evict

LEMMA UnlinkOccupantQuiet ==
  ASSUME TypeOK, Fitting, NEW p \in Procs, UnlinkOccupant(p)
  PROVE  Quiet(p)
<1> USE DEF UnlinkOccupant, history
<1>1. proc[p].pc \in Completing /\ Marker(p) \in Paths /\ "restore" \in Completing
  BY TypeParts DEF Completing, Marker, Proc
<1>2. Moves(p)
  BY <1>1, CompletingGoto
<1>3. FilesTyped
  BY TypeParts
<1>4. FilesTyped'
  BY <1>3 DEF FilesTyped, Files
<1>5. Brings
  BY <1>1, <1>3, LockAssumption DEF Brings, Present, FilesTyped, Tokens
<1> QED BY <1>2, <1>4, <1>5 DEF Quiet

LEMMA RetiresQuiet ==
  ASSUME TypeOK, Fitting, NEW p \in Procs,
         RenameOwner(p) \/ UnlinkOwner(p) \/ UnlinkMarker(p)
  PROVE  Quiet(p)
<1>1. /\ proc[p].pc \in Completing /\ "unlink_marker" \in Completing
      /\ "unlink_owner" \in Completing
  BY DEF RenameOwner, UnlinkOwner, UnlinkMarker, Completing
<1>2. \/ Return(p, FALSE) \/ Return(p, TRUE)
      \/ Goto(p, "unlink_marker") \/ Goto(p, "unlink_owner")
  BY DEF RenameOwner, UnlinkOwner, UnlinkMarker
<1>3. Moves(p)
  BY <1>1, <1>2, ReturnMoves, CompletingGoto
<1>4. FilesTyped
  BY TypeParts
<1>5. /\ owners' \subseteq owners /\ retired' \subseteq retired \cup owners
      /\ markers' \subseteq markers /\ UNCHANGED <<lock, quarantine, occupant, dead, history>>
  BY DEF RenameOwner, UnlinkOwner, UnlinkMarker
<1>6. FilesTyped'
  BY <1>4, <1>5 DEF FilesTyped, history
<1> QED BY <1>3, <1>5, <1>6, NothingBrought DEF Quiet, history

-----------------------------------------------------------------------------
(* A quiet step keeps the invariant.                                         *)

LEMMA QuietTyped ==
  ASSUME TypeOK, Fitting, NEW p \in Procs, Quiet(p)
  PROVE  TypeOK' /\ Fitting'
<1>1. TypeOK'
  BY TypeParts DEF Quiet, Moves, TypeOK, FilesTyped, Proc
<1>2. Fitting'
  BY DEF Quiet, Moves, Fitting
<1> QED BY <1>1, <1>2

LEMMA QuietKeeps ==
  ASSUME Inv, NEW p \in Procs, Quiet(p)
  PROVE  Inv'
<1>1. TypeOK' /\ Fitting'
  BY QuietTyped DEF Inv
<1>2. \A q \in Procs : proc'[q].tries = proc[q].tries
  BY DEF Quiet, Moves
<1>3. \A t \in Tokens : Present(t)' => Present(t)
  BY DEF Quiet, Brings
<1>4. Acquired'
  BY <1>2, <1>3, TokenParts DEF Acquired, Quiet, Inv
<1>5. HeldUnreported'
  BY <1>2 DEF HeldUnreported, Token, Quiet, Moves, Inv
<1>6. \A t \in Tokens : Lost(t) => Lost(t)'
  BY <1>2, <1>3, TokenParts DEF Lost, Quiet
<1>7. OneLost'
  BY <1>6 DEF OneLost, Quiet, Inv
<1> QED BY <1>1, <1>4, <1>5, <1>7 DEF Inv

-----------------------------------------------------------------------------
(* The four actions that are not quiet.                                      *)

\* The fresh token of an acquisition was at no path and is not reported.
LEMMA LinkLockKeeps ==
  ASSUME TypeOK, Fitting, NEW p \in Procs, LinkLock(p)
  PROVE  TypeOK' /\ Fitting' /\ (Inv => Inv')
<1>1. proc \in [Procs -> Proc] /\ FilesTyped /\ proc[p].pc = "link" /\ proc[p].tries < MaxTries
  BY TypeParts DEF LinkLock, Fitting, Fits, Trying
<1>2. CASE lock # NoToken
  <2>1. Goto(p, "reclaim") /\ UNCHANGED lock /\ owners' = owners \ {Fresh(p)}
    BY <1>2 DEF LinkLock
  <2>2. Moves(p)
    BY <1>1, <2>1, GotoMoves DEF Steps, Held, Trying, Completing
  <2>3. FilesTyped' /\ Brings
    BY <1>1, <2>1, NothingBrought DEF LinkLock, FilesTyped, history
  <2>4. Quiet(p)
    BY <2>2, <2>3 DEF Quiet, LinkLock, history
  <2> QED BY <2>4, QuietTyped, QuietKeeps
<1>3. CASE lock = NoToken
  <2> DEFINE f == Fresh(p)
             r == [proc[p] EXCEPT !.pc = "fence", !.tries = @ + 1]
  <2>1. f \in Tokens /\ f[1] = p /\ f[2] = proc[p].tries + 1
    BY <1>1, FreshToken DEF Trying
  <2>2. proc[p] \in Proc /\ proc[p].tries \in Nat
    BY <1>1, LockAssumption DEF Proc
  <2>3. lock' = f /\ proc' = [proc EXCEPT ![p] = r]
    BY <1>1, <1>3 DEF LinkLock
  <2>4. r \in Proc /\ r.tries = proc[p].tries + 1 /\ r.pc = "fence"
    <3>1. proc[p].tries + 1 \in 0..MaxTries
      BY <1>1, <2>2, LockAssumption
    <3> QED BY <2>2, <3>1 DEF Proc, Steps
  <2> HIDE DEF f, r
  <2>5. /\ proc' \in [Procs -> Proc] /\ proc'[p] = r
        /\ \A q \in Procs \ {p} : proc'[q] = proc[q]
    BY <1>1, <2>3, <2>4
  <2>6. FilesTyped'
    BY <1>1, <1>3, <2>1, <2>3 DEF LinkLock, FilesTyped, Files, history
  <2>7. TypeOK'
    BY <2>5, <2>6, TypeParts DEF LinkLock, TypeOK, FilesTyped, Proc, history
  <2>8. Fitting'
    BY <2>2, <2>4, <2>5 DEF Fitting, Fits, Held, Trying, Completing
  <2>9. ASSUME Inv PROVE Inv'
    <3>1. \A q \in Procs : proc[q].tries <= proc'[q].tries
      <4>1. \A q \in Procs : proc[q].tries \in Nat
        BY <1>1, LockAssumption DEF Proc
      <4> QED BY <2>4, <2>5, <4>1
    <3>2. \A t \in Tokens : Present(t)' => Present(t) \/ t = f
      BY <2>3 DEF LinkLock, Present
    <3>3. \A t \in Tokens : t[2] <= proc[t[1]].tries => t[2] <= proc'[t[1]].tries
      <4>1. \A q \in Procs : proc[q].tries \in Nat /\ proc'[q].tries \in Nat
        BY <1>1, <2>5, LockAssumption DEF Proc
      <4> QED BY <3>1, <4>1, TokenParts
    <3>4. Acquired'
      <4>1. f[2] <= proc'[f[1]].tries
        BY <2>1, <2>2, <2>4, <2>5
      <4>2. UNCHANGED clean
        BY DEF LinkLock, history
      <4> QED BY <2>9, <3>2, <3>3, <4>1, <4>2 DEF Acquired, Inv
    <3>5. f \notin clean /\ ~(f[2] <= proc[f[1]].tries)
      BY <2>1, <2>2, <2>9 DEF Acquired, Inv
    <3>6. HeldUnreported'
      <4>1. Token(p)' = f
        BY <2>4, <2>5 DEF Token, Fresh, f
      <4>2. \A q \in Procs \ {p} : Token(q)' = Token(q)
        BY <2>5 DEF Token
      <4> QED BY <2>5, <2>9, <3>5, <4>1, <4>2 DEF HeldUnreported, LinkLock, Inv, history
    <3>7. \A t \in Tokens : Lost(t) => Lost(t)'
      BY <3>2, <3>3, <3>5 DEF Lost, LinkLock, history
    <3>8. OneLost'
      BY <2>9, <3>7 DEF OneLost, LinkLock, Inv, history
    <3> QED BY <2>7, <2>8, <3>4, <3>6, <3>8 DEF Inv
  <2> QED BY <2>7, <2>8, <2>9
<1> QED BY <1>2, <1>3

\* No marker and no quarantine: of two callbacks inside, one has no file.  An
\* acquisition that is admitted past one is missed.
LEMMA FenceKeeps ==
  ASSUME TypeOK, Fitting, NEW p \in Procs, Fence(p)
  PROVE  TypeOK' /\ Fitting' /\ (Inv => Inv')
<1>1. /\ proc \in [Procs -> Proc] /\ proc[p] \in Proc
      /\ proc[p].pc = "fence" /\ proc[p].tries > 0
  BY TypeParts DEF Fence, Fitting, Fits, Held
<1> DEFINE found == Listing(proc[p].look) # {}
           last == found \/ proc[p].look = 4
           admit == last /\ ~found
           n == IF found THEN "publish" ELSE IF admit THEN "in" ELSE proc[p].pc
           l == IF last THEN 1 ELSE proc[p].look + 1
<1>2. /\ proc' = [proc EXCEPT ![p].pc = n, ![p].look = l]
      /\ UNCHANGED <<files, dead, clean, swept>>
  BY <1>1 DEF Fence
<1>3. n \in Held \cup {"publish"} /\ l \in 1..4
  BY <1>1 DEF Proc, Held
<1>4. ~admit => UNCHANGED <<overlap, missed>>
  BY DEF Fence
<1>5. admit => /\ overlap' = overlap \cup {{Token(p), Token(q)} : q \in Inside}
               /\ HasControl => missed' = missed \cup {Token(p)}
               /\ ~HasControl => UNCHANGED missed
  BY DEF Fence
<1>6. Moves(p)
  <2> HIDE DEF n, l
  <2> DEFINE r == [proc[p] EXCEPT !.pc = n, !.look = l]
  <2>1. r \in Proc /\ r.tries = proc[p].tries /\ r.pc = n
    BY <1>1, <1>3 DEF Proc, Steps, Held
  <2>2. proc' = [proc EXCEPT ![p] = r]
    BY <1>1, <1>2
  <2> HIDE DEF r
  <2>3. Fits(r) /\ proc[p].pc \in Held
    BY <1>1, <1>3, <2>1 DEF Fits, Held, Trying, Completing
  <2> QED BY <2>1, <2>2, <2>3, ReplaceMoves
<1> HIDE DEF n, l
<1>7. CASE ~admit
  BY <1>2, <1>4, <1>6, <1>7, StillQuiet, QuietTyped, QuietKeeps DEF history
<1>8. CASE admit
  <2>1. overlap' = overlap \cup {{Token(p), Token(q)} : q \in Inside}
    BY <1>5, <1>8
  <2>4. \A q \in Inside : q \in Procs /\ q # p /\ proc[q].pc \in Held /\ Token(q) \in Tokens
    <3>1. \A q \in Inside : q \in Procs /\ q # p /\ proc[q].pc \in Held
      BY <1>1 DEF Inside, Held
    <3> QED BY <3>1, HeldToken
  <2>5. Token(p) \in Tokens
    BY <1>1, HeldToken DEF Held
  <2>6. overlap' \subseteq {{t, u} : t \in Tokens, u \in Tokens}
    BY <2>1, <2>4, <2>5, TypeParts
  <2>7. FilesTyped'
    BY <1>2, TypeParts DEF FilesTyped, files
  <2>3. missed \subseteq missed' /\ missed' \subseteq Tokens
    BY <1>5, <1>8, <2>5, TypeParts
  <2>8. TypeOK'
    BY <1>2, <1>6, <2>3, <2>6, <2>7, TypeParts DEF TypeOK, FilesTyped, Proc, Moves
  <2>9. Fitting'
    BY <1>6 DEF Fitting, Moves
  <2>10. ASSUME Inv PROVE Inv'
    <3>1. \A q \in Procs : proc'[q].tries = proc[q].tries
      BY <1>6 DEF Moves
    <3>2. \A t : Present(t)' <=> Present(t)
      BY <1>2 DEF Present, files
    <3>3. Acquired'
      BY <1>2, <2>10, <3>1, <3>2, TokenParts DEF Acquired, Inv
    <3>4. HeldUnreported'
      BY <1>2, <1>6, <2>10, <3>1 DEF HeldUnreported, Token, Moves, Inv
    <3>5. \A t \in Tokens : Lost(t) => Lost(t)'
      BY <1>2, <3>1, <3>2, TokenParts DEF Lost
    <3>6. ASSUME ~HasControl, NEW q \in Procs, proc[q].pc \in Held, Token(q) # lock
          PROVE  Lost(Token(q))
      <4>1. Token(q) \in Tokens /\ Token(q) \notin clean
        BY <2>10, <3>6, HeldToken DEF HeldUnreported, Inv
      <4>2. \A m \in Paths : quarantine[m] = NoToken /\ occupant[m] = NoToken
        <5>1. Listing(2) = {} /\ Listing(4) = {}
          BY <3>6 DEF HasControl
        <5> QED BY <5>1 DEF Listing, Quarantined, Paths
      <4>3. ~Present(Token(q))
        BY <3>6, <4>1, <4>2, LockAssumption DEF Present, Tokens
      <4>4. Token(q)[1] = q /\ Token(q)[2] = proc[q].tries /\ proc[q].tries \in Nat
        BY <1>1, LockAssumption DEF Token, Proc
      <4> QED BY <4>1, <4>3, <4>4 DEF Lost
    <3>7. ~HasControl => \A q \in Inside : Lost(Token(p)) \/ Lost(Token(q))
      <4>1. \A q \in Inside : Token(p) # Token(q)
        BY <2>4 DEF Token
      <4> QED BY <1>1, <2>4, <3>6, <4>1 DEF Held
    <3>8. HasControl => Token(p) \in missed'
      BY <1>5, <1>8
    <3>9. \A t, u \in Tokens : t # u /\ {t, u} \in overlap' =>
            Lost(t) \/ Lost(u) \/ t \in missed' \/ u \in missed'
      <4> SUFFICES ASSUME NEW t \in Tokens, NEW u \in Tokens, t # u, {t, u} \in overlap'
                   PROVE  Lost(t) \/ Lost(u) \/ t \in missed' \/ u \in missed'
        OBVIOUS
      <4>1. CASE {t, u} \in overlap
        BY <2>3, <2>10, <4>1 DEF OneLost, Inv
      <4>2. CASE {t, u} \notin overlap
        <5>1. PICK q \in Inside : {t, u} = {Token(p), Token(q)}
          BY <2>1, <4>2
        <5>2. /\ t = Token(p) \/ t = Token(q)
              /\ u = Token(p) \/ u = Token(q)
          BY <5>1
        <5> QED BY <3>7, <3>8, <5>2
      <4> QED BY <4>1, <4>2
    <3>10. OneLost'
      BY <3>5, <3>9 DEF OneLost
    <3> QED BY <2>8, <2>9, <3>3, <3>4, <3>10 DEF Inv
  <2> QED BY <2>8, <2>9, <2>10
<1> QED BY <1>7, <1>8

\* Only the token at the lock path is reported, and that one is not lost.
LEMMA AssertOwnerKeeps ==
  ASSUME TypeOK, Fitting, NEW p \in Procs, AssertOwner(p)
  PROVE  TypeOK' /\ Fitting' /\ (Inv => Inv')
<1>1. proc \in [Procs -> Proc] /\ proc[p].pc = "assert" /\ proc[p].tries > 0
  BY TypeParts DEF AssertOwner, Fitting, Fits, Held
<1>2. Goto(p, "publish") /\ UNCHANGED <<files, dead, overlap, missed, swept>>
  BY DEF AssertOwner
<1>3. Moves(p)
  BY <1>1, <1>2, GotoMoves DEF Steps, Held, Trying, Completing
<1>4. CASE ~(lock = Token(p) /\ Token(p) \in owners)
  <2>1. UNCHANGED clean
    BY <1>4 DEF AssertOwner
  <2> QED BY <1>2, <1>3, <2>1, StillQuiet, QuietTyped, QuietKeeps DEF history
<1>5. CASE lock = Token(p) /\ Token(p) \in owners
  <2>1. clean' = clean \cup {Token(p)}
    BY <1>5 DEF AssertOwner
  <2>2. Token(p) \in Tokens /\ Present(Token(p))
    BY <1>1, <1>5, HeldToken DEF Held, Present
  <2>3. FilesTyped'
    BY <1>2, TypeParts DEF FilesTyped, files
  <2>4. TypeOK'
    BY <1>2, <1>3, <2>1, <2>2, <2>3, TypeParts DEF TypeOK, FilesTyped, Proc, Moves
  <2>5. Fitting'
    BY <1>3 DEF Fitting, Moves
  <2>6. ASSUME Inv PROVE Inv'
    <3>1. \A q \in Procs : proc'[q].tries = proc[q].tries
      BY <1>3 DEF Moves
    <3>2. \A t : Present(t)' <=> Present(t)
      BY <1>2 DEF Present, files
    <3>3. Acquired'
      BY <2>1, <2>2, <2>6, <3>1, <3>2, TokenParts DEF Acquired, Inv
    <3>4. HeldUnreported'
      <4>1. proc'[p].pc \notin Held
        BY <1>1, <1>2 DEF Goto, Proc, Held
      <4>2. \A q \in Procs \ {p} : proc'[q] = proc[q] /\ Token(q)' = Token(q) /\ Token(q) # Token(p)
        BY <1>3 DEF Moves, Token
      <4> QED BY <2>1, <2>6, <4>1, <4>2 DEF HeldUnreported, Inv
    <3>5. \A t \in Tokens : Lost(t) => Lost(t)'
      BY <2>1, <2>2, <3>1, <3>2, TokenParts DEF Lost
    <3>6. OneLost'
      BY <1>2, <2>6, <3>5 DEF OneLost, Inv
    <3> QED BY <2>4, <2>5, <3>3, <3>4, <3>6 DEF Inv
  <2> QED BY <2>4, <2>5, <2>6
<1> QED BY <1>4, <1>5

LEMMA CrashKeeps ==
  ASSUME TypeOK, Fitting, NEW p \in Procs, Crash(p)
  PROVE  TypeOK' /\ Fitting' /\ (Inv => Inv')
<1>1. TypeOK' /\ Fitting'
  BY DEF Crash, TypeOK, Fitting, files, history
<1>2. ASSUME Inv PROVE Acquired' /\ HeldUnreported' /\ OneLost'
  BY <1>2 DEF Crash, files, history, Inv, Acquired, HeldUnreported, OneLost, Lost, Present, Token
<1> QED BY <1>1, <1>2 DEF Inv

-----------------------------------------------------------------------------
LEMMA StepKeeps ==
  ASSUME TypeOK, Fitting, NEW p \in Procs \ dead, Step(p) \/ Crash(p)
  PROVE  TypeOK' /\ Fitting' /\ (Inv => Inv')
<1>1. CASE LinkLock(p) \/ Fence(p) \/ AssertOwner(p) \/ Crash(p)
  BY <1>1, LinkLockKeeps, FenceKeeps, AssertOwnerKeeps, CrashKeeps
<1>2. CASE Quiet(p)
  BY <1>2, QuietTyped, QuietKeeps
<1>3. CASE AcquireStep(p)
  BY <1>1, <1>2, <1>3, BeginQuiet, ListQuiet, VisitQuiet, ReconcileDoneQuiet, ScavengeQuiet,
     LookQuiet, SweepQuiet, UnlinkInertQuiet, WriteOwnerQuiet, ReclaimQuiet, RequestQuiet
  DEF AcquireStep
<1>4. CASE SectionStep(p)
  BY <1>1, <1>2, <1>4, SectionQuiet, PublishReleaseQuiet DEF SectionStep
<1>5. CASE CompleteStep(p)
  BY <1>2, <1>5, CompleteQuiet, LooksQuiet, RenameQuiet, UnlinkQuarantineQuiet, RelinkQuiet,
     EvictQuiet, UnlinkOccupantQuiet, RetiresQuiet DEF CompleteStep
<1> QED BY <1>1, <1>3, <1>4, <1>5 DEF Step

LEMMA InitHolds == Init => Inv
<1> SUFFICES ASSUME Init PROVE Inv
  OBVIOUS
<1>1. \A p \in Procs : Release(<<p, 1>>) \in Paths
  BY FirstToken, ReleasePath
<1>2. TypeOK
  BY <1>1, LockAssumption DEF Init, TypeOK, Files, Steps
<1>3. Fitting
  BY DEF Init, Fitting, Fits, Held, Trying, Completing
<1>4. \A t \in Tokens : ~Present(t)
  BY LockAssumption DEF Init, Present, Tokens
<1>5. Acquired /\ HeldUnreported /\ OneLost
  BY <1>4 DEF Init, Acquired, HeldUnreported, OneLost
<1> QED BY <1>2, <1>3, <1>5 DEF Inv

LEMMA StutterKeeps ==
  ASSUME UNCHANGED vars
  PROVE  (TypeOK /\ Fitting => TypeOK' /\ Fitting') /\ (Inv => Inv')
<1>1. TypeOK => TypeOK'
  BY DEF vars, files, history, TypeOK
<1>2. Fitting => Fitting'
  BY DEF vars, Fitting
<1>3. Acquired /\ HeldUnreported /\ OneLost => Acquired' /\ HeldUnreported' /\ OneLost'
  BY DEF vars, files, history, Acquired, HeldUnreported, OneLost, Lost, Present, Token
<1> QED BY <1>1, <1>2, <1>3 DEF Inv

\* Every reachable state of the lock protocol is typed: each path holds the file
\* of an acquisition, and each process of withOwnerFencedFileLock is at a step on
\* a marker that may exist.
THEOREM LockTyped == Spec => []TypeOK
<1>1. Init => TypeOK /\ Fitting
  BY InitHolds DEF Inv
<1>2. TypeOK /\ Fitting /\ [Next]_vars => TypeOK' /\ Fitting'
  BY StepKeeps, StutterKeeps DEF Next
<1> QED BY <1>1, <1>2, PTL DEF Spec

\* Two callbacks of withOwnerFencedFileLock that overlapped are both reported as
\* done under the lock only if one of them was admitted while a control file
\* existed that its four listings, read one after the other, had missed: for any
\* number of processes, acquisitions and crashes, and with every delay between a
\* check and the rename or unlink after it.
THEOREM NeverBothReported == Spec => []CleanExclusive
<1>1. Init => Inv
  BY InitHolds
<1>2. Inv /\ [Next]_vars => Inv'
  BY StepKeeps, StutterKeeps DEF Next, Inv
<1>3. Inv => CleanExclusive
  BY TypeParts DEF Inv, OneLost, Lost, CleanExclusive
<1> QED BY <1>1, <1>2, <1>3, PTL DEF Spec

-----------------------------------------------------------------------------
(* A release marker is retired with its owner file.                          *)

\* The acquisition is over: its process is past the publication of its release.
Passed(t) ==
  /\ t[2] <= proc[t[1]].tries
  /\ proc[t[1]].pc \in Held \cup {"publish"} => t[2] < proc[t[1]].tries

\* Process p completes release marker m.
Serves(p, m) == proc[p].pc \in Completing /\ Marker(p) = m
Known(m) == m \in markers \/ quarantine[m] # NoToken \/ \E p \in Procs : Serves(p, m)

\* A marker is known only once its owner published it, and it is published once: an
\* orphaned quarantine stays without its marker.
Published == \A m \in Releases : Known(m) => Passed(m.of)
Removing == {"rename_owner", "unlink_owner"}
Orphaned ==
  \A p \in Procs : \A m \in Releases :
    Serves(p, m) /\ proc[p].pc \in Removing /\ proc[p].caller = "orphan" => m \notin markers
Fitted ==
  \A p \in Procs : /\ proc[p].pc = "request" => ~IsRelease(Marker(p))
                   /\ proc[p].pc \in Removing \cup {"retire"} => IsRelease(Marker(p))

\* The owner file is there, under its name or renamed aside, or a process has the
\* marker's last step before it, or a scavenger took the file.
Last(m) == \E p \in Procs : proc[p].pc = "unlink_marker" /\ Marker(p) = m
Owned(m) == m.of \in owners \cup retired
Kept(m) == Owned(m) \/ Last(m) \/ m \in swept
Retiring == \A m \in markers \cap Releases : Kept(m)

Retired == Published /\ Orphaned /\ Fitted /\ Retiring

\* What most actions do: the process that moves goes on with the marker it has, or takes
\* up one that is known, and each marker that stays can still be retired.
Alone(p) ==
  /\ \A q \in Procs \ {p} : proc'[q] = proc[q]
  /\ proc'[p].pc = "request" => proc'[p].marker.kind # "release"
  /\ proc'[p].pc \in Removing \cup {"retire"} => proc'[p].marker.kind = "release"

Passing == \A t \in Tokens : Passed(t) => Passed(t)'

Continues(p) ==
  proc'[p].pc \in Completing /\ proc'[p].marker \in Releases =>
    /\ Known(proc'[p].marker)
    /\ proc'[p].pc \in Removing /\ proc'[p].caller = "orphan" => proc'[p].marker \notin markers

Leaves(p) ==
  /\ markers' \cap Releases \subseteq markers
  /\ \A m \in Releases : quarantine'[m] # NoToken => quarantine[m] # NoToken \/ Serves(p, m)

Follows(p) == Alone(p) /\ Passing /\ Continues(p)

Keeping == \A m \in markers' \cap Releases : Kept(m) => Kept(m)'
Spares ==
  /\ \A m \in markers' \cap Releases : Owned(m) => Owned(m)' \/ m \in swept'
  /\ swept \subseteq swept'

-----------------------------------------------------------------------------
LEMMA ReleaseOf ==
  ASSUME NEW m \in Releases
  PROVE  /\ m \in Paths /\ m.kind = "release" /\ m.of \in Tokens /\ m.of[1] \in Procs
         /\ m.of[2] \in 1..MaxTries /\ m = Release(m.of)
BY TokenParts DEF Releases, Markers, Paths, Release

LEMMA PassingBy ==
  ASSUME NEW p \in Procs, \A q \in Procs \ {p} : proc'[q] = proc[q],
         proc'[p].tries = proc[p].tries,
         proc'[p].pc \in Held \cup {"publish"} => proc[p].pc \in Held \cup {"publish"}
  PROVE  Passing
BY TokenParts DEF Passing, Passed

LEMMA RetiredStays ==
  ASSUME TypeOK, Retired, NEW p \in Procs, Follows(p), Leaves(p), Keeping
  PROVE  Retired'
<1> USE DEF Follows
<1>1. \A q \in Procs, m \in Releases : Serves(q, m)' =>
        \/ q # p /\ Serves(q, m)
        \/ /\ q = p /\ Known(m)
           /\ proc'[p].pc \in Removing /\ proc'[p].caller = "orphan" => m \notin markers
  BY DEF Serves, Marker, Continues, Alone
<1>2. \A m \in Releases : Known(m)' => Known(m)
  BY <1>1 DEF Known, Leaves
<1>3. Published'
  <2> SUFFICES ASSUME NEW m \in Releases, Known(m)'
               PROVE  Passed(m.of)'
    BY DEF Published
  <2>1. Passed(m.of) /\ m.of \in Tokens
    BY <1>2, ReleaseOf DEF Published, Retired
  <2> QED BY <2>1 DEF Passing
<1>4. Orphaned'
  <2> SUFFICES ASSUME NEW q \in Procs, NEW m \in Releases, Serves(q, m)',
                      proc'[q].pc \in Removing, proc'[q].caller = "orphan"
               PROVE  m \notin markers'
    BY DEF Orphaned
  <2>1. m \notin markers
    BY <1>1 DEF Alone, Orphaned, Retired
  <2> QED BY <2>1 DEF Leaves
<1>5. Fitted'
  BY DEF Fitted, Retired, IsRelease, Marker, Alone
<1>6. Retiring'
  BY DEF Retiring, Retired, Leaves, Keeping
<1> QED BY <1>3, <1>4, <1>5, <1>6 DEF Retired

LEMMA Spared ==
  ASSUME NEW p \in Procs, Follows(p), Spares, proc[p].pc # "unlink_marker"
  PROVE  Keeping
<1>1. ASSUME NEW m, Last(m) PROVE Last(m)'
  <2>1. PICK q \in Procs : proc[q].pc = "unlink_marker" /\ Marker(q) = m
    BY <1>1 DEF Last
  <2> QED BY <2>1 DEF Follows, Alone, Last, Marker
<1> QED BY <1>1 DEF Keeping, Kept, Spares

-----------------------------------------------------------------------------
(* The moves of a process.                                                   *)

Completable(p, s) ==
  /\ s \in Removing \cup {"retire"} => IsRelease(Marker(p))
  /\ s \in Removing /\ proc[p].caller = "orphan" => Marker(p) \notin markers

LEMMA FollowGoto ==
  ASSUME TypeOK, NEW p \in Procs, NEW s, Goto(p, s), Completable(p, s), s # "request",
         s \in Held \cup {"publish"} => proc[p].pc \in Held \cup {"publish"},
         s \in Completing => proc[p].pc \in Completing
  PROVE  Follows(p)
<1>1. proc \in [Procs -> Proc]
  BY TypeParts
<1>2. /\ \A q \in Procs \ {p} : proc'[q] = proc[q]
      /\ proc'[p].tries = proc[p].tries /\ proc'[p].pc = s
      /\ proc'[p].caller = proc[p].caller /\ proc'[p].marker = proc[p].marker
  BY <1>1 DEF Goto, Proc
<1>3. Passing
  BY <1>2, PassingBy
<1>4. Continues(p)
  BY <1>2 DEF Continues, Known, Serves, Marker, Completable
<1> QED BY <1>2, <1>3, <1>4 DEF Follows, Alone, Completable, IsRelease, Marker

LEMMA FollowRest ==
  ASSUME TypeOK, NEW p \in Procs, NEW s \in {"visit", "sweep", "idle"}, NEW b, Rest(p, s, b)
  PROVE  Follows(p)
<1>1. proc \in [Procs -> Proc]
  BY TypeParts
<1>2. /\ \A q \in Procs \ {p} : proc'[q] = proc[q]
      /\ proc'[p].tries = proc[p].tries /\ proc'[p].pc = s
  BY <1>1 DEF Rest, Proc
<1>3. Passing
  BY <1>2, PassingBy DEF Held
<1> QED BY <1>2, <1>3 DEF Follows, Alone, Continues, Completing, Removing

LEMMA FollowReturn ==
  ASSUME TypeOK, NEW p \in Procs, NEW done, Return(p, done)
  PROVE  Follows(p)
BY FollowRest DEF Return

\* A completion goes on, or ends.
Proceeds(p) ==
  \/ \E s \in Completing : Goto(p, s) /\ Completable(p, s)
  \/ \E done \in BOOLEAN : Return(p, done)

LEMMA FollowProceeds ==
  ASSUME TypeOK, NEW p \in Procs, proc[p].pc \in Completing, Proceeds(p)
  PROVE  Follows(p)
<1>1. ASSUME NEW s \in Completing, Goto(p, s), Completable(p, s)
      PROVE  Follows(p)
  <2>1. s # "request" /\ s \notin Held \cup {"publish"}
    BY DEF Completing, Held
  <2> QED BY <1>1, <2>1, FollowGoto
<1> QED BY <1>1, FollowReturn DEF Proceeds

LEMMA EmptiedProceeds ==
  ASSUME NEW p \in Procs, Emptied(p)
  PROVE  Proceeds(p)
<1>1. "retire" \in Completing /\ "unlink_marker" \in Completing
  BY DEF Completing
<1> QED BY <1>1 DEF Emptied, Proceeds, Completable, Removing

LEMMA FilesSame ==
  ASSUME TypeOK, Retired, NEW p \in Procs, Follows(p), proc[p].pc # "unlink_marker",
         UNCHANGED <<owners, retired, markers, quarantine, swept>>
  PROVE  Retired'
<1>1. Leaves(p) /\ Spares
  BY DEF Leaves, Spares, Owned
<1> QED BY <1>1, Spared, RetiredStays

-----------------------------------------------------------------------------
(* The actions.                                                              *)

\* A step of one process outside the completion of markers, which no process
\* enters, and which publishes nothing.
LEMMA OutsideFollows ==
  ASSUME TypeOK, NEW p \in Procs, \A q \in Procs \ {p} : proc'[q] = proc[q],
         proc'[p].tries = proc[p].tries,
         proc'[p].pc \notin Completing \cup {"request"},
         proc'[p].pc \in Held \cup {"publish"} => proc[p].pc \in Held \cup {"publish"}
  PROVE  Follows(p)
<1>1. proc'[p].pc \notin Removing \cup {"retire"}
  BY DEF Removing, Completing
<1> QED BY <1>1, PassingBy DEF Follows, Alone, Continues

LEMMA AcquisitionRetired ==
  ASSUME TypeOK, Retired, NEW p \in Procs,
         \/ Begin(p) \/ List(p) \/ ReconcileDone(p) \/ Scavenge(p) \/ Look(p)
         \/ Fence(p) \/ Section(p) \/ AssertOwner(p)
  PROVE  Retired'
<1>1. proc \in [Procs -> Proc]
  BY TypeParts
<1>2. UNCHANGED <<owners, retired, markers, quarantine, swept>> /\ proc[p].pc # "unlink_marker"
  BY DEF Begin, List, ReconcileDone, Scavenge, Look, Fence, Section, AssertOwner, files, history
<1>3. /\ \A q \in Procs \ {p} : proc'[q] = proc[q]
      /\ proc'[p].tries = proc[p].tries
      /\ proc'[p].pc \in {"visit", "idle", "scavenge", "look", "sweep"} \cup Held \cup {"publish"}
      /\ proc'[p].pc \in Held \cup {"publish"} => proc[p].pc \in Held \cup {"publish"}
  <2>1. CASE Section(p) \/ AssertOwner(p)
    BY <1>1, <2>1 DEF Section, AssertOwner, Goto, Proc, Held
  <2>2. CASE Begin(p) \/ List(p) \/ ReconcileDone(p)
    BY <1>1, <2>2 DEF Begin, List, ReconcileDone, Proc, Held
  <2>3. CASE Scavenge(p)
    <3> DEFINE i == (owners \X {"owner"}) \cup (retired \X {"retired"})
               n == IF i = {} THEN "sweep" ELSE "look"
    <3>1. n \in {"sweep", "look"}
      OBVIOUS
    <3>2. proc' = [proc EXCEPT ![p].pc = n, ![p].inert = i]
      BY <2>3, Zenon DEF Scavenge
    <3> HIDE DEF n, i
    <3> QED BY <1>1, <3>1, <3>2 DEF Proc, Held
  <2>4. CASE Look(p)
    <3> DEFINE b == Listing(proc[p].look) # {}
               n == IF b \/ proc[p].look = 4 THEN "sweep" ELSE "look"
               k == IF b \/ proc[p].look = 4 THEN 1 ELSE proc[p].look + 1
    <3>1. n \in {"sweep", "look"}
      OBVIOUS
    <3>2. proc' = [proc EXCEPT ![p].pc = n, ![p].blocked = b, ![p].look = k]
      BY <2>4, Zenon DEF Look
    <3> HIDE DEF n, b, k
    <3> QED BY <1>1, <3>1, <3>2 DEF Proc, Held
  <2>5. CASE Fence(p)
    BY <1>1, <2>5 DEF Fence, Proc, Held
  <2> QED BY <2>1, <2>2, <2>3, <2>4, <2>5
<1>4. proc'[p].pc \notin Completing \cup {"request"}
  BY <1>3 DEF Completing, Held
<1> QED BY <1>2, <1>3, <1>4, OutsideFollows, FilesSame

\* What a listed path leads to is known.
LEMMA VisitRetired ==
  ASSUME TypeOK, Retired, NEW p \in Procs, NEW m \in Paths,
         VisitMarker(p, m) \/ VisitQuarantine(p, m)
  PROVE  Retired'
<1>1. /\ \A q \in Procs \ {p} : proc'[q] = proc[q]
      /\ proc'[p].tries = proc[p].tries
      /\ \/ proc'[p].pc = "visit"
         \/ proc'[p].pc \in {"complete", "unlink", "restore"} /\ proc'[p].marker = m /\ Known(m)
  <2>1. CASE VisitMarker(p, m)
    BY <2>1, TypeParts DEF VisitMarker, Proc, Known
  <2>2. CASE VisitQuarantine(p, m)
    <3> DEFINE x == quarantine[m]
               left == ~IsRelease(m) /\ (m \in markers \/ x = NoToken)
               known == x \in owners /\ (IsRelease(m) => x = m.of)
    <3>1. /\ \A q \in Procs \ {p} : proc'[q] = proc[q]
          /\ proc'[p].tries = proc[p].tries
          /\ proc'[p].pc = IF left \/ ~known THEN "visit"
                           ELSE IF IsRelease(m) THEN "unlink" ELSE "restore"
          /\ proc'[p].marker = IF left \/ ~known THEN proc[p].marker ELSE m
      BY <2>2, TypeParts DEF VisitQuarantine, Proc
    <3>2. known => Known(m)
      BY TypeParts, LockAssumption DEF Known, FilesTyped, Tokens
    <3> QED BY <3>1, <3>2
  <2> QED BY <2>1, <2>2
<1>2. proc'[p].pc \notin Held \cup {"publish", "request", "retire"} \cup Removing
  BY <1>1 DEF Held, Removing
<1>3. Passing
  BY <1>1, <1>2, PassingBy
<1>4. Continues(p)
  BY <1>1, <1>2 DEF Continues, Completing
<1>5. Alone(p)
  BY <1>1, <1>2 DEF Alone
<1>6. UNCHANGED <<owners, retired, markers, quarantine, swept>> /\ proc[p].pc # "unlink_marker"
  BY DEF VisitMarker, VisitQuarantine, files, history
<1> QED BY <1>3, <1>4, <1>5, <1>6, FilesSame DEF Follows

\* A scavenger that takes the file of a marker is remembered.
LEMMA ScavengeRetired ==
  ASSUME TypeOK, Retired, NEW p \in Procs,
         WriteOwner(p) \/ UnlinkInert(p) \/ \E a \in Artifacts : Sweep(p, a)
  PROVE  Retired'
<1>1. /\ \A q \in Procs \ {p} : proc'[q] = proc[q]
      /\ proc'[p].tries = proc[p].tries
      /\ proc'[p].pc \in {"link", "sweep", "idle", "sweep_owner", "sweep_retired"}
  <2>1. CASE \E a \in Artifacts : Sweep(p, a)
    <3>0. PICK a \in Artifacts : Sweep(p, a)
      BY <2>1
    <3> DEFINE n == IF a[2] = "owner" THEN "sweep_owner" ELSE "sweep_retired"
               k == Release(a[1])
               i == proc[p].inert \ {a}
    <3>1. /\ n \in {"sweep_owner", "sweep_retired"}
          /\ proc' = [proc EXCEPT ![p].pc = n, ![p].marker = k, ![p].inert = i]
      BY <3>0, TypeParts DEF Sweep, Proc
    <3> HIDE DEF n, k, i
    <3> QED BY <3>1, TypeParts DEF Proc
  <2>3. CASE WriteOwner(p)
    BY <2>3, TypeParts DEF WriteOwner, Proc
  <2>2. CASE UnlinkInert(p)
    <3>1. Rest(p, "sweep", proc[p].blocked) \/ Rest(p, "idle", FALSE)
      BY <2>2 DEF UnlinkInert
    <3> QED BY <3>1, TypeParts DEF Rest, Proc
  <2> QED BY <2>1, <2>2, <2>3
<1>2. Follows(p)
  BY <1>1, OutsideFollows DEF Held, Completing
<1>3. proc[p].pc # "unlink_marker" /\ UNCHANGED <<markers, quarantine>>
  BY DEF WriteOwner, Sweep, UnlinkInert, files
<1>4. Leaves(p)
  BY <1>3 DEF Leaves
<1>5. Spares
  <2>1. CASE WriteOwner(p) \/ \E a \in Artifacts : Sweep(p, a)
    BY <2>1 DEF WriteOwner, Sweep, Spares, Owned, files, history
  <2>2. CASE UnlinkInert(p)
    <3> DEFINE there == Target(p) \in IF proc[p].pc = "sweep_retired" THEN retired ELSE owners
    <3>1. /\ owners \subseteq owners' \cup {Target(p)}
          /\ retired \subseteq retired' \cup {Target(p)}
          /\ ~there => UNCHANGED <<owners, retired>>
      BY <2>2 DEF UnlinkInert
    <3>2. swept' = IF there THEN swept \cup ({Release(Target(p))} \cap markers) ELSE swept
      BY <2>2 DEF UnlinkInert
    <3> HIDE DEF there
    <3>3. \A m \in Releases : m.of = Target(p) => m = Release(Target(p))
      BY ReleaseOf
    <3> QED BY <1>3, <3>1, <3>2, <3>3 DEF Spares, Owned
  <2> QED BY <2>1, <2>2, SMTT(30)
<1> QED BY <1>2, <1>3, <1>4, <1>5, Spared, RetiredStays

\* A token that was not acquired is on no marker.
LEMMA LinkLockRetired ==
  ASSUME TypeOK, Fitting, Retired, NEW p \in Procs, LinkLock(p)
  PROVE  Retired'
<1>1. proc \in [Procs -> Proc] /\ proc[p].pc = "link" /\ proc[p].tries \in Nat
  BY TypeParts, LockAssumption DEF LinkLock, Proc
<1>2. Fresh(p) \in Tokens /\ Fresh(p)[1] = p /\ Fresh(p)[2] = proc[p].tries + 1
  BY <1>1, FreshToken DEF Trying
<1>3. CASE lock # NoToken
  <2>1. Goto(p, "reclaim") /\ owners' = owners \ {Fresh(p)}
    BY <1>3 DEF LinkLock
  <2>2. Follows(p)
    BY <2>1, FollowGoto DEF Held, Completing, Completable, Removing
  <2>3. \A m \in markers \cap Releases : m.of # Fresh(p)
    BY <1>1, <1>2 DEF Retired, Published, Known, Passed
  <2>4. Leaves(p) /\ Spares
    BY <2>1, <2>3 DEF LinkLock, Leaves, Spares, Owned, history
  <2> QED BY <1>1, <2>2, <2>4, Spared, RetiredStays
<1>4. CASE lock = NoToken
  <2>1. UNCHANGED <<owners, retired, markers, quarantine, swept>>
    BY <1>4 DEF LinkLock, history
  <2>2. /\ \A q \in Procs \ {p} : proc'[q] = proc[q]
        /\ proc'[p].tries = proc[p].tries + 1 /\ proc'[p].pc = "fence"
    BY <1>1, <1>4 DEF LinkLock, Proc
  <2>3. Passing
    BY <1>1, <2>2, TokenParts DEF Passing, Passed
  <2>4. Follows(p)
    BY <2>2, <2>3 DEF Follows, Alone, Continues, Completing, Removing
  <2> QED BY <1>1, <2>1, <2>4, FilesSame
<1> QED BY <1>3, <1>4

LEMMA ReclaimRetired ==
  ASSUME TypeOK, Retired, NEW p \in Procs, Reclaim(p)
  PROVE  Retired'
<1>1. UNCHANGED <<owners, retired, markers, quarantine, swept>> /\ proc[p].pc = "reclaim"
  BY DEF Reclaim, files, history
<1>2. CASE ~Reclaimable(lock)
  <2>1. Follows(p)
    BY <1>2, FollowGoto DEF Reclaim, Held, Completing, Completable, Removing
  <2> QED BY <1>1, <2>1, FilesSame
<1>3. CASE Reclaimable(lock)
  <2> DEFINE k == [kind |-> "reclaim", of |-> lock, by |-> p]
  <2>1. k.kind # "release"
    OBVIOUS
  <2>2. proc' = [proc EXCEPT ![p].pc = "request", ![p].caller = "reclaim", ![p].marker = k]
    BY <1>3 DEF Reclaim
  <2> HIDE DEF k
  <2>3. /\ \A q \in Procs \ {p} : proc'[q] = proc[q]
        /\ proc'[p].tries = proc[p].tries /\ proc'[p].pc = "request"
        /\ proc'[p].marker = k
    BY <2>2, TypeParts DEF Proc
  <2>4. Passing
    BY <2>3, PassingBy DEF Held
  <2>5. Follows(p)
    BY <2>1, <2>3, <2>4 DEF Follows, Alone, Continues, Completing, Removing
  <2> QED BY <1>1, <2>5, FilesSame
<1> QED BY <1>2, <1>3

LEMMA RequestRetired ==
  ASSUME TypeOK, Retired, NEW p \in Procs, Request(p)
  PROVE  Retired'
<1>1. proc \in [Procs -> Proc] /\ proc[p].pc = "request"
  BY TypeParts DEF Request
<1>0. ~IsRelease(Marker(p))
  BY <1>1 DEF Fitted, Retired
<1>2. Marker(p) \notin Releases
  BY <1>0 DEF Releases, IsRelease
<1>3. /\ \A q \in Procs \ {p} : proc'[q] = proc[q]
      /\ proc'[p].tries = proc[p].tries /\ proc'[p].pc = "complete"
      /\ proc'[p].marker = Marker(p)
  BY <1>1 DEF Request, Goto, Proc, Marker
<1>4. Passing
  BY <1>3, PassingBy DEF Held
<1>5. Follows(p)
  BY <1>2, <1>3, <1>4 DEF Follows, Alone, Continues, Removing
<1>6. Leaves(p) /\ Spares
  BY <1>2 DEF Request, Leaves, Spares, Owned, history
<1> QED BY <1>1, <1>5, <1>6, Spared, RetiredStays

\* The owner publishes its release once, and nobody knew the marker before.
LEMMA PublishRetired ==
  ASSUME TypeOK, Fitting, Retired, NEW p \in Procs, PublishRelease(p)
  PROVE  Retired'
<1>1. proc \in [Procs -> Proc] /\ proc[p].pc = "publish" /\ proc[p].tries \in Nat
  BY TypeParts, LockAssumption DEF PublishRelease, Proc
<1> DEFINE found == (lock = Token(p) \/ HeldForReclaim(Token(p))) /\ Token(p) \in owners
<1>2. CASE ~found
  <2>1. Goto(p, "idle") /\ UNCHANGED <<owners, retired, markers, quarantine, swept>>
    BY <1>2 DEF PublishRelease, history
  <2>2. Follows(p)
    BY <2>1, FollowGoto DEF Held, Completing, Completable, Removing
  <2> QED BY <1>1, <2>1, <2>2, FilesSame
<1>3. CASE found
  <2>0. /\ Token(p) \in Tokens /\ Token(p)[1] = p /\ Token(p)[2] = proc[p].tries
        /\ Release(Token(p)) \in Releases
    <3>1. Token(p) \in Tokens /\ Token(p)[1] = p /\ Token(p)[2] = proc[p].tries
      BY <1>1, HeldToken DEF Token
    <3> QED BY <3>1 DEF Release, Releases, Markers
  <2> PICK k \in Releases : k = Release(Token(p))
    BY <2>0
  <2>1. k.of = Token(p) /\ k.kind = "release" /\ k.of[1] = p /\ k.of[2] = proc[p].tries
    BY <2>0 DEF Release
  <2>2. ~Known(k)
    BY <1>1, <2>1 DEF Retired, Published, Passed
  <2>3. /\ markers' = markers \cup {k} /\ UNCHANGED <<owners, retired, quarantine, swept>>
        /\ proc' = [proc EXCEPT ![p].pc = "complete", ![p].caller = "release", ![p].marker = k]
        /\ Token(p) \in owners
    BY <1>3 DEF PublishRelease, history
  <2>4. /\ \A q \in Procs \ {p} : proc'[q] = proc[q]
        /\ proc'[p].tries = proc[p].tries /\ proc'[p].pc = "complete"
        /\ proc'[p].caller = "release" /\ proc'[p].marker = k
    BY <1>1, <2>3 DEF Proc
  <2>5. \A t \in Tokens : Passed(t) => Passed(t)'
    BY <2>4, PassingBy DEF Passing, Held
  <2>6. Passed(k.of)'
    BY <1>1, <2>1, <2>4 DEF Passed, Held
  <2>7. \A q \in Procs, m \in Releases : Serves(q, m)' =>
          (q = p /\ m = k) \/ (q # p /\ Serves(q, m))
    BY <2>4 DEF Serves, Marker
  <2>8. \A m \in Releases : Known(m)' => m = k \/ Known(m)
    BY <2>3, <2>7 DEF Known
  <2>9. Published'
    <3> SUFFICES ASSUME NEW m \in Releases, Known(m)'
                 PROVE  Passed(m.of)'
      BY DEF Published
    <3>1. CASE m = k
      BY <2>6, <3>1
    <3>2. CASE m # k
      BY <2>5, <2>8, <3>2, ReleaseOf DEF Retired, Published
    <3> QED BY <3>1, <3>2
  <2>10. Orphaned'
    <3> SUFFICES ASSUME NEW q \in Procs, NEW m \in Releases, Serves(q, m)',
                        proc'[q].pc \in Removing, proc'[q].caller = "orphan"
                 PROVE  m \notin markers'
      BY DEF Orphaned
    <3>1. q # p /\ Serves(q, m) /\ proc[q].pc \in Removing /\ proc[q].caller = "orphan"
      BY <2>4, <2>7 DEF Removing
    <3>2. m \notin markers /\ m # k
      BY <2>2, <3>1 DEF Retired, Orphaned, Known
    <3> QED BY <2>3, <3>2
  <2>11. Fitted'
    BY <2>4 DEF Retired, Fitted, IsRelease, Marker, Removing
  <2>12. ASSUME NEW m, Last(m) PROVE Last(m)'
    <3>1. PICK q \in Procs : proc[q].pc = "unlink_marker" /\ Marker(q) = m
      BY <2>12 DEF Last
    <3> QED BY <1>1, <2>4, <3>1 DEF Last, Marker
  <2>13. Retiring'
    BY <2>1, <2>3, <2>12 DEF Retired, Retiring, Kept, Owned
  <2> QED BY <2>9, <2>10, <2>11, <2>13 DEF Retired
<1> QED BY <1>2, <1>3

LEMMA CompleteRetired ==
  ASSUME TypeOK, Retired, NEW p \in Procs, Complete(p)
  PROVE  Retired'
<1>1. UNCHANGED <<owners, retired, markers, quarantine, swept>> /\ proc[p].pc = "complete"
  BY DEF Complete, files, history
<1>2. proc[p].pc \in Completing
  BY <1>1 DEF Completing
<1>3. Proceeds(p) \/ proc' = [proc EXCEPT ![p].pc = "unlink_marker", ![p].blocked = TRUE]
  BY DEF Complete, Completing, Proceeds, Completable, Removing
<1>4. CASE proc' = [proc EXCEPT ![p].pc = "unlink_marker", ![p].blocked = TRUE]
  <2>1. /\ \A q \in Procs \ {p} : proc'[q] = proc[q]
        /\ proc'[p].tries = proc[p].tries /\ proc'[p].pc = "unlink_marker"
        /\ proc'[p].caller = proc[p].caller /\ proc'[p].marker = proc[p].marker
    BY <1>4, TypeParts DEF Proc
  <2>2. Follows(p)
    BY <1>2, <2>1, PassingBy DEF Follows, Alone, Continues, Held, Known, Serves, Marker, Removing
  <2> QED BY <1>1, <2>2, FilesSame
<1> QED BY <1>1, <1>2, <1>3, <1>4, FollowProceeds, FilesSame

LEMMA LooksRetired ==
  ASSUME TypeOK, Retired, NEW p \in Procs,
         Moved(p) \/ Restore(p) \/ Restored(p) \/ Evicted(p) \/ Retire(p)
         \/ Relink(p) \/ Evict(p) \/ UnlinkOccupant(p)
  PROVE  Retired'
<1>1. proc[p].pc \in Completing /\ proc[p].pc # "unlink_marker"
  BY DEF Completing, Moved, Restore, Restored, Evicted, Retire, Relink, Evict, UnlinkOccupant
<1>2. UNCHANGED <<owners, retired, markers, quarantine, swept>>
  BY DEF Moved, Restore, Restored, Evicted, Retire, Relink, Evict, UnlinkOccupant, files, history
<1>3. Proceeds(p)
  <2> USE DEF Completing, Completable, Removing
  <2>1. CASE Moved(p) \/ UnlinkOccupant(p)
    BY <2>1 DEF Moved, UnlinkOccupant, Proceeds
  <2>2. CASE Restore(p)
    BY <2>2 DEF Restore, Proceeds
  <2>3. CASE Restored(p)
    <3>1. Emptied(p) \/ (\E s \in Completing : Goto(p, s) /\ Completable(p, s)) \/ Return(p, FALSE)
      BY <2>3 DEF Restored
    <3> QED BY <3>1, EmptiedProceeds DEF Proceeds
  <2>4. CASE Evicted(p) \/ Evict(p)
    BY <2>4 DEF Evicted, Evict, Proceeds
  <2>5. CASE Retire(p)
    <3>1. IsRelease(Marker(p))
      BY <2>5 DEF Retire, Retired, Fitted
    <3> QED BY <2>5, <3>1 DEF Retire, Proceeds
  <2>6. CASE Relink(p)
    BY <2>6 DEF Relink, Proceeds
  <2> QED BY <2>1, <2>2, <2>3, <2>4, <2>5, <2>6
<1> QED BY <1>1, <1>2, <1>3, FollowProceeds, FilesSame

LEMMA MovesRetired ==
  ASSUME TypeOK, Retired, NEW p \in Procs,
         Rename(p) \/ UnlinkQuarantine(p) \/ UnlinkRestored(p)
  PROVE  Retired'
<1>1. proc[p].pc \in Completing /\ proc[p].pc # "unlink_marker"
  BY DEF Completing, Rename, UnlinkQuarantine, UnlinkRestored
<1>2. UNCHANGED <<owners, retired, markers, swept>>
  BY DEF Rename, UnlinkQuarantine, UnlinkRestored, history
<1>3. quarantine \in [Paths -> Files] /\ Releases \subseteq Paths
  BY TypeParts DEF FilesTyped, Paths
<1>4. quarantine' = quarantine \/ \E f : quarantine' = [quarantine EXCEPT ![Marker(p)] = f]
  BY DEF Rename, UnlinkQuarantine, UnlinkRestored
<1>5. \A m \in Releases : quarantine'[m] # NoToken => quarantine[m] # NoToken \/ Serves(p, m)
  BY <1>1, <1>3, <1>4 DEF Serves
<1>6. Leaves(p) /\ Spares
  BY <1>2, <1>5 DEF Leaves, Spares, Owned
<1>7. Proceeds(p)
  <2>1. CASE Rename(p)
    BY <2>1 DEF Rename, Proceeds, Completing, Completable, Removing
  <2>2. CASE UnlinkQuarantine(p) \/ UnlinkRestored(p)
    BY <2>2, EmptiedProceeds DEF UnlinkQuarantine, UnlinkRestored
  <2> QED BY <2>1, <2>2
<1> QED BY <1>1, <1>6, <1>7, FollowProceeds, Spared, RetiredStays

\* Renamed aside, the owner file is still there.
LEMMA RenameOwnerRetired ==
  ASSUME TypeOK, Retired, NEW p \in Procs, RenameOwner(p)
  PROVE  Retired'
<1>1. proc[p].pc \in Completing /\ proc[p].pc = "rename_owner" /\ proc \in [Procs -> Proc]
  BY TypeParts DEF Completing, RenameOwner
<1>2. /\ IsRelease(Marker(p)) /\ Marker(p) \in Releases
      /\ proc[p].caller = "orphan" => Marker(p) \notin markers
  <2>1. IsRelease(Marker(p)) /\ Marker(p) \in Paths
    BY <1>1 DEF Retired, Fitted, Removing, Marker, Proc
  <2>2. Marker(p) \in Releases
    BY <2>1 DEF IsRelease, Paths, Reclaims
  <2> QED BY <1>1, <2>1, <2>2 DEF Retired, Orphaned, Serves, Removing
<1>3. UNCHANGED <<markers, quarantine, swept>> /\ owners \cup retired = owners' \cup retired'
  BY DEF RenameOwner, history
<1>4. Leaves(p) /\ Spares
  BY <1>3 DEF Leaves, Spares, Owned
<1>5. Proceeds(p)
  <2>1. "unlink_owner" \in Completing /\ Completable(p, "unlink_owner")
    BY <1>2 DEF Completing, Completable
  <2> QED BY <2>1 DEF RenameOwner, Proceeds
<1> QED BY <1>1, <1>4, <1>5, FollowProceeds, Spared, RetiredStays

\* Whoever removes the owner file of a marker has the marker to unlink next; without the
\* marker there is none that needs the file.
LEMMA UnlinkOwnerRetired ==
  ASSUME TypeOK, Retired, NEW p \in Procs, UnlinkOwner(p)
  PROVE  Retired'
<1>1. proc[p].pc \in Completing /\ proc[p].pc = "unlink_owner" /\ proc \in [Procs -> Proc]
  BY TypeParts DEF Completing, UnlinkOwner
<1>2. PICK k \in Releases : k = Marker(p)
  BY <1>1 DEF Retired, Fitted, Removing, IsRelease, Marker, Proc, Paths, Reclaims
<1>3. k.of = Target(p) /\ \A m \in Releases : m.of = Target(p) => m = k
  BY <1>2, ReleaseOf DEF Target, Marker
<1>4. UNCHANGED <<owners, markers, quarantine, swept>> /\ retired' = retired \ {Target(p)}
  BY DEF UnlinkOwner, history
<1>5. Leaves(p)
  BY <1>4 DEF Leaves
<1>6. Proceeds(p)
  BY DEF UnlinkOwner, Proceeds, Completing, Completable, Removing
<1>7. Follows(p)
  BY <1>1, <1>6, FollowProceeds
<1>8. CASE Target(p) \notin retired \/ k \notin markers
  <2>1. Spares
    BY <1>3, <1>4, <1>8 DEF Spares, Owned
  <2> QED BY <1>1, <1>5, <1>7, <2>1, Spared, RetiredStays
<1>9. CASE Target(p) \in retired /\ k \in markers
  <2>1. proc[p].caller # "orphan"
    BY <1>1, <1>2, <1>9 DEF Retired, Orphaned, Serves, Removing
  <2>2. Goto(p, "unlink_marker")
    BY <1>9, <2>1 DEF UnlinkOwner
  <2>3. proc'[p].pc = "unlink_marker" /\ proc'[p].marker = k
    BY <1>1, <1>2, <2>2 DEF Goto, Proc, Marker
  <2>4. Last(k)'
    BY <2>3 DEF Last, Marker
  <2>5. ASSUME NEW m, Last(m) PROVE Last(m)'
    <3>1. PICK q \in Procs : proc[q].pc = "unlink_marker" /\ Marker(q) = m
      BY <2>5 DEF Last
    <3> QED BY <1>1, <1>7, <3>1 DEF Follows, Alone, Last, Marker
  <2>6. Keeping
    BY <1>3, <1>4, <2>4, <2>5 DEF Keeping, Kept, Owned
  <2> QED BY <1>5, <1>7, <2>6, RetiredStays
<1> QED BY <1>8, <1>9

LEMMA UnlinkMarkerRetired ==
  ASSUME TypeOK, Retired, NEW p \in Procs, UnlinkMarker(p)
  PROVE  Retired'
<1>1. UNCHANGED <<owners, retired, quarantine, swept>> /\ markers' = markers \ {Marker(p)}
  BY DEF UnlinkMarker, history
<1>2. Follows(p)
  BY FollowReturn DEF UnlinkMarker
<1>3. Leaves(p)
  BY <1>1 DEF Leaves
<1>4. ASSUME NEW m \in markers', Last(m) PROVE Last(m)'
  <2>1. PICK q \in Procs : proc[q].pc = "unlink_marker" /\ Marker(q) = m
    BY <1>4 DEF Last
  <2>2. q # p
    BY <1>1, <2>1
  <2> QED BY <1>2, <2>1, <2>2 DEF Follows, Alone, Last, Marker
<1>5. Keeping
  BY <1>1, <1>4 DEF Keeping, Kept, Owned
<1> QED BY <1>2, <1>3, <1>5, RetiredStays

LEMMA UnmovedRetired ==
  ASSUME Retired, UNCHANGED <<proc, owners, retired, markers, quarantine, swept>>
  PROVE  Retired'
BY DEF Retired, Published, Orphaned, Fitted, Retiring, Known, Serves, Passed, Kept, Last,
       Owned, IsRelease, Marker

LEMMA StepRetired ==
  ASSUME TypeOK, Fitting, Retired, NEW p \in Procs, Step(p) \/ Crash(p)
  PROVE  Retired'
<1>1. CASE AcquireStep(p)
  BY <1>1, AcquisitionRetired, VisitRetired, ScavengeRetired, LinkLockRetired, ReclaimRetired,
     RequestRetired DEF AcquireStep
<1>2. CASE SectionStep(p)
  BY <1>2, AcquisitionRetired, PublishRetired DEF SectionStep
<1>3. CASE CompleteStep(p)
  BY <1>3, CompleteRetired, LooksRetired, MovesRetired, RenameOwnerRetired, UnlinkOwnerRetired,
     UnlinkMarkerRetired DEF CompleteStep
<1>4. CASE Crash(p)
  BY <1>4, UnmovedRetired DEF Crash, files, history
<1> QED BY <1>1, <1>2, <1>3, <1>4 DEF Step

LEMMA InitRetired == Init => Retired
<1> SUFFICES ASSUME Init PROVE Retired
  OBVIOUS
<1>1. \A m \in Releases : m \in Paths
  BY DEF Paths
<1>2. \A m \in Releases : ~Known(m)
  BY <1>1 DEF Init, Known, Serves, Completing
<1>3. Published /\ Orphaned /\ Fitted /\ Retiring
  BY <1>2 DEF Init, Published, Orphaned, Known, Fitted, Retiring, Removing, Serves, Completing
<1> QED BY <1>3 DEF Retired

\* A release marker that completeReleaseArtifact would refuse for want of its owner file is
\* about to be unlinked (or its process died about to), or a scavenger deleted the owner
\* file while the marker existed: for any number of processes, acquisitions and deaths.
THEOREM MarkersRetire == Spec => []Retirable
<1>1. Init => TypeOK /\ Fitting /\ Retired
  BY InitHolds, InitRetired DEF Inv
<1>2. TypeOK /\ Fitting /\ Retired /\ [Next]_vars => TypeOK' /\ Fitting' /\ Retired'
  <2> SUFFICES ASSUME TypeOK, Fitting, Retired, [Next]_vars
               PROVE  TypeOK' /\ Fitting' /\ Retired'
    OBVIOUS
  <2>1. CASE Next
    BY <2>1, StepKeeps, StepRetired DEF Next
  <2>2. CASE UNCHANGED vars
    BY <2>2, StutterKeeps, UnmovedRetired DEF vars, files, history
  <2> QED BY <2>1, <2>2
<1>3. Retired => Retirable
  BY DEF Retired, Retiring, Kept, Owned, Last, Retirable, Provenance
<1> QED BY <1>1, <1>2, <1>3, PTL DEF Spec
=============================================================================
