--------------------- MODULE DecompositionJournalProof ----------------------
(***************************************************************************)
(* DecompositionJournal for any number of children, crashes, failing calls *)
(* and foreign commits: it is typed; its reports are true; it admits a     *)
(* dispatch only of a whole old tree; it refuses to recover for the four   *)
(* reasons it names; and it implements AtomicPublication, each step of it  *)
(* being a step of the abstract transaction or none.                       *)
(*                                                                         *)
(* The argument is about places.  Before the branch can move, the          *)
(* finalizer has written the whole tree (Published, at the places in       *)
(* Whole); after it moved, no file operation starts any more, so the tree  *)
(* stays whole at every place and through every stop.  While it has not    *)
(* moved, recovery reaches the places in Rolled only with the old tree     *)
(* restored.  What recovery may rely on after a stop anywhere is Kept: a   *)
(* missing parent has its backup, a child is new or absent.  Purpose and   *)
(* Progress carry these through the steps of a file operation: what it is  *)
(* for, and what it has left at its path when its next step is due.        *)
(***************************************************************************)
EXTENDS DecompositionJournal, TLAPS

-----------------------------------------------------------------------------
(* The inductive invariant.                                                *)

\* The places of the process.  Until it reads a journal, or has none, it is open.
Open == {"resolve", "drained", "admitted"}
Forward == {"plan", "wrote", "specs", "baseline", "object", "lock", "copy", "fill", "cas"}
Whole == {"baseline", "object", "lock", "copy", "fill", "cas"}
Refuted == {"unlock", "discard"}
Moved == {"publish", "free", "complete", "outbox", "finish", "close", "notice"}
Rolled == {"reunlock", "close", "notice", "remove"}

\* A journal stands from the plan to the end, and it names the commit before the branch can move.
Fencing ==
  /\ pc \in Open => journal = None
  /\ pc \notin Open \cup {"idle"} => journal # None
  /\ journal # None => journal.base <= head.n /\ (head.tx => journal.sha)
  /\ pc \in {"lock", "copy", "fill", "cas"} => journal.sha
  /\ pc \in Forward \cup Refuted \cup {"admitted"} => ~head.tx
  /\ pc \in Moved => head.tx

\* Why the process is where it is, and what it told its caller.
Answering ==
  /\ pc \in Forward \cup {"observe"} => goal = "finalize"
  /\ pc # "idle" => goal \in Goals
  /\ goal = "finalize" => report = None
  /\ goal = "undo" => ~head.tx
  /\ goal = "known" => head.tx
  /\ report = "committed" => head.tx
  /\ report = "failed" => ~head.tx

\* The index follows the branch, under its lock.
Indexed ==
  /\ ~head.tx => index = "base" /\ lock \in {None, "base"}
  /\ head.tx =>
       \/ index = "base" /\ lock = "base" /\ candidate = "target"
       \/ index = "target" /\ candidate = None /\ lock \in {None, "old", "target"}
  /\ pc \in {"copy", "fill", "cas", "publish"} => lock = "base"
  /\ pc \in {"cas", "publish"} => candidate = "target"
  /\ pc \in {"free", "reunlock"} => candidate = None
  /\ pc \in {"complete", "outbox", "finish", "check", "temps", "backup", "files",
             "close", "notice", "remove"} => lock = None /\ candidate = None
  /\ journal = None => lock = None /\ candidate = None

\* The status is announced after the branch moved and before the journal goes.
Announced ==
  /\ ~head.tx => ~outbox /\ ~db
  /\ head.tx /\ (journal = None \/ pc \in {"finish", "remove"}) => outbox \/ db
  /\ pc = "drained" => db

\* An operation under way: what it is for, and what it left so far.
Purpose ==
  op # None =>
    /\ pc \in {"wrote", "specs", "backup", "files"}
    /\ op.kind \in {"replace", "restore"} => op.path = Parent
    /\ op.path # Parent => op.want = "target"
    /\ pc = "wrote" => op.path = Parent /\ op.want = "target" /\ op.kind \in {"replace", "restore"}
    /\ pc = "specs" => op.path # Parent /\ op.kind \in {"create", "withdraw"}
    /\ pc = "backup" => op.path = Parent /\ op.kind \in {"create", "withdraw"} /\ backup # None
    /\ pc = "files" /\ op.path = Parent => op.kind \in {"replace", "restore"}
    /\ pc = "files" /\ op.path # Parent => op.kind = "remove"
    /\ op.step \in {"claim", "quarantine", "drop"} => op.kind = "replace"
    /\ op.step \in {"relink", "release"} => op.kind = "restore"
    /\ op.step \in {"open", "fill", "link", "unlink", "sync", "aside", "back", "forget"} =>
         op.kind \in {"replace", "create"}
    /\ op.step \in {"take", "discard"} => op.kind \in {"remove", "restore", "withdraw"}

Progress ==
  op # None =>
    /\ \A p \in Paths \ {op.path} : temps[p] = {}
    /\ op.step \in {"open", "sync", "take"} => temps[op.path] = {}
    /\ op.step = "fill" => temps[op.path] \subseteq {Sole("partial")}
    /\ op.step \in {"claim", "quarantine", "link", "discard"} =>
         temps[op.path] \subseteq {Sole(op.want)}
    /\ op.step = "drop" => \A t \in temps[op.path] : t = Sole(op.want) \/ t.link = "backup"
    /\ op.step = "unlink" => temps[op.path] \subseteq {Dest(op.want)}
    /\ op.step \in {"aside", "back", "forget"} =>
         temps[op.path] \subseteq {Dest(op.want), Aside(op.want)}
    /\ op.kind = "create" /\ op.step \in {"open", "fill", "link"} => files[op.path] = None
    /\ op.kind = "replace" /\ op.step \in {"open", "fill", "claim", "quarantine"} =>
         files[Parent] # None
    /\ op.kind = "replace"
       /\ op.step \in {"quarantine", "drop", "link", "unlink", "sync", "aside", "back", "forget"} =>
         backup # None
    /\ op.kind = "restore" /\ op.step # "clean" => backup # None
    /\ op.step \in {"unlink", "sync"} => files[op.path] = op.want
    /\ op.step = "release" => files[Parent] # None

\* The tree of the new commit, complete; and the old one.
Published == op = None /\ backup = None /\ \A p \in Paths : files[p] = "target" /\ temps[p] = {}
Untouched ==
  /\ op = None /\ backup = None /\ files[Parent] = "orig"
  /\ \A p \in Paths : temps[p] = {} /\ (p # Parent => files[p] = None)

\* What the files are at each place.
Placed ==
  /\ head.tx \/ pc \in Whole => Published
  /\ pc = "plan" \/ (~head.tx /\ (journal = None \/ pc \in Rolled)) => Untouched
  /\ pc = "wrote" /\ op = None => files[Parent] = "target"
  /\ pc = "specs" => files[Parent] = "target"
  /\ pc \in {"wrote", "specs", "files"} /\ op = None => backup = None
  /\ pc = "files" /\ op # None /\ op.kind = "remove" => backup = None
  /\ pc = "specs" => backup = None
  /\ pc \in {"wrote", "specs", "backup", "files"} /\ op = None => \A p \in Paths : temps[p] = {}

\* What survives any stop: a missing parent has its backup, a child is new or absent, a
\* whole temporary file beside it means that it was not linked yet.
Kept ==
  /\ files[Parent] = None => backup # None
  /\ \A c \in Children : files[c] \in {None, "target"}
  /\ \A c \in Children : files[c] # None => Sole("target") \notin temps[c]
  /\ backup # None /\ backup.link = "temp" => \E t \in temps[Parent] : t.link = "backup"
  /\ pc = "temps" => BackupFits

\* A file step depends on the first; the second says what the other steps need besides.
Sound == TypeOK /\ Fencing /\ Purpose /\ Progress /\ Placed /\ Kept
Rest == Fencing /\ Answering /\ Indexed /\ Announced /\ RefusalExplained
Inv == Sound /\ Rest

-----------------------------------------------------------------------------
(* The records.                                                            *)

\* Temporary files, told apart by what they hold and what else links them.
LEMMA TempFacts ==
  /\ \A b \in Bytes \cup {"partial"} :
       Sole(b) \in Temp /\ Sole(b).bytes = b /\ Sole(b).link = "sole"
  /\ \A b \in Bytes \cup {"partial"} :
       Dest(b) \in Temp /\ Dest(b).bytes = b /\ Dest(b).link = "dest"
  /\ \A b \in Bytes \cup {"partial"} :
       Aside(b) \in Temp /\ Aside(b).bytes = b /\ Aside(b).link = "aside"
  /\ \A b \in Bytes : LET t == [bytes |-> b, link |-> "backup"]
                      IN  t \in Temp /\ t.bytes = b /\ t.link = "backup"
  /\ Sole("partial") # Sole("target") /\ Sole("orig") # Sole("target")
  BY DEF Temp, Sole, Dest, Aside, Bytes

LEMMA TempFields ==
  ASSUME NEW t \in Temp
  PROVE  /\ t.bytes \in Bytes \cup {"partial"} /\ t.link \in {"sole", "dest", "backup", "aside"}
         /\ t.bytes = "target" /\ t.link = "sole" => t = Sole("target")
  BY DEF Temp, Sole

LEMMA JournalFacts ==
  ASSUME NEW j \in Journal
  PROVE  /\ j # None
         /\ j.phase \in Phases /\ j.base \in 0..MaxCommits /\ j.sha \in BOOLEAN
         /\ \A p \in Phases : LET k == [j EXCEPT !.phase = p]
                              IN  k \in Journal /\ k.base = j.base /\ k.sha = j.sha
         /\ LET k == [j EXCEPT !.sha = TRUE]
            IN  k \in Journal /\ k.base = j.base /\ k.sha = TRUE
<1>1. j # None
  BY NoneAssumption
<1> QED BY <1>1 DEF Journal

LEMMA BackupFacts ==
  ASSUME NEW b \in Backup
  PROVE  /\ b # None /\ b.bytes \in Bytes
         /\ b.link \in {"sole", "dest", "temp"}
         /\ \A l \in {"sole", "dest", "temp"} :
              LET c == [b EXCEPT !.link = l]
              IN  c \in Backup /\ c.link = l /\ c.bytes = b.bytes
<1>1. b # None
  BY NoneAssumption
<1> QED BY <1>1 DEF Backup

LEMMA OperationFacts ==
  ASSUME NEW o \in Operation
  PROVE  /\ o # None
         /\ o.kind \in Kinds /\ o.path \in Paths /\ o.want \in Bytes /\ o.step \in Steps
         /\ \A s \in Steps :
              LET r == [o EXCEPT !.step = s]
              IN  r \in Operation /\ r.kind = o.kind /\ r.path = o.path /\ r.want = o.want
                  /\ r.step = s
         /\ \A k \in Kinds, s \in Steps :
              LET r == [o EXCEPT !.kind = k, !.step = s]
              IN  r \in Operation /\ r.kind = k /\ r.path = o.path /\ r.want = o.want
                  /\ r.step = s
<1>1. o # None
  BY NoneAssumption
<1> QED BY <1>1 DEF Operation

-----------------------------------------------------------------------------
(* What the pieces of a file step do.                                      *)

\* The operation goes on, or ends by raising, which undoes a finalization.
Continues(k, s) ==
  /\ op' \in Operation /\ op'.kind = k /\ op'.path = op.path /\ op'.want = op.want
  /\ op'.step = s

LEMMA GoEffect ==
  ASSUME op \in Operation, NEW s \in Steps, Go(s)
  PROVE  Continues(op.kind, s)
  BY OperationFacts DEF Go, Continues

LEMMA SwitchEffect ==
  ASSUME op \in Operation, NEW k \in Kinds, NEW s \in Steps,
         op' = [op EXCEPT !.kind = k, !.step = s]
  PROVE  Continues(k, s)
<1> DEFINE r == [op EXCEPT !.kind = k, !.step = s]
<1>1. r \in Operation
  BY OperationFacts, Zenon
<1>2. r.kind = k /\ r.path = op.path /\ r.want = op.want /\ r.step = s
  BY DEF Operation
<1>3. op' = r
  OBVIOUS
<1> HIDE DEF r
<1> QED BY <1>1, <1>2, <1>3 DEF Continues

\* One path's temporary files change.
Leaves(p, S) ==
  /\ temps' \in [Paths -> SUBSET Temp] /\ temps'[p] = S
  /\ \A q \in Paths \ {p} : temps'[q] = temps[q]

LEMMA LeavesEffect ==
  ASSUME TypeOK, NEW p \in Paths, NEW S \in SUBSET Temp, temps' = [temps EXCEPT ![p] = S]
  PROVE  Leaves(p, S)
  BY DEF TypeOK, Leaves

\* One path's bytes change.
Holds(p, b) ==
  /\ files' \in [Paths -> Bytes \cup {None}] /\ files'[p] = b
  /\ \A q \in Paths \ {p} : files'[q] = files[q]

LEMMA HoldsEffect ==
  ASSUME TypeOK, NEW p \in Paths, NEW b \in Bytes \cup {None}, files' = [files EXCEPT ![p] = b]
  PROVE  Holds(p, b)
  BY DEF TypeOK, Holds

\* An operation under way is on one of the paths.
LEMMA Underway ==
  ASSUME TypeOK, op # None
  PROVE  /\ op \in Operation /\ op.kind \in Kinds /\ op.path \in Paths /\ op.want \in Bytes
         /\ op.step \in Steps
         /\ temps[op.path] \in SUBSET Temp /\ files[op.path] \in Bytes \cup {None}
         /\ Parent \in Paths /\ temps[Parent] \in SUBSET Temp
         /\ files[Parent] \in Bytes \cup {None}
  BY OperationFacts DEF TypeOK, Paths

-----------------------------------------------------------------------------
(* The file steps.                                                         *)

\* Raising ends the operation.
Raises ==
  /\ op' = None
  /\ pc \in {"wrote", "specs"} => pc' = "judge" /\ goal' = "undo"
  /\ pc \notin {"wrote", "specs"} => pc' = "threw" /\ goal' = goal

LEMMA RaiseEffect == Raise => Raises
  BY DEF Raise, Raises

\* No file step touches the branch, the index, the journal or the answers.
LEMMA FileFrame ==
  ASSUME Purpose, FileStep
  PROVE  /\ op # None /\ UNCHANGED rest
         /\ faults' = faults \/ (faults < MaxFaults /\ faults' = faults + 1)
         /\ UNCHANGED <<pc, goal>> \/ Raises
<1> USE DEF At, calm, rest
<1>1. CASE OpenTemp \/ FillTemp \/ ClaimBackup \/ QuarantineOld \/ DropQuarantine \/ LinkTemp
           \/ UnlinkTemp \/ SyncFile \/ TakeFile \/ RelinkBackup \/ ReleaseBackup
           \/ SetAside \/ PutBack \/ ForgetAside
  BY <1>1 DEF OpenTemp, FillTemp, ClaimBackup, QuarantineOld, DropQuarantine, LinkTemp,
              UnlinkTemp, SyncFile, TakeFile, RelinkBackup, ReleaseBackup,
              SetAside, PutBack, ForgetAside
<1>2. CASE DiscardFile
  <2>1. op # None /\ UNCHANGED <<rest, faults>>
    BY <1>2 DEF DiscardFile
  <2>2. op.kind \in {"remove", "restore", "withdraw"}
    BY <1>2 DEF DiscardFile, Purpose
  <2>3. UNCHANGED <<pc, goal>> \/ Raise
    BY <1>2, <2>2 DEF DiscardFile
  <2> QED BY <2>1, <2>3, RaiseEffect
<1>3. CASE CleanTemp
  BY <1>3, RaiseEffect DEF CleanTemp
<1>4. CASE FailFile
  <2>1. op # None /\ UNCHANGED rest /\ faults < MaxFaults /\ faults' = faults + 1
    BY <1>4 DEF FailFile
  <2>2. UNCHANGED <<pc, goal>> \/ Raise
    BY <1>4 DEF FailFile
  <2> QED BY <2>1, <2>2, RaiseEffect
<1> QED BY <1>1, <1>2, <1>3, <1>4 DEF FileStep

LEMMA OpenTempEffect ==
  ASSUME TypeOK, OpenTemp
  PROVE  /\ op.step = "open" /\ Continues(op.kind, "fill") /\ UNCHANGED <<files, backup, pc>>
         /\ Leaves(op.path, temps[op.path] \cup {Sole("partial")})
<1>1. op # None /\ op.step = "open" /\ Go("fill") /\ UNCHANGED <<files, backup, pc>>
      /\ temps' = [temps EXCEPT ![op.path] = temps[op.path] \cup {Sole("partial")}]
  BY DEF OpenTemp, At, SetTemps, calm
<1>2. temps[op.path] \cup {Sole("partial")} \in SUBSET Temp
  BY <1>1, Underway, TempFacts
<1> QED BY <1>1, <1>2, Underway, GoEffect, LeavesEffect DEF Steps

LEMMA FillTempEffect ==
  ASSUME TypeOK, FillTemp
  PROVE  /\ op.step = "fill" /\ UNCHANGED <<files, backup, pc>>
         /\ Continues(op.kind, IF op.kind = "replace" THEN "claim" ELSE "link")
         /\ Leaves(op.path, (temps[op.path] \ {Sole("partial")}) \cup {Sole(op.want)})
<1> DEFINE s == IF op.kind = "replace" THEN "claim" ELSE "link"
           S == (temps[op.path] \ {Sole("partial")}) \cup {Sole(op.want)}
<1>1. op # None /\ op.step = "fill" /\ Go(s) /\ UNCHANGED <<files, backup, pc>>
      /\ temps' = [temps EXCEPT ![op.path] = S]
  BY DEF FillTemp, At, SetTemps, calm
<1>2. S \in SUBSET Temp
  BY <1>1, Underway, TempFacts
<1>3. s \in Steps
  BY DEF Steps
<1> HIDE DEF s, S
<1>4. Continues(op.kind, s) /\ Leaves(op.path, S)
  BY <1>1, <1>2, <1>3, Underway, GoEffect, LeavesEffect
<1> QED BY <1>1, <1>4, Zenon DEF s, S

LEMMA ClaimBackupEffect ==
  ASSUME TypeOK, ClaimBackup, files[Parent] # None
  PROVE  /\ op.step = "claim" /\ Continues(op.kind, "quarantine")
         /\ backup' \in Backup /\ backup'.link = "dest"
         /\ UNCHANGED <<files, temps, pc>>
<1>1. op # None /\ op.step = "claim" /\ Go("quarantine") /\ UNCHANGED <<files, temps, pc>>
      /\ backup' = [bytes |-> files[Parent], link |-> "dest"]
  BY DEF ClaimBackup, At, calm
<1>2. files[Parent] \in Bytes
  BY <1>1, Underway
<1>3. backup' \in Backup /\ backup'.link = "dest"
  BY <1>1, <1>2 DEF Backup
<1> QED BY <1>1, <1>3, Underway, GoEffect DEF Steps

LEMMA QuarantineOldEffect ==
  ASSUME TypeOK, QuarantineOld, op.path = Parent, files[Parent] # None, backup # None
  PROVE  /\ op.step = "quarantine" /\ Continues(op.kind, "drop")
         /\ Holds(Parent, None)
         /\ \E t \in Temp : t.link = "backup" /\ Leaves(Parent, temps[Parent] \cup {t})
         /\ backup' \in Backup /\ UNCHANGED pc
<1> DEFINE t == [bytes |-> files[Parent], link |-> "backup"]
<1>1. op # None /\ op.step = "quarantine" /\ Go("drop") /\ UNCHANGED pc
      /\ temps' = [temps EXCEPT ![Parent] = temps[Parent] \cup {t}]
      /\ files' = [files EXCEPT ![Parent] = None]
      /\ backup' = [backup EXCEPT !.link = "temp"]
  BY DEF QuarantineOld, At, SetTemps, Put, calm
<1>2. t \in Temp /\ t.link = "backup"
  BY <1>1, Underway, TempFacts
<1>3. backup' \in Backup
  BY <1>1, BackupFacts DEF TypeOK
<1> HIDE DEF t
<1>4. Leaves(Parent, temps[Parent] \cup {t})
  BY <1>1, <1>2, Underway, LeavesEffect
<1>5. Holds(Parent, None)
  BY <1>1, Underway, HoldsEffect
<1> QED BY <1>1, <1>2, <1>3, <1>4, <1>5, Underway, GoEffect DEF Steps

LEMMA DropQuarantineEffect ==
  ASSUME TypeOK, DropQuarantine, op.path = Parent, backup # None
  PROVE  /\ op.step = "drop" /\ Continues(op.kind, "link")
         /\ Leaves(Parent, {t \in temps[Parent] : t.link # "backup"})
         /\ backup' \in Backup /\ backup'.link = "sole" /\ UNCHANGED <<files, pc>>
<1>1. op # None /\ op.step = "drop" /\ Go("link") /\ UNCHANGED <<files, pc>>
      /\ temps' = [temps EXCEPT ![Parent] = {t \in temps[Parent] : t.link # "backup"}]
      /\ backup' = [backup EXCEPT !.link = "sole"]
  BY DEF DropQuarantine, At, SetTemps, calm
<1>2. backup' \in Backup /\ backup'.link = "sole"
  <2>1. backup \in Backup
    BY DEF TypeOK
  <2> QED BY <1>1, <2>1, BackupFacts
<1>3. {t \in temps[Parent] : t.link # "backup"} \in SUBSET Temp
  BY <1>1, Underway
<1> QED BY <1>1, <1>2, <1>3, Underway, GoEffect, LeavesEffect DEF Steps

LEMMA LinkTempEffect ==
  ASSUME TypeOK, LinkTemp
  PROVE  /\ op.step = "link" /\ Continues(op.kind, "unlink") /\ UNCHANGED <<backup, pc>>
         /\ Holds(op.path, op.want)
         /\ Leaves(op.path, (temps[op.path] \ {Sole(op.want)}) \cup {Dest(op.want)})
<1> DEFINE S == (temps[op.path] \ {Sole(op.want)}) \cup {Dest(op.want)}
<1>1. op # None /\ op.step = "link" /\ Go("unlink") /\ UNCHANGED <<backup, pc>>
      /\ temps' = [temps EXCEPT ![op.path] = S]
      /\ files' = [files EXCEPT ![op.path] = op.want]
  BY DEF LinkTemp, At, SetTemps, Put, calm
<1>2. S \in SUBSET Temp
  BY <1>1, Underway, TempFacts
<1> HIDE DEF S
<1>3. Holds(op.path, op.want)
  BY <1>1, Underway, HoldsEffect
<1>4. Leaves(op.path, S)
  BY <1>1, <1>2, Underway, LeavesEffect
<1> QED BY <1>1, <1>3, <1>4, Underway, GoEffect DEF Steps, S

LEMMA UnlinkTempEffect ==
  ASSUME TypeOK, UnlinkTemp
  PROVE  /\ op.step = "unlink" /\ Continues(op.kind, "sync") /\ UNCHANGED <<files, backup, pc>>
         /\ Leaves(op.path, temps[op.path] \ {Dest(op.want)})
<1>1. op # None /\ op.step = "unlink" /\ Go("sync") /\ UNCHANGED <<files, backup, pc>>
      /\ temps' = [temps EXCEPT ![op.path] = temps[op.path] \ {Dest(op.want)}]
  BY DEF UnlinkTemp, At, SetTemps, calm
<1>2. temps[op.path] \ {Dest(op.want)} \in SUBSET Temp
  BY <1>1, Underway
<1> QED BY <1>1, <1>2, Underway, GoEffect, LeavesEffect DEF Steps

LEMMA SyncFileEffect ==
  ASSUME SyncFile
  PROVE  /\ op.step = "sync" /\ op' = None /\ UNCHANGED <<files, temps, pc>>
         /\ backup' = IF op.kind = "replace" THEN None ELSE backup
  BY DEF SyncFile, At, calm

LEMMA TakeFileEffect ==
  ASSUME TypeOK, TakeFile
  PROVE  /\ op.step = "take" /\ Continues(op.kind, "discard") /\ UNCHANGED <<backup, pc>>
         /\ Holds(op.path, None)
         /\ Leaves(op.path, temps[op.path] \cup {Sole(op.want)})
<1>1. op # None /\ op.step = "take" /\ Go("discard") /\ UNCHANGED <<backup, pc>>
      /\ temps' = [temps EXCEPT ![op.path] = temps[op.path] \cup {Sole(op.want)}]
      /\ files' = [files EXCEPT ![op.path] = None]
  BY DEF TakeFile, At, SetTemps, Put, calm
<1>2. temps[op.path] \cup {Sole(op.want)} \in SUBSET Temp
  BY <1>1, Underway, TempFacts
<1>3. Holds(op.path, None)
  BY <1>1, Underway, HoldsEffect
<1>4. Leaves(op.path, temps[op.path] \cup {Sole(op.want)})
  BY <1>1, <1>2, Underway, LeavesEffect
<1> QED BY <1>1, <1>3, <1>4, Underway, GoEffect DEF Steps

LEMMA DiscardFileEffect ==
  ASSUME TypeOK, DiscardFile, op.kind \in {"remove", "restore", "withdraw"}
  PROVE  /\ op.step = "discard" /\ UNCHANGED <<files, backup>>
         /\ Leaves(op.path, temps[op.path] \ {Sole(op.want)})
         /\ \/ op.kind = "remove" /\ op' = None /\ UNCHANGED pc
            \/ op.kind = "restore" /\ Continues("restore", "relink") /\ UNCHANGED pc
            \/ op.kind = "withdraw" /\ Raises
<1>1. op # None /\ op.step = "discard" /\ UNCHANGED <<files, backup>>
      /\ temps' = [temps EXCEPT ![op.path] = temps[op.path] \ {Sole(op.want)}]
  BY DEF DiscardFile, At, SetTemps, rest
<1>2. temps[op.path] \ {Sole(op.want)} \in SUBSET Temp
  BY <1>1, Underway
<1>3. CASE op.kind = "remove"
  BY <1>1, <1>2, <1>3, Underway, LeavesEffect DEF DiscardFile
<1>4. CASE op.kind = "restore"
  <2>1. Go("relink") /\ UNCHANGED pc
    BY <1>4 DEF DiscardFile
  <2> QED BY <1>1, <1>2, <1>4, <2>1, Underway, GoEffect, LeavesEffect DEF Steps
<1>5. CASE op.kind = "withdraw"
  <2>1. Raise
    BY <1>5 DEF DiscardFile
  <2> QED BY <1>1, <1>2, <1>5, <2>1, Underway, RaiseEffect, LeavesEffect
<1> QED BY <1>3, <1>4, <1>5

LEMMA RelinkBackupEffect ==
  ASSUME TypeOK, RelinkBackup, backup # None
  PROVE  /\ op.step = "relink" /\ Continues(op.kind, "release") /\ UNCHANGED <<temps, pc>>
         /\ backup.bytes \in Bytes /\ Holds(op.path, backup.bytes)
         /\ backup' \in Backup /\ backup'.link = "dest"
<1>1. op # None /\ op.step = "relink" /\ Go("release") /\ UNCHANGED <<temps, pc>>
      /\ files' = [files EXCEPT ![op.path] = backup.bytes]
      /\ backup' = [backup EXCEPT !.link = "dest"]
  BY DEF RelinkBackup, At, Put, calm
<1>2. backup \in Backup
  BY DEF TypeOK
<1>3. backup.bytes \in Bytes /\ backup' \in Backup /\ backup'.link = "dest"
  BY <1>1, <1>2, BackupFacts
<1>4. Holds(op.path, backup.bytes)
  BY <1>1, <1>3, Underway, HoldsEffect
<1> QED BY <1>1, <1>3, <1>4, Underway, GoEffect DEF Steps

LEMMA ReleaseBackupEffect ==
  ASSUME TypeOK, ReleaseBackup
  PROVE  /\ op.step = "release" /\ Continues(op.kind, "clean") /\ UNCHANGED <<files, temps, pc>>
         /\ backup' = None
<1>1. op # None /\ op.step = "release" /\ Go("clean") /\ UNCHANGED <<files, temps, pc>>
      /\ backup' = None
  BY DEF ReleaseBackup, At, calm
<1> QED BY <1>1, Underway, GoEffect DEF Steps

LEMMA SetAsideEffect ==
  ASSUME TypeOK, SetAside
  PROVE  /\ op.step = "aside" /\ Continues(op.kind, "back") /\ UNCHANGED <<backup, pc>>
         /\ Holds(op.path, None)
         /\ Leaves(op.path, temps[op.path] \cup {Aside(op.want)})
<1>1. op # None /\ op.step = "aside" /\ Go("back") /\ UNCHANGED <<backup, pc>>
      /\ temps' = [temps EXCEPT ![op.path] = temps[op.path] \cup {Aside(op.want)}]
      /\ files' = [files EXCEPT ![op.path] = None]
  BY DEF SetAside, At, SetTemps, Put, calm
<1>2. temps[op.path] \cup {Aside(op.want)} \in SUBSET Temp
  BY <1>1, Underway, TempFacts
<1>3. Holds(op.path, None)
  BY <1>1, Underway, HoldsEffect
<1>4. Leaves(op.path, temps[op.path] \cup {Aside(op.want)})
  BY <1>1, <1>2, Underway, LeavesEffect
<1> QED BY <1>1, <1>3, <1>4, Underway, GoEffect DEF Steps

LEMMA PutBackEffect ==
  ASSUME TypeOK, PutBack
  PROVE  /\ op.step = "back" /\ Continues(op.kind, "forget") /\ UNCHANGED <<temps, backup, pc>>
         /\ Holds(op.path, op.want)
<1>1. op # None /\ op.step = "back" /\ Go("forget") /\ UNCHANGED <<temps, backup, pc>>
      /\ files' = [files EXCEPT ![op.path] = op.want]
  BY DEF PutBack, At, Put, calm
<1>2. Holds(op.path, op.want)
  BY <1>1, Underway, HoldsEffect
<1> QED BY <1>1, <1>2, Underway, GoEffect DEF Steps

LEMMA ForgetAsideEffect ==
  ASSUME TypeOK, ForgetAside
  PROVE  /\ op.step = "forget" /\ Continues(op.kind, "clean") /\ UNCHANGED <<files, backup, pc>>
         /\ Leaves(op.path, temps[op.path] \ {Aside(op.want)})
<1>1. op # None /\ op.step = "forget" /\ Go("clean") /\ UNCHANGED <<files, backup, pc>>
      /\ temps' = [temps EXCEPT ![op.path] = temps[op.path] \ {Aside(op.want)}]
  BY DEF ForgetAside, At, SetTemps, calm
<1>2. temps[op.path] \ {Aside(op.want)} \in SUBSET Temp
  BY <1>1, Underway
<1> QED BY <1>1, <1>2, Underway, GoEffect, LeavesEffect DEF Steps

LEMMA CleanTempEffect ==
  ASSUME TypeOK, CleanTemp
  PROVE  /\ op.step = "clean" /\ Raises /\ UNCHANGED <<files, backup>>
         /\ Leaves(op.path, {t \in temps[op.path] : t.link \in {"backup", "aside"}})
<1>1. op # None /\ op.step = "clean" /\ Raise /\ UNCHANGED <<files, backup>>
      /\ temps' = [temps EXCEPT ![op.path] =
                    {t \in temps[op.path] : t.link \in {"backup", "aside"}}]
  BY DEF CleanTemp, At, SetTemps, rest
<1>2. {t \in temps[op.path] : t.link \in {"backup", "aside"}} \in SUBSET Temp
  BY <1>1, Underway
<1> QED BY <1>1, <1>2, Underway, RaiseEffect, LeavesEffect

\* A failing step raises, cleans up, or turns to undoing what is already visible.
LEMMA FailFileEffect ==
  ASSUME TypeOK, FailFile
  PROVE  /\ op # None /\ UNCHANGED <<files, temps, backup>>
         /\ \/ Raises
            \/ UNCHANGED pc /\ Continues(op.kind, "clean")
            \/ op.step = "unlink" /\ UNCHANGED pc /\ Continues(op.kind, "aside")
            \/ op.kind = "replace" /\ op.step = "link" /\ UNCHANGED pc
               /\ Continues("restore", "relink")
            \/ op.kind = "replace" /\ op.step = "sync" /\ UNCHANGED pc
               /\ Continues("restore", "take")
            \/ op.kind # "replace" /\ op.step = "sync" /\ UNCHANGED pc
               /\ Continues("withdraw", "take")
<1>1. op \in Operation /\ UNCHANGED <<files, temps, backup>>
  BY Underway DEF FailFile
<1>2. CASE Raise
  BY <1>1, <1>2, RaiseEffect, OperationFacts, ZenonT(60)
<1>3. CASE Go("clean") /\ UNCHANGED pc
  BY <1>1, <1>3, GoEffect, OperationFacts, ZenonT(60) DEF Steps
<1>4. CASE op.step = "link" /\ op.kind = "replace" /\ UNCHANGED pc
           /\ op' = [op EXCEPT !.kind = "restore", !.step = "relink"]
  <2>1. Continues("restore", "relink")
    BY <1>1, <1>4, SwitchEffect DEF Kinds, Steps
  <2> QED BY <1>1, <1>4, <2>1, OperationFacts
<1>5. CASE op.step = "sync" /\ UNCHANGED pc
           /\ op' = [op EXCEPT !.kind = IF op.kind = "replace" THEN "restore" ELSE "withdraw",
                               !.step = "take"]
  <2>1. CASE op.kind = "replace"
    <3>1. Continues("restore", "take")
      BY <1>1, <1>5, <2>1, SwitchEffect DEF Kinds, Steps
    <3> QED BY <1>1, <1>5, <2>1, <3>1, OperationFacts
  <2>2. CASE op.kind # "replace"
    <3>1. Continues("withdraw", "take")
      BY <1>1, <1>5, <2>2, SwitchEffect DEF Kinds, Steps
    <3> QED BY <1>1, <1>5, <2>2, <3>1, OperationFacts
  <2> QED BY <2>1, <2>2
<1>6. CASE op.step = "unlink" /\ UNCHANGED pc /\ Go("aside")
  BY <1>1, <1>6, GoEffect, OperationFacts DEF Steps
<1> QED BY <1>2, <1>3, <1>4, <1>5, <1>6 DEF FailFile

-----------------------------------------------------------------------------
(* A file step keeps the invariant.                                        *)

\* What the operation under way says about its steps.
LEMMA AtStep ==
  ASSUME Purpose, Progress, op # None
  PROVE  /\ op.step \in {"claim", "quarantine", "drop"} => op.kind = "replace" /\ op.path = Parent
         /\ op.step \in {"relink", "release"} => op.kind = "restore" /\ op.path = Parent
         /\ op.step \in {"claim", "quarantine"} => files[Parent] # None
         /\ op.step \in {"quarantine", "drop", "relink"} => backup # None
         /\ op.step \in {"take", "discard"} => op.kind \in {"remove", "restore", "withdraw"}
  BY DEF Purpose, Progress

\* The files keep their types,
LEMMA FileTypes ==
  ASSUME Sound, FileStep
  PROVE  /\ op' \in {None} \cup Operation /\ backup' \in {None} \cup Backup
         /\ files' \in [Paths -> Bytes \cup {None}] /\ temps' \in [Paths -> SUBSET Temp]
<1> USE DEF Sound
<1>0. op # None
  BY FileFrame
<1>1. CASE OpenTemp
  BY <1>0, <1>1, AtStep, Underway, OpenTempEffect DEF At, TypeOK, Continues, Leaves, Holds, Raises
<1>2. CASE FillTemp
  BY <1>0, <1>2, AtStep, Underway, FillTempEffect DEF At, TypeOK, Continues, Leaves, Holds, Raises
<1>3. CASE ClaimBackup
  BY <1>0, <1>3, AtStep, Underway, ClaimBackupEffect DEF ClaimBackup, At, TypeOK, Continues,
      Leaves, Holds, Raises
<1>4. CASE QuarantineOld
  BY <1>0, <1>4, AtStep, Underway, QuarantineOldEffect DEF QuarantineOld, At, TypeOK, Continues,
      Leaves, Holds, Raises
<1>5. CASE DropQuarantine
  BY <1>0, <1>5, AtStep, Underway, DropQuarantineEffect DEF DropQuarantine, At, TypeOK, Continues,
      Leaves, Holds, Raises
<1>6. CASE LinkTemp
  BY <1>0, <1>6, AtStep, Underway, LinkTempEffect DEF At, TypeOK, Continues, Leaves, Holds, Raises
<1>7. CASE UnlinkTemp
  BY <1>0, <1>7, AtStep, Underway, UnlinkTempEffect DEF At, TypeOK, Continues, Leaves, Holds,
      Raises
<1>8. CASE SyncFile
  BY <1>0, <1>8, AtStep, Underway, SyncFileEffect DEF At, TypeOK, Continues, Leaves, Holds, Raises
<1>9. CASE TakeFile
  BY <1>0, <1>9, AtStep, Underway, TakeFileEffect DEF At, TypeOK, Continues, Leaves, Holds, Raises
<1>10. CASE DiscardFile
  BY <1>0, <1>10, AtStep, Underway, DiscardFileEffect DEF DiscardFile, At, TypeOK, Continues,
      Leaves, Holds, Raises
<1>11. CASE RelinkBackup
  BY <1>0, <1>11, AtStep, Underway, RelinkBackupEffect DEF RelinkBackup, At, TypeOK, Continues,
      Leaves, Holds, Raises
<1>12. CASE ReleaseBackup
  BY <1>0, <1>12, AtStep, Underway, ReleaseBackupEffect DEF At, TypeOK, Continues, Leaves, Holds,
      Raises
<1>13. CASE CleanTemp
  BY <1>0, <1>13, AtStep, Underway, CleanTempEffect DEF At, TypeOK, Continues, Leaves, Holds,
      Raises
<1>14. CASE FailFile
  BY <1>0, <1>14, AtStep, Underway, FailFileEffect DEF At, TypeOK, Continues, Leaves, Holds,
      Raises
<1>31. CASE SetAside
  BY <1>0, <1>31, AtStep, Underway, SetAsideEffect DEF At, TypeOK, Continues, Leaves, Holds,
      Raises
<1>32. CASE PutBack
  BY <1>0, <1>32, AtStep, Underway, PutBackEffect DEF At, TypeOK, Continues, Leaves, Holds,
      Raises
<1>33. CASE ForgetAside
  BY <1>0, <1>33, AtStep, Underway, ForgetAsideEffect DEF At, TypeOK, Continues, Leaves, Holds,
      Raises
<1> QED BY <1>1, <1>2, <1>3, <1>4, <1>5, <1>6, <1>7, <1>8, <1>9, <1>10, <1>11, <1>12, <1>13, <1>14,
     <1>31, <1>32, <1>33
     DEF FileStep

\* the operation its purpose,
LEMMA FilePurpose ==
  ASSUME Sound, FileStep
  PROVE  Purpose'
<1> USE DEF Sound
<1>0. op # None
  BY FileFrame
<1>1. CASE OpenTemp
  BY <1>0, <1>1, AtStep, Underway, OpenTempEffect, OperationFacts, NoneAssumption DEF At, Purpose,
      Continues, Raises
<1>2. CASE FillTemp
  BY <1>0, <1>2, AtStep, Underway, FillTempEffect, OperationFacts, NoneAssumption DEF At, Purpose,
      Continues, Raises
<1>3. CASE ClaimBackup
  BY <1>0, <1>3, AtStep, Underway, ClaimBackupEffect, OperationFacts, NoneAssumption
      DEF ClaimBackup, At, Purpose, Continues, Raises
<1>4. CASE QuarantineOld
  BY <1>0, <1>4, AtStep, Underway, QuarantineOldEffect, OperationFacts, NoneAssumption
      DEF QuarantineOld, At, Purpose, Continues, Raises
<1>5. CASE DropQuarantine
  BY <1>0, <1>5, AtStep, Underway, DropQuarantineEffect, OperationFacts, NoneAssumption
      DEF DropQuarantine, At, Purpose, Continues, Raises
<1>6. CASE LinkTemp
  BY <1>0, <1>6, AtStep, Underway, LinkTempEffect, OperationFacts, NoneAssumption DEF At, Purpose,
      Continues, Raises
<1>7. CASE UnlinkTemp
  BY <1>0, <1>7, AtStep, Underway, UnlinkTempEffect, OperationFacts, NoneAssumption DEF At,
      Purpose, Continues, Raises
<1>8. CASE SyncFile
  BY <1>0, <1>8, AtStep, Underway, SyncFileEffect, OperationFacts, NoneAssumption DEF At, Purpose,
      Continues, Raises
<1>9. CASE TakeFile
  BY <1>0, <1>9, AtStep, Underway, TakeFileEffect, OperationFacts, NoneAssumption DEF At, Purpose,
      Continues, Raises
<1>10. CASE DiscardFile
  BY <1>0, <1>10, AtStep, Underway, DiscardFileEffect, OperationFacts, NoneAssumption
      DEF DiscardFile, At, Purpose, Continues, Raises
<1>11. CASE RelinkBackup
  BY <1>0, <1>11, AtStep, Underway, RelinkBackupEffect, OperationFacts, NoneAssumption
      DEF RelinkBackup, At, Purpose, Continues, Raises
<1>12. CASE ReleaseBackup
  BY <1>0, <1>12, AtStep, Underway, ReleaseBackupEffect, OperationFacts, NoneAssumption DEF At,
      Purpose, Continues, Raises
<1>13. CASE CleanTemp
  BY <1>0, <1>13, AtStep, Underway, CleanTempEffect, OperationFacts, NoneAssumption DEF At,
      Purpose, Continues, Raises
<1>14. CASE FailFile
  BY <1>0, <1>14, AtStep, Underway, FailFileEffect, OperationFacts, NoneAssumption DEF At,
      Purpose, Continues, Raises
<1>31. CASE SetAside
  BY <1>0, <1>31, AtStep, Underway, SetAsideEffect, OperationFacts, NoneAssumption DEF At,
      Purpose, Continues, Raises
<1>32. CASE PutBack
  BY <1>0, <1>32, AtStep, Underway, PutBackEffect, OperationFacts, NoneAssumption DEF At,
      Purpose, Continues, Raises
<1>33. CASE ForgetAside
  BY <1>0, <1>33, AtStep, Underway, ForgetAsideEffect, OperationFacts, NoneAssumption DEF At,
      Purpose, Continues, Raises
<1> QED BY <1>1, <1>2, <1>3, <1>4, <1>5, <1>6, <1>7, <1>8, <1>9, <1>10, <1>11, <1>12, <1>13, <1>14,
     <1>31, <1>32, <1>33
     DEF FileStep

\* and what it has done so far is known.
LEMMA FileProgress ==
  ASSUME Sound, FileStep
  PROVE  Progress'
<1> USE DEF Sound
<1>0. op # None
  BY FileFrame
<1>1. op \in Operation /\ op.path \in Paths /\ op.want \in Bytes /\ op.kind \in Kinds
      /\ temps[op.path] \in SUBSET Temp
  BY <1>0, Underway
<1>2. \A p \in Paths \ {op.path} : temps[p] = {}
  BY <1>0 DEF Progress
<1> DEFINE Next1(k, s) == Continues(k, s) /\ \A p \in Paths \ {op.path} : temps'[p] = {}
<1>3. ASSUME NEW k, NEW s, Next1(k, s),
             s \in {"open", "sync", "take"} => temps'[op.path] = {},
             s = "fill" => temps'[op.path] \subseteq {Sole("partial")},
             s \in {"claim", "quarantine", "link", "discard"} =>
               temps'[op.path] \subseteq {Sole(op.want)},
             s = "drop" => \A t \in temps'[op.path] : t = Sole(op.want) \/ t.link = "backup",
             s = "unlink" => temps'[op.path] \subseteq {Dest(op.want)},
             s \in {"aside", "back", "forget"} =>
               temps'[op.path] \subseteq {Dest(op.want), Aside(op.want)},
             k = "create" /\ s \in {"open", "fill", "link"} => files'[op.path] = None,
             k = "replace" /\ s \in {"open", "fill", "claim", "quarantine"} =>
               files'[Parent] # None,
             k = "replace"
               /\ s \in {"quarantine", "drop", "link", "unlink", "sync", "aside", "back",
                         "forget"} =>
               backup' # None,
             k = "restore" /\ s # "clean" => backup' # None,
             s \in {"unlink", "sync"} => files'[op.path] = op.want,
             s = "release" => files'[Parent] # None
      PROVE  Progress'
  BY <1>3 DEF Progress, Continues, Sole, Dest, Aside
<1>4. ASSUME op' = None
      PROVE  Progress'
  BY <1>4 DEF Progress
<1>5. CASE OpenTemp
  <2>1. temps'[op.path] \subseteq {Sole("partial")} /\ Next1(op.kind, "fill")
    BY <1>0, <1>2, <1>5, OpenTempEffect DEF Progress, Leaves
  <2> QED BY <1>0, <1>3, <1>5, <2>1, OpenTempEffect DEF Progress, Purpose
<1>6. CASE FillTemp
  <2> DEFINE s == IF op.kind = "replace" THEN "claim" ELSE "link"
  <2>1. temps'[op.path] \subseteq {Sole(op.want)} /\ Next1(op.kind, s)
    BY <1>0, <1>2, <1>6, FillTempEffect DEF Progress, Leaves
  <2> QED BY <1>0, <1>3, <1>6, <2>1, FillTempEffect DEF Progress, Purpose
<1>7. CASE ClaimBackup
  <2>1. Next1(op.kind, "quarantine") /\ temps' = temps /\ backup' # None
    BY <1>0, <1>2, <1>7, AtStep, ClaimBackupEffect, BackupFacts, ZenonT(60) DEF ClaimBackup, At
  <2> QED BY <1>0, <1>3, <1>7, <2>1, AtStep, ClaimBackupEffect DEF Progress, ClaimBackup, At
<1>8. CASE QuarantineOld
  <2>1. op.kind = "replace" /\ op.path = Parent /\ files[Parent] # None /\ backup # None
    BY <1>0, <1>8, AtStep DEF QuarantineOld, At
  <2>2. PICK t \in Temp : t.link = "backup" /\ Leaves(Parent, temps[Parent] \cup {t})
    BY <1>8, <2>1, QuarantineOldEffect
  <2>3. \A u \in temps'[op.path] : u = Sole(op.want) \/ u.link = "backup"
    BY <1>0, <1>8, <2>1, <2>2, QuarantineOldEffect DEF Progress, Leaves
  <2>4. Continues(op.kind, "drop") /\ backup' # None
    BY <1>8, <2>1, QuarantineOldEffect, NoneAssumption
  <2>5. Next1(op.kind, "drop")
    BY <1>2, <2>1, <2>2, <2>4 DEF Leaves
  <2> QED BY <1>3, <2>1, <2>3, <2>4, <2>5
<1>9. CASE DropQuarantine
  <2>1. op.kind = "replace" /\ op.path = Parent /\ backup # None
    BY <1>0, <1>9, AtStep DEF DropQuarantine, At
  <2>2. temps'[op.path] \subseteq {Sole(op.want)} /\ Next1(op.kind, "link") /\ backup' # None
    BY <1>0, <1>2, <1>9, <2>1, DropQuarantineEffect, BackupFacts DEF Progress, Leaves
  <2> QED BY <1>3, <2>1, <2>2
<1>10. CASE LinkTemp
  <2>1. temps'[op.path] \subseteq {Dest(op.want)} /\ Next1(op.kind, "unlink")
        /\ files'[op.path] = op.want
    BY <1>0, <1>2, <1>10, LinkTempEffect DEF Progress, Leaves, Holds
  <2>2. op.kind # "restore" /\ (op.kind = "replace" => backup' # None)
    BY <1>0, <1>10, LinkTempEffect DEF Progress, Purpose
  <2> QED BY <1>3, <2>1, <2>2
<1>11. CASE UnlinkTemp
  <2>1. temps'[op.path] = {} /\ Next1(op.kind, "sync") /\ files'[op.path] = op.want
    BY <1>0, <1>2, <1>11, UnlinkTempEffect DEF Progress, Leaves
  <2>2. op.kind # "restore" /\ (op.kind = "replace" => backup' # None)
    BY <1>0, <1>11, UnlinkTempEffect DEF Progress, Purpose
  <2> QED BY <1>3, <2>1, <2>2
<1>12. CASE SyncFile
  BY <1>4, <1>12, SyncFileEffect
<1>13. CASE TakeFile
  <2>1. temps'[op.path] \subseteq {Sole(op.want)} /\ Next1(op.kind, "discard")
    BY <1>0, <1>2, <1>13, TakeFileEffect DEF Progress, Leaves
  <2>2. op.kind \notin {"create", "replace"} /\ (op.kind = "restore" => backup' # None)
    BY <1>0, <1>13, TakeFileEffect DEF Progress, Purpose
  <2> QED BY <1>3, <2>1, <2>2
<1>14. CASE DiscardFile
  <2>1. op.step = "discard" /\ op.kind \in {"remove", "restore", "withdraw"}
    BY <1>0, <1>14, AtStep DEF DiscardFile, At
  <2>2. CASE op' = None
    BY <1>4, <2>2
  <2>3. CASE op.kind = "restore" /\ Continues("restore", "relink")
    <3>1. Next1("restore", "relink") /\ backup' # None
      BY <1>0, <1>2, <1>14, <2>1, <2>3, DiscardFileEffect DEF Progress, Leaves
    <3> QED BY <1>3, <3>1
  <2> QED BY <1>14, <2>1, <2>2, <2>3, DiscardFileEffect DEF Raises
<1>15. CASE RelinkBackup
  <2>1. op.kind = "restore" /\ op.path = Parent /\ backup # None
    BY <1>0, <1>15, AtStep DEF RelinkBackup, At
  <2>2. Next1("restore", "release") /\ files'[Parent] # None /\ backup' # None
    BY <1>2, <1>15, <2>1, RelinkBackupEffect, BackupFacts, NoneAssumption DEF Holds
  <2> QED BY <1>3, <2>2
<1>16. CASE ReleaseBackup
  <2>1. op.kind = "restore" /\ Next1("restore", "clean")
    BY <1>0, <1>2, <1>16, AtStep, ReleaseBackupEffect
  <2> QED BY <1>3, <2>1
<1>17. CASE CleanTemp
  BY <1>4, <1>17, CleanTempEffect DEF Raises
<1>18. CASE FailFile
  <2>1. CASE Raises
    BY <1>4, <2>1 DEF Raises
  <2>2. CASE Continues(op.kind, "clean")
    BY <1>2, <1>3, <1>18, <2>2, FailFileEffect
  <2>5. CASE op.step = "unlink" /\ Continues(op.kind, "aside")
    <3>1. /\ temps'[op.path] \subseteq {Dest(op.want), Aside(op.want)} /\ op.kind # "restore"
          /\ op.kind = "replace" => backup' # None
      BY <1>0, <1>18, <2>5, FailFileEffect DEF Progress, Purpose
    <3> QED BY <1>2, <1>3, <1>18, <2>5, <3>1, FailFileEffect
  <2>3. CASE op.kind = "replace" /\ op.step = "link" /\ Continues("restore", "relink")
    <3>1. backup' # None
      BY <1>0, <1>18, <2>3, FailFileEffect DEF Progress
    <3> QED BY <1>2, <1>3, <1>18, <2>3, <3>1, FailFileEffect
  <2>4. CASE op.step = "sync" /\ \/ op.kind = "replace" /\ Continues("restore", "take")
                                 \/ op.kind # "replace" /\ Continues("withdraw", "take")
    <3>1. temps'[op.path] = {} /\ (op.kind = "replace" => backup' # None)
      BY <1>0, <1>18, <2>4, FailFileEffect DEF Progress
    <3>2. CASE op.kind = "replace"
      BY <1>2, <1>3, <1>18, <2>4, <3>1, <3>2, FailFileEffect
    <3>3. CASE op.kind # "replace"
      BY <1>2, <1>3, <1>18, <2>4, <3>1, <3>3, FailFileEffect
    <3> QED BY <3>2, <3>3
  <2> QED BY <1>18, <2>1, <2>2, <2>3, <2>4, <2>5, FailFileEffect
<1>31. CASE SetAside
  <2>1. temps'[op.path] \subseteq {Dest(op.want), Aside(op.want)} /\ Next1(op.kind, "back")
    BY <1>0, <1>2, <1>31, SetAsideEffect DEF Progress, Leaves
  <2>2. op.kind # "restore" /\ (op.kind = "replace" => backup' # None)
    BY <1>0, <1>31, SetAsideEffect DEF Progress, Purpose
  <2> QED BY <1>3, <2>1, <2>2
<1>32. CASE PutBack
  <2>1. temps'[op.path] \subseteq {Dest(op.want), Aside(op.want)} /\ Next1(op.kind, "forget")
    BY <1>0, <1>2, <1>32, PutBackEffect DEF Progress
  <2>2. op.kind # "restore" /\ (op.kind = "replace" => backup' # None)
    BY <1>0, <1>32, PutBackEffect DEF Progress, Purpose
  <2> QED BY <1>3, <2>1, <2>2
<1>33. CASE ForgetAside
  <2>1. Next1(op.kind, "clean")
    BY <1>0, <1>2, <1>33, ForgetAsideEffect DEF Leaves
  <2> QED BY <1>3, <2>1
<1> QED BY <1>5, <1>6, <1>7, <1>8, <1>9, <1>10, <1>11, <1>12, <1>13, <1>14, <1>15, <1>16, <1>17,
     <1>18, <1>31, <1>32, <1>33 DEF FileStep

\* While it is under way only its own path changes, and the backup only with the parent.
LEMMA FileElsewhere ==
  ASSUME Sound, FileStep
  PROVE  /\ \A p \in Paths \ {op.path} : files'[p] = files[p]
         /\ op.path # Parent => backup' = backup
<1> USE DEF Sound
<1>0. op # None /\ Parent \in Paths
  BY FileFrame, Underway
<1>1. CASE OpenTemp
  BY <1>1, OpenTempEffect
<1>2. CASE FillTemp
  BY <1>2, FillTempEffect
<1>3. CASE ClaimBackup
  BY <1>0, <1>3, AtStep, ClaimBackupEffect DEF ClaimBackup, At
<1>4. CASE QuarantineOld
  BY <1>0, <1>4, AtStep, QuarantineOldEffect DEF QuarantineOld, At, Holds
<1>5. CASE DropQuarantine
  BY <1>0, <1>5, AtStep, DropQuarantineEffect DEF DropQuarantine, At
<1>6. CASE LinkTemp
  BY <1>6, LinkTempEffect DEF Holds
<1>7. CASE UnlinkTemp
  BY <1>7, UnlinkTempEffect
<1>8. CASE SyncFile
  BY <1>0, <1>8, SyncFileEffect DEF Purpose
<1>9. CASE TakeFile
  BY <1>9, TakeFileEffect DEF Holds
<1>10. CASE DiscardFile
  BY <1>0, <1>10, AtStep, DiscardFileEffect DEF DiscardFile, At
<1>11. CASE RelinkBackup
  BY <1>0, <1>11, AtStep, RelinkBackupEffect DEF RelinkBackup, At, Holds
<1>12. CASE ReleaseBackup
  BY <1>0, <1>12, AtStep, ReleaseBackupEffect DEF ReleaseBackup, At
<1>13. CASE CleanTemp
  BY <1>13, CleanTempEffect
<1>14. CASE FailFile
  BY <1>14, FailFileEffect
<1>31. CASE SetAside
  BY <1>31, SetAsideEffect DEF Holds
<1>32. CASE PutBack
  BY <1>32, PutBackEffect DEF Holds
<1>33. CASE ForgetAside
  BY <1>33, ForgetAsideEffect DEF Holds
<1> QED BY <1>1, <1>2, <1>3, <1>4, <1>5, <1>6, <1>7, <1>8, <1>9, <1>10, <1>11, <1>12, <1>13, <1>14,
     <1>31, <1>32, <1>33
     DEF FileStep

\* It goes on until its file is synced or removed, or it raises.
LEMMA FileEnds ==
  ASSUME Sound, FileStep
  PROVE  /\ Raises \/ UNCHANGED pc
         /\ ~Raises /\ op' = None => SyncFile \/ (DiscardFile /\ op.kind = "remove")
         /\ op' # None => op'.path = op.path
<1> USE DEF Sound, Continues
<1>0. op # None
  BY FileFrame
<1>1. CASE OpenTemp \/ FillTemp \/ LinkTemp \/ UnlinkTemp \/ TakeFile \/ ReleaseBackup
  BY <1>1, OpenTempEffect, FillTempEffect, LinkTempEffect, UnlinkTempEffect, TakeFileEffect,
     ReleaseBackupEffect, NoneAssumption
<1>2. CASE ClaimBackup
  BY <1>0, <1>2, AtStep, ClaimBackupEffect, NoneAssumption DEF ClaimBackup, At
<1>3. CASE QuarantineOld
  BY <1>0, <1>3, AtStep, QuarantineOldEffect, NoneAssumption DEF QuarantineOld, At
<1>4. CASE DropQuarantine
  BY <1>0, <1>4, AtStep, DropQuarantineEffect, NoneAssumption DEF DropQuarantine, At
<1>5. CASE SyncFile
  BY <1>5, SyncFileEffect
<1>6. CASE DiscardFile
  <2>1. op.kind \in {"remove", "restore", "withdraw"}
    BY <1>0, <1>6, AtStep DEF DiscardFile, At
  <2> QED BY <1>6, <2>1, DiscardFileEffect, NoneAssumption DEF Raises
<1>7. CASE RelinkBackup
  BY <1>0, <1>7, AtStep, RelinkBackupEffect, NoneAssumption DEF RelinkBackup, At
<1>8. CASE CleanTemp
  BY <1>8, CleanTempEffect DEF Raises
<1>9. CASE FailFile
  BY <1>9, FailFileEffect, NoneAssumption DEF Raises
<1>31. CASE SetAside
  BY <1>31, SetAsideEffect, NoneAssumption
<1>32. CASE PutBack
  BY <1>32, PutBackEffect, NoneAssumption
<1>33. CASE ForgetAside
  BY <1>33, ForgetAsideEffect, NoneAssumption
<1> QED BY <1>1, <1>2, <1>3, <1>4, <1>5, <1>6, <1>7, <1>8, <1>9, <1>31, <1>32, <1>33 DEF FileStep

\* The tree is what the place of the process promises,
LEMMA FilePlaced ==
  ASSUME Sound, FileStep
  PROVE  Placed'
<1> USE DEF Sound
<1>0. /\ op # None /\ op.path \in Paths /\ Parent \in Paths /\ journal' = journal /\ head' = head
      /\ pc \in {"wrote", "specs", "backup", "files"}
  BY FileFrame, Underway DEF Purpose, rest
<1>1. ~head.tx /\ journal # None
  BY <1>0 DEF Placed, Published, Fencing, Open
<1>2. CASE Raises
  BY <1>0, <1>1, <1>2 DEF Raises, Placed, Whole, Rolled
<1>3. ASSUME ~Raises
      PROVE  Placed'
  <2>0. pc' = pc
    BY <1>3, FileEnds
  <2>1. pc = "specs" => files'[Parent] = "target" /\ backup' = None
    <3>1. ASSUME pc = "specs"
          PROVE  op.path # Parent /\ files[Parent] = "target" /\ backup = None
      BY <1>0, <3>1 DEF Purpose, Placed
    <3> QED BY <1>0, <3>1, FileElsewhere
  <2>2. ASSUME op' # None, pc = "files", op'.kind = "remove"
        PROVE  backup' = None
    <3>1. op'.path # Parent
      BY <2>0, <2>2, FilePurpose DEF Purpose
    <3>2. op.path # Parent /\ op.kind = "remove"
      BY <1>0, <2>2, <3>1, FileEnds DEF Purpose
    <3> QED BY <1>0, <2>2, <3>2, FileElsewhere DEF Placed
  <2>3. ASSUME op' = None
        PROVE  /\ \A p \in Paths : temps'[p] = {}
               /\ pc = "wrote" => files'[Parent] = "target"
               /\ pc \in {"wrote", "files"} => backup' = None
    <3>1. CASE SyncFile
      <4>1. op.step = "sync" /\ UNCHANGED <<files, temps>>
            /\ backup' = IF op.kind = "replace" THEN None ELSE backup
        BY <3>1, SyncFileEffect
      <4>2. files[op.path] = op.want /\ \A p \in Paths : temps[p] = {}
        BY <1>0, <4>1 DEF Progress
      <4>3. /\ pc = "wrote" => op.path = Parent /\ op.want = "target" /\ op.kind = "replace"
            /\ pc = "files" => op.kind = "replace"
        BY <1>0, <4>1 DEF Purpose
      <4> QED BY <4>1, <4>2, <4>3
    <3>2. CASE DiscardFile /\ op.kind = "remove"
      <4>1. op.step = "discard" /\ UNCHANGED <<files, backup>>
            /\ Leaves(op.path, temps[op.path] \ {Sole(op.want)})
        BY <3>2, DiscardFileEffect
      <4>2. \A p \in Paths : temps'[p] = {}
        BY <1>0, <4>1 DEF Progress, Leaves
      <4>3. pc = "files"
        BY <1>0, <3>2 DEF Purpose
      <4> QED BY <1>0, <3>2, <4>1, <4>2, <4>3 DEF Placed
    <3> QED BY <1>3, <2>3, <3>1, <3>2, FileEnds
  <2> QED BY <1>0, <1>1, <2>0, <2>1, <2>2, <2>3 DEF Placed, Whole, Rolled
<1> QED BY <1>2, <1>3

\* and what must survive a stop does: the parent or its backup,
LEMMA FileKeepsParent ==
  ASSUME Sound, FileStep, files'[Parent] = None
  PROVE  backup' # None
<1> USE DEF Sound
<1>0. op # None /\ Parent \in Paths /\ op.want \in Bytes /\ op.path \in Paths
      /\ (files[Parent] = None => backup # None)
  BY FileFrame, Underway DEF Kept
<1>1. CASE OpenTemp \/ FillTemp \/ UnlinkTemp \/ CleanTemp \/ FailFile
  BY <1>0, <1>1, OpenTempEffect, FillTempEffect, UnlinkTempEffect, CleanTempEffect, FailFileEffect
<1>2. CASE ClaimBackup
  BY <1>0, <1>2, AtStep, ClaimBackupEffect, NoneAssumption DEF ClaimBackup, At
<1>3. CASE QuarantineOld
  BY <1>0, <1>3, AtStep, QuarantineOldEffect, NoneAssumption DEF QuarantineOld, At
<1>4. CASE DropQuarantine
  BY <1>0, <1>4, AtStep, DropQuarantineEffect, NoneAssumption DEF DropQuarantine, At
<1>5. CASE LinkTemp
  BY <1>0, <1>5, LinkTempEffect, NoneAssumption DEF Holds
<1>6. CASE SyncFile
  <2>1. op.step = "sync" /\ files' = files
        /\ backup' = IF op.kind = "replace" THEN None ELSE backup
    BY <1>6, SyncFileEffect
  <2>2. files[op.path] # None
    BY <1>0, <2>1, NoneAssumption DEF Progress
  <2>3. op.kind = "replace" => op.path = Parent
    BY <1>0 DEF Purpose
  <2> QED BY <1>0, <2>1, <2>2, <2>3
<1>7. CASE TakeFile
  <2>1. op.step = "take" /\ backup' = backup /\ Holds(op.path, None)
    BY <1>7, TakeFileEffect
  <2>2. op.path = Parent => backup # None
    BY <1>0, <2>1 DEF Progress, Purpose
  <2> QED BY <1>0, <2>1, <2>2 DEF Holds
<1>8. CASE DiscardFile
  BY <1>0, <1>8, AtStep, DiscardFileEffect DEF DiscardFile, At
<1>9. CASE RelinkBackup
  BY <1>0, <1>9, AtStep, RelinkBackupEffect, NoneAssumption DEF RelinkBackup, At
<1>10. CASE ReleaseBackup
  BY <1>0, <1>10, ReleaseBackupEffect DEF Progress
<1>31. CASE SetAside
  <2>1. op.step = "aside" /\ backup' = backup /\ Holds(op.path, None)
    BY <1>31, SetAsideEffect
  <2>2. op.path = Parent => backup # None
    BY <1>0, <2>1 DEF Progress, Purpose
  <2> QED BY <1>0, <2>1, <2>2 DEF Holds
<1>32. CASE PutBack
  BY <1>0, <1>32, PutBackEffect, NoneAssumption DEF Holds
<1>33. CASE ForgetAside
  BY <1>0, <1>33, ForgetAsideEffect
<1> QED BY <1>1, <1>2, <1>3, <1>4, <1>5, <1>6, <1>7, <1>8, <1>9, <1>10, <1>31, <1>32, <1>33
     DEF FileStep

\* a child that is new or absent, and no unlinked target beside it,
LEMMA FileKeepsChild ==
  ASSUME Sound, FileStep, NEW c \in Children
  PROVE  /\ files'[c] \in {None, "target"}
         /\ files'[c] # None => Sole("target") \notin temps'[c]
<1> USE DEF Sound
<1>0. op # None /\ c \in Paths /\ c # Parent /\ op.path \in Paths /\ temps[c] \in SUBSET Temp
      /\ files[c] \in {None, "target"} /\ (files[c] # None => Sole("target") \notin temps[c])
  BY FileFrame, Underway, ChildrenAssumption DEF Kept, Paths, Parent, TypeOK
<1>1. /\ c = op.path => op.want = "target" /\ op.kind \notin {"replace", "restore"}
      /\ Dest("target") # Sole("target") /\ Sole("partial") # Sole("target")
  BY <1>0, TempFacts DEF Purpose, Bytes
<1>2. CASE OpenTemp
  BY <1>0, <1>1, <1>2, OpenTempEffect DEF Leaves
<1>3. CASE FillTemp
  <2>1. op.step = "fill" /\ files' = files
        /\ Leaves(op.path, (temps[op.path] \ {Sole("partial")}) \cup {Sole(op.want)})
    BY <1>3, FillTempEffect
  <2>2. c = op.path => files[c] = None
    BY <1>0, <1>1, <2>1 DEF Progress, Purpose
  <2> QED BY <1>0, <2>1, <2>2 DEF Leaves
<1>4. CASE ClaimBackup
  BY <1>0, <1>4, AtStep, ClaimBackupEffect DEF ClaimBackup, At
<1>5. CASE QuarantineOld
  <2>1. op.kind = "replace" /\ op.path = Parent /\ files[Parent] # None /\ backup # None
    BY <1>0, <1>5, AtStep DEF QuarantineOld, At
  <2>2. \E t \in Temp : Leaves(Parent, temps[Parent] \cup {t})
    BY <1>5, <2>1, QuarantineOldEffect
  <2> QED BY <1>0, <1>5, <2>1, <2>2, FileElsewhere DEF Leaves
<1>6. CASE DropQuarantine
  BY <1>0, <1>6, AtStep, DropQuarantineEffect DEF DropQuarantine, At, Leaves
<1>7. CASE LinkTemp
  BY <1>0, <1>1, <1>7, LinkTempEffect DEF Leaves, Holds
<1>8. CASE UnlinkTemp
  BY <1>0, <1>8, UnlinkTempEffect DEF Leaves
<1>9. CASE SyncFile
  BY <1>0, <1>9, SyncFileEffect
<1>10. CASE TakeFile
  BY <1>0, <1>10, TakeFileEffect DEF Leaves, Holds
<1>11. CASE DiscardFile
  BY <1>0, <1>11, AtStep, DiscardFileEffect DEF DiscardFile, At, Leaves
<1>12. CASE RelinkBackup
  BY <1>0, <1>12, AtStep, RelinkBackupEffect DEF RelinkBackup, At, Holds
<1>13. CASE ReleaseBackup
  BY <1>0, <1>13, ReleaseBackupEffect
<1>14. CASE CleanTemp
  BY <1>0, <1>14, CleanTempEffect DEF Leaves
<1>15. CASE FailFile
  BY <1>0, <1>15, FailFileEffect
<1>31. CASE SetAside
  BY <1>0, <1>31, SetAsideEffect DEF Leaves, Holds
<1>32. CASE PutBack
  <2>1. c = op.path => Sole("target") \notin temps[c]
    BY <1>0, <1>1, <1>32, PutBackEffect, TempFacts DEF Progress, Bytes
  <2> QED BY <1>0, <1>1, <1>32, <2>1, PutBackEffect DEF Holds
<1>33. CASE ForgetAside
  BY <1>0, <1>33, ForgetAsideEffect DEF Leaves
<1> QED BY <1>2, <1>3, <1>4, <1>5, <1>6, <1>7, <1>8, <1>9, <1>10, <1>11, <1>12, <1>13, <1>14,
     <1>15,
     <1>31, <1>32, <1>33
     DEF FileStep

\* and the quarantine name of a backup that still has one.
LEMMA FileKeepsName ==
  ASSUME Sound, FileStep, backup' # None, backup'.link = "temp"
  PROVE  \E t \in temps'[Parent] : t.link = "backup"
<1> USE DEF Sound
<1>0. op # None /\ Parent \in Paths /\ op.path \in Paths /\ op.want \in Bytes
      /\ temps[Parent] \in SUBSET Temp
  BY FileFrame, Underway
<1>1. /\ \A b \in Bytes \cup {"partial"} : Sole(b).link = "sole" /\ Dest(b).link = "dest"
      /\ backup # None /\ backup.link = "temp" => \E t \in temps[Parent] : t.link = "backup"
  BY TempFacts DEF Kept
<1>2. ASSUME backup' = backup, \A t \in temps[Parent] : t.link = "backup" => t \in temps'[Parent]
      PROVE  \E t \in temps'[Parent] : t.link = "backup"
  BY <1>1, <1>2
<1>3. CASE OpenTemp
  BY <1>0, <1>2, <1>3, OpenTempEffect DEF Leaves
<1>4. CASE FillTemp
  BY <1>0, <1>1, <1>2, <1>4, FillTempEffect DEF Leaves
<1>5. CASE ClaimBackup
  BY <1>0, <1>5, AtStep, ClaimBackupEffect DEF ClaimBackup, At
<1>6. CASE QuarantineOld
  <2>1. op.kind = "replace" /\ op.path = Parent /\ files[Parent] # None /\ backup # None
    BY <1>0, <1>6, AtStep DEF QuarantineOld, At
  <2>2. \E t \in Temp : t.link = "backup" /\ Leaves(Parent, temps[Parent] \cup {t})
    BY <1>6, <2>1, QuarantineOldEffect
  <2> QED BY <2>2 DEF Leaves
<1>7. CASE DropQuarantine
  BY <1>0, <1>7, AtStep, DropQuarantineEffect DEF DropQuarantine, At
<1>8. CASE LinkTemp
  BY <1>0, <1>1, <1>2, <1>8, LinkTempEffect DEF Leaves
<1>9. CASE UnlinkTemp
  BY <1>0, <1>1, <1>2, <1>9, UnlinkTempEffect DEF Leaves
<1>10. CASE SyncFile
  BY <1>2, <1>10, SyncFileEffect
<1>11. CASE TakeFile
  BY <1>0, <1>2, <1>11, TakeFileEffect DEF Leaves
<1>12. CASE DiscardFile
  <2>1. op.kind \in {"remove", "restore", "withdraw"}
    BY <1>0, <1>12, AtStep DEF DiscardFile, At
  <2> QED BY <1>0, <1>1, <1>2, <1>12, <2>1, DiscardFileEffect DEF Leaves
<1>13. CASE RelinkBackup
  BY <1>0, <1>13, AtStep, RelinkBackupEffect DEF RelinkBackup, At
<1>14. CASE ReleaseBackup
  BY <1>0, <1>14, ReleaseBackupEffect
<1>15. CASE CleanTemp
  BY <1>0, <1>2, <1>15, CleanTempEffect DEF Leaves
<1>16. CASE FailFile
  BY <1>2, <1>16, FailFileEffect
<1>31. CASE SetAside
  BY <1>0, <1>2, <1>31, SetAsideEffect DEF Leaves
<1>32. CASE PutBack
  BY <1>2, <1>32, PutBackEffect
<1>33. CASE ForgetAside
  <2>1. Aside(op.want).link # "backup"
    BY <1>0, TempFacts
  <2> QED BY <1>0, <1>2, <1>33, <2>1, ForgetAsideEffect DEF Leaves
<1> QED BY <1>3, <1>4, <1>5, <1>6, <1>7, <1>8, <1>9, <1>10, <1>11, <1>12, <1>13, <1>14, <1>15,
     <1>16,
     <1>31, <1>32, <1>33
     DEF FileStep

LEMMA FileKept ==
  ASSUME Sound, FileStep
  PROVE  Kept'
<1>1. pc' # "temps"
  BY FileFrame DEF Sound, Purpose, Raises
<1> QED BY <1>1, FileKeepsParent, FileKeepsChild, FileKeepsName DEF Kept

-----------------------------------------------------------------------------
(* The other steps.                                                        *)

\* While a journal stands, the commit is found exactly if the branch moved.
LEMMA CommitFound ==
  ASSUME TypeOK, Fencing, journal # None
  PROVE  Committed <=> head.tx
  BY JournalFacts DEF TypeOK, Fencing, Committed

\* A new operation.
LEMMA StartEffect ==
  ASSUME NEW k \in Kinds, NEW p \in Paths, NEW w \in Bytes, Start(k, p, w)
  PROVE  /\ op' \in Operation /\ op'.kind = k /\ op'.path = p /\ op'.want = w
         /\ op'.step = IF k = "remove" THEN "take" ELSE "open"
  BY DEF Start, Operation, Steps

\* A new journal is of the branch as it is; its phases leave its base and its commit alone.
LEMMA CreateJournalEffect ==
  ASSUME TypeOK, CreateJournal
  PROVE  journal' \in Journal /\ journal'.base = head.n /\ journal'.sha = FALSE
  BY DEF CreateJournal, TypeOK, Journal, Phases

LEMMA SetPhaseEffect ==
  ASSUME TypeOK, journal # None, NEW p \in Phases, SetPhase(p)
  PROVE  journal' \in Journal /\ journal'.base = journal.base /\ journal'.sha = journal.sha
<1>1. journal \in Journal
  BY DEF TypeOK
<1>2. LET k == [journal EXCEPT !.phase = p]
      IN  k \in Journal /\ k.base = journal.base /\ k.sha = journal.sha
  BY <1>1, JournalFacts, Zenon
<1> QED BY <1>2, Zenon DEF SetPhase

LEMMA RecordCommitEffect ==
  ASSUME TypeOK, journal # None, RecordCommit
  PROVE  journal' \in Journal /\ journal'.base = journal.base /\ journal'.sha = TRUE
<1>1. journal \in Journal
  BY DEF TypeOK
<1> QED BY <1>1, JournalFacts DEF RecordCommit

LEMMA UpdateRefEffect ==
  ASSUME TypeOK, UpdateRef
  PROVE  head' \in [tx : BOOLEAN, n : 0..MaxCommits] /\ head'.tx = TRUE /\ head'.n = head.n
  BY DEF UpdateRef, TypeOK

LEMMA OtherCommitEffect ==
  ASSUME TypeOK, OtherCommit
  PROVE  /\ head' \in [tx : BOOLEAN, n : 0..MaxCommits] /\ head'.tx = head.tx
         /\ head'.n = head.n + 1
  BY BoundsAssumption DEF OtherCommit, TypeOK

\* Recovery that ends gives its caller back the control.
LEMMA RemoveJournalEffect ==
  ASSUME Answering, RemoveJournal
  PROVE  pc = "remove" /\ pc' \in {"resolve", "idle"} /\ journal' = None /\ op = None /\ op' = None
         /\ UNCHANGED <<head, files, temps, backup, index, lock, candidate, outbox, db>>
<1>1. goal \in Goals
  BY DEF RemoveJournal, On, Answering
<1> QED BY <1>1 DEF RemoveJournal, On, To, Report, Goals, tree, git, notice

\* What is absent has no name.
LEMMA NoneDiffers ==
  None \notin {"orig", "target", "base", "old", "partial", "finalize", "admit", "startup", "undo",
               "known", "unknown", "committed", "failed", "indeterminate", "rejected"}
  BY NoneAssumption DEF Bytes, Goals, Answers

\* They keep the types.
LEMMA OtherTypes ==
  ASSUME Sound, Rest, Finalizer \/ Recover \/ Admission \/ OtherCommit \/ Crash
  PROVE  TypeOK'
<1> USE DEF Sound, Rest, On, To, disk, tree, git, notice, SetPhase, Undo, Report, Refuse, AtBase
<1>t. /\ Parent \in Paths /\ Children \subseteq Paths /\ Desired \in Bytes
      /\ {"replace", "create", "remove"} \subseteq Kinds
  BY DEF Paths, Desired, Bytes, Kinds
<1>j. pc \notin Open \cup {"idle"} => journal # None
  BY DEF Fencing
<1> USE DEF Open
<1>1. CASE Enter("finalize") \/ RejectPlan \/ AcquireIndexLock \/ CopyIndex
           \/ BuildCandidate \/ GiveUpLock
  BY <1>1 DEF Enter, RejectPlan, AcquireIndexLock, CopyIndex, BuildCandidate, GiveUpLock, TypeOK,
      Labels, Goals, Answers
<1>2. CASE GiveUpCandidate \/ FreeIndexLock \/ FinishJournal \/ Enter("startup")
           \/ JudgeHead \/ RefuseArtifacts
  BY <1>2 DEF GiveUpCandidate, FreeIndexLock, FinishJournal, Enter, JudgeHead, RefuseArtifacts,
      TypeOK, Labels, Goals, Answers
<1>3. CASE DropCandidate \/ ReleaseLock \/ CheckFiles \/ RemoveTemp \/ TempsRemoved
           \/ RemoveBackup
  BY <1>3 DEF DropCandidate, ReleaseLock, CheckFiles, RemoveTemp, TempsRemoved, RemoveBackup,
      TypeOK, Labels, Goals, Answers
<1>4. CASE LockIndex \/ UnlockIndex \/ Rethrow \/ Enter("admit") \/ EndStartup
           \/ RefuseDecomposed
  BY <1>4 DEF LockIndex, UnlockIndex, Rethrow, Enter, EndStartup, RefuseDecomposed, TypeOK,
      Labels,
      Goals, Answers
<1>5. CASE Admit \/ EndAdmission
  BY <1>5 DEF Admit, EndAdmission, TypeOK, Labels, Goals, Answers
<1>6. CASE LostBaseline \/ RefNotUpdated \/ ObserveRef \/ FailAfterRef \/ FailCompletion
           \/ FailRecovery
  BY <1>6, BoundsAssumption DEF LostBaseline, RefNotUpdated, ObserveRef, FailAfterRef,
      FailCompletion, FailRecovery, TypeOK, Labels, Goals, Answers
<1>7. CASE Crash
  BY <1>7, BoundsAssumption DEF Crash, TypeOK, Labels, Goals, Answers
<1>8. CASE ReplaceParent \/ WriteChild \/ RewriteParent \/ SettleParent \/ SettleChild
  BY <1>8, <1>t, StartEffect DEF ReplaceParent, WriteChild, RewriteParent, SettleParent,
      SettleChild, TypeOK, Bytes, Labels
<1>9. CASE WriteOutbox
  BY <1>9 DEF WriteOutbox, TypeOK, Labels
<1>10. CASE NoticeCommitted
  BY <1>10 DEF NoticeCommitted, TypeOK, Labels
<1>11. CASE ProjectStatus
  BY <1>11 DEF ProjectStatus, TypeOK, Labels
<1>12. CASE CreateJournal
  BY <1>12, CreateJournalEffect DEF CreateJournal, TypeOK, Labels
<1>13. CASE ParentWritten
  <2>1. SetPhase("parent_written") /\ journal # None
    BY <1>13, <1>j DEF ParentWritten
  <2> HIDE DEF SetPhase
  <2>2. journal' \in Journal
    BY <2>1, SetPhaseEffect DEF Phases
  <2> QED BY <1>13, <2>2 DEF ParentWritten, TypeOK, Labels
<1>14. CASE ChildrenWritten
  <2>1. SetPhase("children_written") /\ journal # None
    BY <1>14, <1>j DEF ChildrenWritten
  <2> HIDE DEF SetPhase
  <2>2. journal' \in Journal
    BY <2>1, SetPhaseEffect DEF Phases
  <2> QED BY <1>14, <2>2 DEF ChildrenWritten, TypeOK, Labels
<1>15. CASE Baseline
  <2>1. SetPhase("committing") /\ journal # None
    BY <1>15, <1>j DEF Baseline
  <2> HIDE DEF SetPhase
  <2>2. journal' \in Journal
    BY <2>1, SetPhaseEffect DEF Phases
  <2> QED BY <1>15, <2>2 DEF Baseline, TypeOK, Labels
<1>16. CASE RecordCommit
  BY <1>16, <1>j, RecordCommitEffect DEF RecordCommit, TypeOK, Labels
<1>17. CASE UpdateRef
  BY <1>17, UpdateRefEffect, BoundsAssumption DEF UpdateRef, TypeOK, Labels
<1>18. CASE PublishIndex
  BY <1>18 DEF PublishIndex, TypeOK, Labels, Indexed
<1>19. CASE MarkCommitted
  <2>1. SetPhase("committed") /\ journal # None
    BY <1>19, <1>j DEF MarkCommitted
  <2> HIDE DEF SetPhase
  <2>2. journal' \in Journal
    BY <2>1, SetPhaseEffect DEF Phases
  <2> QED BY <1>19, <2>2 DEF MarkCommitted, TypeOK, Labels
<1>20. CASE PublishCandidate
  BY <1>20 DEF PublishCandidate, ArtifactsFit, TypeOK, Labels
<1>21. CASE CloseCommitted
  <2>1. SetPhase("committed") /\ journal # None
    BY <1>21, <1>j DEF CloseCommitted
  <2> HIDE DEF SetPhase
  <2>2. journal' \in Journal
    BY <2>1, SetPhaseEffect DEF Phases
  <2> QED BY <1>21, <2>2 DEF CloseCommitted, TypeOK, Labels
<1>22. CASE RemoveJournal
  <2>1. goal \in Goals
    BY <1>22 DEF RemoveJournal, Answering
  <2>2. pc' \in Labels /\ goal' \in {None} \cup Goals /\ report' \in {None} \cup Answers
        /\ UNCHANGED <<op, crashes, faults>>
    <3>1. CASE goal \in {"finalize", "admit", "startup"}
      BY <1>22, <3>1 DEF RemoveJournal, TypeOK, Labels
    <3>2. CASE goal = "undo"
      BY <1>22, <3>2 DEF RemoveJournal, TypeOK, Labels, Answers
    <3>3. CASE goal \in {"known", "unknown"}
      BY <1>22, <3>3 DEF RemoveJournal, TypeOK, Labels, Answers
    <3> QED BY <2>1, <3>1, <3>2, <3>3 DEF Goals
  <2> QED BY <1>22, <2>2 DEF RemoveJournal, TypeOK
<1>23. CASE DrainOutbox
  <2>1. pc' = "resolve"
        /\ UNCHANGED <<journal, head, files, temps, backup, index, lock, candidate,
              db, goal, op, report, crashes, faults>>
    BY <1>23 DEF DrainOutbox
  <2>2. outbox' \in BOOLEAN
    BY <1>23, Zenon DEF DrainOutbox
  <2> QED BY <2>1, <2>2 DEF TypeOK, Labels
<1>24. CASE OtherCommit
  BY <1>24, OtherCommitEffect DEF OtherCommit, TypeOK
<1> QED BY <1>1, <1>2, <1>3, <1>4, <1>5, <1>6, <1>7, <1>8, <1>9, <1>10, <1>11, <1>12, <1>13,
     <1>14, <1>15, <1>16, <1>17, <1>18, <1>19, <1>20, <1>21, <1>22, <1>23, <1>24 DEF Finalizer,
     Recover, Admission

\* The journal fences,
LEMMA OtherFencing ==
  ASSUME Sound, Rest, Finalizer \/ Recover \/ Admission \/ OtherCommit \/ Crash
  PROVE  Fencing'
<1> USE DEF Sound, Rest, On, To, disk, tree, git, notice, SetPhase, Undo, Report, Refuse, AtBase
<1>j. pc \notin Open \cup {"idle"} => journal # None /\ (Committed <=> head.tx)
  BY CommitFound DEF Fencing
<1>1. CASE Enter("finalize") \/ RejectPlan \/ ReplaceParent \/ WriteChild
           \/ AcquireIndexLock \/ LostBaseline \/ CopyIndex
  BY <1>j, <1>1 DEF Enter, RejectPlan, ReplaceParent, WriteChild, AcquireIndexLock, LostBaseline,
      CopyIndex, Fencing, Open, Forward, Refuted, Moved
<1>2. CASE BuildCandidate \/ RefNotUpdated \/ ObserveRef \/ GiveUpLock \/ GiveUpCandidate
           \/ PublishIndex \/ FreeIndexLock
  BY <1>j, <1>2 DEF BuildCandidate, RefNotUpdated, ObserveRef, GiveUpLock, GiveUpCandidate,
      PublishIndex, FreeIndexLock, Fencing, Open, Forward, Refuted, Moved
<1>3. CASE FailAfterRef \/ WriteOutbox \/ FinishJournal \/ FailCompletion
           \/ Enter("startup") \/ JudgeHead \/ RefuseArtifacts
  BY <1>j, <1>3 DEF FailAfterRef, WriteOutbox, FinishJournal, FailCompletion, Enter, JudgeHead,
      RefuseArtifacts, Fencing, Open, Forward, Refuted, Moved
<1>4. CASE DropCandidate \/ PublishCandidate \/ ReleaseLock \/ CheckFiles \/ RemoveTemp
           \/ TempsRemoved \/ RewriteParent
  BY <1>j, <1>4 DEF DropCandidate, PublishCandidate, ReleaseLock, CheckFiles, RemoveTemp,
      TempsRemoved, RewriteParent, Fencing, Open, Forward, Refuted, Moved
<1>5. CASE RemoveBackup \/ SettleParent \/ SettleChild \/ LockIndex \/ UnlockIndex
           \/ NoticeCommitted \/ FailRecovery
  BY <1>j, <1>5 DEF RemoveBackup, SettleParent, SettleChild, LockIndex, UnlockIndex,
      NoticeCommitted, FailRecovery, Fencing, Open, Forward, Refuted, Moved
<1>6. CASE Rethrow \/ Enter("admit") \/ ProjectStatus \/ DrainOutbox \/ EndStartup
           \/ RefuseDecomposed \/ EndAdmission
  BY <1>j, <1>6 DEF Rethrow, Enter, ProjectStatus, DrainOutbox, EndStartup, RefuseDecomposed,
      EndAdmission, Fencing, Open, Forward, Refuted, Moved
<1>7. CASE Crash
  BY <1>j, <1>7 DEF Crash, Fencing, Open, Forward, Refuted, Moved
<1>8. CASE CreateJournal
  <2>1. head.tx = FALSE
    BY <1>8, NoneDiffers DEF CreateJournal, Placed, Published, Fencing, Open, Parent, Paths
  <2>2. journal' # None /\ journal'.base = head.n /\ head.n \in Nat
    <3>1. journal' \in Journal /\ journal'.base = head.n
      BY <1>8, CreateJournalEffect
    <3>2. head.n \in Nat
      BY BoundsAssumption DEF TypeOK
    <3> QED BY <3>1, <3>2, NoneAssumption
  <2> QED BY <1>8, <2>1, <2>2 DEF CreateJournal, Fencing, Open, Forward, Refuted, Moved
<1>9. CASE ParentWritten
  <2>1. SetPhase("parent_written")
    BY <1>9 DEF ParentWritten
  <2> HIDE DEF SetPhase
  <2>2. journal' \in Journal /\ journal'.base = journal.base /\ journal'.sha = journal.sha
    BY <1>9, <1>j, <2>1, SetPhaseEffect DEF ParentWritten, Open, Phases
  <2> QED BY <1>9, <1>j, <2>2, NoneAssumption DEF ParentWritten, Fencing, Open, Forward, Refuted,
       Moved
<1>10. CASE ChildrenWritten
  <2>1. SetPhase("children_written")
    BY <1>10 DEF ChildrenWritten
  <2> HIDE DEF SetPhase
  <2>2. journal' \in Journal /\ journal'.base = journal.base /\ journal'.sha = journal.sha
    BY <1>10, <1>j, <2>1, SetPhaseEffect DEF ChildrenWritten, Open, Phases
  <2> QED BY <1>10, <1>j, <2>2, NoneAssumption DEF ChildrenWritten, Fencing, Open, Forward,
       Refuted, Moved
<1>11. CASE Baseline
  <2>1. SetPhase("committing")
    BY <1>11 DEF Baseline
  <2> HIDE DEF SetPhase
  <2>2. journal' \in Journal /\ journal'.base = journal.base /\ journal'.sha = journal.sha
    BY <1>11, <1>j, <2>1, SetPhaseEffect DEF Baseline, Open, Phases
  <2> QED BY <1>11, <1>j, <2>2, NoneAssumption DEF Baseline, Fencing, Open, Forward, Refuted,
       Moved
<1>12. CASE RecordCommit
  BY <1>j, <1>12, RecordCommitEffect, NoneAssumption DEF RecordCommit, Fencing, Open, Forward,
      Refuted, Moved
<1>13. CASE UpdateRef
  BY <1>j, <1>13, UpdateRefEffect DEF UpdateRef, Fencing, Open, Forward, Refuted, Moved
<1>14. CASE MarkCommitted
  <2>1. SetPhase("committed")
    BY <1>14 DEF MarkCommitted
  <2> HIDE DEF SetPhase
  <2>2. journal' \in Journal /\ journal'.base = journal.base /\ journal'.sha = journal.sha
    BY <1>14, <1>j, <2>1, SetPhaseEffect DEF MarkCommitted, Open, Phases
  <2> QED BY <1>14, <1>j, <2>2, NoneAssumption DEF MarkCommitted, Fencing, Open, Forward, Refuted,
       Moved
<1>15. CASE CloseCommitted
  <2>1. SetPhase("committed")
    BY <1>15 DEF CloseCommitted
  <2> HIDE DEF SetPhase
  <2>2. journal' \in Journal /\ journal'.base = journal.base /\ journal'.sha = journal.sha
    BY <1>15, <1>j, <2>1, SetPhaseEffect DEF CloseCommitted, Open, Phases
  <2> QED BY <1>15, <1>j, <2>2, NoneAssumption DEF CloseCommitted, Fencing, Open, Forward,
       Refuted, Moved
<1>16. CASE RemoveJournal
  <2>1. goal \in Goals
    BY <1>16 DEF RemoveJournal, Answering
  <2>2. pc' \in {"resolve", "idle"} /\ journal' = None
    BY <1>16, <2>1 DEF RemoveJournal, Goals
  <2> QED BY <1>16, <2>2 DEF RemoveJournal, Fencing, Open, Forward, Refuted, Moved
<1>17. CASE Admit
  <2>1. ~head.tx
    BY <1>17 DEF Admit, Placed, Published, Parent, Paths
  <2> QED BY <1>17, <2>1 DEF Admit, Fencing, Open, Forward, Refuted, Moved
<1>18. CASE OtherCommit
  <2>1. journal # None => journal.base \in Nat /\ head.n \in Nat
    <3>1. journal # None => journal.base \in 0..MaxCommits
      BY JournalFacts DEF TypeOK
    <3> QED BY <3>1, BoundsAssumption DEF TypeOK
  <2>2. UNCHANGED <<journal, pc>>
    BY <1>18 DEF OtherCommit
  <2> QED BY <1>18, <2>1, <2>2, OtherCommitEffect DEF Fencing
<1> QED BY <1>1, <1>2, <1>3, <1>4, <1>5, <1>6, <1>7, <1>8, <1>9, <1>10, <1>11, <1>12, <1>13,
     <1>14, <1>15, <1>16, <1>17, <1>18 DEF Finalizer, Recover, Admission

\* the caller is told the truth,
LEMMA OtherAnswering ==
  ASSUME Sound, Rest, Finalizer \/ Recover \/ Admission \/ OtherCommit \/ Crash
  PROVE  Answering'
<1> USE DEF Sound, Rest, On, To, disk, tree, git, notice, SetPhase, Undo, Report, Refuse, AtBase
<1>j. pc \notin Open \cup {"idle"} => journal # None /\ (Committed <=> head.tx)
  BY CommitFound DEF Fencing
<1>f. (pc' \notin Open \cup {"idle"} => journal' # None) /\ (pc' \in Open => journal' = None)
  BY OtherFencing DEF Fencing
<1>1. CASE Enter("finalize") \/ RejectPlan \/ CreateJournal \/ ReplaceParent
           \/ ParentWritten \/ WriteChild \/ ChildrenWritten
  BY <1>j, <1>f, <1>1, NoneDiffers DEF Enter, RejectPlan, CreateJournal, ReplaceParent,
      ParentWritten, WriteChild, ChildrenWritten, Answering, Fencing, Open, Forward, Refuted,
      Moved, Goals
<1>2. CASE Baseline \/ RecordCommit \/ AcquireIndexLock \/ LostBaseline \/ CopyIndex
           \/ BuildCandidate \/ RefNotUpdated
  BY <1>j, <1>f, <1>2, NoneDiffers DEF Baseline, RecordCommit, AcquireIndexLock, LostBaseline,
      CopyIndex, BuildCandidate, RefNotUpdated, Answering, Fencing, Open, Forward, Refuted, Moved,
      Goals
<1>3. CASE ObserveRef \/ GiveUpLock \/ GiveUpCandidate \/ PublishIndex \/ FreeIndexLock
           \/ FailAfterRef \/ MarkCommitted
  BY <1>j, <1>f, <1>3, NoneDiffers DEF ObserveRef, GiveUpLock, GiveUpCandidate, PublishIndex,
      FreeIndexLock, FailAfterRef, MarkCommitted, Answering, Fencing, Open, Forward, Refuted,
      Moved, Goals
<1>4. CASE WriteOutbox \/ FinishJournal \/ FailCompletion \/ Enter("startup") \/ JudgeHead
           \/ RefuseArtifacts \/ DropCandidate
  BY <1>j, <1>f, <1>4, NoneDiffers DEF WriteOutbox, FinishJournal, FailCompletion, Enter,
      JudgeHead, RefuseArtifacts, DropCandidate, Answering, Fencing, Open, Forward, Refuted, Moved,
      Goals
<1>5. CASE PublishCandidate \/ ReleaseLock \/ CheckFiles \/ RemoveTemp \/ TempsRemoved
           \/ RewriteParent \/ RemoveBackup
  BY <1>j, <1>f, <1>5, NoneDiffers DEF PublishCandidate, ReleaseLock, CheckFiles, RemoveTemp,
      TempsRemoved, RewriteParent, RemoveBackup, Answering, Fencing, Open, Forward, Refuted, Moved,
      Goals
<1>6. CASE SettleParent \/ SettleChild \/ LockIndex \/ UnlockIndex \/ CloseCommitted
           \/ NoticeCommitted \/ FailRecovery
  BY <1>j, <1>f, <1>6, NoneDiffers DEF SettleParent, SettleChild, LockIndex, UnlockIndex,
      CloseCommitted, NoticeCommitted, FailRecovery, Answering, Fencing, Open, Forward, Refuted,
      Moved, Goals
<1>7. CASE Rethrow \/ Enter("admit") \/ ProjectStatus \/ DrainOutbox \/ EndStartup
           \/ RefuseDecomposed \/ Admit
  BY <1>j, <1>f, <1>7, NoneDiffers DEF Rethrow, Enter, ProjectStatus, DrainOutbox, EndStartup,
      RefuseDecomposed, Admit, Answering, Fencing, Open, Forward, Refuted, Moved, Goals
<1>8. CASE EndAdmission \/ Crash
  BY <1>j, <1>f, <1>8, NoneDiffers DEF EndAdmission, Crash, Answering, Fencing, Open, Forward,
      Refuted, Moved, Goals
<1>9. CASE UpdateRef
  BY <1>j, <1>f, <1>9, UpdateRefEffect, NoneDiffers DEF UpdateRef, Answering, Fencing, Open,
      Forward, Refuted, Moved, Goals
<1>10. CASE RemoveJournal
  <2>1. goal \in Goals /\ pc = "remove" /\ (Committed <=> head.tx)
    BY <1>10, <1>j DEF RemoveJournal, Answering, Open
  <2>2. CASE goal \in {"finalize", "admit", "startup"}
    BY <1>10, <2>1, <2>2 DEF RemoveJournal, Answering, Forward
  <2>3. CASE goal = "undo"
    BY <1>10, <2>1, <2>3, NoneDiffers DEF RemoveJournal, Answering, Forward, Goals
  <2>4. CASE goal \in {"known", "unknown"}
    BY <1>10, <2>1, <2>4, NoneDiffers DEF RemoveJournal, Answering, Forward, Goals
  <2> QED BY <2>1, <2>2, <2>3, <2>4 DEF Goals
<1>11. CASE OtherCommit
  BY <1>j, <1>f, <1>11, OtherCommitEffect DEF OtherCommit, Answering, Fencing, Open, Forward,
      Refuted, Moved, Goals
<1> QED BY <1>1, <1>2, <1>3, <1>4, <1>5, <1>6, <1>7, <1>8, <1>9, <1>10, <1>11 DEF Finalizer,
     Recover, Admission

\* the index follows the branch,
LEMMA OtherIndexed ==
  ASSUME Sound, Rest, Finalizer \/ Recover \/ Admission \/ OtherCommit \/ Crash
  PROVE  Indexed'
<1> USE DEF Sound, Rest, On, To, disk, tree, git, notice, SetPhase, Undo, Report, Refuse, AtBase
<1>j. pc \notin Open \cup {"idle"} => journal # None /\ (Committed <=> head.tx)
  BY CommitFound DEF Fencing
<1>f. (pc' \notin Open \cup {"idle"} => journal' # None) /\ (pc' \in Open => journal' = None)
  BY OtherFencing DEF Fencing
<1>1. CASE Enter("finalize") \/ RejectPlan \/ CreateJournal \/ ReplaceParent
           \/ ParentWritten \/ WriteChild \/ ChildrenWritten
  BY <1>j, <1>f, <1>1, NoneDiffers DEF Enter, RejectPlan, CreateJournal, ReplaceParent,
      ParentWritten, WriteChild, ChildrenWritten, Indexed, Fencing, Open, Forward, Refuted, Moved,
      ArtifactsFit
<1>2. CASE Baseline \/ RecordCommit \/ AcquireIndexLock \/ LostBaseline \/ CopyIndex
           \/ BuildCandidate \/ RefNotUpdated
  BY <1>j, <1>f, <1>2, NoneDiffers DEF Baseline, RecordCommit, AcquireIndexLock, LostBaseline,
      CopyIndex, BuildCandidate, RefNotUpdated, Indexed, Fencing, Open, Forward, Refuted, Moved,
      ArtifactsFit
<1>3. CASE ObserveRef \/ GiveUpLock \/ GiveUpCandidate \/ PublishIndex \/ FreeIndexLock
           \/ FailAfterRef \/ MarkCommitted
  BY <1>j, <1>f, <1>3, NoneDiffers DEF ObserveRef, GiveUpLock, GiveUpCandidate, PublishIndex,
      FreeIndexLock, FailAfterRef, MarkCommitted, Indexed, Fencing, Open, Forward, Refuted, Moved,
      ArtifactsFit
<1>4. CASE WriteOutbox \/ FinishJournal \/ FailCompletion \/ Enter("startup") \/ JudgeHead
           \/ RefuseArtifacts \/ DropCandidate
  BY <1>j, <1>f, <1>4, NoneDiffers DEF WriteOutbox, FinishJournal, FailCompletion, Enter,
      JudgeHead, RefuseArtifacts, DropCandidate, Indexed, Fencing, Open, Forward, Refuted, Moved,
      ArtifactsFit
<1>5. CASE PublishCandidate \/ ReleaseLock \/ CheckFiles \/ RemoveTemp \/ TempsRemoved
           \/ RewriteParent \/ RemoveBackup
  BY <1>j, <1>f, <1>5, NoneDiffers DEF PublishCandidate, ReleaseLock, CheckFiles, RemoveTemp,
      TempsRemoved, RewriteParent, RemoveBackup, Indexed, Fencing, Open, Forward, Refuted, Moved,
      ArtifactsFit
<1>6. CASE SettleParent \/ SettleChild \/ LockIndex \/ UnlockIndex \/ CloseCommitted
           \/ NoticeCommitted \/ FailRecovery
  BY <1>j, <1>f, <1>6, NoneDiffers DEF SettleParent, SettleChild, LockIndex, UnlockIndex,
      CloseCommitted, NoticeCommitted, FailRecovery, Indexed, Fencing, Open, Forward, Refuted,
      Moved, ArtifactsFit
<1>7. CASE Rethrow \/ Enter("admit") \/ ProjectStatus \/ DrainOutbox \/ EndStartup
           \/ RefuseDecomposed \/ Admit
  BY <1>j, <1>f, <1>7, NoneDiffers DEF Rethrow, Enter, ProjectStatus, DrainOutbox, EndStartup,
      RefuseDecomposed, Admit, Indexed, Fencing, Open, Forward, Refuted, Moved, ArtifactsFit
<1>8. CASE EndAdmission \/ Crash
  BY <1>j, <1>f, <1>8, NoneDiffers DEF EndAdmission, Crash, Indexed, Fencing, Open, Forward,
      Refuted, Moved, ArtifactsFit
<1>9. CASE UpdateRef
  BY <1>j, <1>f, <1>9, UpdateRefEffect DEF UpdateRef, Indexed, Fencing, Open, Forward, Refuted,
      Moved, ArtifactsFit
<1>10. CASE RemoveJournal
  BY <1>j, <1>f, <1>10, RemoveJournalEffect DEF RemoveJournal, Indexed, Fencing, Open, Forward,
      Refuted, Moved, ArtifactsFit
<1>11. CASE OtherCommit
  BY <1>j, <1>f, <1>11, OtherCommitEffect DEF OtherCommit, Indexed, Fencing, Open, Forward,
      Refuted, Moved, ArtifactsFit
<1> QED BY <1>1, <1>2, <1>3, <1>4, <1>5, <1>6, <1>7, <1>8, <1>9, <1>10, <1>11 DEF Finalizer,
     Recover, Admission

\* and its status is announced.
LEMMA OtherAnnounced ==
  ASSUME Sound, Rest, Finalizer \/ Recover \/ Admission \/ OtherCommit \/ Crash
  PROVE  Announced'
<1> USE DEF Sound, Rest, On, To, disk, tree, git, notice, SetPhase, Undo, Report, Refuse, AtBase
<1>j. pc \notin Open \cup {"idle"} => journal # None /\ (Committed <=> head.tx)
  BY CommitFound DEF Fencing
<1>f. (pc' \notin Open \cup {"idle"} => journal' # None) /\ (pc' \in Open => journal' = None)
  BY OtherFencing DEF Fencing
<1>1. CASE Enter("finalize") \/ RejectPlan \/ ReplaceParent \/ ParentWritten \/ WriteChild
           \/ ChildrenWritten \/ Baseline
  BY <1>j, <1>f, <1>1 DEF Enter, RejectPlan, ReplaceParent, ParentWritten, WriteChild,
      ChildrenWritten, Baseline, Announced, Fencing, Open, Forward, Refuted, Moved
<1>2. CASE RecordCommit \/ AcquireIndexLock \/ LostBaseline \/ CopyIndex \/ BuildCandidate
           \/ RefNotUpdated \/ ObserveRef
  BY <1>j, <1>f, <1>2 DEF RecordCommit, AcquireIndexLock, LostBaseline, CopyIndex, BuildCandidate,
      RefNotUpdated, ObserveRef, Announced, Fencing, Open, Forward, Refuted, Moved
<1>3. CASE GiveUpLock \/ GiveUpCandidate \/ PublishIndex \/ FreeIndexLock \/ FailAfterRef
           \/ MarkCommitted \/ WriteOutbox
  BY <1>j, <1>f, <1>3 DEF GiveUpLock, GiveUpCandidate, PublishIndex, FreeIndexLock, FailAfterRef,
      MarkCommitted, WriteOutbox, Announced, Fencing, Open, Forward, Refuted, Moved
<1>4. CASE FinishJournal \/ FailCompletion \/ Enter("startup") \/ JudgeHead
           \/ RefuseArtifacts \/ DropCandidate \/ PublishCandidate
  BY <1>j, <1>f, <1>4 DEF FinishJournal, FailCompletion, Enter, JudgeHead, RefuseArtifacts,
      DropCandidate, PublishCandidate, Announced, Fencing, Open, Forward, Refuted, Moved
<1>5. CASE ReleaseLock \/ CheckFiles \/ RemoveTemp \/ TempsRemoved \/ RewriteParent
           \/ RemoveBackup \/ SettleParent
  BY <1>j, <1>f, <1>5 DEF ReleaseLock, CheckFiles, RemoveTemp, TempsRemoved, RewriteParent,
      RemoveBackup, SettleParent, Announced, Fencing, Open, Forward, Refuted, Moved
<1>6. CASE SettleChild \/ LockIndex \/ UnlockIndex \/ CloseCommitted \/ NoticeCommitted
           \/ FailRecovery \/ Rethrow
  BY <1>j, <1>f, <1>6 DEF SettleChild, LockIndex, UnlockIndex, CloseCommitted, NoticeCommitted,
      FailRecovery, Rethrow, Announced, Fencing, Open, Forward, Refuted, Moved
<1>7. CASE Enter("admit") \/ ProjectStatus \/ DrainOutbox \/ EndStartup \/ RefuseDecomposed
           \/ Admit \/ EndAdmission
  BY <1>j, <1>f, <1>7 DEF Enter, ProjectStatus, DrainOutbox, EndStartup, RefuseDecomposed, Admit,
      EndAdmission, Announced, Fencing, Open, Forward, Refuted, Moved
<1>8. CASE Crash
  BY <1>j, <1>f, <1>8 DEF Crash, Announced, Fencing, Open, Forward, Refuted, Moved
<1>9. CASE CreateJournal
  BY <1>j, <1>f, <1>9, CreateJournalEffect, NoneAssumption DEF CreateJournal, Announced, Fencing,
      Open, Forward, Refuted, Moved
<1>10. CASE UpdateRef
  BY <1>j, <1>f, <1>10, UpdateRefEffect DEF UpdateRef, Announced, Fencing, Open, Forward, Refuted,
      Moved
<1>11. CASE RemoveJournal
  BY <1>j, <1>f, <1>11, RemoveJournalEffect DEF RemoveJournal, Announced, Fencing, Open, Forward,
      Refuted, Moved
<1>12. CASE OtherCommit
  BY <1>j, <1>f, <1>12, OtherCommitEffect DEF OtherCommit, Announced, Fencing, Open, Forward,
      Refuted, Moved
<1> QED BY <1>1, <1>2, <1>3, <1>4, <1>5, <1>6, <1>7, <1>8, <1>9, <1>10, <1>11, <1>12
     DEF Finalizer, Recover, Admission

\* A new operation has its purpose,
LEMMA OtherPurpose ==
  ASSUME Sound, Rest, Finalizer \/ Recover \/ Admission \/ OtherCommit \/ Crash
  PROVE  Purpose'
<1> USE DEF Sound, Rest, On, To, disk, tree, git, notice, SetPhase, Undo, Report, Refuse, AtBase
<1>j. pc \notin Open \cup {"idle"} => journal # None /\ (Committed <=> head.tx)
  BY CommitFound DEF Fencing
<1>p. /\ Parent \in Paths /\ Children \subseteq Paths /\ Parent \notin Children
      /\ Desired \in Bytes
      /\ {"replace", "create", "remove"} \subseteq Kinds
  BY ChildrenAssumption DEF Paths, Parent, Desired, Bytes, Kinds
<1>q. ASSUME op' = None
      PROVE  Purpose'
  BY <1>q DEF Purpose
<1>1. CASE Enter("finalize") \/ RejectPlan \/ CreateJournal \/ ParentWritten
           \/ ChildrenWritten \/ Baseline \/ RecordCommit \/ AcquireIndexLock
           \/ LostBaseline \/ CopyIndex \/ BuildCandidate \/ UpdateRef \/ RefNotUpdated
  BY <1>q, <1>1 DEF AcquireIndexLock, Baseline, BuildCandidate, ChildrenWritten, CopyIndex,
      CreateJournal, Enter, LostBaseline, ParentWritten, RecordCommit, RefNotUpdated, RejectPlan,
      UpdateRef
<1>2. CASE ObserveRef \/ GiveUpLock \/ GiveUpCandidate \/ PublishIndex \/ FreeIndexLock
           \/ FailAfterRef \/ MarkCommitted \/ WriteOutbox \/ FinishJournal
           \/ FailCompletion \/ Enter("startup") \/ JudgeHead \/ RefuseArtifacts
  BY <1>q, <1>2 DEF Enter, FailAfterRef, FailCompletion, FinishJournal, FreeIndexLock,
      GiveUpCandidate, GiveUpLock, JudgeHead, MarkCommitted, ObserveRef, PublishIndex,
      RefuseArtifacts, WriteOutbox
<1>3. CASE DropCandidate \/ PublishCandidate \/ ReleaseLock \/ CheckFiles \/ RemoveTemp
           \/ TempsRemoved \/ RemoveBackup \/ LockIndex \/ UnlockIndex \/ CloseCommitted
           \/ NoticeCommitted \/ FailRecovery
  BY <1>q, <1>3 DEF CheckFiles, CloseCommitted, DropCandidate, FailRecovery, LockIndex,
      NoticeCommitted, PublishCandidate, ReleaseLock, RemoveBackup, RemoveTemp, TempsRemoved,
      UnlockIndex
<1>4. CASE Enter("admit") \/ ProjectStatus \/ DrainOutbox \/ EndStartup
           \/ RefuseDecomposed \/ Admit \/ EndAdmission \/ Crash
  BY <1>q, <1>4 DEF Admit, Crash, DrainOutbox, EndAdmission, EndStartup, Enter, ProjectStatus,
      RefuseDecomposed
<1>5. CASE Rethrow
  <2>1. op = None
    BY <1>5 DEF Rethrow, Purpose
  <2>2. op' = op
    BY <1>5 DEF Rethrow
  <2> QED BY <1>q, <2>1, <2>2
<1>6. CASE RemoveJournal
  BY <1>q, <1>6, RemoveJournalEffect
<1>7. CASE OtherCommit
  BY <1>7 DEF OtherCommit, Purpose
<1>8. CASE ReplaceParent
  BY <1>8, <1>p, StartEffect DEF ReplaceParent, Purpose, Bytes
<1>9. CASE WriteChild
  <2>1. PICK c \in Children : Start("create", c, "target")
    BY <1>9 DEF WriteChild
  <2>2. op' \in Operation /\ op'.kind = "create" /\ op'.path = c /\ op'.want = "target"
        /\ op'.step = "open"
    BY <1>p, <2>1, StartEffect DEF Bytes
  <2> QED BY <1>9, <1>p, <2>1, <2>2 DEF WriteChild, Purpose
<1>10. CASE RewriteParent
  BY <1>10, <1>p, StartEffect DEF RewriteParent, Purpose
<1>11. CASE SettleParent
  <2>1. files[Parent] # None
    BY <1>11, NoneDiffers DEF SettleParent, Placed, Kept
  <2>2. Start("replace", Parent, Desired) /\ pc' = "files"
    BY <1>11, <2>1 DEF SettleParent
  <2>3. op' \in Operation /\ op'.kind = "replace" /\ op'.path = Parent /\ op'.step = "open"
    BY <1>p, <2>2, StartEffect
  <2> QED BY <2>2, <2>3 DEF Purpose
<1>12. CASE SettleChild
  <2>1. ~Committed
    BY <1>j, <1>p, <1>12, ChildrenAssumption DEF SettleChild, Placed, Published, Settled, Open
  <2>2. PICK c \in Children : Start("remove", c, "target")
    BY <1>12, <2>1 DEF SettleChild
  <2>3. op' \in Operation /\ op'.kind = "remove" /\ op'.path = c /\ op'.want = "target"
        /\ op'.step = "take"
    BY <1>p, <2>2, StartEffect DEF Bytes
  <2> QED BY <1>12, <1>p, <2>2, <2>3 DEF SettleChild, Purpose
<1> QED BY <1>1, <1>2, <1>3, <1>4, <1>5, <1>6, <1>7, <1>8, <1>9, <1>10, <1>11, <1>12
     DEF Finalizer, Recover, Admission

\* and has made no progress yet.
LEMMA OtherProgress ==
  ASSUME Sound, Rest, Finalizer \/ Recover \/ Admission \/ OtherCommit \/ Crash
  PROVE  Progress'
<1> USE DEF Sound, Rest, On, To, disk, tree, git, notice, SetPhase, Undo, Report, Refuse, AtBase
<1>j. pc \notin Open \cup {"idle"} => journal # None /\ (Committed <=> head.tx)
  BY CommitFound DEF Fencing
<1>p. /\ Parent \in Paths /\ Children \subseteq Paths /\ Parent \notin Children
      /\ Desired \in Bytes
      /\ {"replace", "create", "remove"} \subseteq Kinds
  BY ChildrenAssumption DEF Paths, Parent, Desired, Bytes, Kinds
<1>q. ASSUME op' = None
      PROVE  Progress'
  BY <1>q DEF Progress
<1>1. CASE Enter("finalize") \/ RejectPlan \/ CreateJournal \/ ParentWritten
           \/ ChildrenWritten \/ Baseline \/ RecordCommit \/ AcquireIndexLock
           \/ LostBaseline \/ CopyIndex \/ BuildCandidate \/ UpdateRef \/ RefNotUpdated
  BY <1>q, <1>1 DEF AcquireIndexLock, Baseline, BuildCandidate, ChildrenWritten, CopyIndex,
      CreateJournal, Enter, LostBaseline, ParentWritten, RecordCommit, RefNotUpdated, RejectPlan,
      UpdateRef
<1>2. CASE ObserveRef \/ GiveUpLock \/ GiveUpCandidate \/ PublishIndex \/ FreeIndexLock
           \/ FailAfterRef \/ MarkCommitted \/ WriteOutbox \/ FinishJournal
           \/ FailCompletion \/ Enter("startup") \/ JudgeHead \/ RefuseArtifacts
  BY <1>q, <1>2 DEF Enter, FailAfterRef, FailCompletion, FinishJournal, FreeIndexLock,
      GiveUpCandidate, GiveUpLock, JudgeHead, MarkCommitted, ObserveRef, PublishIndex,
      RefuseArtifacts, WriteOutbox
<1>3. CASE DropCandidate \/ PublishCandidate \/ ReleaseLock \/ CheckFiles \/ RemoveTemp
           \/ TempsRemoved \/ RemoveBackup \/ LockIndex \/ UnlockIndex \/ CloseCommitted
           \/ NoticeCommitted \/ FailRecovery
  BY <1>q, <1>3 DEF CheckFiles, CloseCommitted, DropCandidate, FailRecovery, LockIndex,
      NoticeCommitted, PublishCandidate, ReleaseLock, RemoveBackup, RemoveTemp, TempsRemoved,
      UnlockIndex
<1>4. CASE Enter("admit") \/ ProjectStatus \/ DrainOutbox \/ EndStartup
           \/ RefuseDecomposed \/ Admit \/ EndAdmission \/ Crash
  BY <1>q, <1>4 DEF Admit, Crash, DrainOutbox, EndAdmission, EndStartup, Enter, ProjectStatus,
      RefuseDecomposed
<1>5. CASE Rethrow
  <2>1. op = None
    BY <1>5 DEF Rethrow, Purpose
  <2>2. op' = op
    BY <1>5 DEF Rethrow
  <2> QED BY <1>q, <2>1, <2>2
<1>6. CASE RemoveJournal
  BY <1>q, <1>6, RemoveJournalEffect
<1>7. CASE OtherCommit
  BY <1>7 DEF OtherCommit, Progress
<1>8. CASE ReplaceParent
  <2>1. op' \in Operation /\ op'.kind = "replace" /\ op'.path = Parent /\ op'.step = "open"
    BY <1>8, <1>p, StartEffect DEF ReplaceParent, Bytes
  <2>2. files[Parent] # None /\ \A p \in Paths : temps[p] = {}
    BY <1>8, NoneDiffers DEF ReplaceParent, Placed, Untouched
  <2> QED BY <1>8, <1>p, <2>1, <2>2 DEF ReplaceParent, Progress
<1>9. CASE WriteChild
  <2>1. PICK c \in Children : files[c] = None /\ Start("create", c, "target")
    BY <1>9 DEF WriteChild
  <2>2. op' \in Operation /\ op'.kind = "create" /\ op'.path = c /\ op'.step = "open"
    BY <1>p, <2>1, StartEffect DEF Bytes
  <2>3. \A p \in Paths : temps[p] = {}
    BY <1>9 DEF WriteChild, Placed
  <2> QED BY <1>9, <1>p, <2>1, <2>2, <2>3 DEF WriteChild, Progress
<1>10. CASE RewriteParent
  <2>1. op' \in Operation /\ op'.kind = "create" /\ op'.path = Parent /\ op'.step = "open"
    BY <1>10, <1>p, StartEffect DEF RewriteParent
  <2>2. files[Parent] = None /\ \A p \in Paths : temps[p] = {}
    BY <1>10 DEF RewriteParent, Placed
  <2> QED BY <1>10, <1>p, <2>1, <2>2 DEF RewriteParent, Progress
<1>11. CASE SettleParent
  <2>1. files[Parent] # None /\ \A p \in Paths : temps[p] = {}
    BY <1>11, NoneDiffers DEF SettleParent, Placed, Kept
  <2>2. op' \in Operation /\ op'.kind = "replace" /\ op'.path = Parent /\ op'.step = "open"
    BY <1>11, <1>p, <2>1, StartEffect DEF SettleParent
  <2> QED BY <1>11, <1>p, <2>1, <2>2 DEF SettleParent, Progress
<1>12. CASE SettleChild
  <2>1. ~Committed /\ \A p \in Paths : temps[p] = {}
    BY <1>j, <1>p, <1>12, ChildrenAssumption DEF SettleChild, Placed, Published, Settled, Open
  <2>2. PICK c \in Children : Start("remove", c, "target")
    BY <1>12, <2>1 DEF SettleChild
  <2>3. op' \in Operation /\ op'.kind = "remove" /\ op'.path = c /\ op'.step = "take"
    BY <1>p, <2>2, StartEffect DEF Bytes
  <2> QED BY <1>12, <1>p, <2>1, <2>2, <2>3 DEF SettleChild, Progress
<1> QED BY <1>1, <1>2, <1>3, <1>4, <1>5, <1>6, <1>7, <1>8, <1>9, <1>10, <1>11, <1>12
     DEF Finalizer, Recover, Admission

\* The tree is what the place promises,
LEMMA OtherPlaced ==
  ASSUME Sound, Rest, Finalizer \/ Recover \/ Admission \/ OtherCommit \/ Crash
  PROVE  Placed'
<1> USE DEF Sound, Rest, On, To, disk, tree, git, notice, SetPhase, Undo, Report, Refuse, AtBase
<1>j. pc \notin Open \cup {"idle"} => journal # None /\ (Committed <=> head.tx)
  BY CommitFound DEF Fencing
<1>f. (pc' \notin Open \cup {"idle"} => journal' # None) /\ (pc' \in Open => journal' = None)
  BY OtherFencing DEF Fencing
<1>p. /\ Parent \in Paths /\ Children \subseteq Paths /\ Parent \notin Children
      /\ Desired \in Bytes
      /\ {"replace", "create", "remove"} \subseteq Kinds
  BY ChildrenAssumption DEF Paths, Parent, Desired, Bytes, Kinds
<1>1. CASE Enter("finalize") \/ RejectPlan \/ ParentWritten \/ Baseline \/ RecordCommit
           \/ AcquireIndexLock \/ LostBaseline
  BY <1>j, <1>f, <1>1 DEF Enter, RejectPlan, ParentWritten, Baseline, RecordCommit,
      AcquireIndexLock, LostBaseline, Placed, Published, Untouched, Whole, Rolled, Open
<1>2. CASE CopyIndex \/ BuildCandidate \/ RefNotUpdated \/ ObserveRef \/ GiveUpLock
           \/ GiveUpCandidate \/ PublishIndex
  BY <1>j, <1>f, <1>2 DEF CopyIndex, BuildCandidate, RefNotUpdated, ObserveRef, GiveUpLock,
      GiveUpCandidate, PublishIndex, Placed, Published, Untouched, Whole, Rolled, Open
<1>3. CASE FreeIndexLock \/ FailAfterRef \/ MarkCommitted \/ WriteOutbox \/ FailCompletion
           \/ Enter("startup") \/ JudgeHead
  BY <1>j, <1>f, <1>3 DEF FreeIndexLock, FailAfterRef, MarkCommitted, WriteOutbox, FailCompletion,
      Enter, JudgeHead, Placed, Published, Untouched, Whole, Rolled, Open
<1>4. CASE RefuseArtifacts \/ DropCandidate \/ PublishCandidate \/ ReleaseLock
           \/ CheckFiles \/ TempsRemoved \/ RemoveBackup
  BY <1>j, <1>f, <1>4 DEF RefuseArtifacts, DropCandidate, PublishCandidate, ReleaseLock,
      CheckFiles, TempsRemoved, RemoveBackup, Placed, Published, Untouched, Whole, Rolled, Open
<1>5. CASE UnlockIndex \/ CloseCommitted \/ NoticeCommitted \/ FailRecovery \/ Rethrow
           \/ Enter("admit") \/ ProjectStatus
  BY <1>j, <1>f, <1>5 DEF UnlockIndex, CloseCommitted, NoticeCommitted, FailRecovery, Rethrow,
      Enter, ProjectStatus, Placed, Published, Untouched, Whole, Rolled, Open
<1>6. CASE DrainOutbox \/ EndStartup \/ RefuseDecomposed \/ Admit \/ EndAdmission \/ Crash
  BY <1>j, <1>f, <1>6 DEF DrainOutbox, EndStartup, RefuseDecomposed, Admit, EndAdmission, Crash,
      Placed, Published, Untouched, Whole, Rolled, Open
<1>7. CASE CreateJournal
  <2>1. ~head.tx /\ Untouched
    BY <1>7, <1>p, NoneDiffers DEF CreateJournal, Placed, Published, Untouched, Fencing, Open
  <2>2. pc' = "plan" /\ UNCHANGED <<head, files, temps, backup, op>>
    BY <1>7 DEF CreateJournal
  <2> QED BY <2>1, <2>2 DEF Placed, Published, Untouched, Whole, Rolled
<1>8. CASE ReplaceParent
  <2>1. UNCHANGED <<head, journal, files, temps, backup>> /\ op = None
    BY <1>8 DEF ReplaceParent
  <2>2. ~head.tx
    BY <1>8 DEF ReplaceParent, Fencing, Forward
  <2>3. op' # None /\ (pc' = "files" /\ op'.kind = "remove" => backup = None)
    <3>1. op' \in Operation
      BY <1>8, <1>p, StartEffect DEF ReplaceParent, Bytes
    <3> QED BY <1>8, <3>1, NoneAssumption DEF ReplaceParent
  <2> QED BY <1>8, <2>1, <2>2, <2>3 DEF ReplaceParent, Placed, Untouched, Whole, Rolled, Fencing,
       Open
<1>9. CASE WriteChild
  <2>1. UNCHANGED <<head, journal, files, temps, backup>> /\ op = None
    BY <1>9 DEF WriteChild
  <2>2. ~head.tx
    BY <1>9 DEF WriteChild, Fencing, Forward
  <2>3. op' # None /\ (pc' = "files" /\ op'.kind = "remove" => backup = None)
    <3>1. op' \in Operation
      BY <1>9, <1>p, StartEffect DEF WriteChild, Bytes
    <3> QED BY <1>9, <3>1, NoneAssumption DEF WriteChild
  <2> QED BY <1>9, <2>1, <2>2, <2>3 DEF WriteChild, Placed, Untouched, Whole, Rolled, Fencing,
       Open
<1>10. CASE ChildrenWritten
  <2>1. Published
    BY <1>10, <1>p, NoneDiffers DEF ChildrenWritten, Placed, Published, Kept, Paths
  <2>2. pc' = "baseline" /\ journal' # None
    BY <1>10, <1>f DEF ChildrenWritten, Open
  <2> QED BY <1>10, <2>1, <2>2 DEF ChildrenWritten, Placed, Published, Rolled
<1>11. CASE UpdateRef
  BY <1>j, <1>f, <1>11, UpdateRefEffect DEF UpdateRef, Placed, Published, Untouched, Whole,
      Rolled,
      Open
<1>12. CASE FinishJournal
  BY <1>12 DEF FinishJournal, Placed, Published, Whole, Rolled, Fencing, Moved
<1>13. CASE RemoveTemp
  <2>1. ~head.tx
    BY <1>13, <1>p DEF RemoveTemp, Placed, Published
  <2>2. pc' = "temps" /\ journal' # None /\ head' = head
    BY <1>13, <1>f DEF RemoveTemp, Open
  <2> QED BY <2>1, <2>2 DEF Placed, Whole, Rolled
<1>14. CASE RewriteParent
  <2>1. UNCHANGED <<head, journal, files, temps, backup>> /\ op = None
    BY <1>14 DEF RewriteParent
  <2>2. ~head.tx
    BY <1>14 DEF RewriteParent, Placed, Published
  <2>3. op' # None /\ (pc' = "files" /\ op'.kind = "remove" => backup = None)
    <3>1. op' \in Operation
      BY <1>14, <1>p, StartEffect DEF RewriteParent
    <3> QED BY <1>14, <3>1, NoneAssumption DEF RewriteParent
  <2> QED BY <1>14, <2>1, <2>2, <2>3 DEF RewriteParent, Placed, Untouched, Whole, Rolled, Fencing,
       Open
<1>15. CASE SettleParent
  <2>1. UNCHANGED <<head, journal, files, temps, backup>> /\ op = None
    BY <1>15 DEF SettleParent
  <2>2. ~head.tx
    BY <1>j, <1>15, <1>p DEF SettleParent, Placed, Published, Desired, Open
  <2>3. op' # None /\ (pc' = "files" /\ op'.kind = "remove" => backup = None)
    <3>1. backup = None
      BY <1>15 DEF SettleParent, Placed
    <3>2. op' \in Operation
      BY <1>15, <1>p, StartEffect DEF SettleParent, Bytes
    <3> QED BY <3>1, <3>2, NoneAssumption
  <2> QED BY <1>15, <2>1, <2>2, <2>3 DEF SettleParent, Placed, Untouched, Whole, Rolled, Fencing,
       Open
<1>16. CASE SettleChild
  <2>1. UNCHANGED <<head, journal, files, temps, backup>> /\ op = None
    BY <1>16 DEF SettleChild
  <2>2. ~head.tx
    BY <1>j, <1>16, <1>p DEF SettleChild, Placed, Published, Settled, Open
  <2>3. op' # None /\ (pc' = "files" /\ op'.kind = "remove" => backup = None)
    <3>1. backup = None
      BY <1>16 DEF SettleChild, Placed
    <3>2. op' \in Operation
      BY <1>16, <1>p, StartEffect DEF SettleChild, Bytes
    <3> QED BY <3>1, <3>2, NoneAssumption
  <2> QED BY <1>16, <2>1, <2>2, <2>3 DEF SettleChild, Placed, Untouched, Whole, Rolled, Fencing,
       Open
<1>17. CASE LockIndex
  <2>1. CASE head.tx
    BY <1>17, <1>f, <2>1 DEF LockIndex, Placed, Published, Whole, Rolled
  <2>2. CASE ~head.tx
    <3>1. ~Committed
      BY <1>j, <1>17, <2>2 DEF LockIndex, Open
    <3>2. Untouched
      BY <1>17, <1>p, <3>1 DEF LockIndex, Placed, Untouched, Desired, Settled, Kept, Paths
    <3> QED BY <1>17, <2>2, <3>2 DEF LockIndex, Placed, Untouched, Whole, Rolled
  <2> QED BY <2>1, <2>2
<1>18. CASE RemoveJournal
  <2>1. head.tx => Published
    BY DEF Placed
  <2>2. ~head.tx => Untouched
    BY <1>18, RemoveJournalEffect DEF Placed, Rolled
  <2>3. UNCHANGED <<head, files, temps, backup>> /\ op' = op /\ pc' \in {"resolve", "idle"}
    BY <1>18, RemoveJournalEffect
  <2> QED BY <2>1, <2>2, <2>3 DEF Placed, Published, Untouched, Whole, Rolled
<1>19. CASE OtherCommit
  BY <1>19, OtherCommitEffect DEF OtherCommit, Placed, Published, Untouched
<1> QED BY <1>1, <1>2, <1>3, <1>4, <1>5, <1>6, <1>7, <1>8, <1>9, <1>10, <1>11, <1>12, <1>13,
     <1>14, <1>15, <1>16, <1>17, <1>18, <1>19 DEF Finalizer, Recover, Admission

\* and whatever must survive a stop does.
LEMMA OtherKept ==
  ASSUME Sound, Rest, Finalizer \/ Recover \/ Admission \/ OtherCommit \/ Crash
  PROVE  Kept'
<1> USE DEF Sound, Rest, On, To, disk, tree, git, notice, SetPhase, Undo, Report, Refuse, AtBase
<1>j. pc \notin Open \cup {"idle"} => journal # None /\ (Committed <=> head.tx)
  BY CommitFound DEF Fencing
<1>f. (pc' \notin Open \cup {"idle"} => journal' # None) /\ (pc' \in Open => journal' = None)
  BY OtherFencing DEF Fencing
<1>p. /\ Parent \in Paths /\ Children \subseteq Paths /\ Parent \notin Children
      /\ Desired \in Bytes
      /\ {"replace", "create", "remove"} \subseteq Kinds
  BY ChildrenAssumption DEF Paths, Parent, Desired, Bytes, Kinds
<1>u. ASSUME UNCHANGED <<files, temps, backup>>, pc' # "temps" \/ pc = "temps"
      PROVE  Kept'
  BY <1>u DEF Kept, BackupFits
<1>1. CASE Enter("finalize")
  BY <1>1, <1>u DEF Enter
<1>2. CASE RejectPlan
  BY <1>2, <1>u DEF RejectPlan
<1>3. CASE CreateJournal
  BY <1>3, <1>u DEF CreateJournal
<1>4. CASE ReplaceParent
  BY <1>4, <1>u DEF ReplaceParent
<1>5. CASE ParentWritten
  BY <1>5, <1>u DEF ParentWritten
<1>6. CASE WriteChild
  BY <1>6, <1>u DEF WriteChild
<1>7. CASE ChildrenWritten
  BY <1>7, <1>u DEF ChildrenWritten
<1>8. CASE Baseline
  BY <1>8, <1>u DEF Baseline
<1>9. CASE RecordCommit
  BY <1>9, <1>u DEF RecordCommit
<1>10. CASE AcquireIndexLock
  BY <1>10, <1>u DEF AcquireIndexLock
<1>11. CASE LostBaseline
  BY <1>11, <1>u DEF LostBaseline
<1>12. CASE CopyIndex
  BY <1>12, <1>u DEF CopyIndex
<1>13. CASE BuildCandidate
  BY <1>13, <1>u DEF BuildCandidate
<1>14. CASE UpdateRef
  BY <1>14, <1>u DEF UpdateRef
<1>15. CASE RefNotUpdated
  BY <1>15, <1>u DEF RefNotUpdated
<1>16. CASE ObserveRef
  BY <1>16, <1>u DEF ObserveRef
<1>17. CASE GiveUpLock
  BY <1>17, <1>u DEF GiveUpLock
<1>18. CASE GiveUpCandidate
  BY <1>18, <1>u DEF GiveUpCandidate
<1>19. CASE PublishIndex
  BY <1>19, <1>u DEF PublishIndex
<1>20. CASE FreeIndexLock
  BY <1>20, <1>u DEF FreeIndexLock
<1>21. CASE FailAfterRef
  BY <1>21, <1>u DEF FailAfterRef
<1>22. CASE MarkCommitted
  BY <1>22, <1>u DEF MarkCommitted
<1>23. CASE WriteOutbox
  BY <1>23, <1>u DEF WriteOutbox
<1>24. CASE FinishJournal
  BY <1>24, <1>u DEF FinishJournal
<1>25. CASE FailCompletion
  BY <1>25, <1>u DEF FailCompletion
<1>26. CASE Enter("startup")
  BY <1>26, <1>u DEF Enter
<1>27. CASE JudgeHead
  BY <1>27, <1>u DEF JudgeHead
<1>28. CASE RefuseArtifacts
  BY <1>28, <1>u DEF RefuseArtifacts
<1>29. CASE DropCandidate
  BY <1>29, <1>u DEF DropCandidate
<1>30. CASE PublishCandidate
  BY <1>30, <1>u DEF PublishCandidate
<1>31. CASE ReleaseLock
  BY <1>31, <1>u DEF ReleaseLock
<1>32. CASE CheckFiles
  BY <1>32 DEF CheckFiles, Kept, BackupFits
<1>33. CASE RemoveTemp
  <2>1. PICK p \in Paths : \E t \in temps[p] : temps' = [temps EXCEPT ![p] = temps[p] \ {t}]
    BY <1>33 DEF RemoveTemp
  <2>2. \A c \in Children : temps'[c] \subseteq temps[c]
    BY <1>p, <2>1 DEF TypeOK
  <2>3. UNCHANGED <<files, backup>> /\ BackupFits
    BY <1>33 DEF RemoveTemp, Kept
  <2> QED BY <2>2, <2>3 DEF Kept, BackupFits
<1>34. CASE TempsRemoved
  BY <1>34, <1>u DEF TempsRemoved
<1>35. CASE RewriteParent
  BY <1>35, <1>u DEF RewriteParent
<1>36. CASE RemoveBackup
  BY <1>36 DEF RemoveBackup, Kept, BackupFits
<1>37. CASE SettleParent
  BY <1>37, <1>u DEF SettleParent
<1>38. CASE SettleChild
  BY <1>38, <1>u DEF SettleChild
<1>39. CASE LockIndex
  BY <1>39, <1>u DEF LockIndex
<1>40. CASE UnlockIndex
  BY <1>40, <1>u DEF UnlockIndex
<1>41. CASE CloseCommitted
  BY <1>41, <1>u DEF CloseCommitted
<1>42. CASE NoticeCommitted
  BY <1>42, <1>u DEF NoticeCommitted
<1>43. CASE RemoveJournal
  BY <1>43, <1>u, RemoveJournalEffect
<1>44. CASE FailRecovery
  BY <1>44, <1>u DEF FailRecovery
<1>45. CASE Rethrow
  BY <1>45, <1>u DEF Rethrow
<1>46. CASE Enter("admit")
  BY <1>46, <1>u DEF Enter
<1>47. CASE ProjectStatus
  BY <1>47, <1>u DEF ProjectStatus
<1>48. CASE DrainOutbox
  BY <1>48, <1>u DEF DrainOutbox
<1>49. CASE EndStartup
  BY <1>49, <1>u DEF EndStartup
<1>50. CASE RefuseDecomposed
  BY <1>50, <1>u DEF RefuseDecomposed
<1>51. CASE Admit
  BY <1>51, <1>u DEF Admit
<1>52. CASE EndAdmission
  BY <1>52, <1>u DEF EndAdmission
<1>53. CASE OtherCommit
  BY <1>53, <1>u DEF OtherCommit
<1>54. CASE Crash
  BY <1>54, <1>u DEF Crash
<1> QED BY <1>1, <1>2, <1>3, <1>4, <1>5, <1>6, <1>7, <1>8, <1>9, <1>10, <1>11, <1>12, <1>13,
     <1>14, <1>15, <1>16, <1>17, <1>18, <1>19, <1>20, <1>21, <1>22, <1>23, <1>24, <1>25, <1>26,
     <1>27, <1>28, <1>29, <1>30, <1>31, <1>32, <1>33, <1>34, <1>35, <1>36, <1>37, <1>38, <1>39,
     <1>40, <1>41, <1>42, <1>43, <1>44, <1>45, <1>46, <1>47, <1>48, <1>49, <1>50, <1>51, <1>52,
     <1>53, <1>54 DEF Finalizer, Recover, Admission

\* Recovery refuses for the three reasons.
LEMMA OtherRefusal ==
  ASSUME Sound, Rest, Finalizer \/ Recover \/ Admission \/ OtherCommit \/ Crash
  PROVE  RefusalExplained'
<1> USE DEF Sound, Rest, On, To, disk, tree, git, notice, SetPhase, Undo, Report, Refuse, AtBase
<1>j. pc \notin Open \cup {"idle"} => journal # None /\ (Committed <=> head.tx)
  BY CommitFound DEF Fencing
<1>p. /\ Parent \in Paths /\ Children \subseteq Paths /\ Paths = {Parent} \cup Children
      /\ \A p \in Paths : temps[p] \in SUBSET Temp
  BY DEF Paths, TypeOK
<1>q. ASSUME pc' # "refused"
      PROVE  RefusalExplained'
  BY <1>q DEF RefusalExplained
<1>1. CASE Enter("finalize") \/ RejectPlan \/ CreateJournal \/ ReplaceParent
           \/ ParentWritten \/ WriteChild \/ ChildrenWritten \/ Baseline \/ RecordCommit
           \/ AcquireIndexLock \/ LostBaseline \/ CopyIndex \/ BuildCandidate
  BY <1>q, <1>1 DEF AcquireIndexLock, Baseline, BuildCandidate, ChildrenWritten, CopyIndex,
      CreateJournal, Enter, LostBaseline, ParentWritten, RecordCommit, RejectPlan, ReplaceParent,
      WriteChild
<1>2. CASE UpdateRef \/ RefNotUpdated \/ ObserveRef \/ GiveUpLock \/ GiveUpCandidate
           \/ PublishIndex \/ FreeIndexLock \/ FailAfterRef \/ MarkCommitted
           \/ WriteOutbox \/ FinishJournal \/ FailCompletion \/ Enter("startup")
  BY <1>q, <1>2 DEF Enter, FailAfterRef, FailCompletion, FinishJournal, FreeIndexLock,
      GiveUpCandidate, GiveUpLock, MarkCommitted, ObserveRef, PublishIndex, RefNotUpdated,
      UpdateRef, WriteOutbox
<1>3. CASE DropCandidate \/ PublishCandidate \/ ReleaseLock \/ RemoveTemp \/ TempsRemoved
           \/ RewriteParent \/ RemoveBackup \/ SettleParent \/ SettleChild \/ LockIndex
           \/ UnlockIndex \/ CloseCommitted \/ NoticeCommitted
  BY <1>q, <1>3 DEF CloseCommitted, DropCandidate, LockIndex, NoticeCommitted, PublishCandidate,
      ReleaseLock, RemoveBackup, RemoveTemp, RewriteParent, SettleChild, SettleParent,
      TempsRemoved, UnlockIndex
<1>4. CASE FailRecovery \/ Enter("admit") \/ ProjectStatus \/ DrainOutbox \/ EndStartup
           \/ RefuseDecomposed \/ Admit \/ EndAdmission \/ Crash
  BY <1>q, <1>4 DEF Admit, Crash, DrainOutbox, EndAdmission, EndStartup, Enter, FailRecovery,
      ProjectStatus, RefuseDecomposed
<1>5. CASE Rethrow
  BY <1>q, <1>5 DEF Rethrow
<1>6. CASE RemoveJournal
  BY <1>q, <1>6, RemoveJournalEffect
<1>7. CASE JudgeHead
  <2>1. CASE Committed \/ AtBase
    BY <1>q, <1>7, <2>1 DEF JudgeHead
  <2>2. CASE ~(Committed \/ AtBase)
    <3>1. ~head.tx /\ head.n # journal.base
      BY <1>j, <1>7, <2>2 DEF JudgeHead, Open, TypeOK
    <3>2. UNCHANGED <<head, journal>>
      BY <1>7, <2>2 DEF JudgeHead
    <3> QED BY <3>1, <3>2 DEF RefusalExplained
  <2> QED BY <2>1, <2>2
<1>8. CASE RefuseArtifacts
  <2>1. lock = "target"
    BY <1>j, <1>8, NoneDiffers DEF RefuseArtifacts, ArtifactsFit, Indexed, Open
  <2> QED BY <1>8, <2>1 DEF RefuseArtifacts, RefusalExplained
<1>9. CASE CheckFiles
  <2>1. CASE TempsFit /\ BackupFits /\ WorktreeFits
    BY <1>q, <1>9, <2>1 DEF CheckFiles
  <2>2. CASE ~(TempsFit /\ BackupFits /\ WorktreeFits)
    <3>1. UNCHANGED temps
      BY <1>9, <2>2 DEF CheckFiles
    <3>2. WorktreeFits
      BY DEF WorktreeFits, Kept
    <3>3. CASE ~BackupFits
      <4>1. \E t \in temps[Parent] : t.link = "backup"
        BY <3>3 DEF BackupFits, Kept
      <4> QED BY <3>1, <4>1 DEF RefusalExplained
    <3>4. CASE ~TempsFit
      <4>0. CASE \E p \in Paths : ThreeLinks(p)
        <5>1. PICK p \in Paths : ThreeLinks(p)
          BY <4>0
        <5>2. UNCHANGED files
          BY <1>9, <2>2 DEF CheckFiles
        <5>3. ThreeLinks(p)'
          BY <3>1, <5>1, <5>2 DEF ThreeLinks
        <5> QED BY <5>3 DEF RefusalExplained
      <4> SUFFICES ASSUME ~\E p \in Paths : ThreeLinks(p)
                   PROVE  RefusalExplained'
        BY <4>0
      <4>1. PICK p \in Paths : \E t \in temps[p] :
               ~(/\ t.bytes = "target" /\ t.link # "backup"
                 /\ p # Parent /\ files[p] # None => t.link \in {"dest", "aside"})
        BY <3>4 DEF TempsFit
      <4>2. PICK t \in temps[p] :
               ~(/\ t.bytes = "target" /\ t.link # "backup"
                 /\ p # Parent /\ files[p] # None => t.link \in {"dest", "aside"})
        BY <4>1
      <4>3. t.bytes # "target" \/ t.link = "backup"
        BY <1>p, <4>2, TempFields DEF Kept
      <4>4. t \in temps[Parent] \cup UNION {temps[c] : c \in Children}
        BY <1>p, <4>2
      <4> QED BY <3>1, <4>3, <4>4 DEF RefusalExplained
    <3> QED BY <2>2, <3>2, <3>3, <3>4
  <2> QED BY <2>1, <2>2
<1>10. CASE OtherCommit
  <2>1. UNCHANGED <<pc, journal, files, temps, lock>>
    BY <1>10 DEF OtherCommit
  <2>2. pc = "refused" => journal.base \in Nat /\ head.n \in Nat /\ journal.base <= head.n
    <3>1. pc = "refused" => journal \in Journal /\ journal.base <= head.n
      BY DEF Fencing, Open, TypeOK
    <3>2. pc = "refused" => journal.base \in 0..MaxCommits
      BY <3>1, JournalFacts
    <3> QED BY <3>1, <3>2, BoundsAssumption DEF TypeOK
  <2> QED BY <1>10, <2>1, <2>2, OtherCommitEffect DEF RefusalExplained, ThreeLinks
<1> QED BY <1>1, <1>2, <1>3, <1>4, <1>5, <1>6, <1>7, <1>8, <1>9, <1>10 DEF Finalizer, Recover,
     Admission

-----------------------------------------------------------------------------
(* The inductive invariant.                                                *)

\* A file step changes neither the branch nor the index nor what was told,
LEMMA FileRest ==
  ASSUME Sound, Rest, FileStep
  PROVE  Rest'
<1>1. /\ op # None /\ UNCHANGED <<journal, head, index, lock, candidate, outbox, db, report>>
      /\ UNCHANGED <<pc, goal>> \/ Raises
      /\ pc \in {"wrote", "specs", "backup", "files"}
  BY FileFrame DEF Sound, Purpose, rest
<1>2. ~head.tx /\ journal # None
  BY <1>1 DEF Sound, Placed, Published, Fencing, Open
<1>3. Fencing'
  BY <1>1, <1>2 DEF Rest, Fencing, Open, Forward, Refuted, Moved, Raises
<1>4. Answering'
  BY <1>1, <1>2, NoneDiffers DEF Rest, Answering, Forward, Raises, Goals
<1>5. Indexed'
  BY <1>1, <1>2 DEF Rest, Indexed, Raises
<1>6. Announced'
  BY <1>1, <1>2 DEF Rest, Announced, Raises
<1>7. RefusalExplained'
  BY <1>1 DEF RefusalExplained, Raises
<1> QED BY <1>3, <1>4, <1>5, <1>6, <1>7 DEF Rest

\* and keeps its types.
LEMMA FileTyped ==
  ASSUME Sound, Rest, FileStep
  PROVE  TypeOK'
<1>1. /\ UNCHANGED <<journal, head, index, lock, candidate, outbox, db, report, crashes>>
      /\ UNCHANGED <<pc, goal>> \/ Raises
      /\ faults' = faults \/ (faults < MaxFaults /\ faults' = faults + 1)
  BY FileFrame DEF Sound, rest
<1>2. pc' \in Labels /\ goal' \in {None} \cup Goals
  BY <1>1 DEF Raises, Sound, TypeOK, Labels, Goals
<1>3. faults' \in 0..MaxFaults
  BY <1>1, BoundsAssumption DEF Sound, TypeOK
<1> QED BY <1>1, <1>2, <1>3, FileTypes DEF Sound, TypeOK

LEMMA InvInit == Init => Inv
<1> SUFFICES ASSUME Init
             PROVE  Inv
  OBVIOUS
<1> USE DEF Init
<1>p. Parent \in Paths /\ Parent \notin Children /\ Children \subseteq Paths
  BY ChildrenAssumption DEF Paths, Parent
<1>1. TypeOK
  <2>1. 0 \in 0..MaxCommits /\ 0 \in 0..MaxCrashes /\ 0 \in 0..MaxFaults
    BY BoundsAssumption
  <2>2. head \in [tx : BOOLEAN, n : 0..MaxCommits]
    BY <2>1
  <2>3. files \in [Paths -> Bytes \cup {None}] /\ temps \in [Paths -> SUBSET Temp]
    BY DEF Bytes
  <2> QED BY <2>1, <2>2, <2>3 DEF TypeOK, Labels
<1>2. Fencing /\ Answering /\ Indexed /\ Announced /\ RefusalExplained
  BY NoneDiffers DEF Fencing, Answering, Indexed, Announced, RefusalExplained, Open, Forward,
     Refuted, Moved, Goals
<1>3. Purpose /\ Progress
  BY DEF Purpose, Progress
<1>4. Placed
  BY <1>p DEF Placed, Published, Untouched, Whole, Rolled
<1>5. Kept
  BY <1>p, NoneDiffers DEF Kept
<1> QED BY <1>1, <1>2, <1>3, <1>4, <1>5 DEF Inv, Sound, Rest

LEMMA InvNext ==
  ASSUME Inv, [Next]_vars
  PROVE  Inv'
<1>1. CASE FileStep
  BY <1>1, FileRest, FileTyped, FilePurpose, FileProgress, FilePlaced, FileKept DEF Inv, Sound,
      Rest
<1>2. CASE Finalizer \/ Recover \/ Admission \/ OtherCommit \/ Crash
  BY <1>2, OtherTypes, OtherFencing, OtherAnswering, OtherIndexed, OtherAnnounced, OtherPurpose,
     OtherProgress, OtherPlaced, OtherKept, OtherRefusal DEF Inv, Sound, Rest
<1>3. CASE UNCHANGED vars
  <2>1. TypeOK'
    BY <1>3 DEF Inv, Sound, TypeOK, vars, disk
  <2>2. Rest'
    BY <1>3 DEF Inv, Rest, Fencing, Answering, Indexed, Announced, RefusalExplained, ThreeLinks,
       vars, disk
  <2>3. Purpose' /\ Progress'
    BY <1>3 DEF Inv, Sound, Purpose, Progress, vars, disk
  <2>4. Placed' /\ Kept'
    BY <1>3 DEF Inv, Sound, Placed, Published, Untouched, Kept, BackupFits, vars, disk
  <2> QED BY <2>1, <2>2, <2>3, <2>4 DEF Inv, Sound, Rest
<1> QED BY <1>1, <1>2, <1>3 DEF Next, Program

LEMMA Invariant == Spec => []Inv
BY InvInit, InvNext, PTL DEF Spec

\* The transaction keeps its types at any stop, where an operation under way and the
\* private index included (decomposition-transaction-journal.ts).
THEOREM JournalTyped == Spec => []TypeOK
<1>1. Inv => TypeOK
  BY DEF Inv, Sound
<1> QED BY <1>1, Invariant, PTL

\* A finalization says "committed" only of a commit that is on the branch, and "failed"
\* only if none is, whatever update-ref reported (observeDecompositionRefPublication).
THEOREM ReportsTrue == Spec => []ReportTrue
<1>1. Inv => ReportTrue
  BY DEF Inv, Rest, Answering, ReportTrue
<1> QED BY <1>1, Invariant, PTL

\* Recovery refuses for four reasons only (reconcileTransactionIndexArtifacts,
\* validateTransactionTemporaryFiles, validateWorktreeForRecovery).
THEOREM RefusalsExplained == Spec => []RefusalExplained
<1>1. Inv => RefusalExplained
  BY DEF Inv, Rest
<1> QED BY <1>1, Invariant, PTL

-----------------------------------------------------------------------------
(* The files and the index as one view.                                    *)

Viewed == <<files, temps, backup, index, lock, candidate>>
Unlocked == lock = None /\ candidate = None

LEMMA ViewOld ==
  ASSUME Untouched, Unlocked, index = "base"
  PROVE  View = "old"
<1>p. Children \subseteq Paths /\ Parent \notin Children
  BY ChildrenAssumption DEF Paths, Parent
<1>1. Clean /\ files[Parent] = "orig" /\ \A c \in Children : files[c] = None
  BY <1>p DEF Clean, Untouched, Unlocked
<1> QED BY <1>1 DEF View

LEMMA ViewNew ==
  ASSUME Published, Unlocked, index = "target"
  PROVE  View = "new"
<1>1. Clean /\ \A p \in Paths : files[p] = "target"
  BY DEF Clean, Published, Unlocked
<1> QED BY <1>1 DEF View

LEMMA ViewRange == View \in {"old", "new", "mixed"}
  BY DEF View

\* Where no journal stands, or it is about to go, the view is the branch, and announced.
LEMMA ViewTrue ==
  ASSUME Inv, journal = None \/ pc \in {"finish", "remove"}
  PROVE  /\ head.tx => View = "new" /\ (outbox \/ db)
         /\ ~head.tx => View = "old" /\ ~outbox /\ ~db
<1>1. Unlocked
  BY DEF Inv, Rest, Indexed, Unlocked
<1>2. ASSUME head.tx
      PROVE  View = "new" /\ (outbox \/ db)
  <2>1. index = "target" /\ Published /\ (outbox \/ db)
    BY <1>1, <1>2, NoneDiffers DEF Inv, Sound, Rest, Indexed, Placed, Announced, Unlocked
  <2> QED BY <1>1, <2>1, ViewNew
<1>3. ASSUME ~head.tx
      PROVE  View = "old" /\ ~outbox /\ ~db
  <2>1. index = "base" /\ Untouched /\ ~outbox /\ ~db
    BY <1>3 DEF Inv, Sound, Rest, Indexed, Placed, Announced, Fencing, Moved, Rolled
  <2> QED BY <1>1, <2>1, ViewOld
<1> QED BY <1>2, <1>3

\* A dispatch of the parent is admitted only where branch, files, index and status still
\* have the old spec (acquireDecompositionDispatchAdmission).
THEOREM AdmissionsWhole == Spec => []AdmittedWhole
<1>1. ASSUME Inv
      PROVE  AdmittedWhole
  <2>1. ASSUME pc = "admitted"
        PROVE  View = "old" /\ ~head.tx /\ ~db /\ ~outbox
    BY <1>1, <2>1, ViewTrue DEF Inv, Rest, Fencing, Open
  <2> QED BY <2>1 DEF AdmittedWhole
<1> QED BY <1>1, Invariant, PTL

-----------------------------------------------------------------------------
(* The refinement of AtomicPublication.                                    *)

Tree == IF head.tx THEN "new" ELSE "old"

\* A step under a journal that leaves the branch and the announcement is a Touch.
LEMMA TouchStep ==
  ASSUME journal # None, journal' # None, UNCHANGED Tree, UNCHANGED (outbox \/ db)
  PROVE  [Abstract!Next]_(Abstract!vars)
<1>1. View' \in {"old", "new", "mixed"}
  BY DEF View
<1> QED BY <1>1 DEF Abstract!Next, Abstract!Touch, Abstract!vars, Tree

\* One that leaves the files and the index too is no step.
LEMMA StutterStep ==
  ASSUME UNCHANGED Viewed, (journal # None) = (journal' # None), UNCHANGED Tree,
         UNCHANGED (outbox \/ db)
  PROVE  [Abstract!Next]_(Abstract!vars)
<1>1. View' = View
  BY DEF View, Clean, Viewed
<1> QED BY <1>1 DEF Abstract!vars, Tree

\* The transaction begins where the branch is still old,
LEMMA CreateJournalStep ==
  ASSUME Inv, CreateJournal
  PROVE  Abstract!Begin
<1>1. journal = None /\ files[Parent] = "orig" /\ UNCHANGED <<head, Viewed, outbox, db>>
  BY DEF CreateJournal, On, Inv, Rest, Fencing, Open, tree, git, notice, Viewed
<1>2. ~head.tx
  BY <1>1 DEF Inv, Sound, Placed, Published, Paths
<1>3. journal' # None
  BY CreateJournalEffect, NoneAssumption DEF Inv, Sound
<1>4. View' = View
  BY <1>1 DEF View, Clean, Viewed
<1> QED BY <1>1, <1>2, <1>3, <1>4 DEF Abstract!Begin

\* moves it in one step,
LEMMA UpdateRefStep ==
  ASSUME Inv, UpdateRef
  PROVE  Abstract!Publish
<1>1. pc = "cas" /\ UNCHANGED <<journal, Viewed, outbox, db>>
  BY DEF UpdateRef, On, tree, git, notice, Viewed
<1>2. journal # None /\ ~head.tx
  BY <1>1 DEF Inv, Rest, Fencing, Open, Forward
<1>3. head'.tx = TRUE
  BY UpdateRefEffect DEF Inv, Sound
<1>4. View' = View
  BY <1>1 DEF View, Clean, Viewed
<1> QED BY <1>1, <1>2, <1>3, <1>4 DEF Abstract!Publish

\* announces it,
LEMMA NoticeStep ==
  ASSUME Inv, WriteOutbox \/ NoticeCommitted
  PROVE  Abstract!Notice
<1>1. pc \in {"outbox", "notice"} /\ outbox' = TRUE /\ UNCHANGED <<journal, head, Viewed>>
  BY DEF WriteOutbox, NoticeCommitted, On, tree, git, notice, Viewed
<1>2. journal # None /\ head.tx
  BY <1>1 DEF Inv, Rest, Fencing, Open, Moved
<1>3. View' = View
  BY <1>1 DEF View, Clean, Viewed
<1> QED BY <1>1, <1>2, <1>3 DEF Abstract!Notice

\* and ends with the view of the branch.
LEMMA EndStep ==
  ASSUME Inv, FinishJournal \/ RemoveJournal
  PROVE  Abstract!End
<1>1. pc \in {"finish", "remove"} /\ journal' = None /\ UNCHANGED <<head, Viewed, outbox, db>>
  BY RemoveJournalEffect DEF FinishJournal, On, tree, git, notice, Viewed, Inv, Rest
<1>2. journal # None
  BY <1>1 DEF Inv, Rest, Fencing, Open
<1>3. View' = View
  BY <1>1 DEF View, Clean, Viewed
<1>4. /\ head.tx => View = "new" /\ (outbox \/ db)
      /\ ~head.tx => View = "old" /\ ~(outbox \/ db)
  BY <1>1, ViewTrue
<1> QED BY <1>1, <1>2, <1>3, <1>4 DEF Abstract!End

\* Nothing else moves the branch, or changes what readers see without a journal.
LEMMA OtherStep ==
  ASSUME Inv, Finalizer \/ Recover \/ Admission \/ OtherCommit \/ Crash,
         ~CreateJournal, ~UpdateRef, ~WriteOutbox, ~NoticeCommitted, ~FinishJournal, ~RemoveJournal
  PROVE  [Abstract!Next]_(Abstract!vars)
<1> USE DEF On, To, disk, tree, git, notice, SetPhase, Undo, Report, Refuse, AtBase
<1>s. ASSUME UNCHANGED <<disk>>
      PROVE  [Abstract!Next]_(Abstract!vars)
  BY <1>s, StutterStep DEF Viewed, Tree
<1>t. ASSUME pc \notin Open \cup {"idle"}, pc' \notin Open \cup {"idle"},
             UNCHANGED <<head, outbox, db>>
      PROVE  [Abstract!Next]_(Abstract!vars)
  <2>1. journal # None
    BY <1>t DEF Inv, Rest, Fencing
  <2>2. journal' # None
    <3>1. Inv'
      BY InvNext DEF Next, Program
    <3> QED BY <1>t, <3>1 DEF Inv, Rest, Fencing
  <2> QED BY <1>t, <2>1, <2>2, TouchStep DEF Tree
<1>1. CASE Enter("finalize") \/ RejectPlan \/ ReplaceParent \/ WriteChild \/ LostBaseline
           \/ RefNotUpdated \/ ObserveRef \/ FailAfterRef \/ FailCompletion
  BY <1>s, <1>1 DEF Enter, FailAfterRef, FailCompletion, LostBaseline, ObserveRef, RefNotUpdated,
      RejectPlan, ReplaceParent, WriteChild
<1>2. CASE Enter("startup") \/ JudgeHead \/ RefuseArtifacts \/ CheckFiles \/ TempsRemoved
           \/ RewriteParent \/ SettleParent \/ SettleChild \/ Rethrow
  BY <1>s, <1>2 DEF CheckFiles, Enter, JudgeHead, RefuseArtifacts, Rethrow, RewriteParent,
      SettleChild, SettleParent, TempsRemoved
<1>3. CASE Enter("admit") \/ EndStartup \/ RefuseDecomposed \/ Admit \/ EndAdmission
           \/ Crash
  BY <1>s, <1>3 DEF Admit, Crash, EndAdmission, EndStartup, Enter, RefuseDecomposed
<1>4. CASE ParentWritten \/ ChildrenWritten \/ Baseline \/ RecordCommit
           \/ AcquireIndexLock \/ CopyIndex \/ BuildCandidate \/ GiveUpLock
           \/ GiveUpCandidate
  BY <1>t, <1>4 DEF AcquireIndexLock, Baseline, BuildCandidate, ChildrenWritten, CopyIndex,
      GiveUpCandidate, GiveUpLock, ParentWritten, RecordCommit, Open
<1>5. CASE PublishIndex \/ FreeIndexLock \/ MarkCommitted \/ DropCandidate
           \/ PublishCandidate \/ ReleaseLock \/ RemoveTemp \/ RemoveBackup \/ LockIndex
  BY <1>t, <1>5 DEF DropCandidate, FreeIndexLock, LockIndex, MarkCommitted, PublishCandidate,
      PublishIndex, ReleaseLock, RemoveBackup, RemoveTemp, Open
<1>6. CASE UnlockIndex \/ CloseCommitted \/ FailRecovery
  BY <1>t, <1>6 DEF CloseCommitted, FailRecovery, UnlockIndex, Open
<1>7. CASE ProjectStatus
  <2>1. UNCHANGED <<journal, Viewed, head>> /\ outbox /\ outbox' = outbox
    BY <1>7 DEF ProjectStatus, Viewed
  <2> QED BY <2>1, StutterStep DEF Tree
<1>8. CASE DrainOutbox
  <2>1. UNCHANGED <<journal, Viewed, head>> /\ db /\ db' = db
    BY <1>8 DEF DrainOutbox, Viewed, Inv, Rest, Announced
  <2> QED BY <2>1, StutterStep DEF Tree
<1>9. CASE OtherCommit
  <2>1. UNCHANGED <<journal, Viewed, outbox, db>> /\ head'.tx = head.tx
    BY <1>9, OtherCommitEffect DEF OtherCommit, Viewed, Inv, Sound
  <2> QED BY <2>1, StutterStep DEF Tree
<1> QED BY <1>1, <1>2, <1>3, <1>4, <1>5, <1>6, <1>7, <1>8, <1>9 DEF Finalizer, Recover, Admission

LEMMA AtomicNext ==
  ASSUME Inv, [Next]_vars
  PROVE  [Abstract!Next]_(Abstract!vars)
<1>1. CASE FileStep
  <2>1. journal # None /\ UNCHANGED <<journal, head, outbox, db>>
    BY <1>1, FileFrame DEF Inv, Sound, Purpose, Fencing, Open, rest
  <2> QED BY <2>1, TouchStep DEF Tree
<1>2. CASE CreateJournal
  BY <1>2, CreateJournalStep DEF Abstract!Next
<1>3. CASE UpdateRef
  BY <1>3, UpdateRefStep DEF Abstract!Next
<1>4. CASE WriteOutbox \/ NoticeCommitted
  BY <1>4, NoticeStep DEF Abstract!Next
<1>5. CASE FinishJournal \/ RemoveJournal
  BY <1>5, EndStep DEF Abstract!Next
<1>6. CASE UNCHANGED vars
  BY <1>6, StutterStep DEF vars, disk, Viewed, Tree
<1> QED BY <1>1, <1>2, <1>3, <1>4, <1>5, <1>6, OtherStep DEF Next, Program

\* The whole transaction, at any stop and through any recovery, is one publication
\* between a begin and an end (recoverDecompositionJournalWithinReservation,
\* commitDecompositionTransaction): DecompositionJournal implements AtomicPublication.
THEOREM JournalImplements == Spec => Atomic
<1>1. Init => Abstract!Init
  <2> SUFFICES ASSUME Init
               PROVE  Abstract!Init
    OBVIOUS
  <2>1. ~head.tx /\ journal = None /\ ~(outbox \/ db)
    BY DEF Init
  <2>2. View = "old"
    BY <2>1, InvInit, ViewTrue
  <2> QED BY <2>1, <2>2 DEF Abstract!Init
<1>2. Inv /\ [Next]_vars => [Abstract!Next]_(Abstract!vars)
  BY AtomicNext
<1> QED BY <1>1, <1>2, Invariant, PTL DEF Spec, Atomic, Abstract!Spec

=============================================================================
