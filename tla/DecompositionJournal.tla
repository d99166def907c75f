------------------------ MODULE DecompositionJournal ------------------------
(***************************************************************************)
(* A decomposition replaces a parent spec, creates its children, commits   *)
(* both on the branch and updates the Git index.  A journal makes the four *)
(* one transaction: src/src/preflight/decomposition-finalizer.ts runs it   *)
(* forward, decomposition-transaction-journal.ts takes it to one of its    *)
(* two ends after an error or a crash, decomposition-file-io.ts writes the *)
(* files.  Every durable step is a step here, and the process may stop     *)
(* between any two.                                                        *)
(*                                                                         *)
(* One process at a time holds the task-creation reservation, so the       *)
(* finalizer, the recovery of the server's start and the admission of a    *)
(* dispatch are one program counter.  Everyone else on the branch is       *)
(* OtherCommit.                                                            *)
(***************************************************************************)
EXTENDS Naturals, FiniteSets

CONSTANTS
    Children,      \* the child specs of the one parent
    None,          \* no file, no journal, nothing under way
    MaxCrashes,    \* bound on crashes
    MaxFaults,     \* bound on failing file and Git calls
    MaxCommits     \* bound on commits of other people

ASSUME ChildrenAssumption == Children # {} /\ IsFiniteSet(Children) /\ "parent" \notin Children
ASSUME BoundsAssumption == MaxCrashes \in Nat /\ MaxFaults \in Nat /\ MaxCommits \in Nat

Parent == "parent"
Paths == {Parent} \union Children

VARIABLES
    journal,    \* None, or the durable journal: [phase, base, sha]
    head,       \* the branch: [tx, n], whether it holds the commit and how many others
    files,      \* bytes at each path: None, "orig" or "target"
    temps,      \* temporary names beside each path: [bytes, link], what else links the bytes
    backup,     \* the parent's replacement backup: None or [bytes, link]
    index,      \* the Git index at the transaction's paths: "base" or "target"
    lock,       \* index.lock: None, a link of the index ("base", "target"), or "old"
    candidate,  \* the private next index: None, "partial" or "target"
    outbox,     \* the status projection waits in the outbox
    db,         \* the status store says DECOMPOSED
    pc, goal,   \* where the process is, and why it recovers
    op,         \* the file operation under way: None or [kind, path, want, step]
    report,     \* what the last finalization told its caller
    crashes, faults

disk == <<journal, head, files, temps, backup, index, lock, candidate, outbox, db>>
vars == <<disk, pc, goal, op, report, crashes, faults>>

Bytes == {"orig", "target"}
Temp == [bytes : Bytes \union {"partial"}, link : {"sole", "dest", "backup", "aside"}]
Phases == {"prepared", "parent_written", "children_written", "committing", "committed"}
Goals == {"finalize", "admit", "startup", "undo", "known", "unknown"}
Answers == {"committed", "failed", "indeterminate", "rejected"}
Labels == {"idle", "plan", "wrote", "specs", "baseline", "object", "lock", "copy", "fill", "cas",
           "observe", "unlock", "discard", "publish", "free", "complete", "outbox", "finish",
           "judge", "artifacts", "check", "temps", "backup", "files", "reunlock",
           "close", "notice", "remove", "refused", "threw", "drained", "resolve", "admitted"}
Kinds == {"replace", "create", "remove", "restore", "withdraw"}
Steps == {"open", "fill", "claim", "quarantine", "drop", "link", "unlink", "sync", "take",
          "discard", "relink", "release", "clean", "aside", "back", "forget"}

Journal == [phase : Phases, base : 0..MaxCommits, sha : BOOLEAN]
Backup == [bytes : Bytes, link : {"sole", "dest", "temp"}]
Operation == [kind : Kinds, path : Paths, want : Bytes, step : Steps]

(* What is absent is no bytes, no name and no record. *)
ASSUME NoneAssumption ==
    /\ None \notin Bytes \union {"base", "old", "partial"} \union Goals \union Answers
    /\ None \notin Journal \union Backup \union Operation

(* The type of every variable. *)
TypeOK ==
    /\ journal \in {None} \union Journal
    /\ head \in [tx : BOOLEAN, n : 0..MaxCommits]
    /\ files \in [Paths -> Bytes \union {None}]
    /\ temps \in [Paths -> SUBSET Temp]
    /\ backup \in {None} \union Backup
    /\ index \in {"base", "target"}
    /\ lock \in {None, "base", "target", "old"}
    /\ candidate \in {None, "partial", "target"}
    /\ outbox \in BOOLEAN /\ db \in BOOLEAN
    /\ pc \in Labels /\ goal \in {None} \union Goals
    /\ op \in {None} \union Operation
    /\ report \in {None} \union Answers
    /\ crashes \in 0..MaxCrashes /\ faults \in 0..MaxFaults

Init ==
    /\ journal = None /\ head = [tx |-> FALSE, n |-> 0]
    /\ files = [p \in Paths |-> IF p = Parent THEN "orig" ELSE None]
    /\ temps = [p \in Paths |-> {}] /\ backup = None
    /\ index = "base" /\ lock = None /\ candidate = None
    /\ outbox = FALSE /\ db = FALSE
    /\ pc = "idle" /\ goal = None /\ op = None /\ report = None
    /\ crashes = 0 /\ faults = 0

-----------------------------------------------------------------------------
(* The file operations.  Each is a sequence of durable steps on one path;  *)
(* the program counter already says what comes after it.  Replace and      *)
(* create end in "sync"; a failure after the bytes are visible turns them  *)
(* into "restore" and "withdraw", which undo them and then throw.          *)

Start(k, p, w) ==
    op' = [kind |-> k, path |-> p, want |-> w, step |-> IF k = "remove" THEN "take" ELSE "open"]
Sole(b) == [bytes |-> b, link |-> "sole"]
Dest(b) == [bytes |-> b, link |-> "dest"]
Aside(b) == [bytes |-> b, link |-> "aside"]

At(s) == op # None /\ op.step = s
Go(s) == op' = [op EXCEPT !.step = s]
Put(b) == files' = [files EXCEPT ![op.path] = b]
SetTemps(S) == temps' = [temps EXCEPT ![op.path] = S]

(* An error leaves the finalizer through its catch block, recovery through its caller's. *)
Raise ==
    /\ op' = None
    /\ IF pc \in {"wrote", "specs"}
       THEN pc' = "judge" /\ goal' = "undo"
       ELSE pc' = "threw" /\ goal' = goal

rest == <<journal, head, index, lock, candidate, outbox, db, report, crashes>>
calm == <<rest, pc, goal, faults>>

(* writeDurableTemporaryFile: created empty, then filled and flushed. *)
OpenTemp ==
    /\ At("open") /\ Go("fill")
    /\ SetTemps(temps[op.path] \union {Sole("partial")})
    /\ UNCHANGED <<files, backup, calm>>

FillTemp ==
    /\ At("fill") /\ Go(IF op.kind = "replace" THEN "claim" ELSE "link")
    /\ SetTemps((temps[op.path] \ {Sole("partial")}) \union {Sole(op.want)})
    /\ UNCHANGED <<files, backup, calm>>

(* The old inode gets its backup name before it loses its own. *)
ClaimBackup ==
    /\ At("claim") /\ Go("quarantine")
    /\ backup' = [bytes |-> files[Parent], link |-> "dest"]
    /\ UNCHANGED <<files, temps, calm>>

(* removeClaimedRecoveryLink: the canonical name goes away through a       *)
(* quarantine name that reads as one more temporary file of the parent.    *)
QuarantineOld ==
    /\ At("quarantine") /\ Go("drop")
    /\ SetTemps(temps[Parent] \union {[bytes |-> files[Parent], link |-> "backup"]})
    /\ Put(None)
    /\ backup' = [backup EXCEPT !.link = "temp"]
    /\ UNCHANGED calm

DropQuarantine ==
    /\ At("drop") /\ Go("link")
    /\ SetTemps({t \in temps[Parent] : t.link # "backup"})
    /\ backup' = [backup EXCEPT !.link = "sole"]
    /\ UNCHANGED <<files, calm>>

LinkTemp ==
    /\ At("link") /\ Go("unlink")
    /\ Put(op.want)
    /\ SetTemps((temps[op.path] \ {Sole(op.want)}) \union {Dest(op.want)})
    /\ UNCHANGED <<backup, calm>>

UnlinkTemp ==
    /\ At("unlink") /\ Go("sync")
    /\ SetTemps(temps[op.path] \ {Dest(op.want)})
    /\ UNCHANGED <<files, backup, calm>>

(* The new bytes are flushed and verified; a replacement drops its backup. *)
SyncFile ==
    /\ At("sync") /\ op' = None
    /\ backup' = IF op.kind = "replace" THEN None ELSE backup
    /\ UNCHANGED <<files, temps, calm>>

(* removeClaimedFile, removeExactTransactionFile: rename, verify, unlink. *)
TakeFile ==
    /\ At("take") /\ Go("discard")
    /\ SetTemps(temps[op.path] \union {Sole(op.want)})
    /\ Put(None)
    /\ UNCHANGED <<backup, calm>>

DiscardFile ==
    /\ At("discard")
    /\ SetTemps(temps[op.path] \ {Sole(op.want)})
    /\ CASE op.kind = "remove" -> op' = None /\ UNCHANGED <<pc, goal>>
         [] op.kind = "restore" -> Go("relink") /\ UNCHANGED <<pc, goal>>
         [] op.kind = "withdraw" -> Raise
    /\ UNCHANGED <<files, backup, rest, faults>>

(* The catch block of the replacement: the old inode takes its name back. *)
RelinkBackup ==
    /\ At("relink") /\ Go("release")
    /\ Put(backup.bytes)
    /\ backup' = [backup EXCEPT !.link = "dest"]
    /\ UNCHANGED <<temps, calm>>

ReleaseBackup ==
    /\ At("release") /\ Go("clean")
    /\ backup' = None
    /\ UNCHANGED <<files, temps, calm>>

(* The published file could not lose its temporary name.  The catch block  *)
(* renames it aside (removeClaimedFile) ...                                *)
SetAside ==
    /\ At("aside") /\ Go("back")
    /\ SetTemps(temps[op.path] \union {Aside(op.want)})
    /\ Put(None)
    /\ UNCHANGED <<backup, calm>>

(* ... finds that it still has two names, and puts it back: three names ... *)
PutBack ==
    /\ At("back") /\ Go("forget")
    /\ Put(op.want)
    /\ UNCHANGED <<temps, backup, calm>>

(* ... until the name aside is unlinked.                                   *)
ForgetAside ==
    /\ At("forget") /\ Go("clean")
    /\ SetTemps(temps[op.path] \ {Aside(op.want)})
    /\ UNCHANGED <<files, backup, calm>>

(* The temporary file goes, a name that was put aside stays.               *)
CleanTemp ==
    /\ At("clean") /\ Raise
    /\ SetTemps({t \in temps[op.path] : t.link \in {"backup", "aside"}})
    /\ UNCHANGED <<files, backup, rest, faults>>

(* A step fails.  What the catch block undoes depends on how far the operation came. *)
FailFile ==
    /\ op # None /\ faults < MaxFaults
    /\ faults' = faults + 1
    /\ \/ op.step \in {"open", "discard", "clean"} /\ Raise
       \/ op.step = "take" /\ op.kind # "restore" /\ Raise
       \/ /\ \/ op.step \in {"fill", "claim", "quarantine", "drop"} /\ Go("clean")
             \/ op.step = "unlink" /\ Go("aside")
             \/ op.step \in {"aside", "back", "forget"} /\ Go("clean")
             \/ op.step \in {"take", "relink", "release"} /\ op.kind = "restore" /\ Go("clean")
             \/ op.step = "link" /\ op.kind = "create" /\ Go("clean")
             \/ op.step = "link" /\ op.kind = "replace"
                /\ op' = [op EXCEPT !.kind = "restore", !.step = "relink"]
             \/ op.step = "sync" /\ op.kind = "replace" /\ Go("clean")
             \/ op.step = "sync"
                /\ op' = [op EXCEPT !.kind = IF op.kind = "replace" THEN "restore" ELSE "withdraw",
                                    !.step = "take"]
          /\ UNCHANGED <<pc, goal>>
    /\ UNCHANGED <<files, temps, backup, rest>>

FileStep ==
    \/ OpenTemp \/ FillTemp \/ ClaimBackup \/ QuarantineOld \/ DropQuarantine \/ LinkTemp
    \/ UnlinkTemp \/ SyncFile \/ TakeFile \/ DiscardFile \/ RelinkBackup \/ ReleaseBackup
    \/ SetAside \/ PutBack \/ ForgetAside \/ CleanTemp \/ FailFile

-----------------------------------------------------------------------------
(* The finalizer.  It first takes any pending journal to its end (goal     *)
(* "finalize"), then plans against the parent it finds.                    *)

tree == <<files, temps, backup>>
git == <<index, lock, candidate>>
notice == <<outbox, db>>

On(label) == pc = label /\ op = None
To(label) == pc' = label /\ UNCHANGED <<goal, op, report, crashes, faults>>

AtBase == head = [tx |-> FALSE, n |-> journal.base]
Committed == journal.sha /\ head.tx

(* Mutant: an admission looks at the files without recovering first. *)
EnterUnfenced(why) ==
    /\ On("idle")
    /\ goal' = why
    /\ report' = IF why = "finalize" THEN None ELSE report
    /\ pc' = IF journal = None \/ why = "admit" THEN "resolve" ELSE "judge"
    /\ UNCHANGED <<disk, op, crashes, faults>>

(* recoverPendingTaskSpecMutationsWithinReservation, for each of its callers. *)
Enter(why) ==
    /\ On("idle")
    /\ goal' = why
    /\ report' = IF why = "finalize" THEN None ELSE report
    /\ pc' = IF journal = None THEN "resolve" ELSE "judge"
    /\ UNCHANGED <<disk, op, crashes, faults>>

(* validateCurrentParent: the plan is for an undecomposed parent. *)
RejectPlan ==
    /\ On("resolve") /\ goal = "finalize" /\ files[Parent] # "orig"
    /\ pc' = "idle" /\ goal' = None /\ report' = "rejected"
    /\ UNCHANGED <<disk, op, crashes, faults>>

CreateJournal ==
    /\ On("resolve") /\ goal = "finalize" /\ files[Parent] = "orig"
    /\ journal' = [phase |-> "prepared", base |-> head.n, sha |-> FALSE]
    /\ To("plan")
    /\ UNCHANGED <<head, tree, git, notice>>

(* Parent first, then the children. *)
ReplaceParent ==
    /\ On("plan") /\ pc' = "wrote" /\ Start("replace", Parent, "target")
    /\ UNCHANGED <<disk, goal, report, crashes, faults>>

SetPhase(p) == journal' = [journal EXCEPT !.phase = p]

ParentWritten ==
    /\ On("wrote") /\ SetPhase("parent_written") /\ To("specs")
    /\ UNCHANGED <<head, tree, git, notice>>

WriteChild ==
    /\ On("specs")
    /\ \E c \in Children : files[c] = None /\ Start("create", c, "target")
    /\ UNCHANGED <<disk, pc, goal, report, crashes, faults>>

ChildrenWritten ==
    /\ On("specs") /\ \A c \in Children : files[c] # None
    /\ SetPhase("children_written") /\ To("baseline")
    /\ UNCHANGED <<head, tree, git, notice>>

(* The finalizer's catch block: nothing is committed yet, so roll back. *)
Undo == pc' = "judge" /\ goal' = "undo" /\ UNCHANGED <<disk, op, report, crashes>>

(* assertDecompositionCommitBaseline, three times, each before a durable step. *)
Baseline ==
    /\ On("baseline") /\ AtBase
    /\ SetPhase("committing") /\ To("object")
    /\ UNCHANGED <<head, tree, git, notice>>

(* The commit object is built in a private index and its name recorded before HEAD can move. *)
RecordCommit ==
    /\ On("object") /\ AtBase
    /\ journal' = [journal EXCEPT !.sha = TRUE] /\ To("lock")
    /\ UNCHANGED <<head, tree, git, notice>>

AcquireIndexLock ==
    /\ On("lock") /\ AtBase /\ lock = None
    /\ lock' = index /\ To("copy")
    /\ UNCHANGED <<journal, head, tree, index, candidate, notice>>

LostBaseline ==
    /\ pc \in {"baseline", "object", "lock"} /\ op = None
    /\ \/ ~AtBase /\ faults' = faults
       \/ faults < MaxFaults /\ faults' = faults + 1
    /\ Undo

CopyIndex ==
    /\ On("copy") /\ candidate' = "partial" /\ To("fill")
    /\ UNCHANGED <<journal, head, tree, index, lock, notice>>

(* Mutant: the candidate is built from the journal's baseline. *)
BuildBaseline ==
    /\ On("fill") /\ candidate' = "base" /\ To("cas")
    /\ UNCHANGED <<journal, head, tree, index, lock, notice>>

BuildCandidate ==
    /\ On("fill") /\ candidate' = "target" /\ To("cas")
    /\ UNCHANGED <<journal, head, tree, index, lock, notice>>

(* update-ref moves the branch only from the base; the child process may   *)
(* still report a failure after it did.                                    *)
UpdateRef ==
    /\ On("cas") /\ AtBase
    /\ head' = [head EXCEPT !.tx = TRUE]
    /\ \/ pc' = "publish" /\ faults' = faults
       \/ pc' = "observe" /\ faults < MaxFaults /\ faults' = faults + 1
    /\ UNCHANGED <<journal, tree, git, notice, goal, op, report, crashes>>

RefNotUpdated ==
    /\ pc \in {"copy", "fill", "cas"} /\ op = None
    /\ \/ pc = "cas" /\ ~AtBase /\ faults' = faults
       \/ faults < MaxFaults /\ faults' = faults + 1
    /\ pc' = "observe"
    /\ UNCHANGED <<disk, goal, op, report, crashes>>

(* Mutant: a failing update-ref is a failed write, whatever recovery finds. *)
ObserveNothing ==
    /\ On("observe") /\ pc' = "judge" /\ goal' = "undo"
    /\ UNCHANGED <<disk, op, report, crashes, faults>>

(* observeDecompositionRefPublication: what the branch says, or nothing.   *)
ObserveRef ==
    /\ On("observe")
    /\ \/ ~Committed /\ pc' = "unlock" /\ goal' = "undo" /\ faults' = faults
       \/ Committed /\ pc' = "judge" /\ goal' = "known" /\ faults' = faults
       \/ faults < MaxFaults /\ pc' = "judge" /\ goal' = "unknown" /\ faults' = faults + 1
    /\ UNCHANGED <<disk, op, report, crashes>>

(* Only a refuted publication gives the lock and the candidate back. *)
GiveUpLock ==
    /\ On("unlock") /\ lock' = None /\ To("discard")
    /\ UNCHANGED <<journal, head, tree, index, candidate, notice>>

GiveUpCandidate ==
    /\ On("discard") /\ candidate' = None /\ To("judge")
    /\ UNCHANGED <<journal, head, tree, index, lock, notice>>

PublishIndex ==
    /\ On("publish") /\ Committed
    /\ index' = candidate /\ candidate' = None /\ lock' = "old" /\ To("free")
    /\ UNCHANGED <<journal, head, tree, notice>>

FreeIndexLock ==
    /\ On("free") /\ lock' = None /\ To("complete")
    /\ UNCHANGED <<journal, head, tree, index, candidate, notice>>

(* A failure after the branch moved is a recovery event, never a failed write. *)
FailAfterRef ==
    /\ pc \in {"publish", "free"} /\ op = None
    /\ faults < MaxFaults /\ faults' = faults + 1
    /\ pc' = "judge" /\ goal' = "known"
    /\ UNCHANGED <<disk, op, report, crashes>>

(* completeDecompositionTransactionJournal *)
MarkCommitted ==
    /\ On("complete") /\ SetPhase("committed") /\ To("outbox")
    /\ UNCHANGED <<head, tree, git, notice>>

WriteOutbox ==
    /\ On("outbox") /\ Committed /\ outbox' = TRUE /\ To("finish")
    /\ UNCHANGED <<journal, head, tree, git, db>>

Report(r) == pc' = "idle" /\ goal' = None /\ report' = r /\ UNCHANGED <<op, crashes>>

FinishJournal ==
    /\ On("finish") /\ journal' = None /\ Report("committed")
    /\ UNCHANGED <<head, tree, git, notice, faults>>

FailCompletion ==
    /\ pc \in {"complete", "outbox", "finish"} /\ op = None
    /\ faults < MaxFaults /\ faults' = faults + 1
    /\ Report("committed")
    /\ UNCHANGED disk

Finalizer ==
    \/ Enter("finalize") \/ RejectPlan \/ CreateJournal \/ ReplaceParent \/ ParentWritten
    \/ WriteChild \/ ChildrenWritten \/ Baseline \/ RecordCommit \/ AcquireIndexLock
    \/ LostBaseline \/ CopyIndex \/ BuildCandidate \/ UpdateRef \/ RefNotUpdated \/ ObserveRef
    \/ GiveUpLock \/ GiveUpCandidate \/ PublishIndex \/ FreeIndexLock \/ FailAfterRef
    \/ MarkCommitted \/ WriteOutbox \/ FinishJournal \/ FailCompletion

-----------------------------------------------------------------------------
(* Recovery.  The branch decides which way: a commit that is an ancestor   *)
(* of HEAD is completed, everything else is rolled back.  Evidence that    *)
(* does not fit is left alone, the journal stays and the project stays     *)
(* fenced ("refused").                                                     *)

Desired == IF Committed THEN "target" ELSE "orig"

Refuse == pc' = "refused" /\ UNCHANGED <<disk, goal, op, report, crashes, faults>>

JudgeHead ==
    /\ On("judge")
    /\ IF Committed \/ AtBase
       THEN To("artifacts") /\ UNCHANGED disk
       ELSE Refuse

(* reconcileTransactionIndexArtifacts: the lock must still hold the baseline. *)
ArtifactsFit ==
    /\ lock = None /\ candidate # None => ~Committed /\ index = "base"
    /\ lock # "target"
    /\ lock # None /\ ~Committed => lock = index
    /\ lock # None /\ Committed =>
         IF candidate = None THEN index = "target" ELSE candidate = "target" /\ lock = index

RefuseArtifacts == On("artifacts") /\ ~ArtifactsFit /\ Refuse

DropCandidate ==
    /\ On("artifacts") /\ ArtifactsFit /\ ~Committed /\ candidate # None
    /\ candidate' = None /\ To("artifacts")
    /\ UNCHANGED <<journal, head, tree, index, lock, notice>>

PublishCandidate ==
    /\ On("artifacts") /\ ArtifactsFit /\ Committed /\ candidate # None
    /\ index' = candidate /\ candidate' = None /\ lock' = "old" /\ To("artifacts")
    /\ UNCHANGED <<journal, head, tree, notice>>

(* Mutant: recovery waits for an index lock that a crash before it never took. *)
ReleaseOwnLock ==
    /\ On("artifacts") /\ ArtifactsFit /\ candidate = None /\ lock # None
    /\ lock' = None /\ To("check")
    /\ UNCHANGED <<journal, head, tree, index, candidate, notice>>

ReleaseLock ==
    /\ On("artifacts") /\ ArtifactsFit /\ candidate = None
    /\ lock' = None /\ To("check")
    /\ UNCHANGED <<journal, head, tree, index, candidate, notice>>

(* A file with its name, its temporary name and the name it was put aside under. *)
ThreeLinks(p) == files[p] # None /\ {"dest", "aside"} \subseteq {t.link : t \in temps[p]}

(* validateTransactionTemporaryFiles: a temporary file holds the target    *)
(* bytes, alone or as the second link of the file it was published as.     *)
TempsFit ==
    \A p \in Paths :
        /\ ~ThreeLinks(p)
        /\ \A t \in temps[p] :
               /\ t.bytes = "target"
               /\ t.link # "backup"
               /\ p # Parent /\ files[p] # None => t.link \in {"dest", "aside"}

(* validateParentReplacementBackup: a second link must be the parent itself. *)
BackupFits == backup # None => backup.link # "temp"

(* Mutant: a missing parent is a divergence even when its backup is there. *)
WorktreePresent == files[Parent] = None => Committed

(* validateWorktreeForRecovery *)
WorktreeFits == files[Parent] = None => Committed \/ backup # None

CheckFiles ==
    /\ On("check")
    /\ IF TempsFit /\ BackupFits /\ WorktreeFits THEN To("temps") /\ UNCHANGED disk ELSE Refuse

RemoveTemp ==
    /\ On("temps")
    /\ \E p \in Paths : \E t \in temps[p] : temps' = [temps EXCEPT ![p] = @ \ {t}]
    /\ To("temps")
    /\ UNCHANGED <<journal, head, files, backup, git, notice>>

TempsRemoved ==
    /\ On("temps") /\ \A p \in Paths : temps[p] = {}
    /\ To("backup") /\ UNCHANGED disk

(* reconcileParentReplacementBackup: a missing parent is written again     *)
(* before its backup goes; a wrong one is replaced after.                  *)
RewriteParent ==
    /\ On("backup") /\ backup # None /\ files[Parent] = None
    /\ Start("create", Parent, Desired)
    /\ UNCHANGED <<disk, pc, goal, report, crashes, faults>>

RemoveBackup ==
    /\ On("backup") /\ (backup = None \/ files[Parent] # None)
    /\ backup' = None /\ To("files")
    /\ UNCHANGED <<journal, head, files, temps, git, notice>>

(* Every path to the bytes of the way chosen: parent first. *)
SettleParent ==
    /\ On("files") /\ files[Parent] # Desired
    /\ Start(IF files[Parent] = None THEN "create" ELSE "replace", Parent, Desired)
    /\ UNCHANGED <<disk, pc, goal, report, crashes, faults>>

Settled(c) == (files[c] = "target") = Committed

SettleChild ==
    /\ On("files") /\ files[Parent] = Desired
    /\ \E c \in Children : ~Settled(c) /\ Start(IF Committed THEN "create" ELSE "remove", c, "target")
    /\ UNCHANGED <<disk, pc, goal, report, crashes, faults>>

(* publishRecoveryIndexState takes the index lock whether or not the index *)
(* has to change; it never has to, no one else writes these paths.         *)
LockIndex ==
    /\ On("files") /\ files[Parent] = Desired /\ \A c \in Children : Settled(c)
    /\ lock' = index /\ To("reunlock")
    /\ UNCHANGED <<journal, head, tree, index, candidate, notice>>

(* Mutant: recovery forgets the projection of a commit it found. *)
UnlockUnnoticed ==
    /\ On("reunlock") /\ lock' = None /\ To("remove")
    /\ UNCHANGED <<journal, head, tree, index, candidate, notice>>

UnlockIndex ==
    /\ On("reunlock") /\ lock' = None
    /\ To(IF Committed THEN "close" ELSE "remove")
    /\ UNCHANGED <<journal, head, tree, index, candidate, notice>>

CloseCommitted ==
    /\ On("close") /\ SetPhase("committed") /\ To("notice")
    /\ UNCHANGED <<head, tree, git, notice>>

NoticeCommitted ==
    /\ On("notice") /\ outbox' = TRUE /\ To("remove")
    /\ UNCHANGED <<journal, head, tree, git, db>>

(* The journal goes last; then the caller goes on. *)
RemoveJournal ==
    /\ On("remove") /\ journal' = None
    /\ CASE goal \in {"finalize", "admit", "startup"} -> To("resolve")
         [] goal = "undo" -> Report("failed") /\ UNCHANGED faults
         [] goal \in {"known", "unknown"} ->
              Report(IF Committed THEN "committed" ELSE "failed") /\ UNCHANGED faults
    /\ UNCHANGED <<head, tree, git, notice>>

FailRecovery ==
    /\ pc \in {"judge", "artifacts", "check", "temps", "backup", "files", "reunlock", "close",
               "notice", "remove"}
    /\ op = None /\ faults < MaxFaults /\ faults' = faults + 1
    /\ pc' = "threw"
    /\ lock' = IF pc = "reunlock" THEN None ELSE lock
    /\ UNCHANGED <<journal, head, tree, index, candidate, notice, goal, op, report, crashes>>

(* What recovery's caller makes of its error. *)
Rethrow ==
    /\ pc \in {"refused", "threw"}
    /\ Report(CASE goal = "known" -> "committed"
                [] goal = "unknown" -> "indeterminate"
                [] goal = "undo" -> "failed"
                [] goal = "finalize" -> "rejected"
                [] OTHER -> report)
    /\ UNCHANGED <<disk, faults>>

Recover ==
    \/ Enter("startup") \/ JudgeHead \/ RefuseArtifacts \/ DropCandidate \/ PublishCandidate
    \/ ReleaseLock \/ CheckFiles \/ RemoveTemp \/ TempsRemoved \/ RewriteParent \/ RemoveBackup
    \/ SettleParent \/ SettleChild \/ LockIndex \/ UnlockIndex \/ CloseCommitted
    \/ NoticeCommitted \/ RemoveJournal \/ FailRecovery \/ Rethrow

-----------------------------------------------------------------------------
(* The outbox and the admission of a dispatch of the parent. *)

(* The store is written before the outbox entry goes: replaying it is harmless. *)
ProjectStatus ==
    /\ On("resolve") /\ goal \in {"startup", "admit"} /\ outbox
    /\ db' = TRUE /\ To("drained")
    /\ UNCHANGED <<journal, head, tree, git, outbox>>

DrainOutbox ==
    /\ On("drained") /\ outbox' = FALSE /\ To("resolve")
    /\ UNCHANGED <<journal, head, tree, git, db>>

EndStartup ==
    /\ On("resolve") /\ goal = "startup" /\ ~outbox
    /\ Report(report) /\ UNCHANGED <<disk, faults>>

RefuseDecomposed ==
    /\ On("resolve") /\ goal = "admit" /\ ~outbox /\ files[Parent] # "orig"
    /\ Report(report) /\ UNCHANGED <<disk, faults>>

Admit ==
    /\ On("resolve") /\ goal = "admit" /\ ~outbox /\ files[Parent] = "orig"
    /\ To("admitted") /\ UNCHANGED disk

EndAdmission == On("admitted") /\ Report(report) /\ UNCHANGED <<disk, faults>>

Admission ==
    Enter("admit") \/ ProjectStatus \/ DrainOutbox \/ EndStartup \/ RefuseDecomposed \/ Admit
    \/ EndAdmission

-----------------------------------------------------------------------------
(* Faults. *)

(* Everyone else's commits, by any Git client: they never touch these paths. *)
OtherCommit ==
    /\ head.n < MaxCommits
    /\ head' = [head EXCEPT !.n = @ + 1]
    /\ UNCHANGED <<journal, tree, git, notice, pc, goal, op, report, crashes, faults>>

(* The process stops; the disk keeps what was durable. *)
Crash ==
    /\ pc # "idle" /\ crashes < MaxCrashes
    /\ crashes' = crashes + 1
    /\ pc' = "idle" /\ goal' = None /\ op' = None /\ report' = None
    /\ UNCHANGED <<disk, faults>>

Program == FileStep \/ Finalizer \/ Recover \/ Admission
Next == Program \/ OtherCommit \/ Crash

Spec == Init /\ [][Next]_vars

(* The process that holds the reservation keeps running, and a server      *)
(* that starts recovers what it finds.                                     *)
Running == pc # "idle" /\ Program
Fairness == WF_vars(Running) /\ WF_vars(journal # None /\ Enter("startup"))
FairSpec == Spec /\ Fairness

-----------------------------------------------------------------------------
(* Properties. *)

Clean == backup = None /\ lock = None /\ candidate = None /\ \A p \in Paths : temps[p] = {}

View ==
    CASE Clean /\ index = "base" /\ files[Parent] = "orig" /\ (\A c \in Children : files[c] = None) -> "old"
      [] Clean /\ index = "target" /\ (\A p \in Paths : files[p] = "target") -> "new"
      [] OTHER -> "mixed"

Abstract == INSTANCE AtomicPublication WITH
    tree <- IF head.tx THEN "new" ELSE "old",
    view <- View,
    fenced <- journal # None,
    noticed <- outbox \/ db

(* The transaction is atomic: at any stop and through any recovery, branch, *)
(* index and files agree whenever no journal fences them, the branch moves  *)
(* once and never back, and a published tree has its status projection.     *)
Atomic == Abstract!Spec

(* A finalization that reports a commit has one, and one that reports a     *)
(* retryable failure left none behind, not even when update-ref published   *)
(* the branch and then reported failure; only "indeterminate" may be either.*)
ReportTrue ==
    /\ report = "committed" => head.tx
    /\ report = "failed" => ~head.tx

(* No dispatch of the parent is admitted beside its children: at admission  *)
(* the branch, the files and the status store all still have the old spec.  *)
AdmittedWhole == pc = "admitted" => View = "old" /\ ~head.tx /\ ~db /\ ~outbox

(* Recovery gives up for four reasons only: someone else moved the branch   *)
(* first; a file write stopped half way and left a temporary file that is   *)
(* not the target; the cleanup of a write that could not unlink its         *)
(* temporary name stopped and left the file three names; or recovery itself *)
(* stopped while it held the index lock.                                    *)
RefusalExplained ==
    pc = "refused" =>
        \/ head.n # journal.base /\ ~head.tx
        \/ \E t \in temps[Parent] \union UNION {temps[c] : c \in Children} :
               t.bytes # "target" \/ t.link = "backup"
        \/ \E p \in Paths : ThreeLinks(p)
        \/ lock = "target"

(* Every journal is taken to one of its two ends, or recovery says that it  *)
(* cannot: no crash and no failing call leaves a project silently fenced.   *)
JournalSettles == (journal # None) ~> (journal = None \/ pc = "refused")
=============================================================================
