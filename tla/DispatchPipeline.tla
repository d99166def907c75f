-------------------------- MODULE DispatchPipeline --------------------------
(***************************************************************************)
(* One task's dispatch pipeline (dispatcher/dispatcher.ts), run again and  *)
(* again over what it leaves on disk: the checkpoint of completed stages,  *)
(* the two approval records, and the task's branch.  A run may be killed   *)
(* between any two of its writes; between runs a human decides what is     *)
(* pending, edits the spec, or starts the task afresh or from its          *)
(* checkpoint.                                                             *)
(*                                                                         *)
(* A spec is the number of its contract, a diff the number of the work it  *)
(* holds (0: none).  What a model or a rule answers (gate, worker,         *)
(* reviewer, judge, intent judgment, verification) is any answer.  At most *)
(* one run is alive at a time, as DispatchQueue shows of the dispatch      *)
(* manager, and it refuses decisions while one is.                         *)
(***************************************************************************)
EXTENDS Integers

CONSTANTS
  None,        \* an absent record, checkpoint or branch
  Confs,       \* the configurations a task may have (see Conf)
  Kinds,       \* how a human starts a run: see Start
  MaxRetries,  \* maxRetries of the adapter
  MaxWork,     \* works the workers produce
  MaxEdits,    \* edits of the spec, and comings and goings of a second claimant
  MaxStarts,   \* runs
  MaxCrashes,  \* runs that are killed
  Faults       \* throw: a call throws; expire: a pend ages; revert: an edit may
               \* bring an earlier contract back

Conf == [loop: BOOLEAN,    \* execution mode loop, else dispatch
         brief: BOOLEAN,   \* preflight.blueprintApproval.enabled
         diff: BOOLEAN,    \* preflight.judgeApproval.enabled
         intent: BOOLEAN,  \* the judge's intent judgment is enforced
         long: BOOLEAN]    \* approvalTimeoutMs is above the default of 24 hours

ASSUME PipelineAssumption ==
  /\ Confs \subseteq Conf
  /\ Kinds \subseteq {"fresh", "resume", "clean", "override", "revise"}
  /\ MaxRetries \in Nat /\ MaxWork \in Nat /\ MaxEdits \in Nat
  /\ MaxStarts \in Nat /\ MaxCrashes \in Nat
  /\ Faults \subseteq {"throw", "expire", "revert"}

VARIABLES
  conf,       \* the task's configuration
  spec,       \* [contract, contested]: the authoritative spec
  briefRec,   \* approvals/<task>.json: the blueprint's approval record
  diffRec,    \* approvals/<task>-judge.json: the diff's approval record
  cp,         \* checkpoint-<task>.json
  git,        \* [branch, tree]: the work committed on the task's branch, and
              \* the work in its working tree
  pc, m,      \* the run: where it is, and what it holds in memory
  torn,       \* works whose seal was cut off between its commit and its checkpoint
  published,  \* what was published: the branch's head, the diff the run holds,
              \* and the judge's answer it rests on
  count       \* works, edits, starts and crashes so far

disk == <<briefRec, diffRec, cp, git>>
ghosts == <<torn, published>>
vars == <<conf, spec, disk, pc, m, ghosts, count>>

Specs == 1..(MaxEdits + 1)
Works == 0..MaxWork
Stages == {"gate", "blueprint", "approve", "branch", "agent", "commit",
           "judge_review", "judge"}
Results == {"none", "ok", "spent", "failed"}
Verdicts == {"none", "APPROVE", "REVISE", "REJECT"}
States == {"pending", "approved", "auto-approved", "rejected"}
Approvals == {"approved", "auto-approved"}
Pcs == {"idle", "load", "check", "guard", "unpend", "gate", "blueprint", "approve",
        "approved", "branch", "create", "branched", "agent", "working", "worked",
        "outcome", "again", "resumed", "seal", "sealed", "review", "reviewed", "judge", "cutover", "hold",
        "verify", "loop", "rework", "reworked", "reseal", "resealed", "rereview",
        "rewind", "finish", "publish"}

BriefRec == [state: States, contract: Specs, effective: Specs, of: Specs, age: 0..2]
DiffRec == [state: States, contract: Specs, effective: Specs,
            diff: Works, hold: Works, age: 0..2]
Checkpoint == [stages: SUBSET Stages, session: BOOLEAN, result: Results,
               diff: Works, verdict: Verdicts, retries: 0..MaxRetries]

\* What the judge last answered, about which diff, and whether verification
\* let an approval stand.
Answer == [diff: Works, verdict: Verdicts, verified: BOOLEAN]
NoAnswer == [diff |-> 0, verdict |-> "none", verified |-> FALSE]

\* A run's memory: its options, the spec it loaded, the stages and the
\* checkpoint it found, the spec its blueprint is of, its progress, and the
\* answer it had from the judge.
Memory == [resume: BOOLEAN, clean: BOOLEAN, override: BOOLEAN, hand: 0..(MaxEdits + 1),
           done: SUBSET Stages, seen: Checkpoint \cup {None}, bp: 0..(MaxEdits + 1),
           result: Results, diff: Works, verdict: Verdicts, retries: 0..MaxRetries,
           answer: Answer]
Blank == [resume |-> FALSE, clean |-> FALSE, override |-> FALSE, hand |-> 0,
          done |-> {}, seen |-> None, bp |-> 0, result |-> "none", diff |-> 0,
          verdict |-> "none", retries |-> 0, answer |-> NoAnswer]

\* An absent record is no record.
ASSUME NoneAssumption ==
  None \notin Works /\ None \notin BriefRec /\ None \notin DiffRec /\ None \notin Checkpoint

TypeOK ==
  /\ conf \in Confs
  /\ spec \in [contract: Specs, contested: BOOLEAN]
  /\ briefRec \in BriefRec \cup {None}
  /\ diffRec \in DiffRec \cup {None}
  /\ cp \in Checkpoint \cup {None}
  /\ git \in [branch: Works \cup {None}, tree: Works]
  /\ pc \in Pcs /\ m \in Memory
  /\ torn \subseteq Works
  /\ published \subseteq [head: Works, diff: Works, answer: Answer]
  /\ count \in [works: Works, edits: 0..MaxEdits, starts: 0..MaxStarts,
                crashes: 0..MaxCrashes]

Init ==
  /\ conf \in Confs
  /\ spec = [contract |-> 1, contested |-> FALSE]
  /\ briefRec = None /\ diffRec = None /\ cp = None
  /\ git = [branch |-> None, tree |-> 0]
  /\ pc = "idle" /\ m = Blank
  /\ torn = {} /\ published = {}
  /\ count = [works |-> 0, edits |-> 0, starts |-> 0, crashes |-> 0]

-----------------------------------------------------------------------------
(***************************************************************************)
(* Spec identity: a record may be consumed while the contract it was       *)
(* stamped with is still the authoritative one, and what it judges was     *)
(* built from that contract.                                               *)
(***************************************************************************)
MayConsumeContract(r) == ~spec.contested /\ r.contract = spec.contract  \* mutant

MayConsume(r) ==
  /\ ~spec.contested
  /\ r.effective = r.contract
  /\ r.contract = spec.contract

Stale(r) ==
  ~spec.contested /\ r.effective = r.contract /\ r.contract # spec.contract

\* identityForApprovalSave refuses a contested spec; the stamp is made from the
\* authoritative spec at the time of the save and the source in hand.
Brief(state) == [state |-> state, contract |-> spec.contract, effective |-> m.hand,
                 of |-> m.bp, age |-> 0]
Review(state, hold) == [state |-> state, contract |-> spec.contract,
                        effective |-> m.hand, diff |-> m.diff, hold |-> hold, age |-> 0]

Pending(r) == r # None /\ r.state = "pending"
\* The guard of a start takes every pend younger than the default timeout.
Live(r) == Pending(r) /\ r.age = 0
\* A gate uses the configured timeout.
TimedOut(r) == Pending(r) /\ r.age >= (IF conf.long THEN 2 ELSE 1)

BriefGate == conf.loop \/ conf.brief
DiffGate == conf.loop \/ conf.diff

(***************************************************************************)
(* The checkpoint manager.  Completing a stage merges into whatever        *)
(* checkpoint is on disk, whether or not this run started from it.         *)
(***************************************************************************)
NewCheckpoint == [stages |-> {}, session |-> FALSE, result |-> "none", diff |-> 0,
                  verdict |-> "none", retries |-> 0]
Marked(stage) ==
  LET c == IF cp = None THEN NewCheckpoint ELSE cp
  IN  [c EXCEPT !.stages = @ \cup {stage}]

RewindReview(c) ==
  IF c = None THEN None
  ELSE [c EXCEPT !.stages = @ \ {"judge_review", "judge"}, !.verdict = "none"]
RewindAgent(c) ==
  IF c = None THEN None
  ELSE [c EXCEPT !.stages = @ \ {"agent", "commit", "judge_review", "judge"},
                 !.verdict = "none", !.result = "none", !.diff = 0, !.retries = 0]

\* isUsable without and with the adapter's retry limit.
Usable(c) ==
  /\ c.session
  /\ c.verdict # "REJECT"
  /\ ~(c.verdict = "REVISE" /\ c.diff = 0)
UsableWithin(c) == Usable(c) /\ (c.retries >= MaxRetries => c.diff # 0)

Goto(p) == pc' = p
End == pc' = "idle" /\ m' = Blank
\* refuseForSpecIdentity writes a marker beside the records and ends the run.
Refuse == End /\ UNCHANGED disk

-----------------------------------------------------------------------------
(***************************************************************************)
(* Starting a run.                                                         *)
(***************************************************************************)
Run(resume, clean, override, c) ==
  /\ count.starts < MaxStarts
  /\ count' = [count EXCEPT !.starts = @ + 1]
  /\ pc' = "load"
  /\ m' = [Blank EXCEPT !.resume = resume, !.clean = clean, !.override = override,
                        !.seen = IF resume THEN c ELSE None,
                        !.retries = IF resume /\ c # None THEN c.retries ELSE 0,
                        !.done = IF resume /\ c # None THEN c.stages ELSE {}]

Open == pc = "idle" /\ published = {}

Start(kind) ==
  /\ Open /\ kind # "revise"
  /\ Run(kind = "resume", kind = "clean", kind = "override", cp)
  /\ UNCHANGED <<conf, spec, disk, ghosts>>

\* A revision rewinds to the worker and retires the diff's record, in loop mode.
Revise ==
  /\ Open /\ "revise" \in Kinds
  /\ count.starts > 0
  /\ cp' = IF conf.loop THEN RewindAgent(cp) ELSE cp
  /\ diffRec' = IF conf.loop THEN None ELSE diffRec
  /\ Run(conf.loop /\ cp # None /\ Usable(RewindAgent(cp)), FALSE, FALSE, cp')
  /\ UNCHANGED <<conf, spec, briefRec, git, ghosts>>

-----------------------------------------------------------------------------
(***************************************************************************)
(* Decisions.  The start that follows one is refused while the other gate  *)
(* is pending; the decision stays.                                         *)
(***************************************************************************)
Resumed(other) ==
  IF Live(other)
  THEN UNCHANGED <<pc, m, count>>
  ELSE Run(TRUE, FALSE, FALSE, cp)

ApproveBrief ==
  /\ Open /\ Pending(briefRec) /\ ~spec.contested
  /\ briefRec' = [briefRec EXCEPT !.state = "approved"]
  /\ Resumed(diffRec)
  /\ UNCHANGED <<conf, spec, diffRec, cp, git, ghosts>>

RejectBrief ==
  /\ Open /\ Pending(briefRec)
  /\ briefRec' = [briefRec EXCEPT !.state = "rejected"]
  /\ UNCHANGED <<conf, spec, diffRec, cp, git, pc, m, ghosts, count>>

ApproveDiff ==
  /\ Open /\ Pending(diffRec) /\ MayConsume(diffRec)
  /\ diffRec' = [diffRec EXCEPT !.state = "approved"]
  /\ Resumed(briefRec)
  /\ UNCHANGED <<conf, spec, briefRec, cp, git, ghosts>>

RejectDiff ==
  /\ Open /\ Pending(diffRec) /\ ~spec.contested
  /\ diffRec' = None
  /\ cp' = IF conf.loop THEN RewindAgent(cp) ELSE cp
  /\ IF Live(briefRec)
     THEN UNCHANGED <<pc, m, count>>
     ELSE Run(conf.loop /\ cp # None /\ Usable(RewindAgent(cp)), FALSE, FALSE, cp')
  /\ UNCHANGED <<conf, spec, briefRec, git, ghosts>>

\* A stale diff review is archived with its checkpoint, and the task starts over.
Recycle ==
  /\ Open /\ diffRec # None /\ cp # None /\ git.branch # None
  /\ ~spec.contested /\ ~MayConsume(diffRec)
  /\ diffRec' = None /\ cp' = None
  /\ IF Live(briefRec)
     THEN UNCHANGED <<pc, m, count>>
     ELSE Run(FALSE, FALSE, FALSE, None)
  /\ UNCHANGED <<conf, spec, briefRec, git, ghosts>>

-----------------------------------------------------------------------------
(***************************************************************************)
(* From the load of the task to its blueprint.                             *)
(***************************************************************************)
Load ==
  /\ pc = "load"
  /\ m' = [m EXCEPT !.hand = spec.contract]
  /\ Goto("check")
  /\ UNCHANGED <<conf, spec, disk, ghosts, count>>

\* The pre-gate source check: the spec in hand is still the authoritative one.
CheckSource ==
  /\ pc = "check"
  /\ IF spec.contested \/ m.hand # spec.contract
     THEN End
     ELSE Goto("guard") /\ UNCHANGED m
  /\ UNCHANGED <<conf, spec, disk, ghosts, count>>

GuardInLoop ==                                          \* mutant of Guard
  /\ pc = "guard"
  /\ IF conf.loop /\ (Live(diffRec) \/ Live(briefRec))
     THEN End
     ELSE Goto("gate") /\ UNCHANGED m
  /\ UNCHANGED <<conf, spec, disk, ghosts, count>>

\* A run that finds a live pend saves it again and stops; overriding, it
\* archives the paused run, the pend it found last.
Guard ==
  /\ pc = "guard"
  /\ \/ /\ ~Live(diffRec) /\ ~Live(briefRec)
        /\ Goto("gate")
        /\ UNCHANGED <<m, disk>>
     \/ /\ Live(diffRec) \/ Live(briefRec)
        /\ ~m.override
        /\ End
        /\ UNCHANGED disk
     \/ /\ Live(diffRec) \/ Live(briefRec)
        /\ m.override
        /\ cp' = None
        /\ IF Live(diffRec)
           THEN briefRec' = None /\ UNCHANGED diffRec
           ELSE diffRec' = None /\ UNCHANGED briefRec
        /\ Goto("unpend")
        /\ UNCHANGED <<m, git>>
  /\ UNCHANGED <<conf, spec, ghosts, count>>

Unpend ==
  /\ pc = "unpend"
  /\ briefRec' = None /\ diffRec' = None
  /\ Goto("gate")
  /\ UNCHANGED <<conf, spec, cp, git, m, ghosts, count>>

Gate ==
  /\ pc = "gate"
  /\ \/ /\ "gate" \in m.done
        /\ Goto("blueprint")
        /\ UNCHANGED <<m, cp>>
     \/ /\ "gate" \notin m.done
        /\ cp' = [Marked("gate") EXCEPT !.session = TRUE]
        /\ Goto("blueprint")
        /\ UNCHANGED m
     \/ /\ "gate" \notin m.done          \* gate_failed, or rejected before it
        /\ End
        /\ UNCHANGED cp
  /\ UNCHANGED <<conf, spec, briefRec, diffRec, git, ghosts, count>>

\* A resumed run takes the blueprint of the approval record, whatever its
\* state, as long as its spec identity may be consumed.
Blueprint ==
  /\ pc = "blueprint"
  /\ \/ /\ "blueprint" \in m.done /\ briefRec # None
        /\ IF MayConsume(briefRec)
           THEN m' = [m EXCEPT !.bp = briefRec.of] /\ Goto("approve")
           ELSE End
        /\ UNCHANGED cp
     \/ /\ "blueprint" \notin m.done \/ briefRec = None
        /\ m' = [m EXCEPT !.bp = m.hand]
        /\ cp' = IF "blueprint" \in m.done THEN cp ELSE Marked("blueprint")
        /\ Goto("approve")
     \/ /\ "blueprint" \notin m.done \/ briefRec = None   \* an empty brief
        /\ End
        /\ UNCHANGED cp
  /\ UNCHANGED <<conf, spec, briefRec, diffRec, git, ghosts, count>>

-----------------------------------------------------------------------------
(***************************************************************************)
(* The approval gate of the blueprint.                                     *)
(***************************************************************************)
SkipApprove ==
  /\ pc = "approve"
  /\ ~BriefGate \/ "approve" \in m.done
  /\ Goto("branch")
  /\ UNCHANGED <<conf, spec, disk, m, ghosts, count>>

AtApprove == pc = "approve" /\ BriefGate /\ "approve" \notin m.done

\* The record on disk decides: timed out, still pending in loop mode, rejected,
\* or approved for a contract that may or may not be consumed.
\* The configuration stays, and under one configuration an approval of loop mode
\* carries the review that lets it be reused; the record of another one would be
\* reviewed afresh.
FollowBrief ==
  /\ AtApprove /\ briefRec # None
  /\ \/ /\ TimedOut(briefRec)
        /\ briefRec' = [briefRec EXCEPT !.state = "rejected"]
        /\ End
     \/ /\ Pending(briefRec) /\ ~TimedOut(briefRec) /\ conf.loop
        /\ briefRec' = [briefRec EXCEPT !.age = 0]
        /\ End
     \/ /\ briefRec.state = "rejected" /\ ~Stale(briefRec)
        /\ End
        /\ UNCHANGED briefRec
     \/ /\ briefRec.state \in Approvals
        /\ IF MayConsume(briefRec)
           THEN Goto("approved") /\ UNCHANGED m
           ELSE End
        /\ UNCHANGED briefRec
  /\ UNCHANGED <<conf, spec, diffRec, cp, git, ghosts, count>>

\* No decision stands in the way: the reviewer and the rules approve, or pend.
Undecided ==
  briefRec # None =>
    \/ briefRec.state = "rejected" /\ Stale(briefRec)
    \/ Pending(briefRec) /\ ~TimedOut(briefRec) /\ ~conf.loop

DecideBrief ==
  /\ AtApprove /\ Undecided
  /\ \/ /\ spec.contested              \* the record cannot be stamped
        /\ Refuse
     \/ /\ ~spec.contested \/ ~conf.loop
        /\ briefRec' = IF conf.loop \/ (briefRec # None /\ briefRec.state = "rejected")
                       THEN Brief("auto-approved")
                       ELSE briefRec
        /\ Goto("approved")
        /\ UNCHANGED <<diffRec, cp, git, m>>
     \/ /\ ~spec.contested
        /\ briefRec' = Brief("pending")
        /\ End
        /\ UNCHANGED <<diffRec, cp, git>>
  /\ UNCHANGED <<conf, spec, ghosts, count>>

Approved ==
  /\ pc = "approved"
  /\ cp' = Marked("approve")
  /\ Goto("branch")
  /\ UNCHANGED <<conf, spec, briefRec, diffRec, git, m, ghosts, count>>

-----------------------------------------------------------------------------
(***************************************************************************)
(* The branch.                                                             *)
(***************************************************************************)
\* A resumed run checks the branch out; a missing one throws.
ResumeBranch ==
  /\ pc = "branch" /\ "branch" \in m.done /\ git.branch # None
  /\ Goto("agent")
  /\ UNCHANGED <<conf, spec, disk, m, ghosts, count>>

ReuseBranch ==
  /\ pc = "branch" /\ "branch" \notin m.done /\ git.branch # None /\ ~m.clean
  /\ m.seen # None => UsableWithin(m.seen)
  /\ Goto("branched")
  /\ UNCHANGED <<conf, spec, disk, m, ghosts, count>>

\* Asked to, or not trusting its checkpoint, the run deletes branch and checkpoint.
CleanBranch ==
  /\ pc = "branch" /\ "branch" \notin m.done /\ git.branch # None
  /\ m.clean \/ (m.seen # None /\ ~UsableWithin(m.seen))
  /\ git' = [branch |-> None, tree |-> 0]
  /\ cp' = None
  /\ Goto("create")
  /\ UNCHANGED <<conf, spec, briefRec, diffRec, m, ghosts, count>>

CreateBranch ==
  /\ \/ pc = "create"
     \/ pc = "branch" /\ "branch" \notin m.done /\ git.branch = None
  /\ \/ /\ git' = [branch |-> 0, tree |-> 0]
        /\ Goto("branched")
        /\ UNCHANGED m
     \/ /\ End                            \* the branch, or its worktree, fails
        /\ UNCHANGED git
  /\ UNCHANGED <<conf, spec, briefRec, diffRec, cp, ghosts, count>>

Branched ==
  /\ pc = "branched"
  /\ cp' = Marked("branch")
  /\ Goto("agent")
  /\ UNCHANGED <<conf, spec, briefRec, diffRec, git, m, ghosts, count>>

-----------------------------------------------------------------------------
(***************************************************************************)
(* The worker and the seal of its output.                                  *)
(***************************************************************************)
\* The worker changes the working tree, or leaves it; it cannot commit.
Work(res) ==
  /\ \/ UNCHANGED <<git, count>>
     \/ /\ count.works < MaxWork
        /\ count' = [count EXCEPT !.works = @ + 1]
        /\ git' = [git EXCEPT !.tree = count.works + 1]
  /\ m' = [m EXCEPT !.result = res]
  /\ UNCHANGED <<conf, spec, briefRec, diffRec, cp, ghosts>>

\* A completed worker stage is not run again, whatever its outcome was.
Agent ==
  /\ pc = "agent"
  /\ IF "agent" \in m.done /\ m.seen.result # "none"
     THEN m' = [m EXCEPT !.result = m.seen.result] /\ Goto("outcome")
     ELSE Goto("working") /\ UNCHANGED m
  /\ UNCHANGED <<conf, spec, disk, ghosts, count>>

Working ==
  /\ pc = "working"
  /\ \E res \in {"ok", "spent", "failed"} : Work(res)
  /\ Goto("worked")

Worked ==
  /\ pc = "worked"
  /\ cp' = [Marked("agent") EXCEPT !.result = m.result]
  /\ Goto("outcome")
  /\ UNCHANGED <<conf, spec, briefRec, diffRec, git, m, ghosts, count>>

\* A spent worker with work to show is resumed once, if the budget allows; any
\* other failure ends the run and leaves the branch, and so does a standing
\* failure of the machinery's integrity.
Outcome ==
  /\ pc = "outcome"
  /\ \/ m.result = "ok" /\ Goto("seal") /\ UNCHANGED m
     \/ m.result = "spent" /\ git.tree # 0 /\ Goto("again") /\ UNCHANGED m
     \/ End
  /\ UNCHANGED <<conf, spec, disk, ghosts, count>>

Again ==
  /\ pc = "again"
  /\ \E res \in {"ok", "spent", "failed"} : Work(res)
  /\ Goto("resumed")

ResumedWork ==
  /\ pc = "resumed"
  /\ cp' = [Marked("agent") EXCEPT !.result = m.result]
  /\ IF m.result = "ok" THEN Goto("seal") /\ UNCHANGED m ELSE End
  /\ UNCHANGED <<conf, spec, briefRec, diffRec, git, ghosts, count>>

\* Sealing commits the working tree to the branch; the checkpoint comes after.
Seal ==
  /\ pc = "seal"
  /\ IF "commit" \in m.done /\ m.seen.diff # 0
     THEN /\ m' = [m EXCEPT !.diff = m.seen.diff]
          /\ Goto("review")
          /\ UNCHANGED git
     ELSE /\ git' = [git EXCEPT !.branch = git.tree]
          /\ m' = [m EXCEPT !.diff = git.tree]
          /\ Goto("sealed")
  /\ UNCHANGED <<conf, spec, briefRec, diffRec, cp, ghosts, count>>

Sealed ==
  /\ pc = "sealed"
  /\ cp' = [Marked("commit") EXCEPT !.diff = m.diff]
  /\ IF m.diff = 0 THEN End ELSE Goto("review") /\ UNCHANGED m
  /\ UNCHANGED <<conf, spec, briefRec, diffRec, git, ghosts, count>>

-----------------------------------------------------------------------------
(***************************************************************************)
(* The approval gate of the diff.                                          *)
(***************************************************************************)
SkipReview ==
  /\ pc = "review"
  /\ ~DiffGate \/ "judge_review" \in m.done
  /\ Goto("judge")
  /\ UNCHANGED <<conf, spec, disk, m, ghosts, count>>

AtReview == pc = "review" /\ DiffGate /\ "judge_review" \notin m.done

FollowDiff ==
  /\ AtReview /\ diffRec # None
  /\ \/ /\ TimedOut(diffRec)
        /\ diffRec' = [diffRec EXCEPT !.state = "rejected"]
        /\ End
     \/ /\ Pending(diffRec) /\ ~TimedOut(diffRec) /\ conf.loop
        /\ diffRec' = [diffRec EXCEPT !.age = 0]
        /\ End
     \/ /\ diffRec.state = "rejected"
        /\ End
        /\ UNCHANGED diffRec
     \/ /\ diffRec.state \in Approvals
        /\ IF MayConsume(diffRec)
           THEN Goto("reviewed") /\ UNCHANGED m
           ELSE End
        /\ UNCHANGED diffRec
  /\ UNCHANGED <<conf, spec, briefRec, cp, git, ghosts, count>>

\* A safety stop ends the run after the record of a loop review is written.
DecideDiff ==
  /\ AtReview
  /\ diffRec # None => Pending(diffRec) /\ ~TimedOut(diffRec) /\ ~conf.loop
  /\ \/ /\ spec.contested
        /\ Refuse
     \/ /\ ~spec.contested \/ ~conf.loop
        /\ diffRec' = IF conf.loop THEN Review("auto-approved", 0) ELSE diffRec
        /\ \/ Goto("reviewed") /\ UNCHANGED m
           \/ conf.loop /\ End
        /\ UNCHANGED <<briefRec, cp, git>>
     \/ /\ ~spec.contested
        /\ diffRec' = Review("pending", 0)
        /\ End
        /\ UNCHANGED <<briefRec, cp, git>>
  /\ UNCHANGED <<conf, spec, ghosts, count>>

Reviewed ==
  /\ pc = "reviewed"
  /\ cp' = Marked("judge_review")
  /\ Goto("judge")
  /\ UNCHANGED <<conf, spec, briefRec, diffRec, git, m, ghosts, count>>

-----------------------------------------------------------------------------
(***************************************************************************)
(* The judge, the intent judgment, and verification.  A resumed run always *)
(* judges again.                                                           *)
(***************************************************************************)
Answered(v) == [m EXCEPT !.verdict = v,
                         !.answer = [diff |-> m.diff, verdict |-> v, verified |-> FALSE]]

JudgeOnce ==                                            \* mutant of Judge
  /\ pc = "judge"
  /\ IF "judge" \in m.done
     THEN /\ m' = [m EXCEPT !.verdict = m.seen.verdict]
          /\ Goto("loop")
          /\ UNCHANGED cp
     ELSE \E v \in {"APPROVE", "REVISE", "REJECT"} :
            /\ cp' = [Marked("judge") EXCEPT !.verdict = v, !.diff = m.diff]
            /\ m' = Answered(v)
            /\ Goto("cutover")
  /\ UNCHANGED <<conf, spec, briefRec, diffRec, git, ghosts, count>>

Judge ==
  /\ pc = "judge"
  /\ \E v \in {"APPROVE", "REVISE", "REJECT"} :
       /\ cp' = [Marked("judge") EXCEPT !.verdict = v, !.diff = m.diff]
       /\ \/ m' = Answered(v) /\ Goto("cutover")
          \/ End                                       \* safety_stop
  /\ UNCHANGED <<conf, spec, briefRec, diffRec, git, ghosts, count>>

Cleared == diffRec # None /\ diffRec.state = "approved" /\ diffRec.hold = m.diff

Lapsed == diffRec # None /\ diffRec.state \in Approvals /\ ~MayConsume(diffRec)

\* Enforced, the intent judgment may hold the diff for a human, once for each
\* diff that a human has not cleared, or demote an approval.
Cutover ==
  /\ pc = "cutover"
  /\ \/ /\ ~conf.intent \/ ~Lapsed
        /\ Goto("verify")
        /\ UNCHANGED <<m, cp>>
     \/ /\ conf.intent /\ Lapsed
        /\ End
        /\ UNCHANGED cp
     \/ /\ conf.intent /\ ~Lapsed /\ ~Cleared
        /\ IF spec.contested
           THEN End /\ UNCHANGED cp
           ELSE Goto("hold") /\ cp' = RewindReview(cp) /\ UNCHANGED m
     \/ /\ conf.intent /\ ~Lapsed /\ ~Cleared /\ m.verdict = "APPROVE"
        /\ m' = [m EXCEPT !.verdict = "REVISE"]
        /\ cp' = [Marked("judge") EXCEPT !.verdict = "REVISE", !.diff = m.diff]
        /\ Goto("verify")
  /\ UNCHANGED <<conf, spec, briefRec, diffRec, git, ghosts, count>>

Hold ==
  /\ pc = "hold"
  /\ diffRec' = Review("pending", m.diff)
  /\ End
  /\ UNCHANGED <<conf, spec, briefRec, cp, git, ghosts, count>>

\* An approval is verified: kept, turned into a revision, or, on a tampered
\* machinery, into a rejection.
Verify ==
  /\ pc = "verify"
  /\ \/ /\ m.verdict # "APPROVE"
        /\ UNCHANGED m
     \/ /\ m.verdict = "APPROVE"
        /\ m' = [m EXCEPT !.answer.verified = TRUE]
     \/ /\ m.verdict = "APPROVE"
        /\ \E v \in {"REVISE", "REJECT"} : m' = [m EXCEPT !.verdict = v]
  /\ Goto("loop")
  /\ UNCHANGED <<conf, spec, disk, ghosts, count>>

-----------------------------------------------------------------------------
(***************************************************************************)
(* Retries after a REVISE.                                                 *)
(***************************************************************************)
LoopUnbounded ==                                        \* mutant of Loop
  /\ pc = "loop"
  /\ IF m.verdict = "REVISE"
     THEN m' = [m EXCEPT !.retries = @ + 1] /\ Goto("rework")
     ELSE Goto("finish") /\ UNCHANGED m
  /\ UNCHANGED <<conf, spec, disk, ghosts, count>>

Loop ==
  /\ pc = "loop"
  /\ \/ /\ m.verdict = "REVISE" /\ m.retries < MaxRetries
        /\ m' = [m EXCEPT !.retries = @ + 1]
        /\ Goto("rework")
     \/ /\ Goto("finish")         \* also a REVISE whose budget is spent
        /\ UNCHANGED m
  /\ UNCHANGED <<conf, spec, disk, ghosts, count>>

\* The retry is checkpointed only once its worker has succeeded.
Rework ==
  /\ pc = "rework"
  /\ \E res \in {"ok", "failed"} : Work(res)
  /\ Goto("reworked")

Reworked ==
  /\ pc = "reworked"
  /\ IF m.result = "ok"
     THEN /\ cp' = [Marked("agent") EXCEPT !.result = m.result, !.retries = m.retries]
          /\ Goto("reseal")
          /\ UNCHANGED m
     ELSE End /\ UNCHANGED cp
  /\ UNCHANGED <<conf, spec, briefRec, diffRec, git, ghosts, count>>

Reseal ==
  /\ pc = "reseal"
  /\ git' = [git EXCEPT !.branch = git.tree]
  /\ m' = [m EXCEPT !.diff = git.tree]
  /\ Goto("resealed")
  /\ UNCHANGED <<conf, spec, briefRec, diffRec, cp, ghosts, count>>

Resealed ==
  /\ pc = "resealed"
  /\ cp' = [Marked("commit") EXCEPT !.diff = m.diff, !.retries = m.retries]
  /\ IF m.diff = 0
     THEN End
     ELSE Goto(IF conf.loop THEN "rereview" ELSE "judge") /\ UNCHANGED m
  /\ UNCHANGED <<conf, spec, briefRec, diffRec, git, ghosts, count>>

\* In loop mode the new diff is reviewed; a pend reopens the review stage.
Rereview ==
  /\ pc = "rereview"
  /\ \/ /\ spec.contested
        /\ End
        /\ UNCHANGED diffRec
     \/ /\ ~spec.contested
        /\ \E state \in {"auto-approved", "pending"} :
             /\ diffRec' = Review(state, 0)
             /\ \/ Goto(IF state = "pending" THEN "rewind" ELSE "judge") /\ UNCHANGED m
                \/ End                                 \* safety_stop
  /\ UNCHANGED <<conf, spec, briefRec, cp, git, ghosts, count>>

Rewind ==
  /\ pc = "rewind"
  /\ cp' = RewindReview(cp)
  /\ End
  /\ UNCHANGED <<conf, spec, briefRec, diffRec, git, ghosts, count>>

-----------------------------------------------------------------------------
(***************************************************************************)
(* The end of a run.                                                       *)
(***************************************************************************)
\* The checkpoint of an approved run goes before anything is published.
Finish ==
  /\ pc = "finish"
  /\ IF m.verdict = "APPROVE"
     THEN cp' = None /\ Goto("publish") /\ UNCHANGED m
     ELSE End /\ UNCHANGED cp
  /\ UNCHANGED <<conf, spec, briefRec, diffRec, git, ghosts, count>>

\* handleApproval binds the branch's head of that moment and publishes it.
Publish ==
  /\ pc = "publish"
  /\ \/ published' = published \cup
           {[head |-> git.branch, diff |-> m.diff, answer |-> m.answer]}
     \/ UNCHANGED published              \* sealing the publication, or the push, fails
  /\ End
  /\ UNCHANGED <<conf, spec, disk, torn, count>>

\* A run that ends after a seal's commit leaves the checkpoint of the diff before.
CutOff ==
  /\ torn' = IF pc \in {"sealed", "resealed"} THEN torn \cup {git.branch} ELSE torn
  /\ UNCHANGED published

\* A throw ends the run; unless the worker has run, checkpoint and branch go.
Throw ==
  /\ "throw" \in Faults
  /\ pc \in {"load", "gate", "blueprint", "branch", "working", "seal", "sealed",
             "judge", "rework", "reseal", "resealed"}
  /\ LET early == cp # None /\ "agent" \notin cp.stages
     IN  /\ cp' = IF early THEN None ELSE cp
         /\ git' = IF early /\ "branch" \in cp.stages
                   THEN [branch |-> None, tree |-> 0]
                   ELSE git
  /\ End /\ CutOff
  /\ UNCHANGED <<conf, spec, briefRec, diffRec, count>>

-----------------------------------------------------------------------------
(***************************************************************************)
(* What happens around a run.                                              *)
(***************************************************************************)
Crash ==
  /\ pc # "idle" /\ count.crashes < MaxCrashes
  /\ count' = [count EXCEPT !.crashes = @ + 1]
  /\ End /\ CutOff
  /\ UNCHANGED <<conf, spec, disk>>

Edit ==
  /\ count.edits < MaxEdits /\ published = {}
  /\ count' = [count EXCEPT !.edits = @ + 1]
  /\ \/ \E c \in Specs :
          /\ c # spec.contract
          /\ c = count.edits + 2 \/ ("revert" \in Faults /\ c <= count.edits + 1)
          /\ spec' = [spec EXCEPT !.contract = c]
     \/ spec' = [spec EXCEPT !.contested = ~@]
  /\ UNCHANGED <<conf, disk, pc, m, ghosts>>

Age ==
  /\ "expire" \in Faults /\ published = {}
  /\ \/ /\ Pending(briefRec) /\ briefRec.age < 2
        /\ briefRec' = [briefRec EXCEPT !.age = @ + 1]
        /\ UNCHANGED diffRec
     \/ /\ Pending(diffRec) /\ diffRec.age < 2
        /\ diffRec' = [diffRec EXCEPT !.age = @ + 1]
        /\ UNCHANGED briefRec
  /\ UNCHANGED <<conf, spec, cp, git, pc, m, ghosts, count>>

Next ==
  \/ \E kind \in Kinds : Start(kind)
  \/ Revise \/ ApproveBrief \/ RejectBrief \/ ApproveDiff \/ RejectDiff \/ Recycle
  \/ Load \/ CheckSource \/ Guard \/ Unpend \/ Gate \/ Blueprint
  \/ SkipApprove \/ FollowBrief \/ DecideBrief \/ Approved
  \/ ResumeBranch \/ ReuseBranch \/ CleanBranch \/ CreateBranch \/ Branched
  \/ Agent \/ Working \/ Worked \/ Outcome \/ Again \/ ResumedWork \/ Seal \/ Sealed
  \/ SkipReview \/ FollowDiff \/ DecideDiff \/ Reviewed
  \/ Judge \/ Cutover \/ Hold \/ Verify
  \/ Loop \/ Rework \/ Reworked \/ Reseal \/ Resealed \/ Rereview \/ Rewind
  \/ Finish \/ Publish \/ Throw \/ Crash \/ Edit \/ Age

Spec == Init /\ [][Next]_vars

-----------------------------------------------------------------------------
\* PassedPublished: the run that publishes has asked the judge itself, and the
\* judge's last answer in that run, about the very diff the run holds, was an
\* APPROVE that its verification let stand: no checkpointed verdict, answer
\* about the diff before, or human's approval takes its place.  And the head it
\* publishes is that diff, unless the head is work of a seal that was cut off
\* between its commit and its checkpoint.
PassedPublished ==
  \A p \in published :
    /\ p.answer = [diff |-> p.diff, verdict |-> "APPROVE", verified |-> TRUE]
    /\ p.head = p.diff \/ p.head \in torn

\* BriefBound: in loop mode a worker runs only on a blueprint of the spec its
\* run loaded, under an approval of a blueprint of that same spec: no restart,
\* edit, expiry or retired rejection lets a worker run on a brief that was not
\* approved, or was approved for another contract.
BriefBound ==
  conf.loop /\ pc \in {"working", "again", "rework"} =>
    /\ m.bp = m.hand
    /\ briefRec # None
    /\ briefRec.state \in Approvals /\ briefRec.of = m.hand

Content(r) == [x \in DOMAIN r \ {"state", "age"} |-> r[x]]
Keeps(r, s) == Live(r) => \/ s # None /\ Content(s) = Content(r)
                          \/ pc = "idle" \/ m.override

\* PendKept: no run that was not told to override replaces or drops a pending
\* decision a human may still give: whatever it re-saves has the same content.
PendKept == [][Keeps(briefRec, briefRec') /\ Keeps(diffRec, diffRec')]_vars

\* PublishedJudged: the branch head that is published is the diff that was
\* judged ("Re-judge after retry using a fresh durable output seal").
PublishedJudged == \A p \in published : p.head = p.answer.diff
=============================================================================
