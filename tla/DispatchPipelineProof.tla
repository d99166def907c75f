----------------------- MODULE DispatchPipelineProof ------------------------
(***************************************************************************)
(* DispatchPipeline: a run publishes what it has itself had judged and     *)
(* verified, no pending decision is replaced, and, as long as no edit      *)
(* brings an old contract back, a worker in loop mode runs only on an      *)
(* approved blueprint of the spec it loaded. For every set of              *)
(* configurations, every number of retries, works, edits, starts and       *)
(* crashes.                                                                *)
(*                                                                         *)
(* A run reads the records when it starts and again at each gate, and what *)
(* it read may be overtaken by the next edit, expiry or restart. The       *)
(* invariant says what still holds at each place of the run: Holding what  *)
(* its memory holds and when the branch exists; Approving that an APPROVE  *)
(* it carries is the judge's answer about the diff in hand; Headed that    *)
(* this diff, and the checkpoint's, is the head of the branch unless a     *)
(* seal was cut off; NoPend that the guard at its start leaves no live     *)
(* pend behind, and that it writes one only as its last act; Staged that a *)
(* stage counts as done only while the checkpoint says so; Growing that    *)
(* contracts grow, so that a record which may be consumed is of the        *)
(* contract in hand; Backed that in loop mode an approval in the           *)
(* checkpoint stands in the record.                                        *)
(*                                                                         *)
(* Every action that does more than move the run first gets a lemma that   *)
(* says what it does in these terms (<action>Effect); the steps of the     *)
(* invariant then use the lemma and not the action.                        *)
(***************************************************************************)
EXTENDS DispatchPipeline, TLAPS

-----------------------------------------------------------------------------
(* The inductive invariant.                                                *)

Specified == {"check", "guard", "unpend", "gate", "blueprint"}
Branching == {"approve", "approved", "branch", "create"}
Planned == pc \notin {"idle", "load"} \cup Specified
Bound == Planned /\ pc \notin Branching

\* What the memory of a run holds, and when the branch exists.
Holding ==
  /\ pc \notin {"idle", "load"} => m.hand \in Specs
  /\ Planned => m.bp \in Specs
  /\ Bound => git.branch # None
  /\ m.done # {} => m.seen # None

\* An approval a run carries is the judge's last answer, about the diff in hand,
\* and at the end of the run one that verification let stand.
Approval(verified) == [diff |-> m.diff, verdict |-> "APPROVE", verified |-> verified]
Approving ==
  /\ pc \in {"cutover", "verify"} /\ m.verdict = "APPROVE" => m.answer = Approval(FALSE)
  /\ pc \in {"loop", "finish", "publish"} /\ m.verdict = "APPROVE" =>
       m.answer = Approval(TRUE)
  /\ pc = "publish" => m.verdict = "APPROVE"

\* The branch's head is the diff in hand once the run has sealed one, and the
\* diff of the checkpoint, unless its own seal was cut off or is not checkpointed
\* yet.  The checkpoint that has a sealed diff has the branch's stage too.
After == {"sealed", "review", "reviewed", "judge", "cutover", "hold", "verify", "loop",
          "rework", "reworked", "reseal", "resealed", "rereview", "rewind", "finish",
          "publish"}
Onward == (After \ {"publish"}) \cup {"agent", "working", "worked", "outcome", "again",
                                      "resumed", "seal"}
HeadIs(diff) == git.branch = diff \/ git.branch \in torn
Headed ==
  /\ pc \in After => HeadIs(m.diff)
  /\ cp # None /\ cp.diff # 0 => HeadIs(cp.diff) \/ pc \in {"sealed", "resealed"}
  /\ pc \notin After /\ "commit" \in m.done /\ m.seen.diff # 0 => HeadIs(m.seen.diff)
  /\ pc = "create" => git.branch = None
  /\ cp # None /\ "commit" \in cp.stages => "branch" \in cp.stages
  /\ "commit" \in m.done => "branch" \in m.done
  /\ pc = "branch" /\ "branch" \in m.done => cp # None /\ "branch" \in cp.stages
  /\ pc \in Onward => cp # None /\ "branch" \in cp.stages

\* A run that works, and was not told to override, found no live pend.
NoPend ==
  pc \notin {"idle", "load", "check", "guard"} /\ ~m.override =>
    ~Live(briefRec) /\ (pc # "rewind" => ~Live(diffRec))

\* Contracts only grow unless an edit brings an old one back.
Early == {"check", "guard", "unpend", "gate", "blueprint", "approve"}
Growing ==
  /\ spec.contract <= count.edits + 1
  /\ pc # "load" => m.hand <= spec.contract
  /\ briefRec # None => briefRec.contract <= spec.contract
  /\ briefRec # None /\ pc \in Early => briefRec.contract <= m.hand
  /\ briefRec # None => briefRec.of = briefRec.effective
  /\ Planned => m.bp = m.hand

\* A stage that counts as done in the run is in the checkpoint, until the branch is made.
Before == {"load", "check", "guard", "unpend", "gate", "blueprint", "approve", "approved"}
Staged ==
  /\ m.override => m.done = {}
  /\ pc \in Before /\ m.done # {} => cp # None /\ m.done \subseteq cp.stages
  /\ pc = "unpend" => cp = None /\ m.override
  /\ pc \in {"approve", "approved"} => cp # None /\ "blueprint" \in cp.stages
  /\ cp # None /\ "approve" \in cp.stages => "blueprint" \in cp.stages
  /\ "approve" \in m.done => "blueprint" \in m.done

\* An approval in the checkpoint is backed by the record.
BriefApproved == briefRec # None /\ briefRec.state \in Approvals
Backed ==
  conf.loop =>
    /\ cp # None /\ "approve" \in cp.stages => BriefApproved
    /\ "approve" \in m.done => BriefApproved
    /\ pc = "approve" /\ "approve" \in m.done => briefRec.of = m.hand
    /\ Planned /\ pc # "approve" => BriefApproved /\ briefRec.of = m.hand

-----------------------------------------------------------------------------
(* The types of the records and of what the operators make of them.        *)

\* A run's memory keeps its type when one field is replaced.
LEMMA MemoryUpdates ==
  ASSUME NEW r \in Memory
  PROVE  /\ \A v \in 0..(MaxEdits + 1) : [r EXCEPT !.hand = v] \in Memory
         /\ \A v \in 0..(MaxEdits + 1) : [r EXCEPT !.bp = v] \in Memory
         /\ \A v \in Results : [r EXCEPT !.result = v] \in Memory
         /\ \A v \in Works : [r EXCEPT !.diff = v] \in Memory
         /\ \A v \in Verdicts : [r EXCEPT !.verdict = v] \in Memory
         /\ \A v \in 0..MaxRetries : [r EXCEPT !.retries = v] \in Memory
         /\ \A v \in Verdicts, a \in Answer :
              [r EXCEPT !.verdict = v, !.answer = a] \in Memory
         /\ [r EXCEPT !.answer.verified = TRUE] \in Memory
<1>1. /\ \A v \in 0..(MaxEdits + 1) : [r EXCEPT !.hand = v] \in Memory
      /\ \A v \in 0..(MaxEdits + 1) : [r EXCEPT !.bp = v] \in Memory
      /\ \A v \in Results : [r EXCEPT !.result = v] \in Memory
      /\ \A v \in Works : [r EXCEPT !.diff = v] \in Memory
      /\ \A v \in Verdicts : [r EXCEPT !.verdict = v] \in Memory
      /\ \A v \in 0..MaxRetries : [r EXCEPT !.retries = v] \in Memory
  BY DEF Memory
<1>2. ASSUME NEW v \in Verdicts, NEW a \in Answer
      PROVE  [r EXCEPT !.verdict = v, !.answer = a] \in Memory
  BY DEF Memory
<1>3. [r EXCEPT !.answer.verified = TRUE] \in Memory
  BY DEF Memory, Answer
<1> QED BY <1>1, <1>2, <1>3

\* The types of its fields.
LEMMA MemoryFields ==
  ASSUME NEW r \in Memory
  PROVE  /\ r.resume \in BOOLEAN /\ r.clean \in BOOLEAN /\ r.override \in BOOLEAN
         /\ r.hand \in 0..(MaxEdits + 1) /\ r.bp \in 0..(MaxEdits + 1)
         /\ r.done \in SUBSET Stages /\ r.seen \in Checkpoint \cup {None}
         /\ r.result \in Results /\ r.diff \in Works /\ r.verdict \in Verdicts
         /\ r.retries \in 0..MaxRetries /\ r.answer \in Answer
  BY DEF Memory

\* The types of a checkpoint's fields.
LEMMA CheckpointFields ==
  ASSUME NEW r \in Checkpoint
  PROVE  /\ r.stages \in SUBSET Stages /\ r.session \in BOOLEAN
         /\ r.result \in Results /\ r.diff \in Works /\ r.verdict \in Verdicts
         /\ r.retries \in 0..MaxRetries
  BY DEF Checkpoint

\* A checkpoint keeps its type under the updates the stages make,
LEMMA CheckpointUpdates ==
  ASSUME NEW r \in Checkpoint
  PROVE  /\ \A v \in SUBSET Stages : [r EXCEPT !.stages = v] \in Checkpoint
         /\ [r EXCEPT !.session = TRUE] \in Checkpoint
         /\ \A v \in Results : [r EXCEPT !.result = v] \in Checkpoint
         /\ \A v \in Works : [r EXCEPT !.diff = v] \in Checkpoint
         /\ \A v \in Results, n \in 0..MaxRetries :
              [r EXCEPT !.result = v, !.retries = n] \in Checkpoint
         /\ \A v \in Works, n \in 0..MaxRetries :
              [r EXCEPT !.diff = v, !.retries = n] \in Checkpoint
         /\ \A v \in Verdicts, d \in Works :
              [r EXCEPT !.verdict = v, !.diff = d] \in Checkpoint
  BY DEF Checkpoint

\* and these leave its completed stages alone.
LEMMA CheckpointStages ==
  ASSUME NEW r \in Checkpoint
  PROVE  /\ \A v : [r EXCEPT !.session = v].stages = r.stages
         /\ \A v : [r EXCEPT !.result = v].stages = r.stages
         /\ \A v : [r EXCEPT !.diff = v].stages = r.stages
         /\ \A v, n : [r EXCEPT !.result = v, !.retries = n].stages = r.stages
         /\ \A v, n : [r EXCEPT !.diff = v, !.retries = n].stages = r.stages
         /\ \A v, n : [r EXCEPT !.verdict = v, !.diff = n].stages = r.stages
         /\ \A v : [r EXCEPT !.stages = v].diff = r.diff
         /\ \A v : [r EXCEPT !.session = v].diff = r.diff
         /\ \A v : [r EXCEPT !.result = v].diff = r.diff
         /\ \A v : [r EXCEPT !.diff = v].diff = v
         /\ \A v, n : [r EXCEPT !.result = v, !.retries = n].diff = r.diff
         /\ \A v, n : [r EXCEPT !.diff = v, !.retries = n].diff = v
         /\ \A v, n : [r EXCEPT !.verdict = v, !.diff = n].diff = n
  BY DEF Checkpoint

\* The empty checkpoint.
LEMMA NewTyped ==
  NewCheckpoint \in Checkpoint /\ NewCheckpoint.stages = {} /\ NewCheckpoint.diff = 0
  BY PipelineAssumption DEF NewCheckpoint, Checkpoint, Results, Verdicts, Works

\* Completing a stage merges it into whatever checkpoint is on disk.
LEMMA MarkedTyped ==
  ASSUME cp \in Checkpoint \cup {None}, NEW s \in Stages
  PROVE  /\ Marked(s) \in Checkpoint
         /\ Marked(s).stages = (IF cp = None THEN {} ELSE cp.stages) \cup {s}
         /\ Marked(s).diff = IF cp = None THEN 0 ELSE cp.diff
<1> DEFINE c == IF cp = None THEN NewCheckpoint ELSE cp
<1>1. c \in Checkpoint
  BY NewTyped
<1>2. c.stages \cup {s} \in SUBSET Stages
  BY <1>1, CheckpointFields
<1>3. /\ c.stages = IF cp = None THEN {} ELSE cp.stages
      /\ c.diff = IF cp = None THEN 0 ELSE cp.diff
  BY NewTyped
<1>4. Marked(s) = [c EXCEPT !.stages = c.stages \cup {s}]
  BY DEF Marked
<1>5. [c EXCEPT !.stages = c.stages \cup {s}] \in Checkpoint
  BY <1>1, <1>2, CheckpointUpdates, Zenon
<1>6. [c EXCEPT !.stages = c.stages \cup {s}].stages = c.stages \cup {s}
  BY <1>1, SMT DEF Checkpoint
<1>7. [c EXCEPT !.stages = c.stages \cup {s}].diff = c.diff
  BY <1>1, SMT DEF Checkpoint
<1> QED
  BY <1>3, <1>4, <1>5, <1>6, <1>7, Zenon

\* Rewinding takes the stages of the judge, or of the worker and the judge, out of it.
LEMMA RewindTyped ==
  ASSUME NEW c \in Checkpoint \cup {None}
  PROVE  /\ RewindReview(c) \in Checkpoint \cup {None}
         /\ RewindAgent(c) \in Checkpoint \cup {None}
         /\ c = None <=> RewindReview(c) = None
         /\ c = None <=> RewindAgent(c) = None
         /\ c # None => RewindReview(c).stages = c.stages \ {"judge_review", "judge"}
         /\ c # None => RewindAgent(c).stages =
                          c.stages \ {"agent", "commit", "judge_review", "judge"}
         /\ c # None => RewindReview(c).diff = c.diff /\ RewindAgent(c).diff = 0
<1>1. CASE c = None
  BY <1>1 DEF RewindReview, RewindAgent
<1>2. CASE c # None
  <2>1. RewindReview(c) \in Checkpoint
    BY <1>2 DEF RewindReview, Checkpoint, Verdicts
  <2>2. RewindAgent(c) \in Checkpoint
    <3> DEFINE c1 == [c EXCEPT !.stages = c.stages \ {"agent", "commit", "judge_review", "judge"}]
               c2 == [c1 EXCEPT !.verdict = "none"]
               c3 == [c2 EXCEPT !.result = "none"]
               c4 == [c3 EXCEPT !.diff = 0]
               c5 == [c4 EXCEPT !.retries = 0]
    <3>1. c1 \in Checkpoint
      BY <1>2, CheckpointFields, CheckpointUpdates
    <3>2. c2 \in Checkpoint
      BY <3>1 DEF Checkpoint, Verdicts
    <3>3. c3 \in Checkpoint
      BY <3>2, CheckpointUpdates DEF Results
    <3>4. c4 \in Checkpoint
      <4>1. 0 \in Works
        BY PipelineAssumption DEF Works
      <4> QED BY <3>3, <4>1, CheckpointUpdates, Zenon
    <3>5. c5 \in Checkpoint
      <4>1. 0 \in 0..MaxRetries
        BY PipelineAssumption
      <4> QED BY <3>4, <4>1 DEF Checkpoint
    <3>6. RewindAgent(c) = c5
      BY <1>2, Zenon DEF RewindAgent
    <3> QED BY <3>5, <3>6, Zenon
  <2>3. RewindReview(c).stages = c.stages \ {"judge_review", "judge"}
    BY <1>2 DEF RewindReview, Checkpoint
  <2>4. RewindAgent(c).stages = c.stages \ {"agent", "commit", "judge_review", "judge"}
    BY <1>2 DEF RewindAgent, Checkpoint
  <2>5. RewindReview(c).diff = c.diff /\ RewindAgent(c).diff = 0
    BY <1>2 DEF RewindReview, RewindAgent, Checkpoint
  <2> QED BY <1>2, <2>1, <2>2, <2>3, <2>4, <2>5, NoneAssumption
<1> QED BY <1>1, <1>2

\* The record a blueprint is saved with.
LEMMA BriefTyped ==
  ASSUME TypeOK, m.hand \in Specs, m.bp \in Specs, NEW s \in States
  PROVE  /\ Brief(s) \in BriefRec
         /\ Brief(s).state = s /\ Brief(s).contract = spec.contract
         /\ Brief(s).effective = m.hand /\ Brief(s).of = m.bp /\ Brief(s).age = 0
  BY DEF TypeOK, Brief, BriefRec

\* The record a diff is saved with.
LEMMA ReviewTyped ==
  ASSUME TypeOK, m.hand \in Specs, NEW s \in States, NEW h \in Works
  PROVE  /\ Review(s, h) \in DiffRec
         /\ Review(s, h).state = s /\ Review(s, h).age = 0
<1>1. m.diff \in Works /\ spec.contract \in Specs
  BY MemoryFields DEF TypeOK
<1> QED BY <1>1 DEF Review, DiffRec

\* A blueprint's record keeps its type and its content when it is decided or ages.
LEMMA BriefUpdates ==
  ASSUME NEW r \in BriefRec
  PROVE  /\ r.state \in States /\ r.contract \in Specs /\ r.effective \in Specs
         /\ r.of \in Specs /\ r.age \in 0..2
         /\ \A v \in States : [r EXCEPT !.state = v] \in BriefRec
         /\ \A v \in 0..2 : [r EXCEPT !.age = v] \in BriefRec
         /\ \A v : LET s == [r EXCEPT !.state = v]
                  IN  /\ s.state = v /\ s.contract = r.contract
                      /\ s.effective = r.effective /\ s.of = r.of /\ s.age = r.age
         /\ \A v : LET s == [r EXCEPT !.age = v]
                  IN  /\ s.state = r.state /\ s.contract = r.contract
                      /\ s.effective = r.effective /\ s.of = r.of /\ s.age = v
  BY DEF BriefRec

\* So does a diff's record.
LEMMA DiffUpdates ==
  ASSUME NEW r \in DiffRec
  PROVE  /\ r.state \in States /\ r.age \in 0..2
         /\ \A v \in States : [r EXCEPT !.state = v] \in DiffRec
         /\ \A v \in 0..2 : [r EXCEPT !.age = v] \in DiffRec
         /\ \A v : [r EXCEPT !.state = v].state = v /\ [r EXCEPT !.state = v].age = r.age
         /\ \A v : [r EXCEPT !.age = v].state = r.state /\ [r EXCEPT !.age = v].age = v
  BY DEF DiffRec

\* The memory between runs,
LEMMA BlankTyped == Blank \in Memory
  BY PipelineAssumption DEF Blank, Memory, Works, Results, Verdicts, NoAnswer, Answer

\* which has neither a spec nor a stage.
LEMMA BlankFields ==
  /\ Blank.override = FALSE /\ Blank.hand = 0 /\ Blank.bp = 0 /\ Blank.done = {}
  /\ Blank.seen = None /\ Blank.verdict = "none" /\ Blank.diff = 0
  BY DEF Blank

\* A start reads the checkpoint and nothing else.
LEMMA RunTyped ==
  ASSUME NEW resume \in BOOLEAN, NEW clean \in BOOLEAN, NEW override \in BOOLEAN,
         NEW c \in Checkpoint \cup {None}, TypeOK,
         Run(resume, clean, override, c)
  PROVE  /\ pc' = "load" /\ m' \in Memory
         /\ count'.edits = count.edits
         /\ count' \in [works: Works, edits: 0..MaxEdits, starts: 0..MaxStarts,
                        crashes: 0..MaxCrashes]
         /\ m'.override = override /\ m'.hand = 0
         /\ m'.done = IF resume /\ c # None THEN c.stages ELSE {}
         /\ m'.done # {} => m'.seen = c /\ c # None
         /\ m'.verdict = "none"
<1> DEFINE seen == IF resume THEN c ELSE None
           retries == IF resume /\ c # None THEN c.retries ELSE 0
           done == IF resume /\ c # None THEN c.stages ELSE {}
           r == [resume |-> resume, clean |-> clean, override |-> override, hand |-> 0,
                 done |-> done, seen |-> seen, bp |-> 0, result |-> "none", diff |-> 0,
                 verdict |-> "none", retries |-> retries, answer |-> NoAnswer]
<1>1. seen \in Checkpoint \cup {None} /\ retries \in 0..MaxRetries /\ done \in SUBSET Stages
  BY CheckpointFields, PipelineAssumption
<1>2. r \in Memory
  BY <1>1, PipelineAssumption DEF Memory, Works, Results, Verdicts, NoAnswer, Answer
<1>3. m' = r
  BY DEF Run, Blank
<1>4. done # {} => seen = c /\ c # None
  OBVIOUS
<1>5. pc' = "load" /\ count' = [count EXCEPT !.starts = @ + 1] /\ count.starts < MaxStarts
  BY DEF Run
<1>6. /\ count'.edits = count.edits
      /\ count' \in [works: Works, edits: 0..MaxEdits, starts: 0..MaxStarts,
                     crashes: 0..MaxCrashes]
  BY <1>5, PipelineAssumption DEF TypeOK
<1> QED
  BY <1>2, <1>3, <1>4, <1>5, <1>6

\* Every step keeps the types.
LEMMA TypeStep ==
  ASSUME TypeOK, Holding, [Next]_vars
  PROVE  TypeOK'
<1>m. /\ m.resume \in BOOLEAN /\ m.clean \in BOOLEAN /\ m.override \in BOOLEAN
      /\ m.hand \in 0..(MaxEdits + 1) /\ m.bp \in 0..(MaxEdits + 1)
      /\ m.seen \in Checkpoint \cup {None}
      /\ m.result \in Results /\ m.diff \in Works /\ m.verdict \in Verdicts
      /\ m.retries \in 0..MaxRetries /\ m.answer \in Answer
  BY MemoryFields DEF TypeOK
<1>s. \A s \in Stages : Marked(s) \in Checkpoint
  BY MarkedTyped DEF TypeOK
<1>d. 0..(MaxEdits + 1) = {0} \cup Specs /\ 0 \in Works
  BY PipelineAssumption DEF Specs, Works
<1> USE DEF Goto, End, Refuse, disk, ghosts, Open
<1>0. ASSUME NEW k \in Kinds, Start(k)
      PROVE  TypeOK'
  <2>1. Run(k = "resume", k = "clean", k = "override", cp)
    BY <1>0 DEF Start
  <2>2. (k = "resume") \in BOOLEAN /\ (k = "clean") \in BOOLEAN /\ (k = "override") \in BOOLEAN
    OBVIOUS
  <2> QED BY <1>0, <2>1, <2>2, RunTyped, ZenonT(60) DEF Start, TypeOK, Pcs
<1>1. CASE Revise
  <2>1. ASSUME NEW r \in BOOLEAN, NEW c \in Checkpoint \cup {None}, Run(r, FALSE, FALSE, c)
        PROVE  pc' = "load" /\ m' \in Memory
               /\ count' \in [works: Works, edits: 0..MaxEdits, starts: 0..MaxStarts,
                              crashes: 0..MaxCrashes]
    BY <2>1, RunTyped
  <2>2. (conf.loop /\ cp # None /\ Usable(RewindAgent(cp))) \in BOOLEAN
    OBVIOUS
  <2>3. RewindAgent(cp) \in Checkpoint \cup {None}
    BY RewindTyped DEF TypeOK
  <2> QED BY <1>1, <2>1, <2>2, <2>3, BriefUpdates, DiffUpdates DEF Revise, TypeOK, Pcs,
      Resumed, States, Pending
<1>2. CASE ApproveBrief
  <2>1. ASSUME NEW r \in BOOLEAN, NEW c \in Checkpoint \cup {None}, Run(r, FALSE, FALSE, c)
        PROVE  pc' = "load" /\ m' \in Memory
               /\ count' \in [works: Works, edits: 0..MaxEdits, starts: 0..MaxStarts,
                              crashes: 0..MaxCrashes]
    BY <2>1, RunTyped
  <2>2. pc' \in Pcs /\ m' \in Memory /\ count' \in [works: Works, edits: 0..MaxEdits, starts: 0..MaxStarts,
                              crashes: 0..MaxCrashes]
    BY <1>2, <2>1 DEF ApproveBrief, Resumed, TypeOK, Pcs
  <2>3. [briefRec EXCEPT !.state = "approved"] \in BriefRec
    BY <1>2, BriefUpdates DEF ApproveBrief, TypeOK, Pending, States
  <2> QED BY <1>2, <2>2, <2>3 DEF ApproveBrief, TypeOK
<1>3. CASE RejectBrief
  BY <1>3, BriefUpdates DEF RejectBrief, TypeOK, Pcs, States, Pending
<1>4. CASE ApproveDiff
  <2>1. ASSUME NEW r \in BOOLEAN, NEW c \in Checkpoint \cup {None}, Run(r, FALSE, FALSE, c)
        PROVE  pc' = "load" /\ m' \in Memory
               /\ count' \in [works: Works, edits: 0..MaxEdits, starts: 0..MaxStarts,
                              crashes: 0..MaxCrashes]
    BY <2>1, RunTyped
  <2>2. pc' \in Pcs /\ m' \in Memory /\ count' \in [works: Works, edits: 0..MaxEdits, starts: 0..MaxStarts,
                              crashes: 0..MaxCrashes]
    BY <1>4, <2>1 DEF ApproveDiff, Resumed, TypeOK, Pcs
  <2>3. [diffRec EXCEPT !.state = "approved"] \in DiffRec
    BY <1>4, DiffUpdates DEF ApproveDiff, TypeOK, Pending, States
  <2> QED BY <1>4, <2>2, <2>3 DEF ApproveDiff, TypeOK
<1>5. CASE RejectDiff
  <2>1. ASSUME NEW r \in BOOLEAN, NEW c \in Checkpoint \cup {None}, Run(r, FALSE, FALSE, c)
        PROVE  pc' = "load" /\ m' \in Memory
               /\ count' \in [works: Works, edits: 0..MaxEdits, starts: 0..MaxStarts,
                              crashes: 0..MaxCrashes]
    BY <2>1, RunTyped
  <2>2. (conf.loop /\ cp # None /\ Usable(RewindAgent(cp))) \in BOOLEAN
    OBVIOUS
  <2>3. cp' \in Checkpoint \cup {None}
    BY <1>5, RewindTyped DEF RejectDiff, TypeOK
  <2>4. pc' \in Pcs /\ m' \in Memory /\ count' \in [works: Works, edits: 0..MaxEdits, starts: 0..MaxStarts,
                              crashes: 0..MaxCrashes]
    BY <1>5, <2>1, <2>2, <2>3 DEF RejectDiff, TypeOK, Pcs
  <2> QED BY <1>5, <2>3, <2>4 DEF RejectDiff, TypeOK
<1>6. CASE Recycle
  <2>1. ASSUME NEW r \in BOOLEAN, NEW c \in Checkpoint \cup {None}, Run(r, FALSE, FALSE, c)
        PROVE  pc' = "load" /\ m' \in Memory
               /\ count' \in [works: Works, edits: 0..MaxEdits, starts: 0..MaxStarts,
                              crashes: 0..MaxCrashes]
    BY <2>1, RunTyped
  <2>2. (conf.loop /\ cp # None /\ Usable(RewindAgent(cp))) \in BOOLEAN
    OBVIOUS
  <2>3. RewindAgent(cp) \in Checkpoint \cup {None}
    BY RewindTyped DEF TypeOK
  <2> QED BY <1>6, <2>1, <2>2, <2>3, BriefUpdates, DiffUpdates, ZenonT(60)
      DEF Recycle, TypeOK, Pcs, Resumed, States, Pending
<1>7. CASE Load
  BY <1>7, MemoryUpdates, <1>d DEF Load, TypeOK, Pcs
<1>8. CASE CheckSource
  BY <1>8, BlankTyped DEF CheckSource, TypeOK, Pcs
<1>9. CASE Guard
  BY <1>9, BlankTyped DEF Guard, TypeOK, Pcs
<1>10. CASE Unpend
  BY <1>10 DEF Unpend, TypeOK, Pcs
<1>11. CASE Gate
  <2>1. [Marked("gate") EXCEPT !.session = TRUE] \in Checkpoint
    BY <1>s, CheckpointUpdates DEF Stages
  <2> QED BY <1>11, <2>1, BlankTyped DEF Gate, TypeOK, Pcs
<1>12. CASE Blueprint
  <2>1. Marked("blueprint") \in Checkpoint
    BY <1>s DEF Stages
  <2>2. [m EXCEPT !.bp = m.hand] \in Memory
    BY <1>m, MemoryUpdates DEF TypeOK
  <2>3. briefRec # None => [m EXCEPT !.bp = briefRec.of] \in Memory
    BY <1>d, MemoryUpdates, BriefUpdates DEF TypeOK
  <2>4. cp' \in Checkpoint \cup {None}
    BY <1>12, <2>1 DEF Blueprint, TypeOK
  <2>5. m' \in Memory /\ pc' \in Pcs
    BY <1>12, <2>2, <2>3, BlankTyped DEF Blueprint, TypeOK, Pcs
  <2> QED BY <1>12, <2>4, <2>5 DEF Blueprint, TypeOK
<1>13. CASE SkipApprove
  BY <1>13, BlankTyped DEF SkipApprove, TypeOK, Pcs
<1>14. CASE FollowBrief
  <2>1. \A r \in BriefRec : [r EXCEPT !.state = "rejected"] \in BriefRec /\ [r EXCEPT !.age = 0] \in BriefRec
    BY DEF BriefRec, States
  <2>2. briefRec' \in BriefRec \cup {None}
    BY <1>14, <2>1, ZenonT(60) DEF FollowBrief, TypeOK
  <2> QED BY <1>14, <2>2, BlankTyped DEF FollowBrief, TypeOK, Pcs
<1>15. CASE DecideBrief
  BY <1>15, BriefTyped, <1>m, BlankTyped DEF DecideBrief, TypeOK, States, AtApprove,
      Holding, Planned, Specified, Pcs
<1>16. CASE Approved
  BY <1>16, <1>s DEF Approved, TypeOK, Pcs, Stages
<1>17. CASE ResumeBranch
  BY <1>17, BlankTyped DEF ResumeBranch, TypeOK, Pcs
<1>18. CASE ReuseBranch
  BY <1>18, BlankTyped DEF ReuseBranch, TypeOK, Pcs
<1>19. CASE CleanBranch
  BY <1>19, <1>d DEF CleanBranch, TypeOK, Pcs
<1>20. CASE CreateBranch
  BY <1>20, BlankTyped, <1>d DEF CreateBranch, TypeOK, Pcs
<1>21. CASE Branched
  BY <1>21, <1>s DEF Branched, TypeOK, Pcs, Stages
<1>22. CASE Agent
  <2>1. m.seen # None => [m EXCEPT !.result = m.seen.result] \in Memory
    BY <1>m, MemoryUpdates, CheckpointFields DEF TypeOK
  <2>2. m.done # {} => m.seen # None
    BY  DEF Holding
  <2> QED BY <1>22, <2>1, <2>2 DEF Agent, TypeOK, Pcs
<1>23. CASE Working
  <2>1. PICK res \in {"ok", "spent", "failed"} : Work(res)
    BY <1>23 DEF Working
  <2>2. [m EXCEPT !.result = res] \in Memory
    BY MemoryUpdates DEF TypeOK, Results
  <2>3. count.works < MaxWork => count.works + 1 \in Works
    BY PipelineAssumption DEF Works, TypeOK
  <2>4. git' \in [branch: Works \cup {None}, tree: Works]
    BY <2>1, <2>3 DEF Work, TypeOK
  <2>5. count' \in [works: Works, edits: 0..MaxEdits, starts: 0..MaxStarts,
                  crashes: 0..MaxCrashes]
    BY <2>1, <2>3 DEF Work, TypeOK
  <2> QED BY <1>23, <2>1, <2>2, <2>4, <2>5 DEF Working, Work, TypeOK, Pcs
<1>24. CASE Worked
  BY <1>24, <1>s, <1>m, CheckpointUpdates DEF Worked, TypeOK, Pcs, Stages
<1>25. CASE Outcome
  BY <1>25, BlankTyped DEF Outcome, TypeOK, Pcs
<1>26. CASE Again
  <2>1. PICK res \in {"ok", "spent", "failed"} : Work(res)
    BY <1>26 DEF Again
  <2>2. [m EXCEPT !.result = res] \in Memory
    BY MemoryUpdates DEF TypeOK, Results
  <2>3. count.works < MaxWork => count.works + 1 \in Works
    BY PipelineAssumption DEF Works, TypeOK
  <2>4. git' \in [branch: Works \cup {None}, tree: Works]
    BY <2>1, <2>3 DEF Work, TypeOK
  <2>5. count' \in [works: Works, edits: 0..MaxEdits, starts: 0..MaxStarts,
                  crashes: 0..MaxCrashes]
    BY <2>1, <2>3 DEF Work, TypeOK
  <2> QED BY <1>26, <2>1, <2>2, <2>4, <2>5 DEF Again, Work, TypeOK, Pcs
<1>27. CASE ResumedWork
  BY <1>27, <1>s, <1>m, CheckpointUpdates, BlankTyped DEF ResumedWork, TypeOK, Pcs, Stages
<1>28. CASE Seal
  <2>1. \A v \in Works : [m EXCEPT !.diff = v] \in Memory
    BY MemoryUpdates DEF TypeOK
  <2>2. "commit" \in m.done => m.seen.diff \in Works
    BY <1>m, CheckpointFields DEF Holding
  <2>3. git.tree \in Works /\ [git EXCEPT !.branch = git.tree] \in [branch: Works \cup {None}, tree: Works]
    BY DEF TypeOK
  <2> QED BY <1>28, <2>1, <2>2, <2>3 DEF Seal, TypeOK, Pcs
<1>29. CASE Sealed
  BY <1>29, <1>s, <1>m, CheckpointUpdates, BlankTyped DEF Sealed, TypeOK, Pcs, Stages
<1>30. CASE SkipReview
  BY <1>30, BlankTyped DEF SkipReview, TypeOK, Pcs
<1>31. CASE FollowDiff
  <2>1. \A r \in DiffRec : [r EXCEPT !.state = "rejected"] \in DiffRec /\ [r EXCEPT !.age = 0] \in DiffRec
    BY DEF DiffRec, States
  <2>2. diffRec' \in DiffRec \cup {None}
    BY <1>31, <2>1, ZenonT(60) DEF FollowDiff, TypeOK
  <2> QED BY <1>31, <2>2, BlankTyped DEF FollowDiff, TypeOK, Pcs
<1>32. CASE DecideDiff
  BY <1>32, ReviewTyped, <1>m, <1>d, BlankTyped DEF DecideDiff, TypeOK, States, AtReview,
      Holding, Planned, Specified, Pcs
<1>33. CASE Reviewed
  BY <1>33, <1>s DEF Reviewed, TypeOK, Pcs, Stages
<1>34. CASE Judge
  <2>1. \A v \in {"APPROVE", "REVISE", "REJECT"} :
          [Marked("judge") EXCEPT !.verdict = v, !.diff = m.diff] \in Checkpoint
    BY <1>s, <1>m, CheckpointUpdates DEF Stages, Verdicts
  <2>2. ASSUME NEW v \in {"APPROVE", "REVISE", "REJECT"}
        PROVE  Answered(v) \in Memory
    <3>1. v \in Verdicts
      BY DEF Verdicts
    <3>2. [diff |-> m.diff, verdict |-> v, verified |-> FALSE] \in Answer
      BY <1>m, <3>1 DEF Answer
    <3> QED BY <3>1, <3>2, MemoryUpdates DEF TypeOK, Answered
  <2> QED BY <1>34, <2>1, <2>2, BlankTyped, ZenonT(60) DEF Judge, TypeOK, Pcs
<1>35. CASE Cutover
  <2>1. [Marked("judge") EXCEPT !.verdict = "REVISE", !.diff = m.diff] \in Checkpoint
    BY <1>s, <1>m, CheckpointUpdates DEF Stages, Verdicts
  <2>2. [m EXCEPT !.verdict = "REVISE"] \in Memory
    BY MemoryUpdates DEF TypeOK, Verdicts
  <2>3. RewindReview(cp) \in Checkpoint \cup {None}
    BY RewindTyped DEF TypeOK
  <2> QED BY <1>35, <2>1, <2>2, <2>3, BlankTyped DEF Cutover, TypeOK, Pcs
<1>36. CASE Hold
  BY <1>36, ReviewTyped, <1>m, <1>d, BlankTyped DEF Hold, TypeOK, Pcs, States, Holding
<1>37. CASE Verify
  <2>1. /\ \A v \in Verdicts : [m EXCEPT !.verdict = v] \in Memory
        /\ [m EXCEPT !.answer.verified = TRUE] \in Memory
    BY MemoryUpdates DEF TypeOK
  <2>2. m' \in Memory
    BY <1>37, <2>1 DEF Verify, Verdicts, TypeOK
  <2> QED BY <1>37, <2>2 DEF Verify, TypeOK, Pcs
<1>38. CASE Loop
  <2>1. m.retries < MaxRetries => m.retries + 1 \in 0..MaxRetries
    BY <1>m, PipelineAssumption
  <2>2. \A v \in 0..MaxRetries : [m EXCEPT !.retries = v] \in Memory
    BY MemoryUpdates DEF TypeOK
  <2>a. m \in Memory
    BY DEF TypeOK
  <2>b. (m.retries < MaxRetries /\ m' = [m EXCEPT !.retries = m.retries + 1]) \/ m' = m
    BY <1>38 DEF Loop
  <2>3. m' \in Memory
    BY ONLY <2>1, <2>2, <2>a, <2>b
  <2> QED BY <1>38, <2>3 DEF Loop, TypeOK, Pcs
<1>39. CASE Rework
  <2>1. PICK res \in {"ok", "failed"} : Work(res)
    BY <1>39 DEF Rework
  <2>2. [m EXCEPT !.result = res] \in Memory
    BY MemoryUpdates DEF TypeOK, Results
  <2>3. count.works < MaxWork => count.works + 1 \in Works
    BY PipelineAssumption DEF Works, TypeOK
  <2>4. git' \in [branch: Works \cup {None}, tree: Works]
    BY <2>1, <2>3 DEF Work, TypeOK
  <2>5. count' \in [works: Works, edits: 0..MaxEdits, starts: 0..MaxStarts,
                  crashes: 0..MaxCrashes]
    BY <2>1, <2>3 DEF Work, TypeOK
  <2> QED BY <1>39, <2>1, <2>2, <2>4, <2>5 DEF Rework, Work, TypeOK, Pcs
<1>40. CASE Reworked
  <2>1. [Marked("agent") EXCEPT !.result = m.result, !.retries = m.retries] \in Checkpoint
    BY <1>s, <1>m, CheckpointUpdates DEF Stages
  <2> QED BY <1>40, <2>1, BlankTyped DEF Reworked, TypeOK, Pcs
<1>41. CASE Reseal
  BY <1>41, <1>m, MemoryUpdates DEF Reseal, TypeOK, Pcs
<1>42. CASE Resealed
  BY <1>42, <1>s, <1>m, CheckpointUpdates, BlankTyped DEF Resealed, TypeOK, Pcs, Stages
<1>43. CASE Rereview
  BY <1>43, ReviewTyped, <1>m, <1>d, BlankTyped DEF Rereview, TypeOK, Pcs, States, Holding
<1>44. CASE Rewind
  BY <1>44, RewindTyped, BlankTyped DEF Rewind, TypeOK, Pcs
<1>45. CASE Finish
  BY <1>45, BlankTyped DEF Finish, TypeOK, Pcs
<1>46. CASE Publish
  BY <1>46, <1>m, BlankTyped DEF Publish, TypeOK, Pcs, Holding, Bound, Branching,
      Planned, Specified
<1>t. CutOff => torn' \subseteq Works
  BY DEF CutOff, TypeOK, Holding, Bound, Branching, Planned, Specified
<1>47. CASE Throw
  BY <1>47, <1>t, BlankTyped, <1>d DEF Throw, TypeOK, Pcs, CutOff
<1>48. CASE Crash
  BY <1>48, <1>t, BlankTyped, PipelineAssumption DEF Crash, TypeOK, Pcs, CutOff
<1>49. CASE Edit
  <2>1. count.edits + 1 \in 0..MaxEdits /\ count' = [count EXCEPT !.edits = @ + 1]
    BY <1>49, PipelineAssumption DEF Edit, TypeOK
  <2>2. count' \in [works: Works, edits: 0..MaxEdits, starts: 0..MaxStarts,
                  crashes: 0..MaxCrashes]
    BY <2>1 DEF TypeOK
  <2>3. spec' \in [contract: Specs, contested: BOOLEAN]
    BY <1>49 DEF Edit, TypeOK
  <2> QED BY <1>49, <2>2, <2>3 DEF Edit, TypeOK
<1>50. CASE Age
  <2>1. \A r \in BriefRec : r.age < 2 => [r EXCEPT !.age = r.age + 1] \in BriefRec
    BY DEF BriefRec
  <2>2. \A r \in DiffRec : r.age < 2 => [r EXCEPT !.age = r.age + 1] \in DiffRec
    BY DEF DiffRec
  <2> QED BY <1>50, <2>1, <2>2 DEF Age, Pending, TypeOK
<1>51. CASE UNCHANGED vars
  BY <1>51 DEF vars, TypeOK
<1> QED BY <1>0, <1>1, <1>2, <1>3, <1>4, <1>5, <1>6, <1>7, <1>8, <1>9, <1>10, <1>11,
    <1>12, <1>13, <1>14, <1>15, <1>16, <1>17, <1>18, <1>19, <1>20, <1>21, <1>22, <1>23,
    <1>24, <1>25, <1>26, <1>27, <1>28, <1>29, <1>30, <1>31, <1>32, <1>33, <1>34, <1>35,
    <1>36, <1>37, <1>38, <1>39, <1>40, <1>41, <1>42, <1>43, <1>44, <1>45, <1>46, <1>47,
    <1>48, <1>49, <1>50, <1>51 DEF Next

-----------------------------------------------------------------------------
(* What a step does, in the terms of the invariants.                       *)

\* The run restarts, from the checkpoint that is left on disk.
Restarts ==
  /\ pc' = "load" /\ m'.hand = 0 /\ m'.verdict = "none" /\ count'.edits = count.edits
  /\ m'.override => m'.done = {}
  /\ m'.done # {} => cp' # None /\ m'.done = cp'.stages /\ m'.seen = cp'
\* No run starts; the run goes on; the run ends.
Stays == pc' = pc /\ m' = m /\ count' = count
GoesTo(p) == pc' = p /\ m' = m
Ends == pc' = "idle" /\ m' = Blank
\* The run keeps the spec it loaded and what it found, and all it did so far.
KeepsSource ==
  /\ m'.hand = m.hand /\ m'.done = m.done /\ m'.seen = m.seen /\ m'.override = m.override
KeepsPlan == KeepsSource /\ m'.bp = m.bp
KeepsWork ==
  KeepsPlan /\ m'.diff = m.diff /\ m'.verdict = m.verdict /\ m'.answer = m.answer
\* A stage is added to the checkpoint, which keeps its diff or takes the one in
\* hand; or some stages are taken out.
Carried == IF cp = None THEN 0 ELSE cp.diff
Marks(s, diff) ==
  /\ cp' # None /\ cp'.stages = (IF cp = None THEN {} ELSE cp.stages) \cup {s}
  /\ cp'.diff = diff
Drops(S) ==
  /\ cp' = None <=> cp = None
  /\ cp # None => cp'.stages = cp.stages \ S /\ cp'.diff \in {0, cp.diff}
\* The blueprint's record keeps its content, or is written for the spec in hand.
KeepsBrief ==
  /\ briefRec # None => briefRec' # None
  /\ briefRec # None => /\ briefRec'.contract = briefRec.contract
                        /\ briefRec'.effective = briefRec.effective
                        /\ briefRec'.of = briefRec.of
WritesBrief ==
  /\ briefRec' # None /\ briefRec'.contract = spec.contract
  /\ briefRec'.effective = m.hand /\ briefRec'.of = m.bp

\* A start restarts the run.
LEMMA StartEffect ==
  ASSUME TypeOK, NEW k \in Kinds, Start(k)
  PROVE  /\ pc = "idle" /\ Restarts
         /\ UNCHANGED <<conf, spec, disk, ghosts>>
<1> USE DEF Goto, End, Refuse, disk, ghosts, Open
<1>1. Run(k = "resume", k = "clean", k = "override", cp)
  BY DEF Start
<1>2. (k = "resume") \in BOOLEAN /\ (k = "clean") \in BOOLEAN /\ (k = "override") \in BOOLEAN
  OBVIOUS
<1> QED BY <1>1, <1>2, RunTyped DEF Start, Restarts, TypeOK

\* A revision takes the worker's stages out of the checkpoint.
LEMMA ReviseEffect ==
  ASSUME TypeOK, Revise
  PROVE  /\ pc = "idle" /\ Restarts
         /\ ~m'.override
         /\ cp' = cp \/ Drops({"agent", "commit", "judge_review", "judge"})
         /\ UNCHANGED <<conf, spec, briefRec, git, ghosts>>
<1> USE DEF Goto, End, Refuse, disk, ghosts, Open
<1>1. cp' = cp \/ cp' = RewindAgent(cp)
  BY DEF Revise
<1>2. cp' \in Checkpoint \cup {None} /\ (cp' = cp \/ Drops({"agent", "commit", "judge_review", "judge"}))
  BY <1>1, RewindTyped DEF TypeOK, Drops
<1>3. \A b \in BOOLEAN : Run(b, FALSE, FALSE, cp') => Restarts /\ ~m'.override
  BY <1>2, RunTyped DEF Restarts
<1> QED BY <1>2, <1>3 DEF Revise

\* An approval keeps the content of the brief's record; the start that follows may be refused.
LEMMA ApproveBriefEffect ==
  ASSUME TypeOK, ApproveBrief
  PROVE  /\ pc = "idle" /\ (Stays \/ Restarts)
         /\ KeepsBrief
         /\ briefRec # None /\ briefRec' # None /\ briefRec'.state = "approved"
         /\ UNCHANGED <<conf, spec, diffRec, cp, git, ghosts>>
<1> USE DEF Goto, End, Refuse, disk, ghosts, Open
<1>1. cp' = cp /\ cp \in Checkpoint \cup {None}
  BY DEF ApproveBrief, TypeOK
<1>2. Run(TRUE, FALSE, FALSE, cp) => Restarts
  BY <1>1, RunTyped DEF Restarts
<1>3. KeepsBrief /\ briefRec' # None /\ briefRec'.state = "approved"
  <2>1. briefRec \in BriefRec
    BY DEF ApproveBrief, AtApprove, Pending, TypeOK
  <2>2. briefRec' \in BriefRec
    BY <2>1, BriefUpdates DEF ApproveBrief, AtApprove, States
  <2>3. (/\ briefRec'.contract = briefRec.contract /\ briefRec'.effective = briefRec.effective
           /\ briefRec'.of = briefRec.of)
    BY <2>1 DEF ApproveBrief, AtApprove, BriefRec
  <2>4. briefRec'.state = "approved"
    BY <2>1 DEF ApproveBrief, BriefRec
  <2> QED BY <2>1, <2>2, <2>3, <2>4, NoneAssumption DEF KeepsBrief
<1> QED BY <1>2, <1>3 DEF ApproveBrief, Stays, Resumed, Pending

\* A rejection keeps it too, and only a pending record is rejected.
LEMMA RejectBriefEffect ==
  ASSUME TypeOK, RejectBrief
  PROVE  /\ pc = "idle" /\ Stays
         /\ KeepsBrief
         /\ briefRec # None /\ briefRec.state = "pending"
         /\ ~Pending(briefRec')
         /\ UNCHANGED <<conf, spec, diffRec, cp, git, ghosts>>
<1> USE DEF Goto, End, Refuse, disk, ghosts, Open
<1>1. KeepsBrief /\ briefRec' # None /\ briefRec'.state = "rejected"
  <2>1. briefRec \in BriefRec
    BY DEF RejectBrief, AtApprove, Pending, TypeOK
  <2>2. briefRec' \in BriefRec
    BY <2>1, BriefUpdates DEF RejectBrief, AtApprove, States
  <2>3. (/\ briefRec'.contract = briefRec.contract /\ briefRec'.effective = briefRec.effective
           /\ briefRec'.of = briefRec.of)
    BY <2>1 DEF RejectBrief, AtApprove, BriefRec
  <2>4. briefRec'.state = "rejected"
    BY <2>1 DEF RejectBrief, BriefRec
  <2> QED BY <2>1, <2>2, <2>3, <2>4, NoneAssumption DEF KeepsBrief
<1> QED BY <1>1 DEF RejectBrief, Stays, Pending

\* The approval of a diff does not touch the brief.
LEMMA ApproveDiffEffect ==
  ASSUME TypeOK, ApproveDiff
  PROVE  /\ pc = "idle" /\ (Stays \/ Restarts)
         /\ UNCHANGED <<conf, spec, briefRec, cp, git, ghosts>>
<1> USE DEF Goto, End, Refuse, disk, ghosts, Open
<1>1. cp' = cp /\ cp \in Checkpoint \cup {None}
  BY DEF ApproveDiff, TypeOK
<1>2. Run(TRUE, FALSE, FALSE, cp) => Restarts
  BY <1>1, RunTyped DEF Restarts
<1> QED BY <1>2 DEF ApproveDiff, Stays, Resumed

\* Its rejection takes the worker's stages out of the checkpoint.
LEMMA RejectDiffEffect ==
  ASSUME TypeOK, RejectDiff
  PROVE  /\ pc = "idle" /\ (Stays \/ Restarts)
         /\ cp' = cp \/ Drops({"agent", "commit", "judge_review", "judge"})
         /\ UNCHANGED <<conf, spec, briefRec, git, ghosts>>
<1> USE DEF Goto, End, Refuse, disk, ghosts, Open
<1>1. cp' = cp \/ cp' = RewindAgent(cp)
  BY DEF RejectDiff
<1>2. cp' \in Checkpoint \cup {None} /\ (cp' = cp \/ Drops({"agent", "commit", "judge_review", "judge"}))
  BY <1>1, RewindTyped DEF TypeOK, Drops
<1>3. \A b \in BOOLEAN : Run(b, FALSE, FALSE, cp') => Restarts /\ ~m'.override
  BY <1>2, RunTyped DEF Restarts
<1> QED BY <1>2, <1>3 DEF RejectDiff, Stays

\* A recycled task has no checkpoint.
LEMMA RecycleEffect ==
  ASSUME TypeOK, Recycle
  PROVE  /\ pc = "idle" /\ (Stays \/ Restarts)
         /\ cp' = None
         /\ UNCHANGED <<conf, spec, briefRec, git, ghosts>>
<1> USE DEF Goto, End, Refuse, disk, ghosts, Open
<1>1. Run(FALSE, FALSE, FALSE, None) => Restarts
  BY RunTyped DEF Restarts
<1> QED BY <1>1 DEF Recycle, Stays

\* A run loads the authoritative spec.
LEMMA LoadEffect ==
  ASSUME TypeOK, Load
  PROVE  /\ pc = "load" /\ pc' = "check"
         /\ m'.hand = spec.contract /\ m'.bp = m.bp /\ m'.done = m.done /\ m'.seen = m.seen /\ m'.override = m.override
         /\ UNCHANGED <<conf, spec, disk, ghosts, count>>
  BY DEF Load, TypeOK, Memory, Goto, End, Refuse, disk, ghosts, Open

\* The gate passes, now or before, or the run ends.
LEMMA GateEffect ==
  ASSUME TypeOK, Gate
  PROVE  /\ pc = "gate"
         /\ (Ends /\ UNCHANGED cp) \/ (GoesTo("blueprint") /\ (UNCHANGED cp \/ Marks("gate", Carried)))
         /\ UNCHANGED <<conf, spec, briefRec, diffRec, git, ghosts, count>>
<1> USE DEF Goto, End, Refuse, disk, ghosts, Open
<1>1. /\ Marked("gate") \in Checkpoint /\ Marked("gate").diff = Carried
      /\ Marked("gate").stages = (IF cp = None THEN {} ELSE cp.stages) \cup {"gate"}
  BY MarkedTyped DEF TypeOK, Stages, Carried
<1>2. /\ [Marked("gate") EXCEPT !.session = TRUE] \in Checkpoint
      /\ [Marked("gate") EXCEPT !.session = TRUE].stages = Marked("gate").stages
      /\ [Marked("gate") EXCEPT !.session = TRUE].diff = Carried
  BY <1>1, CheckpointUpdates, CheckpointStages, MemoryFields DEF TypeOK
<1> QED BY <1>1, <1>2, NoneAssumption DEF Gate, Ends, GoesTo, Marks

\* The blueprint of a run is the record's, if it may be consumed, or of the spec in hand.
LEMMA BlueprintEffect ==
  ASSUME TypeOK, Blueprint
  PROVE  /\ pc = "blueprint"
         /\ \/ Ends /\ UNCHANGED cp
            \/ /\ pc' = "approve" /\ KeepsSource /\ UNCHANGED cp
               /\ "blueprint" \in m.done /\ briefRec # None /\ MayConsume(briefRec) /\ m'.bp = briefRec.of
            \/ /\ pc' = "approve" /\ KeepsSource /\ m'.bp = m.hand
               /\ "blueprint" \notin m.done \/ briefRec = None
               /\ ("blueprint" \in m.done /\ UNCHANGED cp) \/ ("blueprint" \notin m.done /\ Marks("blueprint", Carried))
         /\ UNCHANGED <<conf, spec, briefRec, diffRec, git, ghosts, count>>
<1> USE DEF Goto, End, Refuse, disk, ghosts, Open
<1>1. /\ Marked("blueprint") \in Checkpoint /\ Marked("blueprint").diff = Carried
      /\ Marked("blueprint").stages = (IF cp = None THEN {} ELSE cp.stages) \cup {"blueprint"}
  BY MarkedTyped DEF TypeOK, Stages, Carried
<1>2. m' = [m EXCEPT !.bp = briefRec.of] => KeepsSource /\ m'.bp = briefRec.of
  BY DEF TypeOK, Memory, KeepsSource
<1>3. m' = [m EXCEPT !.bp = m.hand] => KeepsSource /\ m'.bp = m.hand
  BY DEF TypeOK, Memory, KeepsSource
<1>4. cp' = Marked("blueprint") => Marks("blueprint", Carried)
  BY <1>1, NoneAssumption DEF Marks
<1>5. UNCHANGED <<conf, spec, briefRec, diffRec, git, ghosts, count>>
  BY DEF Blueprint
<1> QED BY <1>2, <1>3, <1>4, <1>5, Zenon DEF Blueprint, Ends

\* A brief's record is followed: decided against or refreshed, or approved and consumed.
LEMMA FollowBriefEffect ==
  ASSUME TypeOK, FollowBrief
  PROVE  /\ pc = "approve" /\ BriefGate /\ "approve" \notin m.done /\ briefRec # None
         /\ KeepsBrief
         /\ \/ Ends /\ (briefRec' = briefRec \/ briefRec.state = "pending")
            \/ GoesTo("approved") /\ briefRec' = briefRec /\ briefRec.state \in Approvals /\ MayConsume(briefRec)
         /\ UNCHANGED <<conf, spec, diffRec, cp, git, ghosts, count>>
<1> USE DEF Goto, End, Refuse, disk, ghosts, Open
<1>1. KeepsBrief
  <2>1. briefRec \in BriefRec
    BY DEF FollowBrief, TypeOK
  <2>2. \A r \in BriefRec : [r EXCEPT !.state = "rejected"] \in BriefRec /\ [r EXCEPT !.age = 0] \in BriefRec
    BY DEF BriefRec, States
  <2>3. briefRec' \in BriefRec
    BY <2>1, <2>2 DEF FollowBrief
  <2>4. /\ briefRec'.contract = briefRec.contract /\ briefRec'.effective = briefRec.effective
        /\ briefRec'.of = briefRec.of
    BY <2>1 DEF FollowBrief, BriefRec
  <2> QED BY <2>3, <2>4, NoneAssumption DEF KeepsBrief
<1>2. UNCHANGED <<conf, spec, diffRec, cp, git, ghosts, count>>
  BY DEF FollowBrief
<1> QED BY <1>1, <1>2, Zenon DEF FollowBrief, AtApprove, Ends, GoesTo, TimedOut, Pending

\* Without a decision the brief is approved or pended for the spec in hand.
LEMMA DecideBriefEffect ==
  ASSUME TypeOK, Holding, DecideBrief
  PROVE  /\ pc = "approve" /\ BriefGate /\ "approve" \notin m.done
         /\ \/ Ends /\ briefRec' = briefRec
            \/ /\ GoesTo("approved") /\ briefRec' = briefRec /\ ~conf.loop
               /\ briefRec # None => briefRec.state # "rejected"
            \/ GoesTo("approved") /\ WritesBrief /\ briefRec'.state = "auto-approved"
            \/ Ends /\ WritesBrief /\ Undecided
         /\ UNCHANGED <<conf, spec, diffRec, cp, git, ghosts, count>>
<1> USE DEF Goto, End, Refuse, disk, ghosts, Open
<1>1. m.hand \in Specs /\ m.bp \in Specs
  BY DEF DecideBrief, AtApprove, Holding, Planned, Specified
<1>2. \A s \in States : /\ Brief(s) # None /\ Brief(s).state = s
                      /\ Brief(s).contract = spec.contract /\ Brief(s).effective = m.hand
                      /\ Brief(s).of = m.bp
  <2>1. \A s \in States : Brief(s) \in BriefRec
    BY <1>1, BriefTyped
  <2> QED BY <1>1, <2>1, BriefTyped, NoneAssumption
<1>3. briefRec' = Brief("auto-approved") => WritesBrief /\ briefRec'.state = "auto-approved"
  BY <1>2 DEF WritesBrief, States
<1>4. briefRec' = Brief("pending") => WritesBrief
  BY <1>2 DEF WritesBrief, States
<1>5. UNCHANGED <<conf, spec, diffRec, cp, git, ghosts, count>>
  BY DEF DecideBrief
<1> QED BY <1>3, <1>4, <1>5, Zenon DEF DecideBrief, AtApprove, Ends, GoesTo

\* The approval is checkpointed.
LEMMA ApprovedEffect ==
  ASSUME TypeOK, Approved
  PROVE  /\ pc = "approved"
         /\ GoesTo("branch") /\ Marks("approve", Carried)
         /\ UNCHANGED <<conf, spec, briefRec, diffRec, git, ghosts, count>>
<1> USE DEF Goto, End, Refuse, disk, ghosts, Open
<1>1. /\ Marked("approve") \in Checkpoint /\ Marked("approve").diff = Carried
      /\ Marked("approve").stages = (IF cp = None THEN {} ELSE cp.stages) \cup {"approve"}
  BY MarkedTyped DEF TypeOK, Stages, Carried
<1> QED BY <1>1, NoneAssumption DEF Approved, Ends, GoesTo, Marks

\* So is the branch,
LEMMA BranchedEffect ==
  ASSUME TypeOK, Branched
  PROVE  /\ pc = "branched"
         /\ GoesTo("agent") /\ Marks("branch", Carried)
         /\ UNCHANGED <<conf, spec, briefRec, diffRec, git, ghosts, count>>
<1> USE DEF Goto, End, Refuse, disk, ghosts, Open
<1>1. /\ Marked("branch") \in Checkpoint /\ Marked("branch").diff = Carried
      /\ Marked("branch").stages = (IF cp = None THEN {} ELSE cp.stages) \cup {"branch"}
  BY MarkedTyped DEF TypeOK, Stages, Carried
<1> QED BY <1>1, NoneAssumption DEF Branched, Ends, GoesTo, Marks

\* A completed worker is not run again.
LEMMA AgentEffect ==
  ASSUME TypeOK, Agent
  PROVE  /\ pc = "agent" /\ pc' \in {"outcome", "working"} /\ KeepsWork
         /\ UNCHANGED <<conf, spec, disk, ghosts, count>>
<1> USE DEF Goto, End, Refuse, disk, ghosts, Open
<1>1. \A v : m' = [m EXCEPT !.result = v] => KeepsWork
  BY DEF TypeOK, Memory, KeepsWork, KeepsPlan, KeepsSource
<1> QED BY <1>1 DEF Agent, KeepsWork, KeepsPlan, KeepsSource

\* A worker changes the tree, not the branch,
LEMMA WorkingEffect ==
  ASSUME TypeOK, Working
  PROVE  /\ pc = "working" /\ pc' = "worked" /\ KeepsWork
         /\ git'.branch = git.branch /\ count'.edits = count.edits
         /\ UNCHANGED <<conf, spec, briefRec, diffRec, cp, ghosts>>
<1> USE DEF Goto, End, Refuse, disk, ghosts, Open
<1>1. \A v : m' = [m EXCEPT !.result = v] => KeepsWork
  BY DEF TypeOK, Memory, KeepsWork, KeepsPlan, KeepsSource
<1>2. git'.branch = git.branch /\ count'.edits = count.edits
  BY DEF Working, Work, TypeOK
<1> QED BY <1>1, <1>2 DEF Working, Work

\* the worker,
LEMMA WorkedEffect ==
  ASSUME TypeOK, Worked
  PROVE  /\ pc = "worked"
         /\ GoesTo("outcome") /\ Marks("agent", Carried)
         /\ UNCHANGED <<conf, spec, briefRec, diffRec, git, ghosts, count>>
<1> USE DEF Goto, End, Refuse, disk, ghosts, Open
<1>1. /\ Marked("agent") \in Checkpoint /\ Marked("agent").diff = Carried
      /\ Marked("agent").stages = (IF cp = None THEN {} ELSE cp.stages) \cup {"agent"}
  BY MarkedTyped DEF TypeOK, Stages, Carried
<1>2. /\ [Marked("agent") EXCEPT !.result = m.result] \in Checkpoint
      /\ [Marked("agent") EXCEPT !.result = m.result].stages = Marked("agent").stages
      /\ [Marked("agent") EXCEPT !.result = m.result].diff = Carried
  BY <1>1, CheckpointUpdates, CheckpointStages, MemoryFields DEF TypeOK
<1> QED BY <1>1, <1>2, NoneAssumption DEF Worked, Ends, GoesTo, Marks

\* resumed too,
LEMMA AgainEffect ==
  ASSUME TypeOK, Again
  PROVE  /\ pc = "again" /\ pc' = "resumed" /\ KeepsWork
         /\ git'.branch = git.branch /\ count'.edits = count.edits
         /\ UNCHANGED <<conf, spec, briefRec, diffRec, cp, ghosts>>
<1> USE DEF Goto, End, Refuse, disk, ghosts, Open
<1>1. \A v : m' = [m EXCEPT !.result = v] => KeepsWork
  BY DEF TypeOK, Memory, KeepsWork, KeepsPlan, KeepsSource
<1>2. git'.branch = git.branch /\ count'.edits = count.edits
  BY DEF Again, Work, TypeOK
<1> QED BY <1>1, <1>2 DEF Again, Work

\* the resumed worker,
LEMMA ResumedWorkEffect ==
  ASSUME TypeOK, ResumedWork
  PROVE  /\ pc = "resumed"
         /\ (Ends \/ GoesTo("seal")) /\ Marks("agent", Carried)
         /\ UNCHANGED <<conf, spec, briefRec, diffRec, git, ghosts, count>>
<1> USE DEF Goto, End, Refuse, disk, ghosts, Open
<1>1. /\ Marked("agent") \in Checkpoint /\ Marked("agent").diff = Carried
      /\ Marked("agent").stages = (IF cp = None THEN {} ELSE cp.stages) \cup {"agent"}
  BY MarkedTyped DEF TypeOK, Stages, Carried
<1>2. /\ [Marked("agent") EXCEPT !.result = m.result] \in Checkpoint
      /\ [Marked("agent") EXCEPT !.result = m.result].stages = Marked("agent").stages
      /\ [Marked("agent") EXCEPT !.result = m.result].diff = Carried
  BY <1>1, CheckpointUpdates, CheckpointStages, MemoryFields DEF TypeOK
<1> QED BY <1>1, <1>2, NoneAssumption DEF ResumedWork, Ends, GoesTo, Marks

\* Sealing never leaves a task without its branch,
LEMMA SealEffect ==
  ASSUME TypeOK, Seal
  PROVE  /\ pc = "seal" /\ KeepsPlan
         /\ \/ /\ pc' = "review" /\ git' = git /\ m'.diff = m.seen.diff
               /\ "commit" \in m.done /\ m.seen.diff # 0
            \/ pc' = "sealed" /\ git'.branch = m'.diff
         /\ git.branch # None => git'.branch # None
         /\ UNCHANGED <<conf, spec, briefRec, diffRec, cp, ghosts, count>>
<1> USE DEF Goto, End, Refuse, disk, ghosts, Open
<1>1. \A v : m' = [m EXCEPT !.diff = v] => KeepsPlan /\ m'.diff = v
  BY DEF TypeOK, Memory, KeepsPlan, KeepsSource
<1>2. git.branch # None => git'.branch # None
  BY NoneAssumption DEF Seal, TypeOK
<1>3. git' = [git EXCEPT !.branch = git.tree] => git'.branch = git.tree
  BY DEF TypeOK
<1> QED BY <1>1, <1>2, <1>3 DEF Seal

\* the seal,
LEMMA SealedEffect ==
  ASSUME TypeOK, Sealed
  PROVE  /\ pc = "sealed"
         /\ (Ends \/ GoesTo("review")) /\ Marks("commit", m.diff)
         /\ UNCHANGED <<conf, spec, briefRec, diffRec, git, ghosts, count>>
<1> USE DEF Goto, End, Refuse, disk, ghosts, Open
<1>1. /\ Marked("commit") \in Checkpoint /\ Marked("commit").diff = Carried
      /\ Marked("commit").stages = (IF cp = None THEN {} ELSE cp.stages) \cup {"commit"}
  BY MarkedTyped DEF TypeOK, Stages, Carried
<1>2. /\ [Marked("commit") EXCEPT !.diff = m.diff] \in Checkpoint
      /\ [Marked("commit") EXCEPT !.diff = m.diff].stages = Marked("commit").stages
      /\ [Marked("commit") EXCEPT !.diff = m.diff].diff = m.diff
  BY <1>1, CheckpointUpdates, CheckpointStages, MemoryFields DEF TypeOK
<1> QED BY <1>1, <1>2, NoneAssumption DEF Sealed, Ends, GoesTo, Marks

\* A diff's record that lets the run go on is decided.
LEMMA FollowDiffEffect ==
  ASSUME TypeOK, FollowDiff
  PROVE  /\ pc = "review"
         /\ Ends \/ (GoesTo("reviewed") /\ diffRec' = diffRec)
         /\ UNCHANGED <<conf, spec, briefRec, cp, git, ghosts, count>>
<1> USE DEF Goto, End, Refuse, disk, ghosts, Open
<1>1. UNCHANGED <<conf, spec, briefRec, cp, git, ghosts, count>>
  BY DEF FollowDiff
<1> QED BY <1>1, Zenon DEF FollowDiff, AtReview, Ends, GoesTo

\* Without a decision the diff is approved, or pended as the run's last act.
LEMMA DecideDiffEffect ==
  ASSUME TypeOK, Holding, DecideDiff
  PROVE  /\ pc = "review"
         /\ Ends \/ (GoesTo("reviewed") /\ (diffRec' = diffRec \/ ~Live(diffRec')))
         /\ UNCHANGED <<conf, spec, briefRec, cp, git, ghosts, count>>
<1> USE DEF Goto, End, Refuse, disk, ghosts, Open
<1>1. m.hand \in Specs /\ 0 \in Works
  BY PipelineAssumption DEF DecideDiff, AtReview, Holding, Planned, Specified, Works
<1>2. ~Live(Review("auto-approved", 0))
  <2>1. "auto-approved" \in States
    BY DEF States
  <2>2. Review("auto-approved", 0).state = "auto-approved"
    BY <1>1, <2>1, ReviewTyped
  <2> QED BY <2>2 DEF Live, Pending
<1>3. diffRec' = Review("auto-approved", 0) => ~Live(diffRec')
  BY <1>2 DEF Live, Pending
<1>4. UNCHANGED <<conf, spec, briefRec, cp, git, ghosts, count>>
  BY DEF DecideDiff
<1> QED BY <1>3, <1>4, Zenon DEF DecideDiff, AtReview, Ends, GoesTo

\* the review,
LEMMA ReviewedEffect ==
  ASSUME TypeOK, Reviewed
  PROVE  /\ pc = "reviewed"
         /\ GoesTo("judge") /\ Marks("judge_review", Carried)
         /\ UNCHANGED <<conf, spec, briefRec, diffRec, git, ghosts, count>>
<1> USE DEF Goto, End, Refuse, disk, ghosts, Open
<1>1. /\ Marked("judge_review") \in Checkpoint /\ Marked("judge_review").diff = Carried
      /\ Marked("judge_review").stages = (IF cp = None THEN {} ELSE cp.stages) \cup {"judge_review"}
  BY MarkedTyped DEF TypeOK, Stages, Carried
<1> QED BY <1>1, NoneAssumption DEF Reviewed, Ends, GoesTo, Marks

\* the verdict,
LEMMA JudgeEffect ==
  ASSUME TypeOK, Judge
  PROVE  /\ pc = "judge"
         /\ Marks("judge", m.diff)
         /\ \/ Ends
            \/ /\ pc' = "cutover" /\ KeepsPlan /\ m'.diff = m.diff
               /\ m'.verdict = "APPROVE" => m'.answer = Approval(FALSE)'
         /\ UNCHANGED <<conf, spec, briefRec, diffRec, git, ghosts, count>>
<1> USE DEF Goto, End, Refuse, disk, ghosts, Open
<1>1. /\ Marked("judge") \in Checkpoint /\ Marked("judge").diff = Carried
      /\ Marked("judge").stages = (IF cp = None THEN {} ELSE cp.stages) \cup {"judge"}
  BY MarkedTyped DEF TypeOK, Stages, Carried
<1>2. PICK v \in {"APPROVE", "REVISE", "REJECT"} :
        /\ cp' = [Marked("judge") EXCEPT !.verdict = v, !.diff = m.diff]
        /\ (m' = Answered(v) /\ pc' = "cutover") \/ Ends
  BY DEF Judge, Ends
<1>3. m' = Answered(v) => /\ KeepsPlan /\ m'.diff = m.diff
                          /\ m'.verdict = "APPROVE" => m'.answer = Approval(FALSE)'
  BY DEF TypeOK, Memory, KeepsPlan, KeepsSource, Answered, Approval
<1>4. Marks("judge", m.diff)
  <2>1. m.diff \in Works /\ v \in Verdicts
    BY MemoryFields DEF TypeOK, Verdicts
  <2>2. [Marked("judge") EXCEPT !.verdict = v, !.diff = m.diff] \in Checkpoint
    BY <1>1, <2>1, CheckpointUpdates, Zenon
  <2>3. /\ [Marked("judge") EXCEPT !.verdict = v, !.diff = m.diff].stages = Marked("judge").stages
        /\ [Marked("judge") EXCEPT !.verdict = v, !.diff = m.diff].diff = m.diff
    BY <1>1 DEF Checkpoint
  <2>4. [Marked("judge") EXCEPT !.verdict = v, !.diff = m.diff] # None
    BY <2>2, NoneAssumption
  <2> QED BY <1>1, <1>2, <2>3, <2>4, Zenon DEF Marks
<1>5. UNCHANGED <<conf, spec, briefRec, diffRec, git, ghosts, count>>
  BY DEF Judge
<1> QED BY <1>2, <1>3, <1>4, <1>5, Zenon DEF Judge

\* and what the intent judgment makes of it.
LEMMA CutoverEffect ==
  ASSUME TypeOK, Cutover
  PROVE  /\ pc = "cutover"
         /\ \/ Ends /\ UNCHANGED cp
            \/ GoesTo("verify") /\ UNCHANGED cp
            \/ GoesTo("hold") /\ Drops({"judge_review", "judge"})
            \/ /\ pc' = "verify" /\ KeepsPlan /\ Marks("judge", m.diff)
               /\ m'.diff = m.diff /\ m'.verdict = "REVISE"
         /\ UNCHANGED <<conf, spec, briefRec, diffRec, git, ghosts, count>>
<1> USE DEF Goto, End, Refuse, disk, ghosts, Open
<1>1. /\ Marked("judge") \in Checkpoint /\ Marked("judge").diff = Carried
      /\ Marked("judge").stages = (IF cp = None THEN {} ELSE cp.stages) \cup {"judge"}
  BY MarkedTyped DEF TypeOK, Stages, Carried
<1>2. m' = [m EXCEPT !.verdict = "REVISE"] =>
        KeepsPlan /\ m'.diff = m.diff /\ m'.verdict = "REVISE"
  BY DEF TypeOK, Memory, KeepsPlan, KeepsSource
<1>3. cp' = [Marked("judge") EXCEPT !.verdict = "REVISE", !.diff = m.diff] => Marks("judge", m.diff)
  <2>1. m.diff \in Works /\ "REVISE" \in Verdicts
    BY MemoryFields DEF TypeOK, Verdicts
  <2>2. [Marked("judge") EXCEPT !.verdict = "REVISE", !.diff = m.diff] \in Checkpoint
    BY <1>1, <2>1, CheckpointUpdates, Zenon
  <2>3. /\ [Marked("judge") EXCEPT !.verdict = "REVISE", !.diff = m.diff].stages = Marked("judge").stages
        /\ [Marked("judge") EXCEPT !.verdict = "REVISE", !.diff = m.diff].diff = m.diff
    BY <1>1 DEF Checkpoint
  <2>4. [Marked("judge") EXCEPT !.verdict = "REVISE", !.diff = m.diff] # None
    BY <2>2, NoneAssumption
  <2> QED BY <1>1, <2>3, <2>4, Zenon DEF Marks
<1>4. cp' = RewindReview(cp) => Drops({"judge_review", "judge"})
  <2>1. cp \in Checkpoint \cup {None}
    BY DEF TypeOK
  <2> QED BY <2>1, RewindTyped DEF Drops
<1>5. UNCHANGED <<conf, spec, briefRec, diffRec, git, ghosts, count>>
  BY DEF Cutover
<1> QED BY <1>2, <1>3, <1>4, <1>5, Zenon DEF Cutover, Ends, GoesTo

\* A held diff ends the run.
LEMMA HoldEffect ==
  ASSUME TypeOK, Holding, Hold
  PROVE  /\ pc = "hold"
         /\ Ends
         /\ UNCHANGED <<conf, spec, briefRec, cp, git, ghosts, count>>
  BY DEF Hold, AtReview, Ends, GoesTo, Goto, End, Refuse, disk, ghosts, Open

\* An approval survives verification only as a verified answer.
LEMMA VerifyEffect ==
  ASSUME TypeOK, Verify
  PROVE  /\ pc = "verify" /\ pc' = "loop" /\ KeepsPlan /\ m'.diff = m.diff
         /\ m'.verdict = "APPROVE" => m.verdict = "APPROVE"
         /\ m'.verdict = "APPROVE" /\ m.answer = Approval(FALSE) => m'.answer = Approval(TRUE)'
         /\ UNCHANGED <<conf, spec, disk, ghosts, count>>
<1> USE DEF Goto, End, Refuse, disk, ghosts, Open
<1>1. \A v : m' = [m EXCEPT !.verdict = v] => KeepsPlan /\ m'.diff = m.diff /\ m'.verdict = v
  BY DEF TypeOK, Memory, KeepsPlan, KeepsSource
<1>2. m' = [m EXCEPT !.answer.verified = TRUE] =>
        /\ KeepsPlan /\ m'.diff = m.diff /\ m'.verdict = m.verdict
        /\ m'.answer = [m.answer EXCEPT !.verified = TRUE]
  BY DEF TypeOK, Memory, KeepsPlan, KeepsSource
<1>3. ASSUME m.answer = Approval(FALSE)
      PROVE  [m.answer EXCEPT !.verified = TRUE] = Approval(TRUE)
  <2>1. ASSUME NEW f, NEW t
        PROVE  [[diff |-> m.diff, verdict |-> "APPROVE", verified |-> f] EXCEPT !.verified = t]
                 = [diff |-> m.diff, verdict |-> "APPROVE", verified |-> t]
    BY SMT
  <2> QED BY <1>3, <2>1, Zenon DEF Approval
<1>4. CASE m' = [m EXCEPT !.answer.verified = TRUE]
  BY <1>2, <1>3, <1>4 DEF Verify, Approval
<1>5. CASE m' = m /\ m.verdict # "APPROVE"
  BY <1>5 DEF Verify, KeepsPlan, KeepsSource
<1>6. CASE m.verdict = "APPROVE" /\ \E v \in {"REVISE", "REJECT"} : m' = [m EXCEPT !.verdict = v]
  BY <1>1, <1>6 DEF Verify
<1> QED BY <1>4, <1>5, <1>6 DEF Verify

\* A retry changes nothing but the number of retries.
LEMMA LoopEffect ==
  ASSUME TypeOK, Loop
  PROVE  /\ pc = "loop" /\ pc' \in {"rework", "finish"} /\ KeepsWork
         /\ UNCHANGED <<conf, spec, disk, ghosts, count>>
<1> USE DEF Goto, End, Refuse, disk, ghosts, Open
<1>1. \A v : m' = [m EXCEPT !.retries = v] => KeepsWork
  BY DEF TypeOK, Memory, KeepsWork, KeepsPlan, KeepsSource
<1> QED BY <1>1 DEF Loop, KeepsWork, KeepsPlan, KeepsSource

\* and so does a retry.
LEMMA ReworkEffect ==
  ASSUME TypeOK, Rework
  PROVE  /\ pc = "rework" /\ pc' = "reworked" /\ KeepsWork
         /\ git'.branch = git.branch /\ count'.edits = count.edits
         /\ UNCHANGED <<conf, spec, briefRec, diffRec, cp, ghosts>>
<1> USE DEF Goto, End, Refuse, disk, ghosts, Open
<1>1. \A v : m' = [m EXCEPT !.result = v] => KeepsWork
  BY DEF TypeOK, Memory, KeepsWork, KeepsPlan, KeepsSource
<1>2. git'.branch = git.branch /\ count'.edits = count.edits
  BY DEF Rework, Work, TypeOK
<1> QED BY <1>1, <1>2 DEF Rework, Work

\* A retry is checkpointed when its worker succeeded.
LEMMA ReworkedEffect ==
  ASSUME TypeOK, Reworked
  PROVE  /\ pc = "reworked"
         /\ (Ends /\ UNCHANGED cp) \/ (GoesTo("reseal") /\ Marks("agent", Carried))
         /\ UNCHANGED <<conf, spec, briefRec, diffRec, git, ghosts, count>>
<1> USE DEF Goto, End, Refuse, disk, ghosts, Open
<1>1. /\ Marked("agent") \in Checkpoint /\ Marked("agent").diff = Carried
      /\ Marked("agent").stages = (IF cp = None THEN {} ELSE cp.stages) \cup {"agent"}
  BY MarkedTyped DEF TypeOK, Stages, Carried
<1>2. /\ [Marked("agent") EXCEPT !.result = m.result, !.retries = m.retries] \in Checkpoint
      /\ [Marked("agent") EXCEPT !.result = m.result, !.retries = m.retries].stages = Marked("agent").stages
      /\ [Marked("agent") EXCEPT !.result = m.result, !.retries = m.retries].diff = Carried
  <2>1. m.result \in Results /\ m.diff \in Works /\ m.retries \in 0..MaxRetries
    BY MemoryFields DEF TypeOK
  <2>2. [Marked("agent") EXCEPT !.result = m.result, !.retries = m.retries] \in Checkpoint
    BY <1>1, <2>1, CheckpointUpdates, Zenon
  <2>3. /\ [Marked("agent") EXCEPT !.result = m.result, !.retries = m.retries].stages = Marked("agent").stages
        /\ [Marked("agent") EXCEPT !.result = m.result, !.retries = m.retries].diff = Carried
    BY <1>1 DEF Checkpoint
  <2> QED BY <2>2, <2>3
<1>3. cp' = [Marked("agent") EXCEPT !.result = m.result, !.retries = m.retries] => Marks("agent", Carried)
  <2>1. Marked("agent") # None
    BY <1>1, NoneAssumption
  <2>2. [Marked("agent") EXCEPT !.result = m.result, !.retries = m.retries] # None
    BY <1>2, NoneAssumption
  <2> QED BY <1>1, <1>2, <2>2, Zenon DEF Marks
<1>4. UNCHANGED <<conf, spec, briefRec, diffRec, git, ghosts, count>>
  BY DEF Reworked
<1> QED BY <1>3, <1>4, Zenon DEF Reworked, Ends, GoesTo

\* nor does sealing again.
LEMMA ResealEffect ==
  ASSUME TypeOK, Reseal
  PROVE  /\ pc = "reseal" /\ pc' = "resealed" /\ KeepsPlan /\ git'.branch = m'.diff
         /\ git.branch # None => git'.branch # None
         /\ UNCHANGED <<conf, spec, briefRec, diffRec, cp, ghosts, count>>
<1> USE DEF Goto, End, Refuse, disk, ghosts, Open
<1>1. \A v : m' = [m EXCEPT !.diff = v] => KeepsPlan /\ m'.diff = v
  BY DEF TypeOK, Memory, KeepsPlan, KeepsSource
<1>2. git.branch # None => git'.branch # None
  BY NoneAssumption DEF Reseal, TypeOK
<1>3. git' = [git EXCEPT !.branch = git.tree] => git'.branch = git.tree
  BY DEF TypeOK
<1> QED BY <1>1, <1>2, <1>3 DEF Reseal

\* The new seal is checkpointed.
LEMMA ResealedEffect ==
  ASSUME TypeOK, Resealed
  PROVE  /\ pc = "resealed"
         /\ (Ends \/ GoesTo("rereview") \/ GoesTo("judge")) /\ Marks("commit", m.diff)
         /\ UNCHANGED <<conf, spec, briefRec, diffRec, git, ghosts, count>>
<1> USE DEF Goto, End, Refuse, disk, ghosts, Open
<1>1. /\ Marked("commit") \in Checkpoint /\ Marked("commit").diff = Carried
      /\ Marked("commit").stages = (IF cp = None THEN {} ELSE cp.stages) \cup {"commit"}
  BY MarkedTyped DEF TypeOK, Stages, Carried
<1>2. /\ [Marked("commit") EXCEPT !.diff = m.diff, !.retries = m.retries] \in Checkpoint
      /\ [Marked("commit") EXCEPT !.diff = m.diff, !.retries = m.retries].stages = Marked("commit").stages
      /\ [Marked("commit") EXCEPT !.diff = m.diff, !.retries = m.retries].diff = m.diff
  <2>1. m.result \in Results /\ m.diff \in Works /\ m.retries \in 0..MaxRetries
    BY MemoryFields DEF TypeOK
  <2>2. [Marked("commit") EXCEPT !.diff = m.diff, !.retries = m.retries] \in Checkpoint
    BY <1>1, <2>1, CheckpointUpdates, Zenon
  <2>3. /\ [Marked("commit") EXCEPT !.diff = m.diff, !.retries = m.retries].stages = Marked("commit").stages
        /\ [Marked("commit") EXCEPT !.diff = m.diff, !.retries = m.retries].diff = m.diff
    BY <1>1 DEF Checkpoint
  <2> QED BY <2>2, <2>3
<1> QED BY <1>1, <1>2, NoneAssumption DEF Resealed, Ends, GoesTo, Marks

\* A new diff is approved, or pended, and then only its rewind is left.
LEMMA RereviewEffect ==
  ASSUME TypeOK, Holding, Rereview
  PROVE  /\ pc = "rereview"
         /\ Ends \/ (GoesTo("judge") /\ ~Live(diffRec')) \/ GoesTo("rewind")
         /\ UNCHANGED <<conf, spec, briefRec, cp, git, ghosts, count>>
<1> USE DEF Goto, End, Refuse, disk, ghosts, Open
<1>1. m.hand \in Specs /\ 0 \in Works
  BY PipelineAssumption DEF Rereview, AtReview, Holding, Planned, Specified, Works
<1>2. ~Live(Review("auto-approved", 0))
  <2>1. "auto-approved" \in States
    BY DEF States
  <2>2. Review("auto-approved", 0).state = "auto-approved"
    BY <1>1, <2>1, ReviewTyped
  <2> QED BY <2>2 DEF Live, Pending
<1>3. diffRec' = Review("auto-approved", 0) => ~Live(diffRec')
  BY <1>2 DEF Live, Pending
<1>4. UNCHANGED <<conf, spec, briefRec, cp, git, ghosts, count>>
  BY DEF Rereview
<1>5. "auto-approved" # "pending"
  OBVIOUS
<1> QED BY <1>3, <1>4, <1>5, Zenon DEF Rereview, Ends, GoesTo

\* A rewind ends the run.
LEMMA RewindEffect ==
  ASSUME TypeOK, Rewind
  PROVE  /\ pc = "rewind" /\ Ends
         /\ Drops({"judge_review", "judge"})
         /\ UNCHANGED <<conf, spec, briefRec, diffRec, git, ghosts, count>>
  BY RewindTyped, NoneAssumption DEF Rewind, Drops, Ends, TypeOK, Goto, End, Refuse, disk, ghosts, Open

\* A pend that ages keeps its content, and gains no life.
LEMMA AgeEffect ==
  ASSUME TypeOK, Age
  PROVE  /\ KeepsBrief
         /\ briefRec' = briefRec \/ briefRec'.state = briefRec.state
         /\ briefRec = None => briefRec' = None
         /\ Live(briefRec') => Live(briefRec)
         /\ Live(diffRec') => Live(diffRec)
         /\ UNCHANGED <<conf, spec, cp, git, pc, m, ghosts, count>>
<1> USE DEF Goto, End, Refuse, disk, ghosts, Open
<1>1. KeepsBrief
  <2>1. briefRec' # briefRec => briefRec \in BriefRec /\ briefRec.age < 2 /\ briefRec' = [briefRec EXCEPT !.age = briefRec.age + 1]
    BY DEF Age, Pending, TypeOK
  <2>2. \A r \in BriefRec : r.age < 2 => [r EXCEPT !.age = r.age + 1] \in BriefRec
    BY DEF BriefRec
  <2>3. briefRec' # briefRec => briefRec' \in BriefRec
    BY <2>1, <2>2
  <2>4. briefRec' # briefRec => /\ briefRec'.contract = briefRec.contract
                                 /\ briefRec'.effective = briefRec.effective
                                 /\ briefRec'.of = briefRec.of
    BY <2>1 DEF BriefRec
  <2> QED BY <2>3, <2>4, NoneAssumption DEF KeepsBrief
<1>2. (briefRec = None => briefRec' = None) /\ (briefRec' = briefRec \/ briefRec'.state = briefRec.state)
  BY NoneAssumption DEF Age, BriefRec, TypeOK, Pending, KeepsBrief
<1>3. (Live(briefRec') => Live(briefRec)) /\ (Live(diffRec') => Live(diffRec))
  BY NoneAssumption, SMTT(30) DEF Age, BriefRec, DiffRec, TypeOK, Pending, Live
<1> QED BY <1>1, <1>2, <1>3 DEF Age

-----------------------------------------------------------------------------
(* The steps of the invariant.                                             *)

\* Every step keeps Holding, Approving, NoPend and Staged.
LEMMA SafeStep ==
  ASSUME TypeOK, Holding, Approving, NoPend, Staged, [Next]_vars
  PROVE  (Holding /\ Approving /\ NoPend /\ Staged)'
<1>w. None \notin Works /\ 0 \in Works /\ spec.contract \in Specs
  BY NoneAssumption, PipelineAssumption DEF TypeOK, Works
<1>b. briefRec # None => briefRec.contract \in Specs /\ briefRec.state \in States
  BY BriefUpdates DEF TypeOK
<1>h. m.hand \in 0..(MaxEdits + 1)
  BY MemoryFields DEF TypeOK
<1>n. /\ spec.contract \in Nat /\ m.hand \in Nat /\ count.edits \in Nat /\ 0 <= spec.contract
      /\ briefRec # None => briefRec.contract \in Nat /\ briefRec.state \in States
  BY <1>b, <1>h, PipelineAssumption DEF TypeOK, Specs
<1> USE BlankFields DEF Goto, End, Refuse, disk, ghosts, Open, KeepsBrief, WritesBrief,
    Restarts, Stays, GoesTo, Ends, KeepsSource, KeepsPlan, KeepsWork, Marks, Drops,
    Holding, Approving, Approval, NoPend, Staged, Planned, Specified, Bound, Branching,
    Live, Pending, Before
<1>0. ASSUME NEW k \in Kinds, Start(k)
      PROVE  (Holding /\ Approving /\ NoPend /\ Staged)'
  BY <1>0, StartEffect
<1>1. CASE Revise
  BY <1>1, ReviseEffect
<1>2. CASE ApproveBrief
  BY <1>2, ApproveBriefEffect
<1>3. CASE RejectBrief
  BY <1>3, RejectBriefEffect
<1>4. CASE ApproveDiff
  BY <1>4, ApproveDiffEffect
<1>5. CASE RejectDiff
  BY <1>5, RejectDiffEffect
<1>6. CASE Recycle
  BY <1>6, RecycleEffect
<1>7. CASE Load
  BY <1>7, LoadEffect, PipelineAssumption DEF Specs, TypeOK
<1>8. CASE CheckSource
  BY <1>8 DEF CheckSource
<1>9. CASE Guard
  BY <1>9, NoneAssumption DEF Guard
<1>10. CASE Unpend
  BY <1>10 DEF Unpend
<1>11. CASE Gate
  BY <1>11, GateEffect
<1>12. CASE Blueprint
  BY <1>12, BlueprintEffect, BriefUpdates DEF TypeOK
<1>13. CASE SkipApprove
  BY <1>13 DEF SkipApprove
<1>14. CASE FollowBrief
  BY <1>14, FollowBriefEffect
<1>15. CASE DecideBrief
  BY <1>15, DecideBriefEffect DEF TypeOK
<1>16. CASE Approved
  BY <1>16, ApprovedEffect
<1>17. CASE ResumeBranch
  BY <1>17 DEF ResumeBranch
<1>18. CASE ReuseBranch
  BY <1>18 DEF ReuseBranch
<1>19. CASE CleanBranch
  BY <1>19 DEF CleanBranch
<1>20. CASE CreateBranch
  BY <1>20, <1>w DEF CreateBranch
<1>21. CASE Branched
  BY <1>21, BranchedEffect
<1>22. CASE Agent
  BY <1>22, AgentEffect
<1>23. CASE Working
  BY <1>23, WorkingEffect
<1>24. CASE Worked
  BY <1>24, WorkedEffect
<1>25. CASE Outcome
  BY <1>25 DEF Outcome
<1>26. CASE Again
  BY <1>26, AgainEffect
<1>27. CASE ResumedWork
  BY <1>27, ResumedWorkEffect
<1>28. CASE Seal
  BY <1>28, SealEffect
<1>29. CASE Sealed
  BY <1>29, SealedEffect
<1>30. CASE SkipReview
  BY <1>30 DEF SkipReview
<1>31. CASE FollowDiff
  BY <1>31, FollowDiffEffect
<1>32. CASE DecideDiff
  BY <1>32, DecideDiffEffect
<1>33. CASE Reviewed
  BY <1>33, ReviewedEffect
<1>34. CASE Judge
  BY <1>34, JudgeEffect
<1>35. CASE Cutover
  BY <1>35, CutoverEffect, ZenonT(60)
<1>36. CASE Hold
  BY <1>36, HoldEffect
<1>37. CASE Verify
  BY <1>37, VerifyEffect
<1>38. CASE Loop
  BY <1>38, LoopEffect
<1>39. CASE Rework
  BY <1>39, ReworkEffect
<1>40. CASE Reworked
  BY <1>40, ReworkedEffect
<1>41. CASE Reseal
  BY <1>41, ResealEffect
<1>42. CASE Resealed
  BY <1>42, ResealedEffect
<1>43. CASE Rereview
  BY <1>43, RereviewEffect
<1>44. CASE Rewind
  BY <1>44, RewindEffect
<1>45. CASE Finish
  BY <1>45 DEF Finish
<1>46. CASE Publish
  BY <1>46 DEF Publish
<1>47. CASE Throw
  BY <1>47 DEF Throw, CutOff
<1>48. CASE Crash
  BY <1>48 DEF Crash, CutOff
<1>49. CASE Edit
  BY <1>49, PipelineAssumption DEF Edit, TypeOK, Specs
<1>50. CASE Age
  BY <1>50, AgeEffect
<1>51. CASE UNCHANGED vars
  BY <1>51 DEF vars, Holding, Approving, NoPend, Staged, Planned, Specified, Bound,
      Branching, Live, Pending, Before
<1> QED BY <1>0, <1>1, <1>2, <1>3, <1>4, <1>5, <1>6, <1>7, <1>8, <1>9, <1>10, <1>11,
    <1>12, <1>13, <1>14, <1>15, <1>16, <1>17, <1>18, <1>19, <1>20, <1>21, <1>22, <1>23,
    <1>24, <1>25, <1>26, <1>27, <1>28, <1>29, <1>30, <1>31, <1>32, <1>33, <1>34, <1>35,
    <1>36, <1>37, <1>38, <1>39, <1>40, <1>41, <1>42, <1>43, <1>44, <1>45, <1>46, <1>47,
    <1>48, <1>49, <1>50, <1>51 DEF Next

\* Every step keeps Growing and Backed, if no edit brings an old contract back.
LEMMA BriefStep ==
  ASSUME "revert" \notin Faults, TypeOK, Holding, NoPend, Staged, Growing, Backed, [Next]_vars
  PROVE  (Growing /\ Backed)'
<1>w. None \notin Works /\ 0 \in Works /\ spec.contract \in Specs
  BY NoneAssumption, PipelineAssumption DEF TypeOK, Works
<1>b. briefRec # None => briefRec.contract \in Specs /\ briefRec.state \in States
  BY BriefUpdates DEF TypeOK
<1>h. m.hand \in 0..(MaxEdits + 1)
  BY MemoryFields DEF TypeOK
<1>n. /\ spec.contract \in Nat /\ m.hand \in Nat /\ count.edits \in Nat /\ 0 <= spec.contract
      /\ briefRec # None => briefRec.contract \in Nat /\ briefRec.state \in States
  BY <1>b, <1>h, PipelineAssumption DEF TypeOK, Specs
<1> USE BlankFields, <1>n DEF Goto, End, Refuse, disk, ghosts, Open, KeepsBrief,
    WritesBrief, Restarts, Stays, GoesTo, Ends, KeepsSource, KeepsPlan, KeepsWork, Marks,
    Drops, Growing, Backed, Staged, Early, Planned, Specified, BriefApproved, Approvals,
    Before
<1>0. ASSUME NEW k \in Kinds, Start(k)
      PROVE  (Growing /\ Backed)'
  BY <1>0, StartEffect
<1>1. CASE Revise
  BY <1>1, ReviseEffect
<1>2. CASE ApproveBrief
  BY <1>2, ApproveBriefEffect
<1>3. CASE RejectBrief
  BY <1>3, RejectBriefEffect
<1>4. CASE ApproveDiff
  BY <1>4, ApproveDiffEffect
<1>5. CASE RejectDiff
  BY <1>5, RejectDiffEffect
<1>6. CASE Recycle
  BY <1>6, RecycleEffect
<1>7. CASE Load
  BY <1>7, LoadEffect DEF TypeOK, Specs
<1>8. CASE CheckSource
  BY <1>8 DEF CheckSource
<1>9. CASE Guard
  BY <1>9, NoneAssumption DEF Guard, Live, Pending, NoPend
<1>10. CASE Unpend
  BY <1>10 DEF Unpend
<1>11. CASE Gate
  BY <1>11, GateEffect
<1>12. CASE Blueprint
  BY <1>12, BlueprintEffect DEF MayConsume
<1>13. CASE SkipApprove
  BY <1>13 DEF SkipApprove, BriefGate
<1>14. CASE FollowBrief
  BY <1>14, FollowBriefEffect DEF MayConsume, Pending
<1>15. CASE DecideBrief
  BY <1>15, DecideBriefEffect DEF BriefGate, Undecided
<1>16. CASE Approved
  BY <1>16, ApprovedEffect
<1>17. CASE ResumeBranch
  BY <1>17 DEF ResumeBranch
<1>18. CASE ReuseBranch
  BY <1>18 DEF ReuseBranch
<1>19. CASE CleanBranch
  BY <1>19 DEF CleanBranch
<1>20. CASE CreateBranch
  BY <1>20, <1>w DEF CreateBranch
<1>21. CASE Branched
  BY <1>21, BranchedEffect
<1>22. CASE Agent
  BY <1>22, AgentEffect
<1>23. CASE Working
  BY <1>23, WorkingEffect DEF Branching
<1>24. CASE Worked
  BY <1>24, WorkedEffect
<1>25. CASE Outcome
  BY <1>25 DEF Outcome
<1>26. CASE Again
  BY <1>26, AgainEffect
<1>27. CASE ResumedWork
  BY <1>27, ResumedWorkEffect
<1>28. CASE Seal
  BY <1>28, SealEffect
<1>29. CASE Sealed
  BY <1>29, SealedEffect
<1>30. CASE SkipReview
  BY <1>30 DEF SkipReview
<1>31. CASE FollowDiff
  BY <1>31, FollowDiffEffect
<1>32. CASE DecideDiff
  BY <1>32, DecideDiffEffect
<1>33. CASE Reviewed
  BY <1>33, ReviewedEffect
<1>34. CASE Judge
  BY <1>34, JudgeEffect
<1>35. CASE Cutover
  BY <1>35, CutoverEffect
<1>36. CASE Hold
  BY <1>36, HoldEffect
<1>37. CASE Verify
  BY <1>37, VerifyEffect
<1>38. CASE Loop
  BY <1>38, LoopEffect
<1>39. CASE Rework
  BY <1>39, ReworkEffect
<1>40. CASE Reworked
  BY <1>40, ReworkedEffect
<1>41. CASE Reseal
  BY <1>41, ResealEffect
<1>42. CASE Resealed
  BY <1>42, ResealedEffect
<1>43. CASE Rereview
  BY <1>43, RereviewEffect
<1>44. CASE Rewind
  BY <1>44, RewindEffect
<1>45. CASE Finish
  BY <1>45 DEF Finish
<1>46. CASE Publish
  BY <1>46 DEF Publish
<1>47. CASE Throw
  BY <1>47 DEF Throw
<1>48. CASE Crash
  BY <1>48 DEF Crash
<1>49. CASE Edit
  BY <1>49, PipelineAssumption DEF Edit, TypeOK, Specs
<1>50. CASE Age
  BY <1>50, AgeEffect DEF Live
<1>51. CASE UNCHANGED vars
  BY <1>51, SMTT(30) DEF vars, Growing, Backed, Staged, Early, Planned, Specified, BriefApproved,
      Approvals, Before
<1> QED BY <1>0, <1>1, <1>2, <1>3, <1>4, <1>5, <1>6, <1>7, <1>8, <1>9, <1>10, <1>11,
    <1>12, <1>13, <1>14, <1>15, <1>16, <1>17, <1>18, <1>19, <1>20, <1>21, <1>22, <1>23,
    <1>24, <1>25, <1>26, <1>27, <1>28, <1>29, <1>30, <1>31, <1>32, <1>33, <1>34, <1>35,
    <1>36, <1>37, <1>38, <1>39, <1>40, <1>41, <1>42, <1>43, <1>44, <1>45, <1>46, <1>47,
    <1>48, <1>49, <1>50, <1>51 DEF Next

\* Every step keeps Headed: only a seal moves the branch's head, the checkpoint
\* takes the diff in hand or keeps its own, and a run that ends in between has
\* its seal cut off.
LEMMA HeadStep ==
  ASSUME TypeOK, Holding, Staged, Headed, [Next]_vars
  PROVE  Headed'
<1>w. None \notin Works /\ 0 \in Works /\ torn \subseteq Works
  BY NoneAssumption, PipelineAssumption DEF TypeOK, Works
<1>m. m.diff \in Works /\ m.seen \in Checkpoint \cup {None} /\ (cp # None => cp.diff \in Works)
  BY MemoryFields, CheckpointFields DEF TypeOK
<1>s. m.done # {} => m.seen.diff \in Works
  BY <1>m, CheckpointFields DEF Holding
<1> USE BlankFields DEF Goto, End, Refuse, disk, ghosts, Open, Restarts, Stays, GoesTo, Ends,
    KeepsSource, KeepsPlan, KeepsWork, Marks, Carried, Drops, Headed, HeadIs, After, Onward
<1>0. ASSUME NEW k \in Kinds, Start(k)
      PROVE  Headed'
  BY <1>0, StartEffect
<1>1. CASE Revise
  BY <1>1, ReviseEffect
<1>2. CASE ApproveBrief
  BY <1>2, ApproveBriefEffect
<1>3. CASE RejectBrief
  BY <1>3, RejectBriefEffect
<1>4. CASE ApproveDiff
  BY <1>4, ApproveDiffEffect
<1>5. CASE RejectDiff
  BY <1>5, RejectDiffEffect
<1>6. CASE Recycle
  BY <1>6, RecycleEffect
<1>7. CASE Load
  BY <1>7, LoadEffect
<1>8. CASE CheckSource
  BY <1>8 DEF CheckSource
<1>9. CASE Guard
  BY <1>9, NoneAssumption DEF Guard, Staged
<1>10. CASE Unpend
  BY <1>10 DEF Unpend
<1>11. CASE Gate
  BY <1>11, GateEffect
<1>12. CASE Blueprint
  BY <1>12, BlueprintEffect
<1>13. CASE SkipApprove
  BY <1>13 DEF SkipApprove, Staged, Before
<1>14. CASE FollowBrief
  BY <1>14, FollowBriefEffect
<1>15. CASE DecideBrief
  BY <1>15, DecideBriefEffect
<1>16. CASE Approved
  BY <1>16, ApprovedEffect DEF Staged, Before
<1>17. CASE ResumeBranch
  BY <1>17 DEF ResumeBranch
<1>18. CASE ReuseBranch
  BY <1>18 DEF ReuseBranch
<1>19. CASE CleanBranch
  BY <1>19 DEF CleanBranch
<1>20. CASE CreateBranch
  BY <1>20, <1>w, <1>m, <1>s DEF CreateBranch
<1>21. CASE Branched
  BY <1>21, BranchedEffect
<1>22. CASE Agent
  BY <1>22, AgentEffect
<1>23. CASE Working
  BY <1>23, WorkingEffect
<1>24. CASE Worked
  BY <1>24, WorkedEffect
<1>25. CASE Outcome
  BY <1>25 DEF Outcome
<1>26. CASE Again
  BY <1>26, AgainEffect
<1>27. CASE ResumedWork
  BY <1>27, ResumedWorkEffect
<1>28. CASE Seal
  BY <1>28, SealEffect
<1>29. CASE Sealed
  BY <1>29, SealedEffect
<1>30. CASE SkipReview
  BY <1>30 DEF SkipReview
<1>31. CASE FollowDiff
  BY <1>31, FollowDiffEffect
<1>32. CASE DecideDiff
  BY <1>32, DecideDiffEffect
<1>33. CASE Reviewed
  BY <1>33, ReviewedEffect
<1>34. CASE Judge
  BY <1>34, JudgeEffect
<1>35. CASE Cutover
  BY <1>35, CutoverEffect
<1>36. CASE Hold
  BY <1>36, HoldEffect
<1>37. CASE Verify
  BY <1>37, VerifyEffect
<1>38. CASE Loop
  BY <1>38, LoopEffect
<1>39. CASE Rework
  BY <1>39, ReworkEffect
<1>40. CASE Reworked
  BY <1>40, ReworkedEffect
<1>41. CASE Reseal
  BY <1>41, ResealEffect
<1>42. CASE Resealed
  BY <1>42, ResealedEffect
<1>43. CASE Rereview
  BY <1>43, RereviewEffect
<1>44. CASE Rewind
  BY <1>44, RewindEffect
<1>45. CASE Finish
  BY <1>45 DEF Finish
<1>46. CASE Publish
  BY <1>46 DEF Publish
<1>47. CASE Throw
  BY <1>47 DEF Throw, CutOff
<1>48. CASE Crash
  BY <1>48 DEF Crash, CutOff
<1>49. CASE Edit
  BY <1>49 DEF Edit
<1>50. CASE Age
  BY <1>50, AgeEffect
<1>51. CASE UNCHANGED vars
  BY <1>51 DEF vars
<1> QED BY <1>0, <1>1, <1>2, <1>3, <1>4, <1>5, <1>6, <1>7, <1>8, <1>9, <1>10, <1>11,
    <1>12, <1>13, <1>14, <1>15, <1>16, <1>17, <1>18, <1>19, <1>20, <1>21, <1>22, <1>23,
    <1>24, <1>25, <1>26, <1>27, <1>28, <1>29, <1>30, <1>31, <1>32, <1>33, <1>34, <1>35,
    <1>36, <1>37, <1>38, <1>39, <1>40, <1>41, <1>42, <1>43, <1>44, <1>45, <1>46, <1>47,
    <1>48, <1>49, <1>50, <1>51 DEF Next

\* Only a publication publishes: the branch's head, under the answer in hand.
LEMMA PassedStep ==
  ASSUME TypeOK, Approving, Headed, PassedPublished, [Next]_vars
  PROVE  PassedPublished'
<1>1. CASE Publish
  <2> DEFINE new == [head |-> git.branch, diff |-> m.diff, answer |-> m.answer]
  <2>1. new.head = git.branch /\ new.diff = m.diff /\ new.answer = m.answer
    OBVIOUS
  <2>2. m.answer = [diff |-> m.diff, verdict |-> "APPROVE", verified |-> TRUE]
    BY <1>1 DEF Publish, Approving, Approval
  <2>3. git.branch = m.diff \/ git.branch \in torn
    BY <1>1 DEF Publish, Headed, HeadIs, After
  <2>4. published' \subseteq published \cup {new} /\ torn' = torn
    BY <1>1 DEF Publish
  <2> HIDE DEF new
  <2> QED BY <2>1, <2>2, <2>3, <2>4 DEF PassedPublished
<1>2. CASE published' = published /\ torn \subseteq torn'
  BY <1>2 DEF PassedPublished
<1> QED
  BY <1>1, <1>2 DEF CutOff, Verify, Next, vars, ghosts, disk, Start, Revise, ApproveBrief,
      RejectBrief, ApproveDiff, RejectDiff, Recycle, Load, CheckSource, Guard, Unpend,
      Gate, Blueprint, SkipApprove, FollowBrief, DecideBrief, Approved, ResumeBranch,
      ReuseBranch, CleanBranch, CreateBranch, Branched, Agent, Working, Worked, Outcome,
      Again, ResumedWork, Seal, Sealed, SkipReview, FollowDiff, DecideDiff, Reviewed,
      Judge, Cutover, Hold, Loop, Rework, Reworked, Reseal, Resealed, Rereview, Rewind,
      Finish, Throw, Crash, Edit, Age, Work

\* A run that was not told to override replaces no live pend.
LEMMA PendStep ==
  ASSUME TypeOK, NoPend, [Next]_vars
  PROVE  Keeps(briefRec, briefRec') /\ Keeps(diffRec, diffRec')
<1> SUFFICES ASSUME pc # "idle", ~m.override
             PROVE  /\ Live(briefRec) => briefRec' # None /\ Content(briefRec') = Content(briefRec)
                    /\ Live(diffRec) => diffRec' # None /\ Content(diffRec') = Content(diffRec)
  BY DEF Keeps
<1>1. CASE UNCHANGED <<briefRec, diffRec>>
  BY <1>1 DEF Live, Pending
<1>2. CASE Age
  <2>1. ASSUME NEW r \in BriefRec
        PROVE  Content([r EXCEPT !.age = r.age + 1]) = Content(r)
    BY DEF BriefRec, Content
  <2>2. ASSUME NEW r \in DiffRec
        PROVE  Content([r EXCEPT !.age = r.age + 1]) = Content(r)
    BY DEF DiffRec, Content
  <2>3. briefRec' = briefRec \/ (briefRec \in BriefRec /\ briefRec.age < 2 /\ briefRec' = [briefRec EXCEPT !.age = briefRec.age + 1])
    BY <1>2 DEF Age, Pending, TypeOK
  <2>4. diffRec' = diffRec \/ (diffRec \in DiffRec /\ diffRec.age < 2 /\ diffRec' = [diffRec EXCEPT !.age = diffRec.age + 1])
    BY <1>2 DEF Age, Pending, TypeOK
  <2>5. Live(briefRec) => briefRec # None
    BY DEF Live, Pending
  <2>6. Live(diffRec) => diffRec # None
    BY DEF Live, Pending
  <2>7. \A r \in BriefRec : r.age < 2 => [r EXCEPT !.age = r.age + 1] \in BriefRec
    BY DEF BriefRec
  <2>8. \A r \in DiffRec : r.age < 2 => [r EXCEPT !.age = r.age + 1] \in DiffRec
    BY DEF DiffRec
  <2>9. Live(briefRec) => briefRec' # None /\ Content(briefRec') = Content(briefRec)
    BY <2>1, <2>3, <2>5, <2>7, NoneAssumption
  <2>10. Live(diffRec) => diffRec' # None /\ Content(diffRec') = Content(diffRec)
    BY <2>2, <2>4, <2>6, <2>8, NoneAssumption
  <2> QED BY <2>9, <2>10
<1>3. CASE pc \in {"load", "check"} /\ ~Age
  BY <1>3, <1>1 DEF Next, vars, ghosts, disk, Start, Revise, ApproveBrief, RejectBrief,
      ApproveDiff, RejectDiff, Recycle, Load, CheckSource, Guard, Unpend, Gate,
      Blueprint, SkipApprove, FollowBrief, DecideBrief, Approved, ResumeBranch,
      ReuseBranch, CleanBranch, CreateBranch, Branched, Agent, Working, Worked, Outcome,
      Again, ResumedWork, Seal, Sealed, SkipReview, FollowDiff, DecideDiff, Reviewed,
      Judge, Cutover, Hold, Verify, Loop, Rework, Reworked, Reseal, Resealed, Rereview,
      Rewind, Finish, Publish, Throw, Crash, Edit, Open, AtApprove, AtReview
<1>4. CASE pc = "guard" /\ ~Age
  BY <1>4, <1>1 DEF Next, vars, ghosts, disk, Start, Revise, ApproveBrief, RejectBrief,
      ApproveDiff, RejectDiff, Recycle, Load, CheckSource, Guard, Unpend, Gate,
      Blueprint, SkipApprove, FollowBrief, DecideBrief, Approved, ResumeBranch,
      ReuseBranch, CleanBranch, CreateBranch, Branched, Agent, Working, Worked, Outcome,
      Again, ResumedWork, Seal, Sealed, SkipReview, FollowDiff, DecideDiff, Reviewed,
      Judge, Cutover, Hold, Verify, Loop, Rework, Reworked, Reseal, Resealed, Rereview,
      Rewind, Finish, Publish, Throw, Crash, Edit, Open, AtApprove, AtReview
<1>5. CASE pc = "rewind" /\ ~Age
  <2>1. ~Live(briefRec)
    BY <1>5 DEF NoPend
  <2> QED BY <1>5, <2>1, <1>1 DEF Next, vars, ghosts, disk, Start, Revise, ApproveBrief,
      RejectBrief, ApproveDiff, RejectDiff, Recycle, Load, CheckSource, Guard, Unpend,
      Gate, Blueprint, SkipApprove, FollowBrief, DecideBrief, Approved, ResumeBranch,
      ReuseBranch, CleanBranch, CreateBranch, Branched, Agent, Working, Worked, Outcome,
      Again, ResumedWork, Seal, Sealed, SkipReview, FollowDiff, DecideDiff, Reviewed,
      Judge, Cutover, Hold, Verify, Loop, Rework, Reworked, Reseal, Resealed, Rereview,
      Rewind, Finish, Publish, Throw, Crash, Edit, Open, AtApprove, AtReview
<1>6. CASE pc \notin {"load", "check", "guard", "rewind"}
  BY <1>6 DEF NoPend
<1> QED
  BY <1>2, <1>3, <1>4, <1>5, <1>6

-----------------------------------------------------------------------------
(* The theorems.                                                           *)

Safe == TypeOK /\ Holding /\ Approving /\ NoPend /\ Staged /\ Headed /\ PassedPublished
Briefed == Growing /\ Backed

\* No run, nothing on disk, nothing published: the invariant holds at first.
LEMMA SafeInit ==
  ASSUME Init
  PROVE  Safe /\ Briefed
<1>1. TypeOK
  <2>1. 1 \in Specs /\ 0 \in Works
    BY PipelineAssumption DEF Specs, Works
  <2> QED BY <2>1, BlankTyped, PipelineAssumption DEF Init, TypeOK, Pcs
<1>2. Holding /\ Approving /\ NoPend /\ Staged
  BY BlankFields DEF Init, Holding, Approving, NoPend, Staged, Planned, Specified, Bound,
     Branching, Before
<1>3. PassedPublished
  BY DEF Init, PassedPublished
<1>4. Headed
  BY BlankFields DEF Init, Headed, HeadIs, After, Onward
<1>5. Briefed
  BY BlankFields DEF Init, Briefed, Growing, Backed, Early, Planned, Specified
<1> QED BY <1>1, <1>2, <1>3, <1>4, <1>5 DEF Safe

\* Every step of the pipeline keeps it.
LEMMA SafeNext ==
  ASSUME Safe, [Next]_vars
  PROVE  Safe'
  BY TypeStep, SafeStep, HeadStep, PassedStep DEF Safe

\* The state of a task's pipeline is well typed after any runs, decisions, edits
\* and crashes: what a run finds on disk is what some run wrote (checkpoint
\* manager, approval records).
THEOREM PipelineTyped == Spec => []TypeOK
<1>1. Init => Safe
  BY SafeInit
<1>2. Safe /\ [Next]_vars => Safe'
  BY SafeNext
<1>3. Safe => TypeOK
  BY DEF Safe
<1> QED BY <1>1, <1>2, <1>3, PTL DEF Spec

\* A run that publishes (handleApproval) has the judge's own APPROVE of the diff
\* it holds, its last answer in that run, verified: no checkpointed verdict and no
\* human approval takes the judge's place.  And the head it publishes is that
\* diff, unless the head's seal was cut off between its commit and its checkpoint.
THEOREM PublishedPassed == Spec => []PassedPublished
<1>1. Init => Safe
  BY SafeInit
<1>2. Safe /\ [Next]_vars => Safe'
  BY SafeNext
<1>3. Safe => PassedPublished
  BY DEF Safe
<1> QED BY <1>1, <1>2, <1>3, PTL DEF Spec

\* A pending decision a human may still give is never replaced or dropped by a
\* run that was not told to override, at whichever gate the run writes records.
THEOREM PendsKept == Spec => PendKept
<1>1. Init => Safe
  BY SafeInit
<1>2. Safe /\ [Next]_vars => Safe'
  BY SafeNext
<1>3. Safe /\ [Next]_vars => [Keeps(briefRec, briefRec') /\ Keeps(diffRec, diffRec')]_vars
  BY PendStep DEF Safe
<1> QED BY <1>1, <1>2, <1>3, PTL DEF Spec, PendKept

\* In loop mode a worker runs only on a blueprint of the spec its run loaded,
\* under an approval of a blueprint of that spec, as long as an edit brings a
\* contract the task never had: neither the checkpoint's word that the stage is
\* done nor a record left by an earlier run lets it run on another brief.
THEOREM BriefsBound ==
  ASSUME "revert" \notin Faults
  PROVE  Spec => []BriefBound
<1>1. Init => Safe /\ Briefed
  BY SafeInit
<1>2. Safe /\ Briefed /\ [Next]_vars => (Safe /\ Briefed)'
  <2> SUFFICES ASSUME Safe, Briefed, [Next]_vars PROVE Safe' /\ Briefed'
    OBVIOUS
  <2>1. Safe'
    BY SafeNext
  <2>2. (Growing /\ Backed)'
    BY BriefStep DEF Safe, Briefed
  <2> QED BY <2>1, <2>2 DEF Briefed
<1>3. Safe /\ Briefed => BriefBound
  BY DEF Briefed, BriefBound, Growing, Backed, BriefApproved, Planned, Specified
<1> QED BY <1>1, <1>2, <1>3, PTL DEF Spec
=============================================================================
