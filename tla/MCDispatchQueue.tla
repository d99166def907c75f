-------------------------- MODULE MCDispatchQueue --------------------------
(* Small instances of DispatchQueue for TLC.                               *)
EXTENDS DispatchQueue, TLC

CONSTANTS a, b, c, p1, p2

\* Scheduling passes are interchangeable.
PassSymmetry == Permutations(Slots)

\* b waits for a.
Pair == {a, b}
PairDeps == [t \in Pair |-> IF t = b THEN {a} ELSE {}]
PairSubtasks == [t \in Pair |-> {}]
PairPriority == [t \in Pair |-> 1]

\* b waits for a, which was decomposed into c.
Split == {a, b, c}
SplitDeps == (a :> {}) @@ (b :> {a}) @@ (c :> {})
SplitSubtasks == (a :> {c}) @@ (b :> {}) @@ (c :> {})
SplitPriority == [t \in Split |-> 1]

\* Two independent tasks, b the more urgent one.
Free == {a, b}
FreeDeps == [t \in Free |-> {}]
FreeSubtasks == [t \in Free |-> {}]
FreePriority == (a :> 2) @@ (b :> 0)

Base == [maxConcurrent |-> 1, failurePropagation |-> "skip_dependents",
         pauseOnFailure |-> FALSE, autoStartOnEnqueue |-> FALSE,
         cooldown |-> FALSE, budgeted |-> FALSE]
OnlyBase == {Base}
\* Two lanes, a fleet budget, the cooldown, and a queue that starts itself,
\* stops scheduling at a failure and skips everything left.
Strict == [maxConcurrent |-> 2, failurePropagation |-> "fail_fast",
           pauseOnFailure |-> TRUE, autoStartOnEnqueue |-> TRUE,
           cooldown |-> TRUE, budgeted |-> TRUE]
Mixed == {Base, Strict}
=============================================================================
