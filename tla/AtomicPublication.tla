------------------------- MODULE AtomicPublication -------------------------
(***************************************************************************)
(* What a decomposition transaction promises its readers.  The parent spec *)
(* and its children change in one step of the branch ("tree").  Whoever    *)
(* looks at the files ("view") while no journal stands in the way sees     *)
(* either all of the old files or all of the new ones, the same as the     *)
(* branch, and a published tree is never without a durable notice of it.   *)
(***************************************************************************)

VARIABLES
    tree,      \* "old" or "new": what the branch holds
    view,      \* "old", "new" or "mixed": what the working tree and the index hold
    fenced,    \* TRUE while a journal stops every reader and every writer
    noticed    \* TRUE once the status "DECOMPOSED" is durable outside the tree

vars == <<tree, view, fenced, noticed>>

Init == tree = "old" /\ view = "old" /\ ~fenced /\ ~noticed

Begin == ~fenced /\ tree = "old" /\ fenced' = TRUE /\ UNCHANGED <<tree, view, noticed>>

Touch == fenced /\ view' \in {"old", "new", "mixed"} /\ UNCHANGED <<tree, fenced, noticed>>

Publish == fenced /\ tree = "old" /\ tree' = "new" /\ UNCHANGED <<view, fenced, noticed>>

Notice == fenced /\ tree = "new" /\ noticed' = TRUE /\ UNCHANGED <<tree, view, fenced>>

End ==
    /\ fenced
    /\ view = tree
    /\ noticed = (tree = "new")
    /\ fenced' = FALSE
    /\ UNCHANGED <<tree, view, noticed>>

Next == Begin \/ Touch \/ Publish \/ Notice \/ End

Spec == Init /\ [][Next]_vars
=============================================================================
