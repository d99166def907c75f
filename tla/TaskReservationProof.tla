------------------------ MODULE TaskReservationProof ------------------------
(***************************************************************************)
(* For every set of callers, any number of deaths and all faults: the      *)
(* reservation is typed; a caller in its operation holds the directory,    *)
(* one of the callers that want the same thing gets it, and a finished     *)
(* call of a live process leaves nothing behind, each but for the records  *)
(* that the model names.                                                   *)
(*                                                                         *)
(* The argument follows a record after its link.  While no marker has been *)
(* looked for it is under the live name or in a quarantine.  A caller that *)
(* saw no marker knows that no reclaimer is at work: its record, if it is  *)
(* in a quarantine, is in that of a dead one, and if it is under the live  *)
(* name, nobody is about to move it, because whoever observes it from now  *)
(* on finds a live owner.  A caller that then saw no quarantine either has *)
(* it under the live name, or it was put back by a repair in between.      *)
(***************************************************************************)
EXTENDS TaskReservation, FiniteSetTheorems, TLAPS

Alive(p) == life[p] = "alive"
Reclaiming == {"observe", "move", "verify", "withdraw"}

\* Callers that published their record in this round and did not take it back yet.
Post(p) ==
  \/ pc[p] \in {"check", "write", "read", "remove"}
  \/ pc[p] \in {"markers", "inspect"} /\ why[p] # "pre"

NoMover == \A q \in Callers : pc[q] # "move"
Quarantined(p) == \E q \in Callers : quar[q] = p
Safe(p) == p \in Exposed \/ (lock = p /\ NoMover)

\* A caller works only while its process lives, and its marker announces a reclaim
\* until the end, or until the caller is dead.
Living(p) == pc[p] \notin Ended => Alive(p)
Announced(p) == pc[p] \in Reclaiming => p \in requests
Quarantining(p) == quar[p] # None /\ Alive(p) => pc[p] = "verify"

\* What a caller looked at is still of a dead owner.
Observed(p) == pc[p] \in {"move", "verify"} => Reclaimable(seen[p])
Dropping(p) ==
  pc[p] = "drop" =>
    Aged(seen[p]) /\ (quar[seen[p]] = None \/ Reclaimable(quar[seen[p]]))

\* Where the record of a caller is after it was linked: anywhere; after no marker was
\* seen: safe, or in the quarantine of a dead reclaimer; after no quarantine was seen: safe.
Placed(p) ==
  pc[p] = "markers" /\ why[p] # "pre" => p \in Exposed \/ lock = p \/ Quarantined(p)
Inspected(p) ==
  pc[p] = "inspect" /\ why[p] # "pre" =>
    Safe(p) \/ \E q \in Callers : quar[q] = p /\ ~Alive(q)
Entered(p) == p \in Inside => Safe(p)

\* The record of a live caller that is not where it left it was moved.
QuarantineMoved(p) == Quarantined(p) /\ Alive(p) => p \in moved
Abandoned(p) == lock = p /\ Alive(p) /\ ~Post(p) => p \in moved

Raced(p) == pc[p] = "write" => written \subseteq {p} \/ (written \cup {p}) \cap Exposed # {}
Contested == \A p, q \in written : p # q => written \cap Exposed # {}

Own(p) ==
  /\ Living(p) /\ Announced(p) /\ Quarantining(p) /\ Observed(p) /\ Dropping(p)
  /\ Placed(p) /\ Inspected(p) /\ Entered(p)
  /\ QuarantineMoved(p) /\ Abandoned(p) /\ Raced(p)

Inv == TypeOK /\ IsFiniteSet(written) /\ Contested /\ \A p \in Callers : Own(p)

-----------------------------------------------------------------------------
(* Types.                                                                    *)

LEMMA TypeStep ==
  ASSUME TypeOK, [Next]_vars
  PROVE  TypeOK'
<1> USE DEF TypeOK, Owners, Ended, Goto, For, End, control, files, history
<1>1. ASSUME NEW p \in Callers, ListRequests(p)
      PROVE  TypeOK'
  BY <1>1 DEF ListRequests
<1>2. ASSUME NEW p \in Callers, ListQuarantines(p)
      PROVE  TypeOK'
  BY <1>2 DEF ListQuarantines, Quarantines
<1>3. ASSUME NEW p \in Callers, Reconciled(p)
      PROVE  TypeOK'
  BY <1>3 DEF Reconciled
<1>4. ASSUME NEW p \in Callers, DropQuarantine(p)
      PROVE  TypeOK'
  BY <1>4 DEF DropQuarantine
<1>5. ASSUME NEW p \in Callers, RestoreQuarantine(p)
      PROVE  TypeOK'
  BY <1>5 DEF RestoreQuarantine, Displaced, Disturbed
<1>6. ASSUME NEW p \in Callers, CheckRequests(p)
      PROVE  TypeOK'
  BY <1>6 DEF CheckRequests, KeptOut
<1>7. ASSUME NEW p \in Callers, CheckQuarantines(p)
      PROVE  TypeOK'
  BY <1>7 DEF CheckQuarantines, KeptOut
<1>8. ASSUME NEW p \in Callers, Link(p)
      PROVE  TypeOK'
  BY <1>8 DEF Link
<1>9. ASSUME NEW p \in Callers, StagingStuck(p)
      PROVE  TypeOK'
  BY <1>9 DEF StagingStuck
<1>10. ASSUME NEW p \in Callers, TryAgain(p)
      PROVE  TypeOK'
  BY <1>10 DEF TryAgain
<1>11. ASSUME NEW p \in Callers, TimeOut(p)
      PROVE  TypeOK'
  BY <1>11 DEF TimeOut
<1>12. ASSUME NEW p \in Callers, Check(p)
      PROVE  TypeOK'
  BY <1>12 DEF Check
<1>13. ASSUME NEW p \in Callers, Write(p)
      PROVE  TypeOK'
  BY <1>13 DEF Write
<1>14. ASSUME NEW p \in Callers, OperationThrows(p)
      PROVE  TypeOK'
  BY <1>14 DEF OperationThrows
<1>15. ASSUME NEW p \in Callers, ReadOwn(p)
      PROVE  TypeOK'
  BY <1>15 DEF ReadOwn, RemovalFails
<1>16. ASSUME NEW p \in Callers, RemoveOwn(p)
      PROVE  TypeOK'
  BY <1>16 DEF RemoveOwn, RemovalFails, Displaced, Disturbed
<1>17. ASSUME NEW p \in Callers, Request(p)
      PROVE  TypeOK'
  BY <1>17 DEF Request
<1>18. ASSUME NEW p \in Callers, Observe(p)
      PROVE  TypeOK'
  BY <1>18 DEF Observe
<1>19. ASSUME NEW p \in Callers, Move(p)
      PROVE  TypeOK'
  BY <1>19 DEF Move, Disturbed
<1>20. ASSUME NEW p \in Callers, Verify(p)
      PROVE  TypeOK'
  BY <1>20 DEF Verify, Displaced, Disturbed
<1>21. ASSUME NEW p \in Callers, Withdraw(p)
      PROVE  TypeOK'
  BY <1>21 DEF Withdraw
<1>22. ASSUME NEW p \in Callers, Crash(p)
      PROVE  TypeOK'
  BY <1>22 DEF Crash
<1>23. ASSUME NEW p \in Callers, GrowsOld(p)
      PROVE  TypeOK'
  BY <1>23 DEF GrowsOld
<1>24. ASSUME NEW p \in Callers, NEW q \in Callers, ReapRequest(p, q)
      PROVE  TypeOK'
  BY <1>24 DEF ReapRequest
<1>25. ASSUME NEW p \in Callers, NEW q \in Callers, LookQuarantine(p, q)
      PROVE  TypeOK'
  BY <1>25 DEF LookQuarantine
<1>26. CASE UNCHANGED vars
  BY <1>26 DEF vars
<1> QED BY <1>1, <1>2, <1>3, <1>4, <1>5, <1>6, <1>7, <1>8, <1>9, <1>10, <1>11, <1>12, <1>13, <1>14, <1>15, <1>16, <1>17, <1>18, <1>19, <1>20, <1>21, <1>22, <1>23, <1>24, <1>25, <1>26 DEF Next, Step

-----------------------------------------------------------------------------
(* Steps that move the control of one caller only.                           *)

Turn(p) ==
  /\ \A q \in Callers \ {p} : pc'[q] = pc[q] /\ why'[q] = why[q] /\ seen'[q] = seen[q]
  /\ UNCHANGED <<life, files, written, history>>

LEMMA TurnKeeps ==
  ASSUME Inv, NEW p \in Callers, Turn(p), TypeOK',
         pc'[p] = "move" => Reclaimable(lock), Own(p)'
  PROVE  Inv'
<1> USE DEF Turn, files, history
<1>1. \A q \in Callers : Safe(q) /\ Alive(q) => Safe(q)'
  BY ReservationConstants DEF Inv, TypeOK, Safe, NoMover, Reclaimable, Alive, Aged, Exposed
<1>2. ASSUME NEW q \in Callers, q # p
      PROVE  Own(q)'
  <2> USE <1>2 DEF Inv, Own
  <2>1. Living(q)' /\ Announced(q)' /\ Quarantining(q)' /\ Raced(q)'
    BY DEF Living, Announced, Quarantining, Alive, Raced, Exposed
  <2>2. Observed(q)' /\ Dropping(q)'
    BY DEF Observed, Dropping, Reclaimable, Aged
  <2>3. Placed(q)' /\ QuarantineMoved(q)' /\ Abandoned(q)'
    BY DEF Placed, QuarantineMoved, Abandoned, Quarantined, Exposed, Alive, Post
  <2>4. Inspected(q)' /\ Entered(q)'
    BY <1>1 DEF Inspected, Entered, Inside, Living, Ended, Alive
  <2> QED BY <2>1, <2>2, <2>3, <2>4
<1>3. IsFiniteSet(written)' /\ Contested'
  BY DEF Inv, Contested, Exposed
<1> QED BY <1>2, <1>3 DEF Inv

LEMMA ListRequestsKeeps ==
  ASSUME Inv, NEW p \in Callers, ListRequests(p), TypeOK'
  PROVE  Inv'
<1> USE DEF ListRequests, Goto, For, files, history, Inv, TypeOK, Own
<1>1. Turn(p) /\ (pc'[p] = "move" => Reclaimable(lock))
  BY DEF Turn
<1>2. Living(p)' /\ Announced(p)' /\ Quarantining(p)'
  BY DEF Living, Alive, Ended, Announced, Reclaiming, Aged, Quarantining
<1>3. Observed(p)' /\ Dropping(p)'
  BY DEF Observed, Reclaimable, Aged, Dropping, Living, Alive, Ended
<1>4. Placed(p)' /\ Inspected(p)' /\ Entered(p)'
  BY DEF Placed, Quarantined, Exposed, Living, Alive, Ended, Inspected, Safe, NoMover,
     Entered, Inside
<1>5. QuarantineMoved(p)' /\ Abandoned(p)' /\ Raced(p)'
  BY DEF QuarantineMoved, Abandoned, Quarantined, Alive, Post, Raced, Entered, Inside,
     Safe, Exposed
<1> QED BY <1>1, <1>2, <1>3, <1>4, <1>5, TurnKeeps

LEMMA ListQuarantinesKeeps ==
  ASSUME Inv, NEW p \in Callers, ListQuarantines(p), TypeOK'
  PROVE  Inv'
<1> USE DEF ListQuarantines, Goto, files, history, Inv, TypeOK, Own
<1>1. Turn(p) /\ (pc'[p] = "move" => Reclaimable(lock))
  BY DEF Turn
<1>2. Living(p)' /\ Announced(p)' /\ Quarantining(p)'
  BY DEF Living, Alive, Ended, Announced, Reclaiming, Aged, Quarantining
<1>3. Observed(p)' /\ Dropping(p)'
  BY DEF Observed, Reclaimable, Aged, Dropping, Living, Alive, Ended
<1>4. Placed(p)' /\ Inspected(p)' /\ Entered(p)'
  BY DEF Placed, Quarantined, Exposed, Living, Alive, Ended, Inspected, Safe, NoMover,
     Entered, Inside
<1>5. QuarantineMoved(p)' /\ Abandoned(p)' /\ Raced(p)'
  BY DEF QuarantineMoved, Abandoned, Quarantined, Alive, Post, Raced, Entered, Inside,
     Safe, Exposed
<1> QED BY <1>1, <1>2, <1>3, <1>4, <1>5, TurnKeeps

LEMMA ReconciledKeeps ==
  ASSUME Inv, NEW p \in Callers, Reconciled(p), TypeOK'
  PROVE  Inv'
<1> USE DEF Reconciled, Goto, For, files, history, Inv, TypeOK, Own
<1>1. Turn(p) /\ (pc'[p] = "move" => Reclaimable(lock))
  BY DEF Turn
<1>2. Living(p)' /\ Announced(p)' /\ Quarantining(p)'
  BY DEF Living, Alive, Ended, Announced, Reclaiming, Aged, Quarantining
<1>3. Observed(p)' /\ Dropping(p)'
  BY DEF Observed, Reclaimable, Aged, Dropping, Living, Alive, Ended
<1>4. Placed(p)' /\ Inspected(p)' /\ Entered(p)'
  BY DEF Placed, Quarantined, Exposed, Living, Alive, Ended, Inspected, Safe, NoMover,
     Entered, Inside
<1>5. QuarantineMoved(p)' /\ Abandoned(p)' /\ Raced(p)'
  BY DEF QuarantineMoved, Abandoned, Quarantined, Alive, Post, Raced, Entered, Inside,
     Safe, Exposed
<1> QED BY <1>1, <1>2, <1>3, <1>4, <1>5, TurnKeeps

LEMMA CheckRequestsKeeps ==
  ASSUME Inv, NEW p \in Callers, CheckRequests(p), TypeOK'
  PROVE  Inv'
<1> USE DEF CheckRequests, Goto, For, KeptOut, files, history, Inv, TypeOK, Own
<1>1. Turn(p) /\ (pc'[p] = "move" => Reclaimable(lock))
  BY DEF Turn
<1>2. Living(p)' /\ Announced(p)' /\ Quarantining(p)'
  BY DEF Living, Alive, Ended, Announced, Reclaiming, Aged, Quarantining
<1>3. Observed(p)' /\ Dropping(p)'
  BY DEF Observed, Reclaimable, Aged, Dropping, Living, Alive, Ended
<1>4. Placed(p)' /\ Inspected(p)' /\ Entered(p)'
  BY ReservationConstants DEF Placed, Quarantined, Exposed, Living, Alive, Ended,
     Inspected, Safe, NoMover, Entered, Inside, Announced, Reclaiming, Quarantining
<1>5. QuarantineMoved(p)' /\ Abandoned(p)' /\ Raced(p)'
  BY DEF QuarantineMoved, Abandoned, Quarantined, Alive, Post, Raced, Entered, Inside,
     Safe, Exposed
<1> QED BY <1>1, <1>2, <1>3, <1>4, <1>5, TurnKeeps

LEMMA CheckQuarantinesKeeps ==
  ASSUME Inv, NEW p \in Callers, CheckQuarantines(p), TypeOK'
  PROVE  Inv'
<1> USE DEF CheckQuarantines, Goto, For, KeptOut, files, history, Inv, TypeOK, Own
<1>1. Turn(p) /\ (pc'[p] = "move" => Reclaimable(lock))
  BY DEF Turn
<1>2. Living(p)' /\ Announced(p)' /\ Quarantining(p)'
  BY DEF Living, Alive, Ended, Announced, Reclaiming, Aged, Quarantining
<1>3. Observed(p)' /\ Dropping(p)'
  BY DEF Observed, Reclaimable, Aged, Dropping, Living, Alive, Ended
<1>4. Placed(p)' /\ Inspected(p)' /\ Entered(p)'
  BY ReservationConstants DEF Placed, Quarantined, Exposed, Living, Alive, Ended,
     Inspected, Safe, NoMover, Entered, Inside, Quarantines
<1>5. QuarantineMoved(p)' /\ Abandoned(p)' /\ Raced(p)'
  BY DEF QuarantineMoved, Abandoned, Quarantined, Alive, Post, Raced, Entered, Inside,
     Safe, Exposed
<1> QED BY <1>1, <1>2, <1>3, <1>4, <1>5, TurnKeeps

LEMMA TryAgainKeeps ==
  ASSUME Inv, NEW p \in Callers, TryAgain(p), TypeOK'
  PROVE  Inv'
<1> USE DEF TryAgain, Goto, files, history, Inv, TypeOK, Own
<1>1. Turn(p) /\ (pc'[p] = "move" => Reclaimable(lock))
  BY DEF Turn
<1>2. Living(p)' /\ Announced(p)' /\ Quarantining(p)'
  BY DEF Living, Alive, Ended, Announced, Reclaiming, Aged, Quarantining
<1>3. Observed(p)' /\ Dropping(p)'
  BY DEF Observed, Reclaimable, Aged, Dropping, Living, Alive, Ended
<1>4. Placed(p)' /\ Inspected(p)' /\ Entered(p)'
  BY DEF Placed, Quarantined, Exposed, Living, Alive, Ended, Inspected, Safe, NoMover,
     Entered, Inside
<1>5. QuarantineMoved(p)' /\ Abandoned(p)' /\ Raced(p)'
  BY DEF QuarantineMoved, Abandoned, Quarantined, Alive, Post, Raced, Entered, Inside,
     Safe, Exposed
<1> QED BY <1>1, <1>2, <1>3, <1>4, <1>5, TurnKeeps

LEMMA TimeOutKeeps ==
  ASSUME Inv, NEW p \in Callers, TimeOut(p), TypeOK'
  PROVE  Inv'
<1> USE DEF TimeOut, End, Goto, For, files, history, Inv, TypeOK, Own
<1>1. Turn(p) /\ (pc'[p] = "move" => Reclaimable(lock))
  BY DEF Turn
<1>2. Living(p)' /\ Announced(p)' /\ Quarantining(p)'
  BY DEF Living, Alive, Ended, Announced, Reclaiming, Aged, Quarantining
<1>3. Observed(p)' /\ Dropping(p)'
  BY DEF Observed, Reclaimable, Aged, Dropping, Living, Alive, Ended
<1>4. Placed(p)' /\ Inspected(p)' /\ Entered(p)'
  BY DEF Placed, Quarantined, Exposed, Living, Alive, Ended, Inspected, Safe, NoMover,
     Entered, Inside
<1>5. QuarantineMoved(p)' /\ Abandoned(p)' /\ Raced(p)'
  BY DEF QuarantineMoved, Abandoned, Quarantined, Alive, Post, Raced, Entered, Inside,
     Safe, Exposed
<1> QED BY <1>1, <1>2, <1>3, <1>4, <1>5, TurnKeeps

LEMMA CheckKeeps ==
  ASSUME Inv, NEW p \in Callers, Check(p), TypeOK'
  PROVE  Inv'
<1> USE DEF Check, Goto, For, files, history, Inv, TypeOK, Own
<1>1. Turn(p) /\ (pc'[p] = "move" => Reclaimable(lock))
  BY DEF Turn
<1>2. Living(p)' /\ Announced(p)' /\ Quarantining(p)'
  BY DEF Living, Alive, Ended, Announced, Reclaiming, Aged, Quarantining
<1>3. Observed(p)' /\ Dropping(p)'
  BY DEF Observed, Reclaimable, Aged, Dropping, Living, Alive, Ended
<1>4. Placed(p)' /\ Inspected(p)' /\ Entered(p)'
  BY DEF Placed, Quarantined, Exposed, Living, Alive, Ended, Inspected, Safe, NoMover,
     Entered, Inside
<1>5. QuarantineMoved(p)' /\ Abandoned(p)' /\ Raced(p)'
  BY DEF QuarantineMoved, Abandoned, Quarantined, Alive, Post, Raced, Entered, Inside,
     Safe, Exposed
<1> QED BY <1>1, <1>2, <1>3, <1>4, <1>5, TurnKeeps

LEMMA OperationThrowsKeeps ==
  ASSUME Inv, NEW p \in Callers, OperationThrows(p), TypeOK'
  PROVE  Inv'
<1> USE DEF OperationThrows, Goto, For, files, history, Inv, TypeOK, Own
<1>1. Turn(p) /\ (pc'[p] = "move" => Reclaimable(lock))
  BY DEF Turn
<1>2. Living(p)' /\ Announced(p)' /\ Quarantining(p)'
  BY DEF Living, Alive, Ended, Announced, Reclaiming, Aged, Quarantining
<1>3. Observed(p)' /\ Dropping(p)'
  BY DEF Observed, Reclaimable, Aged, Dropping, Living, Alive, Ended
<1>4. Placed(p)' /\ Inspected(p)' /\ Entered(p)'
  BY DEF Placed, Quarantined, Exposed, Living, Alive, Ended, Inspected, Safe, NoMover,
     Entered, Inside
<1>5. QuarantineMoved(p)' /\ Abandoned(p)' /\ Raced(p)'
  BY DEF QuarantineMoved, Abandoned, Quarantined, Alive, Post, Raced, Entered, Inside,
     Safe, Exposed
<1> QED BY <1>1, <1>2, <1>3, <1>4, <1>5, TurnKeeps

LEMMA ReadOwnKeeps ==
  ASSUME Inv, NEW p \in Callers, ReadOwn(p), TypeOK'
  PROVE  Inv'
<1> USE DEF ReadOwn, Goto, RemovalFails, End, For, files, history, Inv, TypeOK, Own
<1>1. Turn(p) /\ (pc'[p] = "move" => Reclaimable(lock))
  BY DEF Turn
<1>2. Living(p)' /\ Announced(p)' /\ Quarantining(p)'
  BY DEF Living, Alive, Ended, Announced, Reclaiming, Aged, Quarantining
<1>3. Observed(p)' /\ Dropping(p)'
  BY DEF Observed, Reclaimable, Aged, Dropping, Living, Alive, Ended
<1>4. Placed(p)' /\ Inspected(p)' /\ Entered(p)'
  BY DEF Placed, Quarantined, Exposed, Living, Alive, Ended, Inspected, Safe, NoMover,
     Entered, Inside
<1>5. QuarantineMoved(p)' /\ Abandoned(p)' /\ Raced(p)'
  BY DEF QuarantineMoved, Abandoned, Quarantined, Alive, Post, Raced, Entered, Inside,
     Safe, Exposed
<1> QED BY <1>1, <1>2, <1>3, <1>4, <1>5, TurnKeeps

LEMMA ObserveKeeps ==
  ASSUME Inv, NEW p \in Callers, Observe(p), TypeOK'
  PROVE  Inv'
<1> USE DEF Observe, Goto, For, files, history, Inv, TypeOK, Own
<1>1. Turn(p) /\ (pc'[p] = "move" => Reclaimable(lock))
  BY DEF Turn
<1>2. Living(p)' /\ Announced(p)' /\ Quarantining(p)'
  BY DEF Living, Alive, Ended, Announced, Reclaiming, Aged, Quarantining
<1>3. Observed(p)' /\ Dropping(p)'
  BY DEF Observed, Reclaimable, Aged, Dropping, Living, Alive, Ended
<1>4. Placed(p)' /\ Inspected(p)' /\ Entered(p)'
  BY DEF Placed, Quarantined, Exposed, Living, Alive, Ended, Inspected, Safe, NoMover,
     Entered, Inside
<1>5. QuarantineMoved(p)' /\ Abandoned(p)' /\ Raced(p)'
  BY DEF QuarantineMoved, Abandoned, Quarantined, Alive, Post, Raced, Entered, Inside,
     Safe, Exposed
<1> QED BY <1>1, <1>2, <1>3, <1>4, <1>5, TurnKeeps

LEMMA LookQuarantineKeeps ==
  ASSUME Inv, NEW p \in Callers, NEW r \in Callers, LookQuarantine(p, r), TypeOK'
  PROVE  Inv'
<1> USE DEF LookQuarantine, Goto, files, history, Inv, TypeOK, Own
<1>1. Turn(p) /\ (pc'[p] = "move" => Reclaimable(lock))
  BY DEF Turn
<1>2. Living(p)' /\ Announced(p)' /\ Quarantining(p)'
  BY DEF Living, Alive, Ended, Announced, Reclaiming, Aged, Quarantining
<1>3. Observed(p)' /\ Dropping(p)'
  BY DEF Observed, Reclaimable, Aged, Dropping, Living, Alive, Ended
<1>4. Placed(p)' /\ Inspected(p)' /\ Entered(p)'
  BY DEF Placed, Quarantined, Exposed, Living, Alive, Ended, Inspected, Safe, NoMover,
     Entered, Inside
<1>5. QuarantineMoved(p)' /\ Abandoned(p)' /\ Raced(p)'
  BY DEF QuarantineMoved, Abandoned, Quarantined, Alive, Post, Raced, Entered, Inside,
     Safe, Exposed
<1> QED BY <1>1, <1>2, <1>3, <1>4, <1>5, TurnKeeps

-----------------------------------------------------------------------------
(* Steps that change the directory, or the life of a process.                *)

LEMMA ReapRequestKeeps ==
  ASSUME Inv, NEW p \in Callers, NEW r \in Callers, ReapRequest(p, r), TypeOK'
  PROVE  Inv'
<1> USE DEF ReapRequest, End, Goto, For, files, history, Inv, TypeOK, Own
<1>1. ASSUME NEW q \in Callers
      PROVE  Own(q)'
  <2>1. Living(q)' /\ Announced(q)' /\ Quarantining(q)'
    BY DEF Living, Alive, Ended, Announced, Reclaiming, Aged, Quarantining
  <2>2. Observed(q)' /\ Dropping(q)'
    BY DEF Observed, Reclaimable, Aged, Dropping, Living, Alive, Ended
  <2>3. Placed(q)'
    BY DEF Placed, Quarantined, Exposed, Living, Alive, Ended
  <2>4. Inspected(q)'
    BY DEF Inspected, Safe, NoMover, Exposed, Living, Alive, Ended
  <2>5. Entered(q)'
    BY DEF Entered, Inside, Safe, NoMover, Exposed, Living, Alive, Ended
  <2>6. QuarantineMoved(q)' /\ Abandoned(q)'
    BY DEF QuarantineMoved, Abandoned, Quarantined, Alive, Post
  <2>7. Raced(q)'
    BY DEF Raced, Entered, Inside, Safe, Exposed
  <2> QED BY <2>1, <2>2, <2>3, <2>4, <2>5, <2>6, <2>7
<1>2. Contested' /\ IsFiniteSet(written)'
  BY DEF Contested, Exposed
<1> QED BY <1>1, <1>2

LEMMA DropQuarantineKeeps ==
  ASSUME Inv, NEW p \in Callers, DropQuarantine(p), TypeOK'
  PROVE  Inv'
<1> USE DEF DropQuarantine, End, Goto, For, files, history, Inv, TypeOK, Own
<1>1. ASSUME NEW q \in Callers
      PROVE  Own(q)'
  <2>1. Living(q)' /\ Announced(q)' /\ Quarantining(q)'
    BY DEF Living, Alive, Ended, Announced, Reclaiming, Aged, Quarantining
  <2>2. Observed(q)' /\ Dropping(q)'
    BY DEF Observed, Reclaimable, Aged, Dropping, Living, Alive, Ended
  <2>3. Placed(q)'
    BY ReservationConstants DEF Placed, Quarantined, Exposed, Living, Alive, Ended,
       Dropping, Reclaimable, Aged
  <2>4. Inspected(q)'
    BY ReservationConstants DEF Inspected, Safe, NoMover, Exposed, Living, Alive, Ended,
       Dropping, Reclaimable, Aged
  <2>5. Entered(q)'
    BY ReservationConstants DEF Entered, Inside, Safe, NoMover, Exposed, Living, Alive,
       Ended
  <2>6. QuarantineMoved(q)' /\ Abandoned(q)'
    BY ReservationConstants DEF QuarantineMoved, Abandoned, Quarantined, Alive, Post
  <2>7. Raced(q)'
    BY DEF Raced, Entered, Inside, Safe, Exposed
  <2> QED BY <2>1, <2>2, <2>3, <2>4, <2>5, <2>6, <2>7
<1>2. Contested' /\ IsFiniteSet(written)'
  BY DEF Contested, Exposed
<1> QED BY <1>1, <1>2

LEMMA RestoreQuarantineKeeps ==
  ASSUME Inv, NEW p \in Callers, RestoreQuarantine(p), TypeOK'
  PROVE  Inv'
<1> USE DEF RestoreQuarantine, Goto, Displaced, Disturbed, files, history, Inv, TypeOK, Own
<1>1. ASSUME NEW q \in Callers
      PROVE  Own(q)'
  <2>1. Living(q)' /\ Announced(q)' /\ Quarantining(q)'
    BY DEF Living, Alive, Ended, Announced, Reclaiming, Aged, Quarantining
  <2>2. Observed(q)' /\ Dropping(q)'
    BY DEF Observed, Reclaimable, Aged, Dropping, Living, Alive, Ended
  <2>3. Placed(q)'
    BY ReservationConstants DEF Placed, Quarantined, Exposed, Living, Alive, Ended
  <2>4. Inspected(q)'
    BY ReservationConstants DEF Inspected, Safe, NoMover, Exposed, Living, Alive, Ended
  <2>5. Entered(q)'
    BY ReservationConstants DEF Entered, Inside, Safe, NoMover, Exposed, Living, Alive,
       Ended
  <2>6. QuarantineMoved(q)' /\ Abandoned(q)'
    BY ReservationConstants DEF QuarantineMoved, Abandoned, Quarantined, Alive, Post
  <2>7. Raced(q)'
    BY DEF Raced, Entered, Inside, Safe, Exposed
  <2> QED BY <2>1, <2>2, <2>3, <2>4, <2>5, <2>6, <2>7
<1>2. Contested' /\ IsFiniteSet(written)'
  BY DEF Contested, Exposed
<1> QED BY <1>1, <1>2

LEMMA LinkKeeps ==
  ASSUME Inv, NEW p \in Callers, Link(p), TypeOK'
  PROVE  Inv'
<1> USE DEF Link, Goto, For, files, history, Inv, TypeOK, Own
<1>1. ASSUME NEW q \in Callers
      PROVE  Own(q)'
  <2>1. Living(q)' /\ Announced(q)' /\ Quarantining(q)'
    BY DEF Living, Alive, Ended, Announced, Reclaiming, Aged, Quarantining
  <2>2. Observed(q)' /\ Dropping(q)'
    BY DEF Observed, Reclaimable, Aged, Dropping, Living, Alive, Ended
  <2>3. Placed(q)'
    BY ReservationConstants DEF Placed, Quarantined, Exposed, Living, Alive, Ended
  <2>4. Inspected(q)'
    BY ReservationConstants DEF Inspected, Safe, NoMover, Exposed, Living, Alive, Ended
  <2>5. Entered(q)'
    BY ReservationConstants DEF Entered, Inside, Safe, NoMover, Exposed, Living, Alive,
       Ended
  <2>6. QuarantineMoved(q)' /\ Abandoned(q)'
    BY DEF QuarantineMoved, Abandoned, Quarantined, Alive, Post
  <2>7. Raced(q)'
    BY DEF Raced, Entered, Inside, Safe, Exposed
  <2> QED BY <2>1, <2>2, <2>3, <2>4, <2>5, <2>6, <2>7
<1>2. Contested' /\ IsFiniteSet(written)'
  BY DEF Contested, Exposed
<1> QED BY <1>1, <1>2

LEMMA StagingStuckKeeps ==
  ASSUME Inv, NEW p \in Callers, StagingStuck(p), TypeOK'
  PROVE  Inv'
<1> USE DEF StagingStuck, Goto, For, End, files, history, Inv, TypeOK, Own
<1>1. ASSUME NEW q \in Callers
      PROVE  Own(q)'
  <2>1. Living(q)' /\ Announced(q)' /\ Quarantining(q)'
    BY DEF Living, Alive, Ended, Announced, Reclaiming, Aged, Quarantining
  <2>2. Observed(q)' /\ Dropping(q)'
    BY DEF Observed, Reclaimable, Aged, Dropping, Living, Alive, Ended
  <2>3. Placed(q)'
    BY ReservationConstants DEF Placed, Quarantined, Exposed, Living, Alive, Ended
  <2>4. Inspected(q)'
    BY ReservationConstants DEF Inspected, Safe, NoMover, Exposed, Living, Alive, Ended
  <2>5. Entered(q)'
    BY ReservationConstants DEF Entered, Inside, Safe, NoMover, Exposed, Living, Alive,
       Ended
  <2>6. QuarantineMoved(q)' /\ Abandoned(q)'
    BY DEF QuarantineMoved, Abandoned, Quarantined, Alive, Post
  <2>7. Raced(q)'
    BY DEF Raced, Entered, Inside, Safe, Exposed
  <2> QED BY <2>1, <2>2, <2>3, <2>4, <2>5, <2>6, <2>7
<1>2. Contested' /\ IsFiniteSet(written)'
  BY DEF Contested, Exposed
<1> QED BY <1>1, <1>2

LEMMA WriteKeeps ==
  ASSUME Inv, NEW p \in Callers, Write(p), TypeOK'
  PROVE  Inv'
<1> USE DEF Write, Goto, For, files, history, Inv, TypeOK, Own
<1>1. ASSUME NEW q \in Callers
      PROVE  Own(q)'
  <2>1. Living(q)' /\ Announced(q)' /\ Quarantining(q)'
    BY DEF Living, Alive, Ended, Announced, Reclaiming, Aged, Quarantining
  <2>2. Observed(q)' /\ Dropping(q)'
    BY DEF Observed, Reclaimable, Aged, Dropping, Living, Alive, Ended
  <2>3. Placed(q)'
    BY DEF Placed, Quarantined, Exposed, Living, Alive, Ended
  <2>4. Inspected(q)'
    BY DEF Inspected, Safe, NoMover, Exposed, Living, Alive, Ended
  <2>5. Entered(q)'
    BY DEF Entered, Inside, Safe, NoMover, Exposed, Living, Alive, Ended
  <2>6. QuarantineMoved(q)' /\ Abandoned(q)'
    BY DEF QuarantineMoved, Abandoned, Quarantined, Alive, Post
  <2>7. Raced(q)'
    BY DEF Raced, Entered, Inside, Safe, Exposed
  <2> QED BY <2>1, <2>2, <2>3, <2>4, <2>5, <2>6, <2>7
<1>2. Contested' /\ IsFiniteSet(written)'
  BY FS_AddElement DEF Contested, Exposed, Raced, Displaced
<1> QED BY <1>1, <1>2

LEMMA RemoveOwnKeeps ==
  ASSUME Inv, NEW p \in Callers, RemoveOwn(p), TypeOK'
  PROVE  Inv'
<1> USE DEF RemoveOwn, Goto, For, End, RemovalFails, Displaced, Disturbed, files, history, Inv, TypeOK, Own
<1>1. ASSUME NEW q \in Callers
      PROVE  Own(q)'
  <2>1. Living(q)' /\ Announced(q)' /\ Quarantining(q)'
    BY DEF Living, Alive, Ended, Announced, Reclaiming, Aged, Quarantining
  <2>2. Observed(q)' /\ Dropping(q)'
    BY DEF Observed, Reclaimable, Aged, Dropping, Living, Alive, Ended
  <2>3. Placed(q)'
    BY DEF Placed, Quarantined, Exposed, Living, Alive, Ended
  <2>4. Inspected(q)'
    BY DEF Inspected, Safe, NoMover, Exposed, Living, Alive, Ended
  <2>5. Entered(q)'
    BY DEF Entered, Inside, Safe, NoMover, Exposed, Living, Alive, Ended
  <2>6. QuarantineMoved(q)' /\ Abandoned(q)'
    BY ReservationConstants DEF QuarantineMoved, Abandoned, Quarantined, Alive, Post
  <2>7. Raced(q)'
    BY DEF Raced, Entered, Inside, Safe, Exposed
  <2> QED BY <2>1, <2>2, <2>3, <2>4, <2>5, <2>6, <2>7
<1>2. Contested' /\ IsFiniteSet(written)'
  BY DEF Contested, Exposed
<1> QED BY <1>1, <1>2

LEMMA RequestKeeps ==
  ASSUME Inv, NEW p \in Callers, Request(p), TypeOK'
  PROVE  Inv'
<1> USE DEF Request, Goto, files, history, Inv, TypeOK, Own
<1>1. ASSUME NEW q \in Callers
      PROVE  Own(q)'
  <2>1. Living(q)' /\ Announced(q)' /\ Quarantining(q)'
    BY DEF Living, Alive, Ended, Announced, Reclaiming, Aged, Quarantining
  <2>2. Observed(q)' /\ Dropping(q)'
    BY DEF Observed, Reclaimable, Aged, Dropping, Living, Alive, Ended
  <2>3. Placed(q)'
    BY DEF Placed, Quarantined, Exposed, Living, Alive, Ended
  <2>4. Inspected(q)'
    BY DEF Inspected, Safe, NoMover, Exposed, Living, Alive, Ended
  <2>5. Entered(q)'
    BY DEF Entered, Inside, Safe, NoMover, Exposed, Living, Alive, Ended
  <2>6. QuarantineMoved(q)' /\ Abandoned(q)'
    BY DEF QuarantineMoved, Abandoned, Quarantined, Alive, Post
  <2>7. Raced(q)'
    BY DEF Raced, Entered, Inside, Safe, Exposed
  <2> QED BY <2>1, <2>2, <2>3, <2>4, <2>5, <2>6, <2>7
<1>2. Contested' /\ IsFiniteSet(written)'
  BY DEF Contested, Exposed
<1> QED BY <1>1, <1>2

LEMMA MoveKeeps ==
  ASSUME Inv, NEW p \in Callers, Move(p), TypeOK'
  PROVE  Inv'
<1> USE DEF Move, Goto, For, Disturbed, files, history, Inv, TypeOK, Own
<1>1. ASSUME NEW q \in Callers
      PROVE  Own(q)'
  <2>1. Living(q)' /\ Announced(q)' /\ Quarantining(q)'
    BY DEF Living, Alive, Ended, Announced, Reclaiming, Aged, Quarantining
  <2>2. Observed(q)' /\ Dropping(q)'
    BY DEF Observed, Reclaimable, Aged, Dropping, Living, Alive, Ended
  <2>3. Placed(q)'
    BY ReservationConstants DEF Placed, Quarantined, Exposed, Living, Alive, Ended,
       Quarantining
  <2>4. Inspected(q)'
    BY ReservationConstants DEF Inspected, Safe, NoMover, Exposed, Living, Alive, Ended
  <2>5. Entered(q)'
    BY ReservationConstants DEF Entered, Inside, Safe, NoMover, Exposed, Living, Alive,
       Ended
  <2>6. QuarantineMoved(q)' /\ Abandoned(q)'
    BY ReservationConstants DEF QuarantineMoved, Abandoned, Quarantined, Alive, Post
  <2>7. Raced(q)'
    BY DEF Raced, Entered, Inside, Safe, Exposed
  <2> QED BY <2>1, <2>2, <2>3, <2>4, <2>5, <2>6, <2>7
<1>2. Contested' /\ IsFiniteSet(written)'
  BY DEF Contested, Exposed
<1> QED BY <1>1, <1>2

LEMMA VerifyKeeps ==
  ASSUME Inv, NEW p \in Callers, Verify(p), TypeOK'
  PROVE  Inv'
<1> USE DEF Verify, Goto, For, Displaced, Disturbed, files, history, Inv, TypeOK, Own
<1>1. ASSUME NEW q \in Callers
      PROVE  Own(q)'
  <2>1. Living(q)' /\ Announced(q)' /\ Quarantining(q)'
    BY DEF Living, Alive, Ended, Announced, Reclaiming, Aged, Quarantining
  <2>2. Observed(q)' /\ Dropping(q)'
    BY DEF Observed, Reclaimable, Aged, Dropping, Living, Alive, Ended
  <2>3. Placed(q)'
    BY ReservationConstants DEF Placed, Quarantined, Exposed, Living, Alive, Ended,
       Observed, Reclaimable, Aged
  <2>4. Inspected(q)'
    BY ReservationConstants DEF Inspected, Safe, NoMover, Exposed, Living, Alive, Ended
  <2>5. Entered(q)'
    BY ReservationConstants DEF Entered, Inside, Safe, NoMover, Exposed, Living, Alive,
       Ended
  <2>6. QuarantineMoved(q)' /\ Abandoned(q)'
    BY ReservationConstants DEF QuarantineMoved, Abandoned, Quarantined, Alive, Post
  <2>7. Raced(q)'
    BY DEF Raced, Entered, Inside, Safe, Exposed
  <2> QED BY <2>1, <2>2, <2>3, <2>4, <2>5, <2>6, <2>7
<1>2. Contested' /\ IsFiniteSet(written)'
  BY DEF Contested, Exposed
<1> QED BY <1>1, <1>2

LEMMA WithdrawKeeps ==
  ASSUME Inv, NEW p \in Callers, Withdraw(p), TypeOK'
  PROVE  Inv'
<1> USE DEF Withdraw, Goto, For, files, history, Inv, TypeOK, Own
<1>1. ASSUME NEW q \in Callers
      PROVE  Own(q)'
  <2>1. Living(q)' /\ Announced(q)' /\ Quarantining(q)'
    BY DEF Living, Alive, Ended, Announced, Reclaiming, Aged, Quarantining
  <2>2. Observed(q)' /\ Dropping(q)'
    BY DEF Observed, Reclaimable, Aged, Dropping, Living, Alive, Ended
  <2>3. Placed(q)'
    BY DEF Placed, Quarantined, Exposed, Living, Alive, Ended
  <2>4. Inspected(q)'
    BY DEF Inspected, Safe, NoMover, Exposed, Living, Alive, Ended
  <2>5. Entered(q)'
    BY DEF Entered, Inside, Safe, NoMover, Exposed, Living, Alive, Ended
  <2>6. QuarantineMoved(q)' /\ Abandoned(q)'
    BY DEF QuarantineMoved, Abandoned, Quarantined, Alive, Post
  <2>7. Raced(q)'
    BY DEF Raced, Entered, Inside, Safe, Exposed
  <2> QED BY <2>1, <2>2, <2>3, <2>4, <2>5, <2>6, <2>7
<1>2. Contested' /\ IsFiniteSet(written)'
  BY DEF Contested, Exposed
<1> QED BY <1>1, <1>2

LEMMA CrashKeeps ==
  ASSUME Inv, NEW p \in Callers, Crash(p), TypeOK'
  PROVE  Inv'
<1> USE DEF Crash, End, Goto, For, files, history, Inv, TypeOK, Own
<1>1. ASSUME NEW q \in Callers
      PROVE  Own(q)'
  <2>1. Living(q)' /\ Announced(q)' /\ Quarantining(q)'
    BY DEF Living, Alive, Ended, Announced, Reclaiming, Aged, Quarantining
  <2>2. Observed(q)' /\ Dropping(q)'
    BY DEF Observed, Reclaimable, Aged, Dropping, Living, Alive, Ended
  <2>3. Placed(q)'
    BY DEF Placed, Quarantined, Exposed, Living, Alive, Ended
  <2>4. Inspected(q)'
    BY DEF Inspected, Safe, NoMover, Exposed, Living, Alive, Ended
  <2>5. Entered(q)'
    BY DEF Entered, Inside, Safe, NoMover, Exposed, Living, Alive, Ended
  <2>6. QuarantineMoved(q)' /\ Abandoned(q)'
    BY DEF QuarantineMoved, Abandoned, Quarantined, Alive, Post
  <2>7. Raced(q)'
    BY DEF Raced, Entered, Inside, Safe, Exposed
  <2> QED BY <2>1, <2>2, <2>3, <2>4, <2>5, <2>6, <2>7
<1>2. Contested' /\ IsFiniteSet(written)'
  BY DEF Contested, Exposed
<1> QED BY <1>1, <1>2

LEMMA GrowsOldKeeps ==
  ASSUME Inv, NEW p \in Callers, GrowsOld(p), TypeOK'
  PROVE  Inv'
<1> USE DEF GrowsOld, control, files, history, Inv, TypeOK, Own
<1>1. ASSUME NEW q \in Callers
      PROVE  Own(q)'
  <2>1. Living(q)' /\ Announced(q)' /\ Quarantining(q)'
    BY DEF Living, Alive, Ended, Announced, Reclaiming, Aged, Quarantining
  <2>2. Observed(q)' /\ Dropping(q)'
    BY DEF Observed, Reclaimable, Aged, Dropping, Living, Alive, Ended
  <2>3. Placed(q)'
    BY DEF Placed, Quarantined, Exposed, Living, Alive, Ended
  <2>4. Inspected(q)'
    BY DEF Inspected, Safe, NoMover, Exposed, Living, Alive, Ended
  <2>5. Entered(q)'
    BY DEF Entered, Inside, Safe, NoMover, Exposed, Living, Alive, Ended
  <2>6. QuarantineMoved(q)' /\ Abandoned(q)'
    BY DEF QuarantineMoved, Abandoned, Quarantined, Alive, Post
  <2>7. Raced(q)'
    BY DEF Raced, Entered, Inside, Safe, Exposed
  <2> QED BY <2>1, <2>2, <2>3, <2>4, <2>5, <2>6, <2>7
<1>2. Contested' /\ IsFiniteSet(written)'
  BY DEF Contested, Exposed
<1> QED BY <1>1, <1>2

-----------------------------------------------------------------------------
(* The theorems.                                                             *)

LEMMA InvInit == Init => Inv
<1> SUFFICES ASSUME Init PROVE Inv
  OBVIOUS
<1> USE ReservationConstants DEF Init
<1>1. TypeOK
  BY DEF TypeOK, Owners
<1>2. IsFiniteSet(written) /\ Contested
  BY FS_EmptySet DEF Contested
<1>3. ASSUME NEW p \in Callers
      PROVE  Own(p)
  <2>1. Living(p) /\ Announced(p) /\ Quarantining(p) /\ Observed(p) /\ Dropping(p)
    BY DEF Living, Announced, Quarantining, Observed, Dropping, Alive, Reclaiming
  <2>2. Placed(p) /\ Inspected(p) /\ Entered(p)
    BY DEF Placed, Inspected, Entered, Inside
  <2>3. QuarantineMoved(p) /\ Abandoned(p) /\ Raced(p)
    BY DEF QuarantineMoved, Abandoned, Raced, Quarantined
  <2> QED BY <2>1, <2>2, <2>3 DEF Own
<1> QED BY <1>1, <1>2, <1>3 DEF Inv

LEMMA InvStep == Inv /\ [Next]_vars => Inv'
<1> SUFFICES ASSUME Inv, [Next]_vars PROVE Inv'
  OBVIOUS
<1>1. TypeOK'
  BY TypeStep DEF Inv
<1>2. ASSUME NEW p \in Callers, ListRequests(p)
      PROVE  Inv'
  BY <1>1, <1>2, ListRequestsKeeps
<1>3. ASSUME NEW p \in Callers, ListQuarantines(p)
      PROVE  Inv'
  BY <1>1, <1>3, ListQuarantinesKeeps
<1>4. ASSUME NEW p \in Callers, Reconciled(p)
      PROVE  Inv'
  BY <1>1, <1>4, ReconciledKeeps
<1>5. ASSUME NEW p \in Callers, CheckRequests(p)
      PROVE  Inv'
  BY <1>1, <1>5, CheckRequestsKeeps
<1>6. ASSUME NEW p \in Callers, CheckQuarantines(p)
      PROVE  Inv'
  BY <1>1, <1>6, CheckQuarantinesKeeps
<1>7. ASSUME NEW p \in Callers, TryAgain(p)
      PROVE  Inv'
  BY <1>1, <1>7, TryAgainKeeps
<1>8. ASSUME NEW p \in Callers, TimeOut(p)
      PROVE  Inv'
  BY <1>1, <1>8, TimeOutKeeps
<1>9. ASSUME NEW p \in Callers, Check(p)
      PROVE  Inv'
  BY <1>1, <1>9, CheckKeeps
<1>10. ASSUME NEW p \in Callers, OperationThrows(p)
      PROVE  Inv'
  BY <1>1, <1>10, OperationThrowsKeeps
<1>11. ASSUME NEW p \in Callers, ReadOwn(p)
      PROVE  Inv'
  BY <1>1, <1>11, ReadOwnKeeps
<1>12. ASSUME NEW p \in Callers, Observe(p)
      PROVE  Inv'
  BY <1>1, <1>12, ObserveKeeps
<1>13. ASSUME NEW p \in Callers, NEW r \in Callers, LookQuarantine(p, r)
      PROVE  Inv'
  BY <1>1, <1>13, LookQuarantineKeeps
<1>14. ASSUME NEW p \in Callers, NEW r \in Callers, ReapRequest(p, r)
      PROVE  Inv'
  BY <1>1, <1>14, ReapRequestKeeps
<1>15. ASSUME NEW p \in Callers, DropQuarantine(p)
      PROVE  Inv'
  BY <1>1, <1>15, DropQuarantineKeeps
<1>16. ASSUME NEW p \in Callers, RestoreQuarantine(p)
      PROVE  Inv'
  BY <1>1, <1>16, RestoreQuarantineKeeps
<1>17. ASSUME NEW p \in Callers, Link(p)
      PROVE  Inv'
  BY <1>1, <1>17, LinkKeeps
<1>18. ASSUME NEW p \in Callers, StagingStuck(p)
      PROVE  Inv'
  BY <1>1, <1>18, StagingStuckKeeps
<1>19. ASSUME NEW p \in Callers, Write(p)
      PROVE  Inv'
  BY <1>1, <1>19, WriteKeeps
<1>20. ASSUME NEW p \in Callers, RemoveOwn(p)
      PROVE  Inv'
  BY <1>1, <1>20, RemoveOwnKeeps
<1>21. ASSUME NEW p \in Callers, Request(p)
      PROVE  Inv'
  BY <1>1, <1>21, RequestKeeps
<1>22. ASSUME NEW p \in Callers, Move(p)
      PROVE  Inv'
  BY <1>1, <1>22, MoveKeeps
<1>23. ASSUME NEW p \in Callers, Verify(p)
      PROVE  Inv'
  BY <1>1, <1>23, VerifyKeeps
<1>24. ASSUME NEW p \in Callers, Withdraw(p)
      PROVE  Inv'
  BY <1>1, <1>24, WithdrawKeeps
<1>25. ASSUME NEW p \in Callers, Crash(p)
      PROVE  Inv'
  BY <1>1, <1>25, CrashKeeps
<1>26. ASSUME NEW p \in Callers, GrowsOld(p)
      PROVE  Inv'
  BY <1>1, <1>26, GrowsOldKeeps
<1>27. CASE UNCHANGED vars
  BY <1>27 DEF vars, control, files, history, Inv, TypeOK, Contested, Own, Living, Announced,
     Quarantining, Observed, Dropping, Placed, Inspected, Entered, QuarantineMoved, Abandoned,
     Raced, Alive, Post, NoMover, Quarantined, Safe, Exposed, Inside, Reclaimable, Aged
<1> QED BY <1>2, <1>3, <1>4, <1>5, <1>6, <1>7, <1>8, <1>9, <1>10, <1>11, <1>12, <1>13,
  <1>14, <1>15, <1>16, <1>17, <1>18, <1>19, <1>20, <1>21, <1>22, <1>23, <1>24, <1>25,
  <1>26, <1>27 DEF Next, Step

LEMMA Invariant == Spec => []Inv
BY InvInit, InvStep, PTL DEF Spec

\* The reservation keeps its types, also where a caller is about to drop or restore a
\* quarantine that is long gone (reconcileInterruptedReclaims).
THEOREM ReservationTyped == Spec => []TypeOK
<1>1. Inv => TypeOK
  BY DEF Inv
<1> QED BY <1>1, Invariant, PTL

\* A caller that runs its operation holds the live name, unless a rename of somebody else
\* exposed its record (withTaskCreationReservation, reclaimStaleLock).
THEOREM HolderKept == Spec => []HolderRecorded
<1>1. Inv => HolderRecorded
  BY DEF Inv, Own, Entered, Inside, Safe, HolderRecorded
<1> QED BY <1>1, Invariant, PTL

\* Of any number of callers that want the same task id, or to replace the same version of a
\* spec, two succeed only if the record of one was exposed (assertTaskCreationIdsAvailable).
THEOREM WriterAlone == Spec => []OneWriter
<1>1. ASSUME Inv PROVE OneWriter
  <2>1. CASE \E p, q \in written : p # q
    BY <1>1, <2>1 DEF Inv, Contested, OneWriter
  <2>2. CASE written = {}
    BY <2>2, FS_EmptySet DEF OneWriter
  <2>3. ASSUME NEW p \in written, \A q \in written : q = p
        PROVE  OneWriter
    <3>1. written = {p}
      BY <2>3
    <3>2. Cardinality(written) = 1
      BY <3>1, FS_Singleton
    <3> QED BY <3>2 DEF OneWriter
  <2> QED BY <2>1, <2>2, <2>3
<1> QED BY <1>1, Invariant, PTL

\* A live process whose call has ended, whatever its operation threw, holds the directory
\* only if a reclaimer moved its record away and put it back (removeOwnedLock).
THEOREM NothingLeft == Spec => []LeftBehind
<1>1. Inv => LeftBehind
  BY DEF Inv, Own, Abandoned, Alive, Post, LeftBehind
<1> QED BY <1>1, Invariant, PTL
=============================================================================
