------------------------- MODULE FederatedJobProof -------------------------
(***************************************************************************)
(* What the head node and the daemons promise about one federated job, for *)
(* any number of hosts, leases, processes, retries and daemon restarts.    *)
(*                                                                         *)
(* The first part is typing.  The second is about the processes alone: a   *)
(* pause is resumed under a grant at most once.  The third is about leases *)
(* and grants: what the head node recorded as the resumed run is the run   *)
(* the host started.  The last is about a head node whose refusals are     *)
(* looked at: there is one plain start at most, every other process        *)
(* follows another one, and a job that ended stays ended.                  *)
(***************************************************************************)
EXTENDS FederatedJob, TLAPS, FiniteSetTheorems

JobRecord == [status : Status, host : Hosts \cup {NoHost}, session : Sessions,
              active : BOOLEAN, manual : BOOLEAN]
LeaseRecord == [id : Epochs, live : BOOLEAN]
PauseRecord == [session : Sessions, state : PauseState, decision : Decisions, due : BOOLEAN,
                claim : BOOLEAN, grant : Epochs, fresh : BOOLEAN, used : BOOLEAN,
                resumed : Sessions]
Phases == {"none", "running", "paused", "decided", "ok", "bad"}
ChildRecord == [host : Hosts \cup {NoHost}, from : Sessions, epoch : Epochs,
                saved : BOOLEAN, phase : Phases]
ArmStatus == {"none", "armed", "decided", "reserved", "started", "terminal"}
ArmRecord == [session : Sessions, decision : Decisions, grant : Epochs,
              resumed : Sessions, status : ArmStatus]
ListenerRecord == [pc : Steps, epoch : Epochs, session : Sessions, old : Sessions,
                   grant : Epochs, announced : BOOLEAN,
                   outcome : {"none", "held"} \cup Terminal]
CountRecord == [epochs : Epochs, retries : Epochs, restarts : 0..MaxRestarts]

\* An execution that reports an end has one.
Outcomes ==
  \A h \in Hosts : listener[h].pc \in {"report", "close"} => listener[h].outcome \in Terminal

\* Every retry used up a lease.
RetriesBound == count.retries + (IF lease.id = 0 THEN 0 ELSE 1) <= count.epochs

Typed == TypeOK /\ Outcomes /\ RetriesBound

HeadTyped == job \in JobRecord /\ lease \in LeaseRecord /\ pause \in PauseRecord
CountTyped == count \in CountRecord /\ RetriesBound
ListenerTyped == listener \in [Hosts -> ListenerRecord] /\ Outcomes
ChildTyped == child \in [Children -> ChildRecord]
ArmTyped == arm \in [Hosts -> ArmRecord]

LEMMA TypedParts ==
  Typed <=> HeadTyped /\ CountTyped /\ ListenerTyped /\ ChildTyped /\ ArmTyped
  BY Zenon DEF Typed, TypeOK, HeadTyped, CountTyped, ListenerTyped, ChildTyped, ArmTyped,
     JobRecord, LeaseRecord, PauseRecord, ChildRecord, ArmRecord, ListenerRecord, CountRecord,
     Phases, ArmStatus

LEMMA Numbers == /\ MaxEpochs \in Nat /\ MaxChildren \in Nat /\ 0 \in Epochs /\ 0 \in Sessions
                 /\ Epochs \subseteq Nat /\ Sessions \subseteq Nat
                 /\ Children \subseteq Sessions /\ \A s \in Sessions : s # 0 => s \in Children
                 /\ 0 \notin Children
  BY JobAssumption DEF Epochs, Sessions, Children

-----------------------------------------------------------------------------
(* The listener of one host moves.                                         *)

Only(h) == \A g \in Hosts \ {h} : listener'[g] = listener[g]

LEMMA Put ==
  ASSUME ListenerTyped, NEW h \in Hosts, NEW l \in ListenerRecord,
         listener' = [listener EXCEPT ![h] = l]
  PROVE  listener'[h] = l /\ Only(h) /\ listener' \in [Hosts -> ListenerRecord]
  BY DEF ListenerTyped, Only

\* It is typed if the record it gets is.
LEMMA PutTyped ==
  ASSUME ListenerTyped, NEW h \in Hosts, listener'[h] \in ListenerRecord, Only(h),
         listener' \in [Hosts -> ListenerRecord],
         listener'[h].pc \in {"report", "close"} => listener'[h].outcome \in Terminal
  PROVE  ListenerTyped'
  BY DEF ListenerTyped, Outcomes, Only

LEMMA IdleTyped == Idle \in ListenerRecord /\ Idle.pc = "idle" /\ Idle.session = 0
                   /\ Idle.grant = 0 /\ Idle.epoch = 0 /\ Idle.old = 0
  BY Numbers DEF Idle, ListenerRecord, Steps

\* The fields of a record that goes on.
Same(l, m) == l.epoch = m.epoch /\ l.session = m.session /\ l.old = m.old /\ l.grant = m.grant

LEMMA Going ==
  ASSUME ListenerTyped, NEW h \in Hosts, NEW step \in Steps \ {"report", "close"}, Goto(h, step)
  PROVE  /\ listener'[h].pc = step /\ Same(listener'[h], listener[h]) /\ Only(h)
         /\ listener' \in [Hosts -> ListenerRecord] /\ ListenerTyped'
<1> DEFINE l == [listener[h] EXCEPT !.pc = step]
<1>1. listener[h] \in ListenerRecord
  BY DEF ListenerTyped
<1>2. l \in ListenerRecord /\ l.pc = step /\ Same(l, listener[h])
  BY <1>1 DEF ListenerRecord, Same
<1>3. listener' = [listener EXCEPT ![h] = l]
  BY DEF Goto
<1> HIDE DEF l
<1>4. listener'[h] = l /\ Only(h) /\ listener' \in [Hosts -> ListenerRecord]
  BY <1>2, <1>3, Put
<1> QED
  BY <1>2, <1>4, PutTyped

LEMMA Dropping ==
  ASSUME ListenerTyped, NEW h \in Hosts, Drop(h)
  PROVE  listener'[h] = Idle /\ Only(h) /\ listener' \in [Hosts -> ListenerRecord] /\ ListenerTyped'
<1>1. listener'[h] = Idle /\ Only(h) /\ listener' \in [Hosts -> ListenerRecord]
  BY IdleTyped, Put DEF Drop
<1> QED
  BY <1>1, IdleTyped, PutTyped

\* The step and the outcome change.
LEMMA Ending ==
  ASSUME ListenerTyped, NEW h \in Hosts, NEW step \in Steps, NEW o \in {"held"} \cup Terminal,
         step \in {"report", "close"} => o \in Terminal,
         listener' = [listener EXCEPT ![h].pc = step, ![h].outcome = o]
  PROVE  /\ listener'[h].pc = step /\ Same(listener'[h], listener[h]) /\ Only(h)
         /\ listener' \in [Hosts -> ListenerRecord] /\ ListenerTyped'
<1> DEFINE l == [listener[h] EXCEPT !.pc = step, !.outcome = o]
<1>1. listener[h] \in ListenerRecord
  BY DEF ListenerTyped
<1>2. l \in ListenerRecord /\ l.pc = step /\ Same(l, listener[h]) /\ l.outcome = o
  BY <1>1 DEF ListenerRecord, Same
<1>3. listener' = [listener EXCEPT ![h] = l]
  BY <1>1 DEF ListenerTyped
<1> HIDE DEF l
<1>4. listener'[h] = l /\ Only(h) /\ listener' \in [Hosts -> ListenerRecord]
  BY <1>2, <1>3, Put
<1> QED
  BY <1>2, <1>4, PutTyped

-----------------------------------------------------------------------------
(* The record on the head node.                                            *)

\* A lease is never issued twice: it stays, loses its life or is given up.
LeaseKept == lease'.id \in {lease.id, 0} /\ (lease'.live => lease.live /\ lease'.id = lease.id)
HeadMoved == HeadTyped' /\ LeaseKept

LEMMA NoLeaseTyped == NoLease \in LeaseRecord /\ NoLease.id = 0 /\ NoLease.live = FALSE
  BY Numbers DEF NoLease, LeaseRecord

LEMMA NoPauseTyped ==
  /\ NoPause \in PauseRecord /\ NoPause.grant = 0 /\ NoPause.state = "none"
  /\ NoPause.used = FALSE /\ NoPause.resumed = 0 /\ NoPause.session = 0
  BY Numbers DEF NoPause, PauseRecord, PauseState, Decisions

LEMMA LeaseKeeps == ASSUME HeadTyped, lease' = lease \/ lease' = NoLease PROVE LeaseKept
  BY NoLeaseTyped DEF LeaseKept, HeadTyped, LeaseRecord

LEMMA StillHead == ASSUME HeadTyped, NoReport PROVE HeadMoved
  BY LeaseKeeps DEF NoReport, HeadTyped, HeadMoved

LEMMA PlainTyped ==
  ASSUME HeadTyped, NEW h \in Hosts, NEW st \in Status, NEW s \in Sessions, ReportPlain(h, st, s)
  PROVE  HeadMoved
<1>1. CASE PlainAccepted(h, st)
  <2>1. /\ job' = [job EXCEPT !.status = st, !.host = h, !.active = TRUE,
                             !.session = IF s # 0 THEN s ELSE @]
        /\ lease' = IF st = "running" THEN lease ELSE NoLease
        /\ pause' = pause
    BY <1>1 DEF ReportPlain
  <2>2. job' \in JobRecord
    BY <2>1 DEF HeadTyped, JobRecord
  <2>3. lease' = lease \/ lease' = NoLease
    BY <2>1
  <2>4. LeaseKept
    BY <2>3, LeaseKeeps
  <2> QED
    BY <2>1, <2>2, <2>3, <2>4, NoLeaseTyped DEF HeadTyped, HeadMoved
<1>2. CASE ~PlainAccepted(h, st)
  BY <1>2, StillHead DEF ReportPlain
<1> QED
  BY <1>1, <1>2

LEMMA PauseTyped ==
  ASSUME HeadTyped, NEW h \in Hosts, NEW e, NEW s \in Sessions, ReportPause(h, e, s)
  PROVE  HeadMoved
<1>1. CASE PauseAccepted(h, e, s)
  <2>1. /\ job' = [job EXCEPT !.status = "awaiting_approval", !.active = TRUE]
        /\ pause' = [NoPause EXCEPT !.state = "attached", !.session = s]
        /\ lease' = lease
    BY <1>1 DEF ReportPause
  <2>2. job' \in JobRecord
    BY <2>1 DEF HeadTyped, JobRecord, Status
  <2>3. pause' \in PauseRecord
    BY <2>1, NoPauseTyped DEF PauseRecord, PauseState
  <2> QED
    BY <2>1, <2>2, <2>3, LeaseKeeps DEF HeadTyped, HeadMoved
<1>2. CASE ~PauseAccepted(h, e, s)
  BY <1>2, StillHead DEF ReportPause
<1> QED
  BY <1>1, <1>2

LEMMA ResumedTyped ==
  ASSUME HeadTyped, NEW h \in Hosts, NEW g, NEW s \in Sessions, ReportResumed(h, g, s)
  PROVE  HeadMoved
<1>1. CASE ResumeAccepted(h, g, s)
  <2>1. /\ job' = [job EXCEPT !.status = "running", !.session = s, !.active = TRUE]
        /\ pause' = [pause EXCEPT !.used = TRUE, !.resumed = s]
        /\ lease' = lease
    BY <1>1 DEF ReportResumed
  <2>2. job' \in JobRecord
    BY <2>1 DEF HeadTyped, JobRecord, Status
  <2>3. pause' \in PauseRecord
    BY <2>1 DEF HeadTyped, PauseRecord
  <2> QED
    BY <2>1, <2>2, <2>3, LeaseKeeps DEF HeadTyped, HeadMoved
<1>2. CASE ~ResumeAccepted(h, g, s)
  BY <1>2, StillHead DEF ReportResumed
<1> QED
  BY <1>1, <1>2

LEMMA ClosedTyped ==
  ASSUME HeadTyped, NEW h \in Hosts, NEW g, NEW s, NEW st \in Status, ReportClosed(h, g, s, st)
  PROVE  HeadMoved
<1>1. CASE CloseAccepted(h, g, s, st)
  <2>1. /\ job' = [job EXCEPT !.status = st, !.active = TRUE]
        /\ pause' = [pause EXCEPT !.used = TRUE]
        /\ lease' = NoLease
    BY <1>1 DEF ReportClosed
  <2>2. job' \in JobRecord
    BY <2>1 DEF HeadTyped, JobRecord
  <2>3. pause' \in PauseRecord
    BY <2>1 DEF HeadTyped, PauseRecord
  <2> QED
    BY <2>1, <2>2, <2>3, LeaseKeeps, NoLeaseTyped DEF HeadTyped, HeadMoved
<1>2. CASE ~CloseAccepted(h, g, s, st)
  BY <1>2, StillHead DEF ReportClosed
<1> QED
  BY <1>1, <1>2

LEMMA HandoverTyped == ASSUME HeadTyped, Handover PROVE HeadMoved
<1>1. job' \in JobRecord
  BY DEF Handover, HeadTyped, JobRecord, Status, Terminal
<1>2. pause' \in PauseRecord
  BY DEF Handover, HeadTyped, PauseRecord, PauseState
<1> QED
  BY <1>1, <1>2, LeaseKeeps, NoLeaseTyped DEF Handover, HeadTyped, HeadMoved

LEMMA ReleaseTyped == ASSUME HeadTyped, NEW h \in Hosts, ReleaseRecord(h) PROVE HeadMoved
<1>1. CASE NoReport
  BY <1>1, StillHead
<1>2. CASE pause' = [pause EXCEPT !.state = "released"] /\ lease' = NoLease /\ UNCHANGED job
  <2>1. pause' \in PauseRecord
    BY <1>2 DEF HeadTyped, PauseRecord, PauseState, Released
  <2> QED
    BY <1>2, <2>1, LeaseKeeps, NoLeaseTyped DEF HeadTyped, HeadMoved
<1> QED
  BY <1>1, <1>2 DEF ReleaseRecord

LEMMA NewLeaseTyped ==
  ASSUME HeadTyped, CountTyped, NewLease
  PROVE  /\ lease' \in LeaseRecord /\ lease'.id = count.epochs + 1 /\ lease'.live = TRUE
         /\ count'.epochs = count.epochs + 1
         /\ CountTyped'
<1>1. count \in CountRecord /\ lease \in LeaseRecord
  BY DEF HeadTyped, CountTyped
<1>2. count.epochs \in Nat /\ count.retries \in Nat /\ count.epochs + 1 \in Epochs
  BY <1>1, Numbers DEF NewLease, CountRecord, Epochs
<1>3. count' = [count EXCEPT !.epochs = count.epochs + 1]
      /\ lease' = [id |-> count.epochs + 1, live |-> TRUE]
  BY DEF NewLease
<1>4. lease' \in LeaseRecord /\ lease'.id = count.epochs + 1 /\ lease'.live = TRUE
  BY <1>2, <1>3 DEF LeaseRecord
<1>5. count' \in CountRecord /\ count'.epochs = count.epochs + 1 /\ count'.retries = count.retries
  BY <1>1, <1>2, <1>3 DEF CountRecord
<1>6. RetriesBound'
  BY <1>2, <1>4, <1>5 DEF CountTyped, RetriesBound
<1> QED
  BY <1>4, <1>5, <1>6 DEF CountTyped

LEMMA CountKept ==
  ASSUME HeadTyped, CountTyped, LeaseKept, count' = count
  PROVE  CountTyped'
<1>1. count.epochs \in Nat /\ count.retries \in Nat
  BY Numbers DEF CountTyped, CountRecord
<1>2. (IF lease'.id = 0 THEN 0 ELSE 1) <= (IF lease.id = 0 THEN 0 ELSE 1)
  BY DEF LeaseKept
<1>3. RetriesBound'
  BY <1>1, <1>2 DEF CountTyped, RetriesBound
<1> QED
  BY <1>3 DEF CountTyped

-----------------------------------------------------------------------------
(* Type correctness of each action, and what it does to its listener.      *)

Assigning == {"announce", "check", "start"}
Handshake == {"request", "claim", "ack", "install", "reserve"}

\* The execution of h ends, or goes on as what it was and outside of both handshakes.
Rests(h) ==
  /\ Only(h)
  /\ \/ listener'[h] = Idle
     \/ /\ Same(listener'[h], listener[h]) /\ listener'[h].pc \notin Assigning \cup Handshake
        /\ listener'[h].pc = "arm" => listener'[h].session # 0

\* ... or goes on at a given step.
Steps2(h, step) == Only(h) /\ Same(listener'[h], listener[h]) /\ listener'[h].pc = step

LEMMA Parts == ASSUME Typed PROVE HeadTyped /\ CountTyped /\ ListenerTyped /\ ChildTyped /\ ArmTyped
  BY TypedParts

LEMMA Whole ==
  ASSUME HeadTyped', CountTyped', ListenerTyped', ChildTyped', ArmTyped'
  PROVE  Typed'
  BY TypedParts, PTL

LEMMA Unmoved ==
  /\ (HeadTyped /\ UNCHANGED <<job, lease, pause>>) => HeadMoved
  /\ (ListenerTyped /\ UNCHANGED listener) => ListenerTyped'
  /\ (ChildTyped /\ UNCHANGED child) => ChildTyped'
  /\ (ArmTyped /\ UNCHANGED arm) => ArmTyped'
  /\ (CountTyped /\ HeadTyped /\ UNCHANGED <<lease, count>>) => CountTyped'
<1>1. (HeadTyped /\ UNCHANGED <<job, lease, pause>>) => HeadMoved
  BY StillHead DEF NoReport
<1>2. (CountTyped /\ HeadTyped /\ UNCHANGED <<lease, count>>) => CountTyped'
  BY Zenon DEF CountTyped, RetriesBound
<1> QED
  BY <1>1, <1>2, Zenon DEF ListenerTyped, Outcomes, ChildTyped, ArmTyped

\* A step that moves the head and the listeners only.
LEMMA HeadStep ==
  ASSUME Typed, HeadMoved, UNCHANGED count, ListenerTyped', ChildTyped', ArmTyped'
  PROVE  Typed'
  BY Parts, CountKept, Whole, Zenon DEF HeadMoved

\* A step that leaves the head alone.
LEMMA HostStep ==
  ASSUME Typed, UNCHANGED <<job, lease, pause, count>>, ListenerTyped', ChildTyped', ArmTyped'
  PROVE  Typed'
  BY Parts, Unmoved, HeadStep, Zenon

LEMMA StillHosts ==
  ASSUME Typed, UNCHANGED <<child, arm>>
  PROVE  ChildTyped' /\ ArmTyped'
  BY Parts, Unmoved, Zenon

LEMMA AtHost ==
  ASSUME Typed, NEW h \in Hosts
  PROVE  listener[h] \in ListenerRecord /\ arm[h] \in ArmRecord
  BY Parts DEF ListenerTyped, ArmTyped

LEMMA ListenerFields ==
  ASSUME NEW l \in ListenerRecord
  PROVE  /\ l.pc \in Steps /\ l.epoch \in Epochs /\ l.session \in Sessions /\ l.old \in Sessions
         /\ l.grant \in Epochs /\ l.announced \in BOOLEAN
         /\ l.outcome \in {"none", "held"} \cup Terminal
  BY DEF ListenerRecord

LEMMA AssignTyped == ASSUME Typed, NEW h \in Hosts, Assign(h) PROVE Typed'
<1>1. lease' \in LeaseRecord /\ CountTyped'
  BY Parts, NewLeaseTyped DEF Assign
<1>2. job' \in JobRecord
  BY Parts DEF Assign, HeadTyped, JobRecord, Status
<1>3. ListenerTyped' /\ ChildTyped' /\ ArmTyped'
  BY Parts, Unmoved, Zenon DEF Assign
<1>4. HeadTyped'
  BY <1>1, <1>2, Parts DEF Assign, HeadTyped
<1> QED
  BY <1>1, <1>3, <1>4, Whole

LEMMA JobTyped ==
  ASSUME Typed, job' \in JobRecord, UNCHANGED <<lease, pause, child, arm, listener, count>>
  PROVE  Typed'
<1>1. HeadMoved
  BY Parts, LeaseKeeps DEF HeadTyped, HeadMoved
<1> QED
  BY <1>1, Parts, Unmoved, HeadStep, Zenon

LEMMA SchedulerTyped == ASSUME Typed, Scheduler PROVE Typed'
<1>1. CASE \E h \in Hosts : Assign(h)
  BY <1>1, AssignTyped
<1>2. CASE BlockUnready
  <2>1. job' \in JobRecord
    BY <1>2, Parts DEF BlockUnready, HeadTyped, JobRecord, Status, Terminal
  <2> QED
    BY <1>2, <2>1, JobTyped DEF BlockUnready
<1>3. CASE Recheck
  <2>1. job' \in JobRecord
    BY <1>3, Parts DEF Recheck, HeadTyped, JobRecord, Status
  <2> QED
    BY <1>3, <2>1, JobTyped DEF Recheck
<1>4. CASE RecoverPause
  <2>1. HeadMoved /\ ListenerTyped' /\ ChildTyped' /\ ArmTyped' /\ UNCHANGED count
    BY <1>4, Parts, Unmoved, HandoverTyped, Zenon DEF RecoverPause
  <2> QED
    BY <2>1, HeadStep
<1>5. CASE RecoverLease
  <2>1. job' \in JobRecord
    <3>1. CASE CanRetry
      BY <1>5, <3>1, Parts DEF RecoverLease, HeadTyped, JobRecord, Status
    <3>2. CASE ~CanRetry
      BY <1>5, <3>2, Parts DEF RecoverLease, HeadTyped, JobRecord, Status, Terminal
    <3> QED
      BY <3>1, <3>2
  <2>2. HeadTyped'
    BY <1>5, <2>1, Parts, NoLeaseTyped DEF RecoverLease, HeadTyped
  <2>3. count \in CountRecord /\ count.retries + 1 <= count.epochs /\ count.epochs \in 0..MaxEpochs
        /\ count.retries \in Nat
    BY <1>5, Parts, Numbers DEF RecoverLease, CountTyped, RetriesBound, CountRecord, Epochs
  <2>4. count.retries + 1 \in Epochs
    BY <2>3, Numbers DEF Epochs
  <2>5. count' \in CountRecord /\ count'.retries = count.retries + 1 /\ count'.epochs = count.epochs
    BY <1>5, <2>3, <2>4 DEF RecoverLease, CountRecord
  <2>6. RetriesBound'
    BY <1>5, <2>3, <2>5, NoLeaseTyped DEF RecoverLease, RetriesBound
  <2>7. ListenerTyped' /\ ChildTyped' /\ ArmTyped'
    BY <1>5, Parts, Unmoved, Zenon DEF RecoverLease
  <2> QED
    BY <2>2, <2>5, <2>6, <2>7, Whole DEF CountTyped
<1> QED
  BY <1>1, <1>2, <1>3, <1>4, <1>5 DEF Scheduler

LEMMA CancelTyped == ASSUME Typed, Cancel PROVE Typed'
<1>1. job' \in JobRecord
  BY Parts DEF Cancel, HeadTyped, JobRecord, Status, Terminal
<1> QED
  BY <1>1, JobTyped DEF Cancel

LEMMA ExpiryTyped == ASSUME Typed, ExpireLease \/ ExpirePause PROVE Typed' /\ LeaseKept
<1>1. pause' \in PauseRecord
  <2>1. CASE ExpireLease
    BY <2>1, Parts DEF ExpireLease, HeadTyped, PauseRecord
  <2>2. CASE ExpirePause
    BY <2>2, Parts DEF ExpirePause, HeadTyped, PauseRecord
  <2> QED
    BY <2>1, <2>2
<1>2. lease' \in LeaseRecord /\ LeaseKept
  BY Parts DEF ExpireLease, ExpirePause, HeadTyped, LeaseRecord, LeaseKept
<1>3. HeadMoved
  BY <1>1, <1>2, Parts DEF ExpireLease, ExpirePause, HeadTyped, HeadMoved
<1>4. ListenerTyped' /\ ChildTyped' /\ ArmTyped' /\ UNCHANGED count
  BY Parts, Unmoved, Zenon DEF ExpireLease, ExpirePause
<1> QED
  BY <1>2, <1>3, <1>4, HeadStep

LEMMA ForwardTyped == ASSUME Typed, NEW s \in Children, ForwardEvents(s) PROVE Typed'
<1>1. child[s].host \in Hosts \cup {NoHost} /\ s \in Sessions
  BY Parts, Numbers DEF ChildTyped, ChildRecord
<1>2. job' \in JobRecord
  BY <1>1, Parts DEF ForwardEvents, HeadTyped, JobRecord
<1> QED
  BY <1>2, JobTyped DEF ForwardEvents

LEMMA PickAssignedTyped ==
  ASSUME Typed, NEW h \in Hosts, PickAssigned(h)
  PROVE  /\ Typed' /\ Only(h)
         /\ listener'[h].pc = "announce" /\ listener'[h].epoch = lease.id
         /\ listener'[h].grant = 0 /\ listener'[h].session = 0
<1> DEFINE l == [Idle EXCEPT !.pc = "announce", !.epoch = lease.id]
<1>1. lease.id \in Epochs
  BY Parts DEF HeadTyped, LeaseRecord
<1>2. l \in ListenerRecord /\ l.pc = "announce" /\ l.epoch = lease.id
      /\ l.grant = 0 /\ l.session = 0
  BY <1>1, IdleTyped DEF ListenerRecord, Steps
<1>3. listener' = [listener EXCEPT ![h] = l]
  BY DEF PickAssigned
<1> HIDE DEF l
<1>4. listener'[h] = l /\ Only(h) /\ listener' \in [Hosts -> ListenerRecord]
  BY <1>2, <1>3, Parts, Put
<1>5. ListenerTyped'
  BY <1>2, <1>4, Parts, PutTyped
<1>6. ChildTyped' /\ ArmTyped'
  BY StillHosts, Zenon DEF PickAssigned
<1>7. UNCHANGED <<job, lease, pause, count>>
  BY DEF PickAssigned
<1> QED
  BY <1>2, <1>4, <1>5, <1>6, <1>7, HostStep

LEMMA SomeStatus == /\ "running" \in Status /\ "failed" \in Status /\ Terminal \subseteq Status
                    /\ "failed" \in Terminal /\ "completed" \in Terminal /\ "rejected" \in Terminal
  BY DEF Status, Terminal

\* A failing execution reports.
LEMMA Failing ==
  ASSUME ListenerTyped, NEW h \in Hosts, Fail(h)
  PROVE  /\ listener'[h].pc = "report" /\ Same(listener'[h], listener[h]) /\ Only(h)
         /\ ListenerTyped' /\ Rests(h)
<1>1. /\ listener'[h].pc = "report" /\ Same(listener'[h], listener[h]) /\ Only(h)
      /\ ListenerTyped'
  BY Ending, SomeStatus DEF Fail, Steps
<1> QED
  BY <1>1 DEF Rests, Assigning, Handshake

\* An execution that goes on elsewhere, or is dropped, rests.
LEMMA Resting ==
  ASSUME ListenerTyped, NEW h \in Hosts,
         \/ Drop(h)
         \/ \E step \in {"abort", "release", "poll"} : Goto(h, step)
         \/ Goto(h, "arm") /\ listener[h].session # 0
  PROVE  Rests(h) /\ ListenerTyped'
<1>1. CASE Drop(h)
  BY <1>1, Dropping DEF Rests
<1>2. CASE \E step \in {"abort", "release", "poll"} : Goto(h, step)
  <2>1. PICK step \in {"abort", "release", "poll"} : Goto(h, step)
    BY <1>2
  <2>2. step \in Steps \ {"report", "close"}
    BY DEF Steps
  <2>3. Only(h) /\ Same(listener'[h], listener[h]) /\ listener'[h].pc = step /\ ListenerTyped'
    BY <2>1, <2>2, Going
  <2> QED
    BY <2>3 DEF Rests, Assigning, Handshake
<1>3. CASE Goto(h, "arm") /\ listener[h].session # 0
  <2>1. "arm" \in Steps \ {"report", "close"}
    BY DEF Steps
  <2>2. Only(h) /\ Same(listener'[h], listener[h]) /\ listener'[h].pc = "arm" /\ ListenerTyped'
    BY <1>3, <2>1, Going
  <2> QED
    BY <1>3, <2>2 DEF Rests, Same, Assigning, Handshake
<1> QED
  BY <1>1, <1>2, <1>3

LEMMA AnnounceTyped ==
  ASSUME Typed, NEW h \in Hosts, AnnounceRunning(h)
  PROVE  /\ Typed' /\ LeaseKept /\ UNCHANGED <<child, arm, count>>
         /\ \/ /\ Steps2(h, "check")
               /\ ReportPlain(h, "running", 0) \/ ("refuse" \in Faults /\ NoReport)
            \/ Rests(h) /\ (ReportPlain(h, "running", 0) \/ NoReport)
<1>1. HeadMoved
  BY Parts, PlainTyped, StillHead, Numbers, SomeStatus DEF AnnounceRunning
<1>2. CASE Goto(h, "check") /\ (ReportPlain(h, "running", 0) \/ ("refuse" \in Faults /\ NoReport))
  <2>1. "check" \in Steps \ {"report", "close"}
    BY DEF Steps
  <2>2. Steps2(h, "check") /\ ListenerTyped'
    BY <1>2, <2>1, Parts, Going DEF Steps2
  <2> QED
    BY <1>1, <1>2, <2>2, StillHosts, HeadStep DEF AnnounceRunning, HeadMoved
<1>3. CASE Goto(h, "abort") /\ (ReportPlain(h, "running", 0) \/ NoReport)
  <2>1. Rests(h) /\ ListenerTyped'
    BY <1>3, Parts, Resting
  <2> QED
    BY <1>1, <1>3, <2>1, StillHosts, HeadStep DEF AnnounceRunning, HeadMoved
<1> QED
  BY <1>2, <1>3 DEF AnnounceRunning

LEMMA CheckTyped ==
  ASSUME Typed, NEW h \in Hosts, CheckClaim(h)
  PROVE  /\ Typed'
         /\ \/ /\ Steps2(h, "start")
               /\ job.status \in {"assigned", "running"} /\ job.host = h
               /\ lease.id = listener[h].epoch /\ lease.live
            \/ Rests(h)
<1>1. CASE Goto(h, "start") /\ job.status \in {"assigned", "running"} /\ job.host = h
           /\ lease.id = listener[h].epoch /\ lease.live
  <2>1. "start" \in Steps \ {"report", "close"}
    BY DEF Steps
  <2>2. Steps2(h, "start") /\ ListenerTyped'
    BY <1>1, <2>1, Parts, Going DEF Steps2
  <2> QED
    BY <1>1, <2>2, StillHosts, HostStep DEF CheckClaim
<1>2. CASE Fail(h)
  BY <1>2, Parts, Failing, StillHosts, HostStep DEF CheckClaim
<1> QED
  BY <1>1, <1>2 DEF CheckClaim

\* A new process.
LEMMA Spawning ==
  ASSUME Typed, NEW h \in Hosts \cup {NoHost}, NEW from \in Sessions, NEW epoch \in Epochs,
         NewSession \in Children,
         NEW c \in [Children -> ChildRecord], 
         child' = [c EXCEPT ![NewSession] = [host |-> h, phase |-> "running", from |-> from,
                                             epoch |-> epoch, saved |-> FALSE]]
  PROVE  /\ ChildTyped'
         /\ child'[NewSession].host = h /\ child'[NewSession].phase = "running"
         /\ child'[NewSession].from = from /\ child'[NewSession].epoch = epoch
         /\ \A s \in Children : s # NewSession => child'[s] = c[s]
<1> DEFINE n == NewSession
           r == [host |-> h, phase |-> "running", from |-> from, epoch |-> epoch, saved |-> FALSE]
<1>1. r \in ChildRecord /\ r.host = h /\ r.phase = "running" /\ r.from = from /\ r.epoch = epoch
  BY DEF ChildRecord, Phases
<1>2. child' = [c EXCEPT ![n] = r] /\ n \in Children
  OBVIOUS
<1> HIDE DEF n, r
<1>3. child'[n] = r /\ \A s \in Children : s # n => child'[s] = c[s]
  BY <1>2
<1>4. child' \in [Children -> ChildRecord]
  BY <1>1, <1>2
<1> QED
  BY <1>1, <1>3, <1>4 DEF ChildTyped, n

LEMMA StartTyped ==
  ASSUME Typed, NEW h \in Hosts, StartChild(h)
  PROVE  /\ Typed' /\ UNCHANGED <<job, lease, pause, arm, count>>
         /\ \/ /\ Only(h) /\ listener'[h].pc = "poll" /\ listener'[h].session = NewSession
               /\ listener'[h].grant = listener[h].grant /\ listener'[h].old = listener[h].old
               /\ listener'[h].epoch = listener[h].epoch
               /\ Active(h) = {} /\ Spawn(h, 0, listener[h].epoch) /\ NewSession \in Children
            \/ Rests(h) /\ UNCHANGED child
<1>1. UNCHANGED <<job, lease, pause, arm, count>>
  BY DEF StartChild
<1>2. CASE Active(h) = {} /\ Spawn(h, 0, listener[h].epoch) /\ NewSession \in Children
           /\ listener' = [listener EXCEPT ![h].pc = "poll", ![h].session = NewSession]
  <2> DEFINE n == NewSession
             l == [listener[h] EXCEPT !.pc = "poll", !.session = n]
  <2>1. n \in Sessions /\ listener[h] \in ListenerRecord
    BY <1>2, Numbers, AtHost
  <2> HIDE DEF n
  <2>2. l \in ListenerRecord /\ l.pc = "poll" /\ l.session = n /\ l.grant = listener[h].grant
        /\ l.old = listener[h].old /\ l.epoch = listener[h].epoch
    BY <2>1 DEF ListenerRecord, Steps
  <2>3. listener' = [listener EXCEPT ![h] = l]
    BY <1>2, Parts DEF n, ListenerTyped
  <2> HIDE DEF l
  <2>4. listener'[h] = l /\ Only(h) /\ listener' \in [Hosts -> ListenerRecord]
    BY <2>2, <2>3, Parts, Put
  <2>5. ListenerTyped'
    BY <2>2, <2>4, Parts, PutTyped
  <2>6. ChildTyped'
    <3>1. listener[h].epoch \in Epochs /\ 0 \in Sessions /\ child \in [Children -> ChildRecord]
      BY <2>1, Numbers, Parts DEF ListenerRecord, ChildTyped
    <3> QED
      BY <1>2, <3>1, Spawning DEF Spawn
  <2>7. ArmTyped'
    BY <1>1, Parts, Unmoved
  <2>8. Typed'
    BY <1>1, <2>5, <2>6, <2>7, HostStep
  <2> QED
    BY <1>1, <1>2, <2>2, <2>4, <2>8 DEF n
<1>3. CASE Fail(h) /\ UNCHANGED child
  BY <1>1, <1>3, Parts, Failing, StillHosts, HostStep
<1> QED
  BY <1>2, <1>3 DEF StartChild

\* A process ends, stops or is decided on; none appears, none becomes active.
Working == {"running", "paused"}
Weakens ==
  \A s \in Children :
    /\ child'[s].host = child[s].host /\ child'[s].from = child[s].from
    /\ child'[s].epoch = child[s].epoch
    /\ child'[s].phase = "none" <=> child[s].phase = "none"
    /\ child'[s].phase \in Working => child[s].phase \in Working

LEMMA Rephased ==
  ASSUME Typed, NEW s \in Children, NEW phase \in Phases \ {"none"},
         child[s].phase # "none", phase \in Working => child[s].phase \in Working,
         child' = [child EXCEPT ![s].phase = phase]
  PROVE  /\ ChildTyped' /\ Weakens
         /\ child'[s].phase = phase /\ \A t \in Children : t # s => child'[t] = child[t]
<1>1. child \in [Children -> ChildRecord] /\ child[s] \in ChildRecord
  BY Parts DEF ChildTyped
<1> DEFINE c == [child[s] EXCEPT !.phase = phase]
<1>2. /\ c \in ChildRecord /\ c.phase = phase /\ c.host = child[s].host
      /\ c.from = child[s].from /\ c.epoch = child[s].epoch
  BY <1>1 DEF ChildRecord
<1>3. child' = [child EXCEPT ![s] = c]
  OBVIOUS
<1> HIDE DEF c
<1>4. child' \in [Children -> ChildRecord] /\ child'[s] = c
      /\ \A t \in Children : t # s => child'[t] = child[t]
  BY <1>1, <1>2, <1>3
<1>5. Weakens
  BY <1>2, <1>4 DEF Weakens
<1> QED
  BY <1>2, <1>4, <1>5 DEF ChildTyped

LEMMA Unweakened == ASSUME Typed, UNCHANGED child PROVE ChildTyped' /\ Weakens
  BY Parts, Unmoved DEF Weakens

LEMMA ChildStepTyped ==
  ASSUME Typed, NEW s \in Children, ChildStep(s)
  PROVE  /\ Typed' /\ Weakens /\ UNCHANGED <<job, lease, pause, arm, listener, count>>
<1>1. UNCHANGED <<job, lease, pause, arm, listener, count>> /\ child[s].phase = "running"
  BY DEF ChildStep
<1>2. ChildTyped' /\ Weakens
  <2>1. CASE child' = [child EXCEPT ![s].saved = TRUE]
    <3>1. child \in [Children -> ChildRecord] /\ child[s] \in ChildRecord
      BY Parts DEF ChildTyped
    <3> DEFINE c == [child[s] EXCEPT !.saved = TRUE]
    <3>2. /\ c \in ChildRecord /\ c.phase = child[s].phase /\ c.host = child[s].host
          /\ c.from = child[s].from /\ c.epoch = child[s].epoch
      BY <3>1 DEF ChildRecord
    <3>3. child' = [child EXCEPT ![s] = c]
      BY <2>1
    <3> HIDE DEF c
    <3>4. child' \in [Children -> ChildRecord] /\ child'[s] = c
          /\ \A t \in Children : t # s => child'[t] = child[t]
      BY <3>1, <3>2, <3>3
    <3> QED
      BY <3>2, <3>4 DEF Weakens, ChildTyped
  <2>2. CASE \E phase \in {"ok", "bad", "paused"} : child' = [child EXCEPT ![s].phase = phase]
    BY <1>1, <2>2, Rephased DEF Phases, Working
  <2> QED
    BY <2>1, <2>2 DEF ChildStep
<1>3. ListenerTyped' /\ ArmTyped'
  BY <1>1, Parts, Unmoved
<1> QED
  BY <1>1, <1>2, <1>3, HostStep

\* Steps of a listener that rests afterwards, with or without a report.
LEMMA RestTyped ==
  ASSUME Typed, NEW h \in Hosts, RenewFails(h) \/ Abort(h) \/ ReportTerminal(h) \/ Settled(h)
                                 \/ RefuseResumed(h) \/ CloseResumed(h)
  PROVE  /\ Typed' /\ Rests(h) /\ LeaseKept /\ UNCHANGED <<child, arm, count>>
         /\ \/ NoReport
            \/ \E st \in Terminal, s \in Sessions : ReportPlain(h, st, s)
            \/ \E st \in Terminal : ReportClosed(h, listener[h].grant, listener[h].session, st)
<1>1. listener[h] \in ListenerRecord
  BY AtHost
<1>2. UNCHANGED <<child, arm, count>>
  BY DEF RenewFails, Abort, ReportTerminal, Settled, RefuseResumed, CloseResumed
<1>3. Rests(h) /\ ListenerTyped'
  <2>1. CASE RenewFails(h) \/ Abort(h) \/ ReportTerminal(h) \/ RefuseResumed(h) \/ CloseResumed(h)
    BY <2>1, Resting, Parts DEF RenewFails, Abort, ReportTerminal, RefuseResumed, CloseResumed
  <2>2. CASE Settled(h)
    <3>1. PICK o \in {"completed", "failed"} :
            \/ listener' = [listener EXCEPT ![h].pc = "report", ![h].outcome = o]
            \/ listener' = [listener EXCEPT ![h].pc = "close", ![h].outcome = o]
            \/ Drop(h)
      BY <2>2 DEF Settled
    <3>2. ASSUME NEW step \in {"report", "close"},
                 listener' = [listener EXCEPT ![h].pc = step, ![h].outcome = o]
          PROVE  Rests(h) /\ ListenerTyped'
      <4>1. step \in Steps /\ o \in Terminal
        BY DEF Steps, Terminal
      <4>2. /\ listener'[h].pc = step /\ Same(listener'[h], listener[h]) /\ Only(h)
            /\ ListenerTyped'
        BY <3>2, <4>1, Parts, Ending
      <4> QED
        BY <4>2 DEF Rests, Assigning, Handshake
    <3> QED
      BY <3>1, <3>2, Resting, Parts
  <2> QED
    BY <2>1, <2>2
<1>4. /\ \/ NoReport
         \/ \E st \in Terminal, s \in Sessions : ReportPlain(h, st, s)
         \/ \E st \in Terminal : ReportClosed(h, listener[h].grant, listener[h].session, st)
  <2>1. CASE RenewFails(h) \/ Settled(h) \/ RefuseResumed(h)
    BY <2>1 DEF RenewFails, Settled, RefuseResumed, NoReport
  <2>2. CASE Abort(h)
    BY <2>2, SomeStatus, Numbers DEF Abort
  <2>3. CASE ReportTerminal(h)
    <3>1. listener[h].outcome \in Terminal /\ listener[h].session \in Sessions
      BY <1>1, <2>3, ListenerFields, Parts DEF ReportTerminal, ListenerTyped, Outcomes
    <3> QED
      BY <2>3, <3>1 DEF ReportTerminal
  <2>4. CASE CloseResumed(h)
    <3>1. listener[h].outcome \in Terminal
      BY <2>4, Parts DEF CloseResumed, ListenerTyped, Outcomes
    <3> QED
      BY <2>4, <3>1 DEF CloseResumed
  <2> QED
    BY <2>1, <2>2, <2>3, <2>4
<1>5. HeadMoved
  BY <1>4, Parts, StillHead, PlainTyped, ClosedTyped, SomeStatus
<1>6. Typed'
  BY <1>2, <1>3, <1>5, StillHosts, HeadStep
<1> QED
  BY <1>2, <1>3, <1>4, <1>5, <1>6 DEF HeadMoved

LEMMA RestartTyped ==
  ASSUME Typed, NEW h \in Hosts, Restart(h)
  PROVE  /\ Typed' /\ Rests(h) /\ UNCHANGED <<job, lease, pause, child, arm>>
         /\ count'.epochs = count.epochs
<1>1. UNCHANGED <<job, lease, pause, child, arm>>
  BY DEF Restart
<1>2. Rests(h) /\ ListenerTyped'
  BY Resting, Parts DEF Restart
<1>3. count' \in CountRecord /\ count'.epochs = count.epochs /\ count'.retries = count.retries
  BY Parts, JobAssumption DEF Restart, CountTyped, CountRecord
<1>4. CountTyped'
  BY <1>1, <1>3, Parts DEF CountTyped, RetriesBound
<1>5. HeadTyped'
  BY <1>1, Parts, Unmoved DEF HeadMoved
<1> QED
  BY <1>1, <1>2, <1>3, <1>4, <1>5, StillHosts, Whole

LEMMA AnnouncePauseTyped ==
  ASSUME Typed, NEW h \in Hosts, AnnouncePause(h)
  PROVE  /\ Typed' /\ Rests(h) /\ LeaseKept /\ UNCHANGED <<child, arm, count>>
         /\ listener[h].pc = "poll" /\ listener[h].session # 0
         /\ ReportPause(h, listener[h].epoch, listener[h].session)
<1>1. listener[h] \in ListenerRecord /\ listener[h].session \in Sessions
  BY AtHost, ListenerFields
<1>2. /\ ReportPause(h, listener[h].epoch, listener[h].session) /\ UNCHANGED <<child, arm, count>>
      /\ listener[h].pc = "poll" /\ listener[h].session # 0
      /\ Goto(h, "arm") \/ Drop(h) \/ UNCHANGED listener
  BY DEF AnnouncePause, Watching
<1>3. HeadMoved
  BY <1>1, <1>2, Parts, PauseTyped
<1>4. Rests(h) /\ ListenerTyped'
  <2>1. CASE UNCHANGED listener
    BY <1>2, <2>1, Parts, Unmoved DEF Rests, Only, Same, Assigning, Handshake
  <2> QED
    BY <1>2, <2>1, Parts, Resting
<1> QED
  BY <1>2, <1>3, <1>4, StillHosts, HeadStep DEF HeadMoved

OnlyArm(h) == \A g \in Hosts \ {h} : arm'[g] = arm[g]

LEMMA Arming ==
  ASSUME Typed, NEW h \in Hosts, NEW a \in ArmRecord, arm' = [arm EXCEPT ![h] = a]
  PROVE  ArmTyped' /\ arm'[h] = a /\ OnlyArm(h)
  BY Parts DEF ArmTyped, OnlyArm

LEMMA ArmResumeTyped ==
  ASSUME Typed, NEW h \in Hosts, ArmResume(h)
  PROVE  /\ Typed' /\ Rests(h) /\ UNCHANGED <<job, lease, pause, child, count>>
         /\ listener[h].pc = "arm"
         /\ \/ UNCHANGED arm
            \/ /\ OnlyArm(h) /\ arm'[h].session = listener[h].session
               /\ arm'[h].status = "armed" /\ arm'[h].grant = 0
               /\ Checkpointed(h, listener[h].session)
<1>1. UNCHANGED <<job, lease, pause, child, count>> /\ listener[h].pc = "arm"
  BY DEF ArmResume
<1>2. listener[h] \in ListenerRecord /\ listener[h].session \in Sessions
  BY AtHost, ListenerFields
<1>3. Rests(h) /\ ListenerTyped'
  <2>1. CASE Goto(h, "release")
    BY <2>1, Parts, Resting
  <2>2. CASE listener' = [listener EXCEPT ![h].pc = "poll", ![h].outcome = "held"]
    <3>1. "poll" \in Steps
      BY DEF Steps
    <3>2. /\ listener'[h].pc = "poll" /\ Same(listener'[h], listener[h]) /\ Only(h)
          /\ ListenerTyped'
      BY <2>2, <3>1, Parts, Ending
    <3> QED
      BY <3>2 DEF Rests, Assigning, Handshake
  <2> QED
    BY <2>1, <2>2 DEF ArmResume
<1>4. /\ ArmTyped'
      /\ \/ UNCHANGED arm
         \/ /\ OnlyArm(h) /\ arm'[h].session = listener[h].session
            /\ arm'[h].status = "armed" /\ arm'[h].grant = 0
            /\ Checkpointed(h, listener[h].session)
  <2> DEFINE a == [Unarmed EXCEPT !.session = listener[h].session, !.status = "armed"]
  <2>1. a \in ArmRecord /\ a.session = listener[h].session /\ a.status = "armed" /\ a.grant = 0
    BY <1>2, Numbers DEF Unarmed, ArmRecord, ArmStatus, Decisions
  <2>2. UNCHANGED arm \/ (arm' = [arm EXCEPT ![h] = a] /\ Checkpointed(h, listener[h].session))
    BY DEF ArmResume
  <2> HIDE DEF a
  <2> QED
    BY <2>1, <2>2, Arming, Parts, Unmoved
<1>5. ChildTyped'
  BY <1>1, Parts, Unmoved
<1> QED
  BY <1>1, <1>3, <1>4, <1>5, HostStep

LEMMA ReleasePauseTyped ==
  ASSUME Typed, NEW h \in Hosts, ReleasePause(h)
  PROVE  /\ Typed' /\ Rests(h) /\ LeaseKept /\ UNCHANGED <<child, arm, count>>
         /\ ReleaseRecord(h) \/ NoReport
<1>1. /\ ReleaseRecord(h) \/ NoReport
      /\ UNCHANGED <<child, arm, count>>
      /\ \/ Drop(h) \/ Goto(h, "poll")
         \/ listener' = [listener EXCEPT ![h].pc = "poll", ![h].outcome = "held"]
  BY DEF ReleasePause
<1>2. HeadMoved
  BY <1>1, Parts, ReleaseTyped, StillHead
<1>3. Rests(h) /\ ListenerTyped'
  <2>1. CASE listener' = [listener EXCEPT ![h].pc = "poll", ![h].outcome = "held"]
    <3>1. "poll" \in Steps
      BY DEF Steps
    <3>2. /\ listener'[h].pc = "poll" /\ Same(listener'[h], listener[h]) /\ Only(h)
          /\ ListenerTyped'
      BY <2>1, <3>1, Parts, Ending
    <3> QED
      BY <3>2 DEF Rests, Assigning, Handshake
  <2> QED
    BY <1>1, <2>1, Parts, Resting
<1> QED
  BY <1>1, <1>2, <1>3, StillHosts, HeadStep DEF HeadMoved

\* A pause is decided on: kept for the listener, closed, or run on at once.
LEMMA DecideTyped ==
  ASSUME Typed, NEW s \in Children, NEW d \in Decisions, Decide(s, d)
  PROVE  /\ Typed' /\ UNCHANGED <<job, lease, pause, listener, count>>
         /\ child[s].phase = "paused"
         /\ \/ /\ Weakens
               /\ \A g \in Hosts :
                    \/ arm'[g] = arm[g]
                    \/ /\ g = child[s].host /\ arm[g].session = s /\ arm'[g].status = "decided"
                       /\ arm'[g].session = s /\ arm'[g].grant = arm[g].grant
            \/ /\ NewSession \in Children /\ UNCHANGED arm
               /\ child'[NewSession].host = child[s].host /\ child'[NewSession].phase = "running"
               /\ child'[NewSession].from = s /\ child'[NewSession].epoch = 0
               /\ \/ s = NewSession
                  \/ /\ child'[s].phase = "decided" /\ child'[s].host = child[s].host
                     /\ child'[s].from = child[s].from /\ child'[s].epoch = child[s].epoch
               /\ \A t \in Children \ {s, NewSession} : child'[t] = child[t]
<1> DEFINE h == child[s].host
           decided == [child EXCEPT ![s].phase = "decided"]
<1>1. UNCHANGED <<job, lease, pause, listener, count>> /\ child[s].phase = "paused"
  BY DEF Decide
<1>2. child \in [Children -> ChildRecord] /\ child[s] \in ChildRecord /\ s \in Sessions
  BY Parts, Numbers DEF ChildTyped
<1>3. ListenerTyped'
  BY <1>1, Parts, Unmoved
<1>4. ASSUME child' = decided
      PROVE  ChildTyped' /\ Weakens
  BY <1>1, <1>4, Rephased DEF Phases, Working
<1>5. CASE child' = decided /\ UNCHANGED arm
  BY <1>1, <1>3, <1>4, <1>5, HostStep, Parts, Unmoved
<1>6. CASE /\ child' = decided /\ arm[h].session = s
           /\ arm' = [arm EXCEPT ![h].decision = d, ![h].status = "decided"]
  <2>1. CASE h \in Hosts
    <3> DEFINE a == [arm[h] EXCEPT !.decision = d, !.status = "decided"]
    <3>1. arm \in [Hosts -> ArmRecord] /\ arm[h] \in ArmRecord
      BY <2>1, Parts DEF ArmTyped
    <3>2. a \in ArmRecord /\ a.status = "decided"
          /\ a.session = arm[h].session /\ a.grant = arm[h].grant
      BY <3>1 DEF ArmRecord, ArmStatus
    <3>3. arm' = [arm EXCEPT ![h] = a]
      BY <1>6, <2>1, <3>1
    <3> HIDE DEF a
    <3>4. ArmTyped' /\ arm'[h] = a /\ OnlyArm(h)
      BY <2>1, <3>2, <3>3, Arming
    <3> QED
      BY <1>1, <1>3, <1>4, <1>6, <3>2, <3>4, HostStep DEF OnlyArm
  <2>2. CASE h \notin Hosts
    <3>1. arm' = arm
      BY <1>6, <2>2, Parts DEF ArmTyped
    <3> QED
      BY <1>1, <1>3, <1>4, <1>6, <3>1, HostStep, Parts, Unmoved
  <2> QED
    BY <2>1, <2>2
<1>7. CASE /\ NewSession \in Children /\ UNCHANGED arm
           /\ child' = [decided EXCEPT ![NewSession] =
                          [host |-> h, phase |-> "running", from |-> s,
                           epoch |-> 0, saved |-> FALSE]]
  <2>1. decided \in [Children -> ChildRecord]
    BY <1>2 DEF ChildRecord, Phases
  <2>2. h \in Hosts \cup {NoHost}
    BY <1>2 DEF ChildRecord
  <2>3. /\ decided[s].phase = "decided" /\ decided[s].host = child[s].host
        /\ decided[s].from = child[s].from /\ decided[s].epoch = child[s].epoch
        /\ \A t \in Children \ {s} : decided[t] = child[t]
    BY <1>2 DEF ChildRecord
  <2> HIDE DEF decided
  <2>4. /\ ChildTyped'
        /\ child'[NewSession].host = h /\ child'[NewSession].phase = "running"
        /\ child'[NewSession].from = s /\ child'[NewSession].epoch = 0
        /\ \A t \in Children : t # NewSession => child'[t] = decided[t]
    BY <1>2, <1>7, <2>1, <2>2, Numbers, Spawning
  <2>5. Typed'
    BY <1>1, <1>3, <1>7, <2>4, HostStep, Parts, Unmoved
  <2>6. \A t \in Children \ {s, NewSession} : child'[t] = child[t]
    BY <2>3, <2>4
  <2>7. child'[s] = decided[s] \/ s = NewSession
    BY <2>4
  <2> QED
    BY <1>1, <1>7, <2>3, <2>4, <2>5, <2>6, <2>7
<1> QED
  BY <1>5, <1>6, <1>7 DEF Decide

LEMMA PickResumableTyped ==
  ASSUME Typed, NEW h \in Hosts, PickResumable(h)
  PROVE  /\ Typed' /\ UNCHANGED <<job, lease, pause, child, count>> /\ Only(h)
         /\ listener'[h].pc \in {"request", "claim", "ack", "install"}
         /\ listener'[h].session = 0 /\ listener'[h].old = pause.session
         /\ listener'[h].grant = (IF pause.state = "approved" THEN pause.grant ELSE 0)
         /\ OnlyArm(h) /\ arm'[h].session = arm[h].session /\ arm'[h].grant = arm[h].grant
         /\ \/ arm'[h].status = arm[h].status
            \/ arm[h].status = "armed" /\ arm'[h].status = "decided"
<1> DEFINE l == [Idle EXCEPT !.old = pause.session,
                    !.epoch = lease.id,
                    !.grant = IF pause.state = "approved" THEN pause.grant ELSE 0,
                    !.pc = CASE pause.state = "released" -> "request"
                             [] pause.state = "resume_requested" -> "claim"
                             [] pause.state = "resume_claimed" -> "ack"
                             [] OTHER -> "install"]
           a == IF arm[h].decision # "none" THEN arm[h]
                ELSE [arm[h] EXCEPT !.decision = "approved", !.status = "decided"]
<1>1. pause.session \in Sessions /\ pause.grant \in Epochs /\ lease.id \in Epochs
  BY Parts DEF HeadTyped, PauseRecord, LeaseRecord
<1>2. l \in ListenerRecord /\ l.pc \in {"request", "claim", "ack", "install"}
      /\ l.session = 0 /\ l.old = pause.session
      /\ l.grant = (IF pause.state = "approved" THEN pause.grant ELSE 0)
  BY <1>1, IdleTyped, Numbers DEF ListenerRecord, Steps
<1>3. listener' = [listener EXCEPT ![h] = l]
  BY DEF PickResumable
<1>4. arm[h] \in ArmRecord /\ arm \in [Hosts -> ArmRecord]
  BY Parts DEF ArmTyped
<1>5. /\ a \in ArmRecord /\ a.session = arm[h].session /\ a.grant = arm[h].grant
      /\ arm[h].decision # "none" => a.status = arm[h].status
      /\ arm[h].decision = "none" => a.status = "decided"
  BY <1>4 DEF ArmRecord, ArmStatus, Decisions
<1>6. arm' = [arm EXCEPT ![h] = a]
  BY <1>4 DEF PickResumable
<1>7. arm[h].decision # "none" \/ arm[h].status = "armed"
  BY DEF PickResumable, Adopts
<1> HIDE DEF l, a
<1>8. listener'[h] = l /\ Only(h) /\ listener' \in [Hosts -> ListenerRecord]
  BY <1>2, <1>3, Parts, Put
<1>9. ListenerTyped'
  BY <1>2, <1>8, Parts, PutTyped
<1>10. ArmTyped' /\ arm'[h] = a /\ OnlyArm(h)
  BY <1>5, <1>6, Arming
<1>11. UNCHANGED <<job, lease, pause, child, count>>
  BY DEF PickResumable
<1>12. Typed'
  BY <1>9, <1>10, <1>11, HostStep, Parts, Unmoved
<1> QED
  BY <1>2, <1>5, <1>7, <1>8, <1>10, <1>11, <1>12

LEMMA RequestTyped ==
  ASSUME Typed, NEW h \in Hosts, RequestResume(h)
  PROVE  /\ Typed' /\ UNCHANGED <<job, lease, child, arm, count>>
         /\ \/ UNCHANGED pause /\ Rests(h)
            \/ /\ SamePause(h) /\ pause.state = "released"
               /\ pause'.state = "resume_requested" /\ pause'.session = pause.session
               /\ pause'.grant = pause.grant /\ pause'.used = pause.used
               /\ pause'.resumed = pause.resumed
               /\ Steps2(h, "claim") \/ Rests(h)
         /\ listener[h].pc = "request"
<1>1. UNCHANGED <<job, lease, child, arm, count>> /\ listener[h].pc = "request"
  BY DEF RequestResume
<1>2. arm[h].decision \in Decisions
  BY AtHost DEF ArmRecord
<1>3. ASSUME Goto(h, "claim") PROVE Steps2(h, "claim") /\ ListenerTyped'
  <2>1. "claim" \in Steps \ {"report", "close"}
    BY DEF Steps
  <2> QED
    BY <1>3, <2>1, Parts, Going DEF Steps2
<1>4. CASE SamePause(h) /\ pause.state = "released"
  <2>1. pause' = [pause EXCEPT !.state = "resume_requested", !.decision = arm[h].decision]
        /\ (Goto(h, "claim") \/ Drop(h))
    BY <1>4 DEF RequestResume
  <2>2. /\ pause' \in PauseRecord
        /\ pause'.state = "resume_requested" /\ pause'.session = pause.session
        /\ pause'.grant = pause.grant /\ pause'.used = pause.used /\ pause'.resumed = pause.resumed
    BY <1>2, <2>1, Parts DEF HeadTyped, PauseRecord, PauseState, Released
  <2>3. HeadMoved
    BY <1>1, <2>2, Parts, LeaseKeeps DEF HeadTyped, HeadMoved
  <2>4. (Steps2(h, "claim") \/ Rests(h)) /\ ListenerTyped'
    BY <1>3, <2>1, Parts, Resting
  <2> QED
    BY <1>1, <1>4, <2>2, <2>3, <2>4, StillHosts, HeadStep
<1>5. CASE ~(SamePause(h) /\ pause.state = "released")
  <2>1. pause' = pause /\ Drop(h)
    BY <1>5 DEF RequestResume
  <2>2. Rests(h) /\ ListenerTyped'
    BY <2>1, Parts, Resting
  <2> QED
    BY <1>1, <2>1, <2>2, StillHosts, HostStep
<1> QED
  BY <1>4, <1>5

LEMMA ClaimTyped ==
  ASSUME Typed, NEW h \in Hosts, ClaimResume(h)
  PROVE  /\ Typed' /\ UNCHANGED <<child, arm>> /\ listener[h].pc = "claim"
         /\ \/ /\ SamePause(h) /\ NewLease /\ UNCHANGED job
               /\ pause.state = "resume_requested"
               /\ pause'.state = "resume_claimed" /\ pause'.session = pause.session
               /\ pause'.grant = 0 /\ pause'.used = pause.used /\ pause'.resumed = pause.resumed
               /\ \/ Rests(h)
                  \/ /\ Only(h) /\ listener'[h].pc = "ack"
                     /\ listener'[h].session = listener[h].session
                     /\ listener'[h].old = listener[h].old
                     /\ listener'[h].grant = listener[h].grant
            \/ Rests(h) /\ LeaseKept /\ UNCHANGED count
               /\ \/ NoReport
                  \/ SamePause(h) /\ pause.state = "resume_requested" /\ Handover
<1>1. UNCHANGED <<child, arm>> /\ listener[h].pc = "claim"
  BY DEF ClaimResume
<1>2. CASE /\ SamePause(h) /\ pause.state = "resume_requested" /\ NewLease /\ UNCHANGED job
           /\ pause' = [pause EXCEPT !.state = "resume_claimed", !.claim = TRUE, !.grant = 0]
           /\ \/ listener' = [listener EXCEPT ![h].pc = "ack", ![h].epoch = count.epochs + 1]
              \/ Drop(h)
  <2>1. /\ lease' \in LeaseRecord /\ CountTyped'
        /\ count.epochs + 1 = lease'.id
    BY <1>2, Parts, NewLeaseTyped
  <2>2. /\ pause' \in PauseRecord
        /\ pause'.state = "resume_claimed" /\ pause'.session = pause.session
        /\ pause'.grant = 0 /\ pause'.used = pause.used /\ pause'.resumed = pause.resumed
    BY <1>2, Numbers, Parts DEF HeadTyped, PauseRecord, PauseState, Released
  <2>3. HeadTyped'
    BY <1>2, <2>1, <2>2, Parts DEF HeadTyped
  <2>4. /\ ListenerTyped'
        /\ \/ Rests(h)
           \/ /\ Only(h) /\ listener'[h].pc = "ack"
              /\ listener'[h].session = listener[h].session
              /\ listener'[h].old = listener[h].old
              /\ listener'[h].grant = listener[h].grant
    <3>1. CASE Drop(h)
      BY <3>1, Parts, Resting
    <3>2. CASE listener' = [listener EXCEPT ![h].pc = "ack", ![h].epoch = count.epochs + 1]
      <4> DEFINE e == count.epochs + 1
                 l == [listener[h] EXCEPT !.pc = "ack", !.epoch = e]
      <4>1. e \in Epochs
        BY <2>1 DEF LeaseRecord
      <4> HIDE DEF e
      <4>2. /\ l \in ListenerRecord /\ l.pc = "ack" /\ l.session = listener[h].session
            /\ l.old = listener[h].old /\ l.grant = listener[h].grant
        BY <4>1, AtHost DEF ListenerRecord, Steps
      <4>3. listener' = [listener EXCEPT ![h] = l]
        BY <3>2, Parts DEF e, ListenerTyped
      <4> HIDE DEF l
      <4>4. listener'[h] = l /\ Only(h) /\ listener' \in [Hosts -> ListenerRecord]
        BY <4>2, <4>3, Parts, Put
      <4>5. ListenerTyped'
        BY <4>2, <4>4, Parts, PutTyped
      <4> QED
        BY <4>2, <4>4, <4>5
    <3> QED
      BY <1>2, <3>1, <3>2
  <2>5. ChildTyped' /\ ArmTyped'
    BY <1>1, StillHosts
  <2> QED
    BY <1>1, <1>2, <2>1, <2>2, <2>3, <2>4, <2>5, Whole
<1>3. CASE /\ Drop(h) /\ UNCHANGED count
           /\ \/ NoReport
              \/ SamePause(h) /\ pause.state = "resume_requested" /\ Handover
  <2>1. HeadMoved
    BY <1>3, Parts, HandoverTyped, StillHead
  <2>2. Rests(h) /\ ListenerTyped'
    BY <1>3, Parts, Resting
  <2> QED
    BY <1>1, <1>3, <2>1, <2>2, StillHosts, HeadStep DEF HeadMoved
<1> QED
  BY <1>2, <1>3 DEF ClaimResume

LEMMA AckTyped ==
  ASSUME Typed, NEW h \in Hosts, AckResume(h)
  PROVE  /\ Typed' /\ UNCHANGED <<job, lease, child, arm, count>> /\ listener[h].pc = "ack"
         /\ \/ UNCHANGED pause /\ Rests(h)
            \/ /\ SamePause(h) /\ pause.state \in {"resume_claimed", "approved"} /\ lease.live
               /\ \/ pause.grant # 0 /\ UNCHANGED pause
                  \/ /\ pause.grant = 0 /\ pause'.state = "approved" /\ pause'.grant = lease.id
                     /\ pause'.session = pause.session /\ pause'.used = pause.used
                     /\ pause'.resumed = pause.resumed
               /\ \/ Rests(h)
                  \/ /\ Only(h) /\ listener'[h].pc = "install" /\ listener'[h].grant = lease.id
                     /\ listener'[h].session = listener[h].session
                     /\ listener'[h].old = listener[h].old
<1>1. UNCHANGED <<job, lease, child, arm, count>> /\ listener[h].pc = "ack"
  BY DEF AckResume
<1>2. lease.id \in Epochs
  BY Parts DEF HeadTyped, LeaseRecord
<1>3. CASE UNCHANGED pause /\ Drop(h)
  BY <1>1, <1>3, Parts, Resting, StillHosts, HostStep
<1>4. CASE /\ SamePause(h) /\ pause.state \in {"resume_claimed", "approved"} /\ lease.live
           /\ pause' = IF pause.grant # 0 THEN pause
                       ELSE [pause EXCEPT !.state = "approved", !.grant = lease.id, !.fresh = TRUE]
           /\ \/ listener' = [listener EXCEPT ![h].pc = "install", ![h].grant = lease.id]
              \/ Drop(h)
  <2>1. /\ pause' \in PauseRecord
        /\ \/ pause.grant # 0 /\ UNCHANGED pause
           \/ /\ pause.grant = 0 /\ pause'.state = "approved" /\ pause'.grant = lease.id
              /\ pause'.session = pause.session /\ pause'.used = pause.used
              /\ pause'.resumed = pause.resumed
    BY <1>2, <1>4, Parts DEF HeadTyped, PauseRecord, PauseState, Released
  <2>2. HeadMoved
    BY <1>1, <2>1, Parts, LeaseKeeps DEF HeadTyped, HeadMoved
  <2>3. /\ ListenerTyped'
        /\ \/ Rests(h)
           \/ /\ Only(h) /\ listener'[h].pc = "install" /\ listener'[h].grant = lease.id
              /\ listener'[h].session = listener[h].session
              /\ listener'[h].old = listener[h].old
    <3>1. CASE Drop(h)
      BY <3>1, Parts, Resting
    <3>2. CASE listener' = [listener EXCEPT ![h].pc = "install", ![h].grant = lease.id]
      <4> DEFINE l == [listener[h] EXCEPT !.pc = "install", !.grant = lease.id]
      <4>1. /\ l \in ListenerRecord /\ l.pc = "install" /\ l.session = listener[h].session
            /\ l.old = listener[h].old /\ l.grant = lease.id
        BY <1>2, AtHost DEF ListenerRecord, Steps
      <4>2. listener' = [listener EXCEPT ![h] = l]
        BY <3>2, Parts DEF ListenerTyped
      <4> HIDE DEF l
      <4>3. listener'[h] = l /\ Only(h) /\ listener' \in [Hosts -> ListenerRecord]
        BY <4>1, <4>2, Parts, Put
      <4>4. ListenerTyped'
        BY <4>1, <4>3, Parts, PutTyped
      <4> QED
        BY <4>1, <4>3, <4>4
    <3> QED
      BY <1>4, <3>1, <3>2
  <2> QED
    BY <1>1, <1>4, <2>1, <2>2, <2>3, StillHosts, HeadStep
<1> QED
  BY <1>3, <1>4, Zenon DEF AckResume

LEMMA InstallTyped ==
  ASSUME Typed, NEW h \in Hosts, InstallGrant(h)
  PROVE  /\ Typed' /\ UNCHANGED <<job, lease, pause, child, count>> /\ listener[h].pc = "install"
         /\ \/ UNCHANGED arm /\ Rests(h)
            \/ /\ Steps2(h, "reserve") /\ OnlyArm(h)
               /\ arm[h].session = listener[h].old
               /\ arm[h].grant = 0 => GrantFresh(h)
               /\ arm[h].grant # 0 => arm[h].grant = listener[h].grant
               /\ arm'[h].session = arm[h].session /\ arm'[h].status = arm[h].status
               /\ arm'[h].grant = listener[h].grant
<1>1. UNCHANGED <<job, lease, pause, child, count>> /\ listener[h].pc = "install"
  BY DEF InstallGrant
<1>2. CASE Drop(h) /\ UNCHANGED arm
  BY <1>1, <1>2, Parts, Resting, StillHosts, HostStep
<1>3. CASE /\ arm[h].session = listener[h].old
           /\ IF arm[h].grant = 0 THEN GrantFresh(h) ELSE arm[h].grant = listener[h].grant
           /\ arm' = [arm EXCEPT ![h].grant = listener[h].grant]
           /\ Goto(h, "reserve")
  <2>1. Steps2(h, "reserve") /\ ListenerTyped'
    <3>1. "reserve" \in Steps \ {"report", "close"}
      BY DEF Steps
    <3> QED
      BY <1>3, <3>1, Parts, Going DEF Steps2
  <2> DEFINE a == [arm[h] EXCEPT !.grant = listener[h].grant]
  <2>2. /\ a \in ArmRecord /\ a.session = arm[h].session /\ a.status = arm[h].status
        /\ a.grant = listener[h].grant
    BY AtHost, ListenerFields DEF ArmRecord
  <2>3. arm' = [arm EXCEPT ![h] = a]
    BY <1>3, Parts DEF ArmTyped
  <2> HIDE DEF a
  <2>4. ArmTyped' /\ arm'[h] = a /\ OnlyArm(h)
    BY <2>2, <2>3, Arming
  <2> QED
    BY <1>1, <1>3, <2>1, <2>2, <2>4, HostStep, Parts, Unmoved
<1> QED
  BY <1>2, <1>3 DEF InstallGrant

LEMMA LaunchTyped ==
  ASSUME Typed, NEW h \in Hosts, LaunchResumed(h)
  PROVE  /\ Typed' /\ UNCHANGED <<job, lease, pause, count>> /\ listener[h].pc = "reserve"
         /\ arm[h].status = "decided" /\ Active(h) = {} /\ NewSession \in Children
         /\ OnlyArm(h) /\ arm'[h].session = arm[h].session /\ arm'[h].grant = arm[h].grant
         /\ arm'[h].status \in {"started", "reserved"}
         /\ \/ UNCHANGED child /\ Rests(h)
            \/ /\ Spawn(h, arm[h].session, listener[h].grant)
               /\ \/ Only(h) /\ listener'[h] = Idle
                  \/ /\ Only(h) /\ listener'[h].pc = "resumed"
                     /\ listener'[h].session = NewSession
                     /\ listener'[h].grant = listener[h].grant
                     /\ listener'[h].old = listener[h].old
                     /\ listener'[h].epoch = listener[h].epoch
<1>1. /\ UNCHANGED <<job, lease, pause, count>> /\ listener[h].pc = "reserve"
      /\ arm[h].status = "decided" /\ Active(h) = {} /\ NewSession \in Children
      /\ \/ Spawn(h, arm[h].session, listener[h].grant) \/ (UNCHANGED child /\ Drop(h))
      /\ \/ arm' = [arm EXCEPT ![h].status = "started", ![h].resumed = NewSession]
         \/ arm' = [arm EXCEPT ![h].status = "reserved"]
      /\ \/ listener' = [listener EXCEPT ![h].pc = "resumed", ![h].session = NewSession]
         \/ Drop(h)
  BY DEF LaunchResumed, StartFresh
<1>2. arm[h] \in ArmRecord /\ listener[h] \in ListenerRecord /\ NewSession \in Sessions
  BY <1>1, AtHost, Numbers
<1>3. ChildTyped'
  <2>1. CASE UNCHANGED child
    BY <2>1, Parts, Unmoved
  <2>2. CASE Spawn(h, arm[h].session, listener[h].grant)
    <3>1. arm[h].session \in Sessions /\ listener[h].grant \in Epochs
          /\ child \in [Children -> ChildRecord]
      BY <1>2, Parts DEF ArmRecord, ListenerRecord, ChildTyped
    <3> QED
      BY <1>1, <2>2, <3>1, Spawning DEF Spawn
  <2> QED
    BY <1>1, <2>1, <2>2
<1>4. /\ ArmTyped' /\ OnlyArm(h) /\ arm'[h].session = arm[h].session
      /\ arm'[h].grant = arm[h].grant /\ arm'[h].status \in {"started", "reserved"}
  <2> DEFINE n == NewSession
             a == [arm[h] EXCEPT !.status = "started", !.resumed = n]
             b == [arm[h] EXCEPT !.status = "reserved"]
  <2> HIDE DEF n
  <2>1. /\ a \in ArmRecord /\ a.session = arm[h].session /\ a.grant = arm[h].grant
        /\ a.status = "started"
        /\ b \in ArmRecord /\ b.session = arm[h].session /\ b.grant = arm[h].grant
        /\ b.status = "reserved"
    BY <1>2 DEF ArmRecord, ArmStatus, n
  <2>2. arm' = [arm EXCEPT ![h] = a] \/ arm' = [arm EXCEPT ![h] = b]
    BY <1>1, Parts DEF ArmTyped, n
  <2> HIDE DEF a, b
  <2> QED
    BY <2>1, <2>2, Arming
<1>5. /\ ListenerTyped'
      /\ \/ Only(h) /\ listener'[h] = Idle
         \/ /\ Only(h) /\ listener'[h].pc = "resumed"
            /\ listener'[h].session = NewSession
            /\ listener'[h].grant = listener[h].grant
            /\ listener'[h].old = listener[h].old
            /\ listener'[h].epoch = listener[h].epoch
  <2> DEFINE n == NewSession
             l == [listener[h] EXCEPT !.pc = "resumed", !.session = n]
  <2> HIDE DEF n
  <2>1. /\ l \in ListenerRecord /\ l.pc = "resumed" /\ l.session = n
        /\ l.grant = listener[h].grant /\ l.old = listener[h].old /\ l.epoch = listener[h].epoch
    BY <1>2 DEF ListenerRecord, Steps, n
  <2>2. listener' = [listener EXCEPT ![h] = l] \/ Drop(h)
    BY <1>1, Parts DEF ListenerTyped, n
  <2> HIDE DEF l
  <2>3. CASE Drop(h)
    BY <2>3, Parts, Dropping
  <2>4. CASE listener' = [listener EXCEPT ![h] = l]
    <3>1. listener'[h] = l /\ Only(h) /\ listener' \in [Hosts -> ListenerRecord]
      BY <2>1, <2>4, Parts, Put
    <3>2. ListenerTyped'
      BY <2>1, <3>1, Parts, PutTyped
    <3> QED
      BY <2>1, <3>1, <3>2 DEF n
  <2> QED
    BY <2>2, <2>3, <2>4
<1>6. Typed'
  BY <1>1, <1>3, <1>4, <1>5, HostStep
<1>7. (UNCHANGED child /\ Rests(h)) \/ Spawn(h, arm[h].session, listener[h].grant)
  BY <1>1, Parts, Resting
<1> QED
  BY <1>1, <1>4, <1>5, <1>6, <1>7

LEMMA RejectTyped ==
  ASSUME Typed, NEW h \in Hosts, RejectResumed(h)
  PROVE  /\ Typed' /\ UNCHANGED <<job, lease, pause, child, count>> /\ Rests(h)
         /\ OnlyArm(h) /\ arm'[h].session = arm[h].session /\ arm'[h].grant = arm[h].grant
         /\ arm'[h].status = "terminal"
<1>1. /\ UNCHANGED <<job, lease, pause, child, count>>
      /\ arm' = [arm EXCEPT ![h].status = "terminal"]
      /\ listener' = [listener EXCEPT ![h].pc = "close", ![h].outcome = "rejected"]
  BY DEF RejectResumed
<1>2. "close" \in Steps /\ "rejected" \in Terminal
  BY SomeStatus DEF Steps
<1>3. /\ listener'[h].pc = "close" /\ Same(listener'[h], listener[h]) /\ Only(h)
      /\ ListenerTyped'
  BY <1>1, <1>2, Parts, Ending
<1>4. Rests(h)
  BY <1>3 DEF Rests, Assigning, Handshake
<1> DEFINE a == [arm[h] EXCEPT !.status = "terminal"]
<1>5. /\ a \in ArmRecord /\ a.session = arm[h].session /\ a.grant = arm[h].grant
      /\ a.status = "terminal"
  BY AtHost DEF ArmRecord, ArmStatus
<1>6. arm' = [arm EXCEPT ![h] = a]
  BY <1>1
<1> HIDE DEF a
<1>7. ArmTyped' /\ arm'[h] = a /\ OnlyArm(h)
  BY <1>5, <1>6, Arming
<1> QED
  BY <1>1, <1>3, <1>4, <1>5, <1>7, HostStep, Parts, Unmoved

LEMMA ReplayTyped ==
  ASSUME Typed, NEW h \in Hosts, ReplayResumed(h)
  PROVE  /\ Typed' /\ UNCHANGED <<job, lease, pause, child, count>> /\ listener[h].pc = "reserve"
         /\ arm[h].status \in {"reserved", "started"}
         /\ OnlyArm(h) /\ arm'[h].session = arm[h].session /\ arm'[h].grant = arm[h].grant
         /\ arm'[h].status = "started"
         /\ Only(h) /\ listener'[h].pc = "resumed" /\ listener'[h].session \in Carrier(h)
         /\ listener'[h].grant = listener[h].grant /\ listener'[h].old = listener[h].old
         /\ listener'[h].epoch = listener[h].epoch
<1>1. UNCHANGED <<job, lease, pause, child, count>> /\ listener[h].pc = "reserve"
      /\ arm[h].status \in {"reserved", "started"}
  BY DEF ReplayResumed
<1>2. PICK s \in Carrier(h) :
        /\ arm' = [arm EXCEPT ![h].status = "started", ![h].resumed = s]
        /\ listener' = [listener EXCEPT ![h].pc = "resumed", ![h].session = s]
  BY DEF ReplayResumed
<1>3. s \in Sessions
  BY Numbers DEF Carrier, Active, Started
<1> DEFINE a == [arm[h] EXCEPT !.status = "started", !.resumed = s]
           l == [listener[h] EXCEPT !.pc = "resumed", !.session = s]
<1>4. /\ a \in ArmRecord /\ a.session = arm[h].session /\ a.grant = arm[h].grant
      /\ a.status = "started"
  BY <1>3, AtHost DEF ArmRecord, ArmStatus
<1>5. /\ l \in ListenerRecord /\ l.pc = "resumed" /\ l.session = s
      /\ l.grant = listener[h].grant /\ l.old = listener[h].old /\ l.epoch = listener[h].epoch
  BY <1>3, AtHost DEF ListenerRecord, Steps
<1>6. arm' = [arm EXCEPT ![h] = a] /\ listener' = [listener EXCEPT ![h] = l]
  BY <1>2, Parts DEF ArmTyped, ListenerTyped
<1> HIDE DEF a, l
<1>7. ArmTyped' /\ arm'[h] = a /\ OnlyArm(h)
  BY <1>4, <1>6, Arming
<1>8. listener'[h] = l /\ Only(h) /\ listener' \in [Hosts -> ListenerRecord]
  BY <1>5, <1>6, Parts, Put
<1>9. ListenerTyped'
  BY <1>5, <1>8, Parts, PutTyped
<1>10. Typed'
  BY <1>1, <1>7, <1>9, HostStep, Parts, Unmoved
<1> QED
  BY <1>1, <1>4, <1>5, <1>7, <1>8, <1>10

LEMMA AnnounceResumedTyped ==
  ASSUME Typed, NEW h \in Hosts, AnnounceResumed(h)
  PROVE  /\ Typed' /\ UNCHANGED <<arm, count>> /\ LeaseKept /\ Rests(h)
         /\ ReportResumed(h, listener[h].grant, listener[h].session) \/ NoReport
         /\ \/ UNCHANGED child
            \/ child' = [child EXCEPT ![listener[h].session].phase = "bad"]
<1> DEFINE s == listener[h].session
<1>1. s \in Sessions
  BY AtHost, ListenerFields
<1>2. /\ UNCHANGED <<arm, count>>
      /\ ReportResumed(h, listener[h].grant, s) \/ NoReport
  BY DEF AnnounceResumed
<1>3. /\ UNCHANGED child \/ child' = [child EXCEPT ![s].phase = "bad"]
      /\ \/ listener' = [listener EXCEPT ![h].pc = "poll", ![h].announced = TRUE]
         \/ UNCHANGED listener /\ listener[h].pc = "poll"
         \/ listener' = [listener EXCEPT ![h].pc = "close", ![h].outcome = "failed"]
         \/ Goto(h, "poll")
  BY DEF AnnounceResumed
<1> HIDE DEF s
<1>4. HeadMoved
  BY <1>1, <1>2, Parts, ResumedTyped, StillHead
<1>5. ChildTyped'
  <2>1. CASE child' = [child EXCEPT ![s].phase = "bad"]
    BY <2>1, Parts DEF ChildTyped, ChildRecord, Phases
  <2> QED
    BY <1>3, <2>1, Parts, Unmoved
<1>6. Rests(h) /\ ListenerTyped'
  <2>1. CASE listener' = [listener EXCEPT ![h].pc = "poll", ![h].announced = TRUE]
    <3> DEFINE l == [listener[h] EXCEPT !.pc = "poll", !.announced = TRUE]
    <3>1. l \in ListenerRecord /\ l.pc = "poll" /\ Same(l, listener[h])
      BY AtHost DEF ListenerRecord, Steps, Same
    <3>2. listener' = [listener EXCEPT ![h] = l]
      BY <2>1, Parts DEF ListenerTyped
    <3> HIDE DEF l
    <3>3. listener'[h] = l /\ Only(h) /\ listener' \in [Hosts -> ListenerRecord]
      BY <3>1, <3>2, Parts, Put
    <3>4. ListenerTyped'
      BY <3>1, <3>3, Parts, PutTyped
    <3> QED
      BY <3>1, <3>3, <3>4 DEF Rests, Assigning, Handshake
  <2>2. CASE UNCHANGED listener /\ listener[h].pc = "poll"
    BY <2>2, Parts, Unmoved DEF Rests, Only, Same, Assigning, Handshake
  <2>3. CASE listener' = [listener EXCEPT ![h].pc = "close", ![h].outcome = "failed"]
    <3>1. "close" \in Steps /\ "failed" \in Terminal
      BY SomeStatus DEF Steps
    <3>2. /\ listener'[h].pc = "close" /\ Same(listener'[h], listener[h]) /\ Only(h)
          /\ ListenerTyped'
      BY <2>3, <3>1, Parts, Ending
    <3> QED
      BY <3>2 DEF Rests, Assigning, Handshake
  <2>4. CASE Goto(h, "poll")
    BY <2>4, Parts, Resting
  <2> QED
    BY <1>3, <2>1, <2>2, <2>3, <2>4
<1>7. ArmTyped'
  BY <1>2, Parts, Unmoved
<1>8. Typed'
  BY <1>2, <1>4, <1>5, <1>6, <1>7, HeadStep
<1> QED
  BY <1>2, <1>3, <1>4, <1>6, <1>8 DEF HeadMoved, s

LEMMA HostTyped ==
  ASSUME Typed, NEW h \in Hosts,
         Dispatching(h) \/ Pausing(h) \/ Resuming(h) \/ RenewFails(h) \/ Restart(h)
  PROVE  Typed'
<1>1. CASE Dispatching(h)
  BY <1>1, PickAssignedTyped, AnnounceTyped, CheckTyped, StartTyped, RestTyped, Zenon
     DEF Dispatching
<1>2. CASE Pausing(h)
  BY <1>2, AnnouncePauseTyped, ArmResumeTyped, ReleasePauseTyped, Zenon DEF Pausing
<1>3. CASE Resuming(h)
  BY <1>3, PickResumableTyped, RequestTyped, ClaimTyped, AckTyped, InstallTyped, LaunchTyped,
     RejectTyped, ReplayTyped, RestTyped, AnnounceResumedTyped, Zenon DEF Resuming
<1> QED
  BY <1>1, <1>2, <1>3, RestTyped, RestartTyped, Zenon

LEMMA TypedInit == Init => Typed
<1> SUFFICES ASSUME Init PROVE Typed
  OBVIOUS
<1>1. job \in JobRecord
  BY Numbers DEF Init, JobRecord, Status
<1>2. lease \in LeaseRecord /\ pause \in PauseRecord
  BY NoLeaseTyped, NoPauseTyped DEF Init
<1>3. child \in [Children -> ChildRecord]
  BY Numbers DEF Init, ChildRecord, Phases
<1>4. Unarmed \in ArmRecord
  BY Numbers DEF Unarmed, ArmRecord, ArmStatus, Decisions
<1>5. arm \in [Hosts -> ArmRecord]
  BY <1>4 DEF Init
<1>6. listener \in [Hosts -> ListenerRecord] /\ Outcomes
  BY IdleTyped DEF Init, Outcomes
<1>7. count \in CountRecord /\ RetriesBound
  BY Numbers, JobAssumption, NoLeaseTyped DEF Init, CountRecord, RetriesBound
<1> QED
  BY <1>1, <1>2, <1>3, <1>5, <1>6, <1>7, TypedParts
     DEF HeadTyped, CountTyped, ListenerTyped, ChildTyped, ArmTyped

LEMMA TypedStep == Typed /\ [Next]_vars => Typed'
<1> SUFFICES ASSUME Typed, [Next]_vars PROVE Typed'
  OBVIOUS
<1>1. CASE UNCHANGED vars
  <2>1. UNCHANGED <<job, lease, pause, child, arm, listener, count>>
    BY <1>1 DEF vars
  <2> QED
    BY <2>1, HostStep, Parts, Unmoved
<1>2. CASE Next
  BY <1>2, SchedulerTyped, CancelTyped, ExpiryTyped, HostTyped, ForwardTyped, ChildStepTyped,
     DecideTyped, Zenon DEF Next
<1> QED
  BY <1>1, <1>2

\* The record, the daemons and the resume states stay within their types, and no retry is
\* counted without a lease that ran out (recoverStaleFederatedLeases).
THEOREM JobTypeCorrect == Spec => []TypeOK
<1>1. Spec => []Typed
  BY TypedInit, TypedStep, PTL DEF Spec
<1>2. Typed => TypeOK
  BY DEF Typed
<1> QED
  BY <1>1, <1>2, PTL

-----------------------------------------------------------------------------
(* The processes: a pause is resumed under a grant at most once.           *)

\* Sessions are numbered in the order of their starts.
Segmented == \E k \in Sessions : Started = 1..k

\* A daemon watches, and arms, processes of its own host; a resumed process runs where
\* the one it resumes did.
Hosted ==
  /\ \A h \in Hosts : \A s \in {listener[h].session, arm[h].session} :
        s # 0 => s \in Started /\ child[s].host = h
  /\ \A h \in Hosts : /\ arm[h].status \in {"armed", "decided"} => arm[h].session # 0
                      /\ listener[h].pc = "arm" => listener[h].session # 0
  /\ \A s \in Started : child[s].from # 0 =>
        child[s].from \in Started /\ child[child[s].from].host = child[s].host

\* What was resumed under a grant is over, its resume state is used up, and nobody
\* watches it: so it is not armed again.
Granted == {t \in Started : child[t].from # 0 /\ child[t].epoch # 0}
Spent ==
  \A t \in Granted :
    /\ child[child[t].from].phase \notin Working
    /\ \A h \in Hosts : /\ arm[h].session = child[t].from =>
                             arm[h].status \notin {"armed", "decided"}
                        /\ listener[h].session # child[t].from

Chain == Segmented /\ Hosted /\ Spent /\ ResumedOnce

LEMMA StartedAre == Started \subseteq Children /\ 0 \notin Started
  BY Numbers DEF Started

LEMMA NextSession ==
  ASSUME Segmented
  PROVE  \E k \in Sessions : Started = 1..k /\ NewSession = k + 1
<1>1. PICK k \in Sessions : Started = 1..k
  BY DEF Segmented
<1>2. k \in Nat
  BY Numbers
<1>3. Cardinality(1..k) = k
  BY <1>2, FS_Interval
<1> QED
  BY <1>1, <1>3 DEF NewSession

LEMMA NewUnstarted == ASSUME Segmented PROVE NewSession \notin Started
  BY NextSession, Numbers

\* No process appears.
LEMMA WeakensStarted == ASSUME Weakens PROVE Started' = Started
  BY DEF Weakens, Started

\* What a step that starts no process may do to the daemons and the resume states: watch a
\* process that works, arm the one that is watched, use up a state.
Watches ==
  \A g \in Hosts :
    /\ \/ listener'[g].session \in {0, listener[g].session}
       \/ /\ listener'[g].session \in Started /\ child[listener'[g].session].host = g
          /\ child[listener'[g].session].phase \in Working
    /\ listener'[g].pc = "arm" => listener'[g].session # 0
Arms ==
  \A g \in Hosts :
    /\ arm'[g].session \in {arm[g].session, listener[g].session}
    /\ arm'[g].status \in {"armed", "decided"} =>
         /\ arm'[g].session # 0
         /\ \/ arm'[g].session = arm[g].session /\ arm[g].status \in {"armed", "decided"}
            \/ child[arm'[g].session].phase \in Working
            \/ arm'[g].session = listener[g].session

LEMMA ChainKept ==
  ASSUME Chain, Weakens, Watches, Arms
  PROVE  Chain'
<1>1. Started' = Started /\ Started \subseteq Children /\ 0 \notin Started
  BY WeakensStarted, StartedAre
<1>2. /\ \A s \in Started : child'[s].host = child[s].host /\ child'[s].from = child[s].from
                            /\ child'[s].epoch = child[s].epoch
      /\ Granted' = Granted
  BY <1>1 DEF Weakens, Granted
<1>3. Segmented'
  BY <1>1 DEF Chain, Segmented
<1>4. Hosted'
  <2>1. ASSUME NEW h \in Hosts, NEW s \in {listener'[h].session, arm'[h].session}, s # 0
        PROVE  s \in Started /\ child'[s].host = h
    <3>1. CASE s = listener'[h].session
      BY <1>2, <2>1, <3>1 DEF Chain, Hosted, Watches
    <3>2. CASE s = arm'[h].session
      BY <1>2, <2>1, <3>2 DEF Chain, Hosted, Arms
    <3> QED
      BY <2>1, <3>1, <3>2
  <2>2. ASSUME NEW s \in Started, child'[s].from # 0
        PROVE  child'[s].from \in Started /\ child'[child'[s].from].host = child'[s].host
    BY <1>2, <2>2 DEF Chain, Hosted
  <2> QED
    BY <1>1, <2>1, <2>2 DEF Hosted, Arms, Watches
<1>5. Spent'
  <2> SUFFICES ASSUME NEW t \in Granted
               PROVE  /\ child'[child'[t].from].phase \notin Working
                      /\ \A h \in Hosts :
                           /\ arm'[h].session = child'[t].from =>
                                arm'[h].status \notin {"armed", "decided"}
                           /\ listener'[h].session # child'[t].from
    BY <1>2 DEF Spent
  <2>1. t \in Started /\ child[t].from # 0 /\ child'[t].from = child[t].from
    BY <1>2 DEF Granted
  <2>2. child[t].from \in Started
    BY <2>1 DEF Chain, Hosted
  <2>3. child[child[t].from].phase \notin Working
    BY DEF Chain, Spent
  <2>4. \A h \in Hosts : /\ arm[h].session = child[t].from =>
                              arm[h].status \notin {"armed", "decided"}
                         /\ listener[h].session # child[t].from
    BY DEF Chain, Spent
  <2>5. child'[child[t].from].phase \notin Working
    BY <1>1, <2>2, <2>3 DEF Weakens
  <2>6. \A h \in Hosts : listener'[h].session # child[t].from
    BY <2>1, <2>3, <2>4 DEF Watches
  <2>7. \A h \in Hosts : arm'[h].session = child[t].from =>
                           arm'[h].status \notin {"armed", "decided"}
    BY <2>3, <2>4 DEF Arms
  <2> QED
    BY <2>1, <2>5, <2>6, <2>7
<1>6. ResumedOnce'
  BY <1>1, <1>2 DEF Chain, ResumedOnce
<1> QED
  BY <1>3, <1>4, <1>5, <1>6 DEF Chain

\* Process n is started on host h, from another or from none; the others stay or weaken.
Grows(n, h, from, epoch) ==
  /\ n \in Children
  /\ child'[n].host = h /\ child'[n].phase = "running"
  /\ child'[n].from = from /\ child'[n].epoch = epoch
  /\ \A s \in Children \ {n} :
       /\ child'[s].host = child[s].host /\ child'[s].from = child[s].from
       /\ child'[s].epoch = child[s].epoch
       /\ child'[s].phase = "none" <=> child[s].phase = "none"
       /\ child'[s].phase \in Working => child[s].phase \in Working

LEMMA GrowsStarted ==
  ASSUME Segmented, NEW h, NEW from, NEW epoch, Grows(NewSession, h, from, epoch)
  PROVE  /\ Started' = Started \cup {NewSession} /\ Segmented' /\ NewSession \notin Started
         /\ \A s \in Started : /\ child'[s].host = child[s].host /\ child'[s].from = child[s].from
                               /\ child'[s].epoch = child[s].epoch
                               /\ child'[s].phase \in Working => child[s].phase \in Working
<1>1. PICK k \in Sessions : Started = 1..k /\ NewSession = k + 1
  BY NextSession
<1>2. NewSession \notin Started
  BY NewUnstarted
<1> DEFINE n == NewSession
<1>3. n \in Children /\ child'[n].phase = "running"
  BY DEF Grows
<1>4. Started' = Started \cup {n}
  BY <1>2, <1>3 DEF Grows, Started
<1>5. k + 1 \in Sessions /\ k \in Nat /\ 1..(k + 1) = 1..k \cup {k + 1}
  BY <1>1, <1>3, Numbers
<1>6. Segmented'
  BY <1>1, <1>4, <1>5 DEF Segmented
<1> QED
  BY <1>2, <1>4, <1>6, StartedAre DEF Grows

LEMMA ChainGrows ==
  ASSUME Chain, NEW h, NEW from, NEW epoch, Grows(NewSession, h, from, epoch),
         from # 0 => from \in Started /\ child[from].host = h,
         \A g \in Hosts : /\ \/ listener'[g].session \in {0, listener[g].session}
                             \/ g = h /\ listener'[g].session = NewSession
                          /\ listener'[g].pc = "arm" => listener'[g].session # 0
                          /\ arm'[g].session = arm[g].session
                          /\ arm'[g].status \in {"armed", "decided"} =>
                               arm[g].status \in {"armed", "decided"},
         from # 0 /\ epoch # 0 =>
           /\ child[from].phase \notin Working
           /\ \A t \in Granted : child[t].from # from
           /\ \A g \in Hosts : /\ arm'[g].session = from =>
                                    arm'[g].status \notin {"armed", "decided"}
                               /\ listener'[g].session # from
  PROVE  Chain'
<1> DEFINE n == NewSession
<1>1. /\ Started' = Started \cup {n} /\ Segmented' /\ n \notin Started
      /\ \A s \in Started : /\ child'[s].host = child[s].host /\ child'[s].from = child[s].from
                            /\ child'[s].epoch = child[s].epoch
                            /\ child'[s].phase \in Working => child[s].phase \in Working
  BY GrowsStarted DEF Chain
<1>2. /\ child'[n].host = h /\ child'[n].phase = "running"
      /\ child'[n].from = from /\ child'[n].epoch = epoch
  BY DEF Grows
<1>3. Started \subseteq Children /\ 0 \notin Started
  BY StartedAre
<1> HIDE DEF n
<1>4. Hosted'
  <2>1. ASSUME NEW g \in Hosts, NEW s \in {listener'[g].session, arm'[g].session}, s # 0
        PROVE  s \in Started' /\ child'[s].host = g
    <3>1. CASE s = n
      <4>1. s # arm'[g].session
        BY <1>1, <2>1, <3>1 DEF Chain, Hosted
      <4>2. s # listener[g].session
        BY <1>1, <2>1, <3>1 DEF Chain, Hosted
      <4> QED
        BY <1>1, <1>2, <2>1, <3>1, <4>1, <4>2 DEF n
    <3>2. CASE s # n
      <4>1. s \in {listener[g].session, arm[g].session}
        BY <2>1, <3>2 DEF n
      <4>2. s \in Started /\ child[s].host = g
        BY <2>1, <4>1 DEF Chain, Hosted
      <4> QED
        BY <1>1, <4>2
    <3> QED
      BY <3>1, <3>2
  <2>2. ASSUME NEW s \in Started', child'[s].from # 0
        PROVE  child'[s].from \in Started' /\ child'[child'[s].from].host = child'[s].host
    <3>1. CASE s = n
      BY <1>1, <1>2, <2>2, <3>1
    <3>2. CASE s # n
      <4>1. s \in Started /\ child[s].from # 0 /\ child'[s].from = child[s].from
            /\ child'[s].host = child[s].host
        BY <1>1, <2>2, <3>2
      <4>2. child[s].from \in Started /\ child[child[s].from].host = child[s].host
        BY <4>1 DEF Chain, Hosted
      <4> QED
        BY <1>1, <4>1, <4>2
    <3> QED
      BY <3>1, <3>2
  <2>3. \A g \in Hosts : /\ arm'[g].status \in {"armed", "decided"} => arm'[g].session # 0
                         /\ listener'[g].pc = "arm" => listener'[g].session # 0
    BY DEF Chain, Hosted
  <2> QED
    BY <2>1, <2>2, <2>3 DEF Hosted
<1>5. ASSUME NEW t \in Granted', t # n
      PROVE  t \in Granted /\ child'[t].from = child[t].from /\ child[t].from \in Started
  <2>1. t \in Started /\ child[t].from # 0 /\ child[t].epoch # 0 /\ child'[t].from = child[t].from
    BY <1>1, <1>5 DEF Granted
  <2> QED
    BY <2>1 DEF Granted, Chain, Hosted
<1>6. Spent'
  <2> SUFFICES ASSUME NEW t \in Granted'
               PROVE  /\ child'[child'[t].from].phase \notin Working
                      /\ \A g \in Hosts :
                           /\ arm'[g].session = child'[t].from =>
                                arm'[g].status \notin {"armed", "decided"}
                           /\ listener'[g].session # child'[t].from
    BY DEF Spent
  <2>1. CASE t = n
    <3>1. from # 0 /\ epoch # 0
      BY <1>2, <2>1 DEF Granted
    <3> QED
      BY <1>1, <1>2, <2>1, <3>1
  <2>2. CASE t # n
    <3>1. t \in Granted /\ child'[t].from = child[t].from /\ child[t].from \in Started
      BY <1>5, <2>2
    <3>2. child[child[t].from].phase \notin Working
          /\ \A g \in Hosts : /\ arm[g].session = child[t].from =>
                                   arm[g].status \notin {"armed", "decided"}
                              /\ listener[g].session # child[t].from
      BY <3>1 DEF Chain, Spent
    <3>3. child'[child[t].from].phase \notin Working
      BY <1>1, <3>1, <3>2
    <3>4. \A g \in Hosts : listener'[g].session # child[t].from
      BY <1>1, <1>3, <3>1, <3>2 DEF n
    <3>5. \A g \in Hosts : arm'[g].session = child[t].from =>
                             arm'[g].status \notin {"armed", "decided"}
      BY <3>2
    <3> QED
      BY <3>1, <3>3, <3>4, <3>5
  <2> QED
    BY <2>1, <2>2
<1>7. ResumedOnce'
  <2> SUFFICES ASSUME NEW s \in Started', NEW t \in Started', s # t,
                      child'[s].from # 0, child'[s].from = child'[t].from,
                      child'[s].epoch # 0, child'[t].epoch # 0
               PROVE  FALSE
    BY DEF ResumedOnce
  <2>1. CASE s # n /\ t # n
    <3>1. s \in Started /\ t \in Started
      BY <1>1, <2>1
    <3> QED
      BY <1>1, <3>1 DEF Chain, ResumedOnce
  <2>2. ASSUME NEW u \in Started, child[u].from = from, from # 0, epoch # 0, child[u].epoch # 0
        PROVE  FALSE
    <3>1. u \in Granted
      BY <2>2 DEF Granted
    <3> QED
      BY <2>2, <3>1
  <2> QED
    BY <1>1, <1>2, <2>1, <2>2
<1> QED
  BY <1>1, <1>4, <1>6, <1>7 DEF Chain

\* A step that moves the daemon of h to rest, or to a step of a handshake.
LEMMA RestsWatch == ASSUME Chain, NEW h \in Hosts, Rests(h) PROVE Watches
  BY IdleTyped DEF Rests, Only, Same, Watches, Chain, Hosted

LEMMA StepsWatch ==
  ASSUME Chain, NEW h \in Hosts, NEW step, step # "arm", Steps2(h, step)
  PROVE  Watches
  BY DEF Steps2, Only, Same, Watches, Chain, Hosted

LEMMA StillWatch == ASSUME Chain, UNCHANGED listener PROVE Watches
  BY DEF Watches, Chain, Hosted

LEMMA StillArms == ASSUME Chain, UNCHANGED arm PROVE Arms
  BY DEF Arms, Chain, Hosted

\* The resume state of h keeps its session, and is not armed again.
LEMMA UsedArms ==
  ASSUME Chain, NEW h \in Hosts, OnlyArm(h), arm'[h].session = arm[h].session,
         arm'[h].status \in {"armed", "decided"} => arm[h].status \in {"armed", "decided"}
  PROVE  Arms
  BY DEF Arms, OnlyArm, Chain, Hosted

LEMMA StillWeakens == ASSUME UNCHANGED child PROVE Weakens
  BY DEF Weakens

\* A new process and its fields.
LEMMA SpawnGrows ==
  ASSUME Typed, Chain, NEW h \in Hosts, NEW from \in Sessions, NEW epoch \in Epochs,
         NewSession \in Children, Spawn(h, from, epoch)
  PROVE  Grows(NewSession, h, from, epoch)
<1>1. child \in [Children -> ChildRecord]
  BY Parts DEF ChildTyped
<1>2. /\ child'[NewSession].host = h /\ child'[NewSession].phase = "running"
      /\ child'[NewSession].from = from /\ child'[NewSession].epoch = epoch
      /\ \A s \in Children : s # NewSession => child'[s] = child[s]
  BY <1>1, Spawning DEF Spawn
<1> QED
  BY <1>2 DEF Grows

LEMMA StartChain == ASSUME Typed, Chain, NEW h \in Hosts, StartChild(h) PROVE Chain'
<1>1. CASE Rests(h) /\ UNCHANGED <<child, arm>>
  BY <1>1, RestsWatch, StillArms, StillWeakens, ChainKept
<1>2. CASE /\ Only(h) /\ listener'[h].pc = "poll" /\ listener'[h].session = NewSession
           /\ Spawn(h, 0, listener[h].epoch) /\ NewSession \in Children /\ UNCHANGED arm
  <2>1. listener[h].epoch \in Epochs /\ 0 \in Sessions
    BY AtHost, ListenerFields, Numbers
  <2>2. Grows(NewSession, h, 0, listener[h].epoch)
    BY <1>2, <2>1, SpawnGrows
  <2>3. \A g \in Hosts : /\ \/ listener'[g].session \in {0, listener[g].session}
                            \/ g = h /\ listener'[g].session = NewSession
                         /\ listener'[g].pc = "arm" => listener'[g].session # 0
    BY <1>2 DEF Only, Chain, Hosted
  <2> QED
    BY <1>2, <2>2, <2>3, ChainGrows
<1> QED
  BY <1>1, <1>2, StartTyped

LEMMA DecideChain ==
  ASSUME Typed, Chain, NEW s \in Children, NEW d \in Decisions, Decide(s, d)
  PROVE  Chain'
<1>1. s \in Started /\ child[s].phase = "paused" /\ s # 0 /\ UNCHANGED listener
  BY DecideTyped, Numbers DEF Started
<1>2. CASE /\ Weakens
           /\ \A g \in Hosts :
                \/ arm'[g] = arm[g]
                \/ /\ g = child[s].host /\ arm[g].session = s /\ arm'[g].status = "decided"
                   /\ arm'[g].session = s /\ arm'[g].grant = arm[g].grant
  <2>1. Arms
    BY <1>1, <1>2 DEF Arms, Working, Chain, Hosted
  <2> QED
    BY <1>1, <1>2, <2>1, StillWatch, ChainKept
<1>3. CASE /\ NewSession \in Children /\ UNCHANGED arm
           /\ child'[NewSession].host = child[s].host /\ child'[NewSession].phase = "running"
           /\ child'[NewSession].from = s /\ child'[NewSession].epoch = 0
           /\ \/ s = NewSession
              \/ /\ child'[s].phase = "decided" /\ child'[s].host = child[s].host
                 /\ child'[s].from = child[s].from /\ child'[s].epoch = child[s].epoch
           /\ \A t \in Children \ {s, NewSession} : child'[t] = child[t]
  <2>1. s # NewSession
    BY <1>1, NewUnstarted DEF Chain
  <2>2. Grows(NewSession, child[s].host, s, 0)
    BY <1>1, <1>3, <2>1 DEF Grows, Working
  <2>3. \A g \in Hosts : /\ listener'[g].session \in {0, listener[g].session}
                         /\ listener'[g].pc = "arm" => listener'[g].session # 0
    BY <1>1 DEF Chain, Hosted
  <2> QED
    BY <1>1, <1>3, <2>2, <2>3, ChainGrows
<1> QED
  BY <1>2, <1>3, DecideTyped, Zenon

LEMMA LaunchChain == ASSUME Typed, Chain, NEW h \in Hosts, LaunchResumed(h) PROVE Chain'
<1> DEFINE s == arm[h].session
<1>1. /\ listener[h].pc = "reserve" /\ arm[h].status = "decided" /\ Active(h) = {}
      /\ NewSession \in Children
      /\ OnlyArm(h) /\ arm'[h].session = s /\ arm'[h].status \in {"started", "reserved"}
  BY LaunchTyped
<1>2. CASE UNCHANGED child /\ Rests(h)
  BY <1>1, <1>2, RestsWatch, UsedArms, StillWeakens, ChainKept
<1>3. CASE /\ Spawn(h, s, listener[h].grant) /\ Only(h)
           /\ \/ listener'[h] = Idle
              \/ /\ listener'[h].pc = "resumed"
                 /\ listener'[h].session = NewSession
  <2>1. s \in Sessions /\ listener[h].grant \in Epochs
    BY AtHost, ListenerFields DEF ArmRecord
  <2>2. Grows(NewSession, h, s, listener[h].grant)
    BY <1>1, <1>3, <2>1, SpawnGrows
  <2>3. s \in Started /\ child[s].host = h /\ s # 0
    BY <1>1 DEF Chain, Hosted
  <2>4. child[s].phase \notin Working
    BY <1>1, <2>3 DEF Active, Working
  <2>5. \A t \in Granted : child[t].from # s
    BY <1>1 DEF Chain, Spent
  <2>6. s # NewSession
    BY <2>3, NewUnstarted DEF Chain
  <2>7. \A g \in Hosts : listener'[g].session # s
    BY <1>3, <2>3, <2>6, IdleTyped DEF Only, Chain, Hosted
  <2>8. \A g \in Hosts : arm'[g].session = s => arm'[g].status \notin {"armed", "decided"}
    BY <1>1, <2>3 DEF OnlyArm, Chain, Hosted
  <2>9. \A g \in Hosts : /\ \/ listener'[g].session \in {0, listener[g].session}
                            \/ g = h /\ listener'[g].session = NewSession
                         /\ listener'[g].pc = "arm" => listener'[g].session # 0
                         /\ arm'[g].session = arm[g].session
                         /\ arm'[g].status \in {"armed", "decided"} =>
                              arm[g].status \in {"armed", "decided"}
    BY <1>1, <1>3, IdleTyped DEF Only, OnlyArm, Chain, Hosted
  <2> QED
    BY <2>2, <2>3, <2>4, <2>5, <2>7, <2>8, <2>9, ChainGrows
<1> QED
  BY <1>2, <1>3, LaunchTyped, Zenon

LEMMA HandshakeChain ==
  ASSUME Typed, Chain, NEW h \in Hosts,
         PickResumable(h) \/ InstallGrant(h) \/ RejectResumed(h) \/ ReplayResumed(h)
  PROVE  Chain'
<1>1. Weakens
  BY StillWeakens, PickResumableTyped, InstallTyped, RejectTyped, ReplayTyped
<1>2. CASE PickResumable(h)
  <2>1. Watches
    BY <1>2, PickResumableTyped DEF Only, Watches, Chain, Hosted
  <2>2. Arms
    BY <1>2, PickResumableTyped, UsedArms
  <2> QED
    BY <1>1, <2>1, <2>2, ChainKept
<1>3. CASE InstallGrant(h)
  BY <1>1, <1>3, InstallTyped, StepsWatch, RestsWatch, StillArms, UsedArms, ChainKept
<1>4. CASE RejectResumed(h)
  BY <1>1, <1>4, RejectTyped, RestsWatch, UsedArms, ChainKept
<1>5. CASE ReplayResumed(h)
  <2>1. Watches
    BY <1>5, ReplayTyped DEF Only, Watches, Chain, Hosted, Carrier, Active, Working
  <2>2. Arms
    BY <1>5, ReplayTyped, UsedArms
  <2> QED
    BY <1>1, <2>1, <2>2, ChainKept
<1> QED
  BY <1>2, <1>3, <1>4, <1>5

\* Steps of a daemon that change no resume state, and no process but one they stop.
LEMMA StoppedWeakens ==
  ASSUME Typed, Chain, NEW h \in Hosts,
         child' = [child EXCEPT ![listener[h].session].phase = "bad"]
  PROVE  Weakens
<1> DEFINE s == listener[h].session
<1>1. CASE s = 0
  <2>1. child' = child
    BY <1>1, Parts, Numbers DEF ChildTyped
  <2> QED
    BY <2>1, StillWeakens
<1>2. CASE s # 0
  <2>1. s \in Children /\ child[s].phase # "none"
    BY <1>2 DEF Chain, Hosted, Started
  <2> HIDE DEF s
  <2>2. child' = [child EXCEPT ![s].phase = "bad"]
    BY DEF s
  <2> QED
    BY <2>1, <2>2, Rephased DEF Phases, Working
<1> QED
  BY <1>1, <1>2

LEMMA RestChain ==
  ASSUME Typed, Chain, NEW h \in Hosts,
         \/ RenewFails(h) \/ Abort(h) \/ ReportTerminal(h) \/ Settled(h) \/ RefuseResumed(h)
         \/ CloseResumed(h) \/ Restart(h) \/ AnnounceRunning(h) \/ CheckClaim(h)
         \/ AnnouncePause(h) \/ ArmResume(h) \/ ReleasePause(h) \/ PickAssigned(h)
         \/ RequestResume(h) \/ ClaimResume(h) \/ AckResume(h) \/ AnnounceResumed(h)
  PROVE  Chain'
<1>1. CASE RenewFails(h) \/ Abort(h) \/ ReportTerminal(h) \/ Settled(h) \/ RefuseResumed(h)
           \/ CloseResumed(h) \/ Restart(h) \/ AnnouncePause(h) \/ ReleasePause(h)
  BY <1>1, RestTyped, RestartTyped, AnnouncePauseTyped, ReleasePauseTyped, RestsWatch, StillArms,
     StillWeakens, ChainKept
<1>2. CASE AnnounceRunning(h) \/ CheckClaim(h) \/ RequestResume(h)
  <2>1. Rests(h) \/ \E step \in {"check", "start", "claim"} : Steps2(h, step)
    BY <1>2, AnnounceTyped, CheckTyped, RequestTyped
  <2>2. UNCHANGED <<child, arm>>
    BY <1>2 DEF AnnounceRunning, CheckClaim, RequestResume
  <2> QED
    BY <2>1, <2>2, RestsWatch, StepsWatch, StillArms, StillWeakens, ChainKept
<1>3. CASE ArmResume(h)
  <2>1. Arms
    <3>1. CASE UNCHANGED arm
      BY <3>1, StillArms
    <3>2. CASE /\ OnlyArm(h) /\ arm'[h].session = listener[h].session
               /\ listener[h].pc = "arm"
      BY <3>2 DEF Arms, OnlyArm, Chain, Hosted
    <3> QED
      BY <1>3, <3>1, <3>2, ArmResumeTyped
  <2> QED
    BY <1>3, <2>1, ArmResumeTyped, RestsWatch, StillWeakens, ChainKept
<1>4. CASE PickAssigned(h)
  <2>1. Watches
    BY <1>4, PickAssignedTyped DEF Only, Watches, Chain, Hosted
  <2>2. UNCHANGED <<child, arm>>
    BY <1>4 DEF PickAssigned
  <2> QED
    BY <2>1, <2>2, StillArms, StillWeakens, ChainKept
<1>5. CASE ClaimResume(h)
  <2>1. Watches
    BY <1>5, ClaimTyped, RestsWatch DEF Only, Watches, Chain, Hosted
  <2> QED
    BY <1>5, <2>1, ClaimTyped, StillArms, StillWeakens, ChainKept
<1>6. CASE AckResume(h)
  <2>1. Watches
    BY <1>6, AckTyped, RestsWatch DEF Only, Watches, Chain, Hosted
  <2> QED
    BY <1>6, <2>1, AckTyped, StillArms, StillWeakens, ChainKept
<1>7. CASE AnnounceResumed(h)
  BY <1>7, AnnounceResumedTyped, StoppedWeakens, RestsWatch, StillArms, StillWeakens, ChainKept
<1> QED
  BY <1>1, <1>2, <1>3, <1>4, <1>5, <1>6, <1>7

LEMMA ChainInit == Init => Chain
<1> SUFFICES ASSUME Init PROVE Chain
  OBVIOUS
<1>1. Started = {}
  BY DEF Init, Started
<1>2. Segmented
  <2>1. 1..0 = {}
    OBVIOUS
  <2> QED
    BY <1>1, <2>1, Numbers DEF Segmented
<1>3. Hosted
  BY <1>1, IdleTyped DEF Hosted, Init, Unarmed
<1> QED
  BY <1>1, <1>2, <1>3 DEF Chain, Spent, Granted, ResumedOnce

LEMMA ChainStep == Typed /\ Chain /\ [Next]_vars => Chain'
<1> SUFFICES ASSUME Typed, Chain, [Next]_vars PROVE Chain'
  OBVIOUS
<1>1. CASE UNCHANGED <<child, arm, listener>>
  BY <1>1, StillWatch, StillArms, StillWeakens, ChainKept
<1>2. CASE Scheduler \/ Cancel \/ ExpireLease \/ ExpirePause \/ \E s \in Children : ForwardEvents(s)
  BY <1>1, <1>2 DEF Scheduler, Assign, BlockUnready, Recheck, RecoverPause, RecoverLease, Cancel,
     ExpireLease, ExpirePause, ForwardEvents
<1>3. CASE \E h \in Hosts : Dispatching(h) \/ Pausing(h) \/ Resuming(h)
                             \/ RenewFails(h) \/ Restart(h)
  BY <1>3, RestChain, StartChain, LaunchChain, HandshakeChain, Zenon
     DEF Dispatching, Pausing, Resuming
<1>4. CASE \E s \in Children : ChildStep(s)
  BY <1>4, ChildStepTyped, StillWatch, StillArms, ChainKept
<1>5. CASE \E s \in Children : \E d \in Decisions : Decide(s, d)
  BY <1>5, DecideChain
<1>6. CASE UNCHANGED vars
  BY <1>1, <1>6 DEF vars
<1> QED
  BY <1>2, <1>3, <1>4, <1>5, <1>6, Zenon DEF Next

\* A pause is resumed under a grant at most once: the reservation of the start consumes the
\* resume state of the host (reserveLocalFederatedResumeStart), and a pause that is over is
\* not armed again, whatever is lost, repeated or restarted.
THEOREM ResumesOnce == Spec => []ResumedOnce
<1>1. Spec => [](Typed /\ Chain)
  BY TypedInit, TypedStep, ChainInit, ChainStep, PTL DEF Spec
<1>2. Typed /\ Chain => ResumedOnce
  BY DEF Chain
<1> QED
  BY <1>1, <1>2, PTL

-----------------------------------------------------------------------------
(* Leases and grants: the run that is recorded is the run that was started. *)

\* The pause of the record.  A record with a pause is not assigned again.
PauseSound ==
  /\ pause.state # "none" => job.status \notin {"queued", "assigned"}
  /\ pause.state = "approved" => pause.grant # 0 /\ lease.id \in {0, pause.grant}
  /\ ~pause.used => pause.resumed = 0
  /\ pause.state \notin {"approved", "manual"} => pause.grant = 0 /\ ~pause.used
  /\ lease.live => lease.id # 0
  /\ lease.id <= count.epochs /\ pause.grant <= count.epochs

\* A token in the hands of a host: it is not the lease of a claim that has no grant yet,
\* and the grant of the pause on record was given for that pause.
NotClaimed(e) ==
  e <= count.epochs /\ (pause.state = "resume_claimed" /\ lease.id # 0 => e # lease.id)
Fits(g, s) == NotClaimed(g) /\ (pause.grant # 0 /\ g = pause.grant => s = pause.session)
\* The lease of an assignment is never a grant.
Plain(e) == NotClaimed(e) /\ (pause.grant # 0 => e # pause.grant)

ChildrenFit == \A s \in Started : Fits(child[s].epoch, child[s].from)

\* A daemon, and the resume state of its host.  One that has a grant watches a process
\* started under it, and is about to start one only for the state it has armed.
HostFit(h) ==
  /\ Fits(arm[h].grant, arm[h].session)
  /\ Fits(listener[h].grant, listener[h].old)
  /\ listener[h].grant # 0 /\ listener[h].session # 0 =>
       child[listener[h].session].epoch = listener[h].grant
  /\ listener[h].pc \in Assigning => Plain(listener[h].epoch) /\ listener[h].grant = 0
  /\ listener[h].pc \in Handshake => listener[h].session = 0
  /\ listener[h].pc = "reserve" =>
       arm[h].grant = listener[h].grant /\ arm[h].session = listener[h].old

\* SameSession, with the process.
RunRecorded ==
  pause.used /\ pause.resumed # 0 =>
    /\ pause.resumed \in Started
    /\ child[pause.resumed].from = pause.session
    /\ child[pause.resumed].epoch = pause.grant

Grants == PauseSound /\ ChildrenFit /\ (\A h \in Hosts : HostFit(h)) /\ RunRecorded

\* The same, said of a token now and the record after the step.
NextNotClaimed(e) ==
  e <= count'.epochs /\ (pause'.state = "resume_claimed" /\ lease'.id # 0 => e # lease'.id)
NextFits(g, s) == NextNotClaimed(g) /\ (pause'.grant # 0 /\ g = pause'.grant => s = pause'.session)
NextPlain(e) == NextNotClaimed(e) /\ (pause'.grant # 0 => e # pause'.grant)

\* A change of the record leaves tokens that fit fitting.
Fitting ==
  /\ PauseSound'
  /\ \A e \in Nat : \A s : Fits(e, s) => NextFits(e, s)
  /\ \A e \in Nat : Plain(e) => NextPlain(e)

LEMMA HeadFields ==
  ASSUME Typed
  PROVE  /\ lease.id \in Nat /\ lease.live \in BOOLEAN /\ count.epochs \in Nat
         /\ pause.grant \in Nat /\ pause.session \in Sessions /\ pause.resumed \in Sessions
         /\ pause.used \in BOOLEAN
  BY Parts, Numbers DEF HeadTyped, CountTyped, LeaseRecord, PauseRecord, CountRecord

\* The pause stays as it is, but for its clocks, or moves on to a state without a claim.
LEMMA FittingKept ==
  ASSUME Typed, PauseSound, LeaseKept, count'.epochs = count.epochs,
         pause'.session = pause.session, pause'.grant = pause.grant,
         \/ pause'.state = pause.state
         \/ pause'.state = "manual" /\ pause.state # "none"
         \/ /\ pause'.state \in {"released", "resume_requested"}
            /\ pause.state \in {"attached", "released"},
         pause'.used => pause.used \/ pause.state = "approved",
         ~pause'.used => pause'.resumed = 0,
         job'.status \in {"queued", "assigned"} =>
           pause.state = "none" \/ job.status \in {"queued", "assigned"}
  PROVE  Fitting
<1>1. PauseSound'
  BY HeadFields DEF PauseSound, LeaseKept
<1>2. \A e \in Nat : NotClaimed(e) => NextNotClaimed(e)
  BY HeadFields DEF NotClaimed, NextNotClaimed, LeaseKept
<1>3. \A e \in Nat : \A s : Fits(e, s) => NextFits(e, s)
  BY <1>2 DEF Fits, NextFits
<1>4. \A e \in Nat : Plain(e) => NextPlain(e)
  BY <1>2 DEF Plain, NextPlain
<1> QED
  BY <1>1, <1>3, <1>4 DEF Fitting

LEMMA FittingStill ==
  ASSUME Typed, PauseSound, UNCHANGED <<job, lease, pause>>, count'.epochs = count.epochs
  PROVE  Fitting
<1>1. LeaseKept
  BY Parts, LeaseKeeps
<1> QED
  BY <1>1, FittingKept DEF PauseSound

LEMMA PlainFitting ==
  ASSUME Typed, PauseSound, LeaseKept, UNCHANGED count,
         NEW h \in Hosts, NEW st, NEW s, ReportPlain(h, st, s)
  PROVE  Fitting /\ UNCHANGED pause
<1>1. CASE PlainAccepted(h, st)
  <2>1. pause' = pause /\ pause.state = "none"
    BY <1>1 DEF ReportPlain, PlainAccepted
  <2> QED
    BY <2>1, FittingKept DEF PauseSound
<1>2. CASE ~PlainAccepted(h, st)
  BY <1>2, FittingStill DEF ReportPlain, NoReport
<1> QED
  BY <1>1, <1>2

\* A new pause has no grant.
LEMMA PauseFitting ==
  ASSUME Typed, PauseSound, LeaseKept, UNCHANGED count,
         NEW h \in Hosts, NEW e, NEW s \in Sessions, ReportPause(h, e, s)
  PROVE  Fitting /\ (UNCHANGED pause \/ (pause'.used = FALSE /\ pause'.resumed = 0))
<1>1. CASE PauseAccepted(h, e, s)
  <2>1. /\ pause' = [NoPause EXCEPT !.state = "attached", !.session = s]
        /\ job' = [job EXCEPT !.status = "awaiting_approval", !.active = TRUE]
    BY <1>1 DEF ReportPause
  <2>2. /\ pause'.state = "attached" /\ pause'.grant = 0 /\ pause'.used = FALSE
        /\ pause'.resumed = 0
    BY <2>1, NoPauseTyped DEF PauseRecord
  <2>3. job'.status = "awaiting_approval"
    BY <2>1, Parts DEF HeadTyped, JobRecord
  <2>4. PauseSound'
    BY <2>2, <2>3, HeadFields DEF PauseSound, LeaseKept
  <2>5. \A x \in Nat : NotClaimed(x) => NextNotClaimed(x)
    BY <2>2 DEF NotClaimed, NextNotClaimed
  <2>6. \A x \in Nat : \A t : Fits(x, t) => NextFits(x, t)
    BY <2>2, <2>5 DEF Fits, NextFits
  <2>7. \A x \in Nat : Plain(x) => NextPlain(x)
    BY <2>2, <2>5 DEF Plain, NextPlain
  <2> QED
    BY <2>2, <2>4, <2>6, <2>7 DEF Fitting
<1>2. CASE ~PauseAccepted(h, e, s)
  BY <1>2, FittingStill DEF ReportPause, NoReport
<1> QED
  BY <1>1, <1>2

LEMMA ResumedFitting ==
  ASSUME Typed, PauseSound, LeaseKept, UNCHANGED count,
         NEW h \in Hosts, NEW g, NEW s \in Sessions, ReportResumed(h, g, s)
  PROVE  /\ Fitting
         /\ \/ UNCHANGED pause
            \/ /\ pause.grant = g /\ g # 0
               /\ pause'.grant = g /\ pause'.session = pause.session
               /\ pause'.used = TRUE /\ pause'.resumed = s
<1>1. CASE ResumeAccepted(h, g, s)
  <2>1. /\ job' = [job EXCEPT !.status = "running", !.session = s, !.active = TRUE]
        /\ pause' = [pause EXCEPT !.used = TRUE, !.resumed = s]
        /\ pause.grant = g /\ g # 0 /\ (pause.used \/ pause.state = "approved")
    BY <1>1 DEF ReportResumed, ResumeAccepted
  <2>2. /\ pause'.state = pause.state /\ pause'.grant = pause.grant
        /\ pause'.session = pause.session /\ pause'.used = TRUE /\ pause'.resumed = s
    BY <2>1, Parts DEF HeadTyped, PauseRecord
  <2>3. job'.status = "running"
    BY <2>1, Parts DEF HeadTyped, JobRecord
  <2> QED
    BY <2>1, <2>2, <2>3, FittingKept
<1>2. CASE ~ResumeAccepted(h, g, s)
  BY <1>2, FittingStill DEF ReportResumed, NoReport
<1> QED
  BY <1>1, <1>2

LEMMA ClosedFitting ==
  ASSUME Typed, PauseSound, LeaseKept, UNCHANGED count,
         NEW h \in Hosts, NEW g, NEW s, NEW st \in Terminal, ReportClosed(h, g, s, st)
  PROVE  /\ Fitting
         /\ \/ UNCHANGED pause
            \/ /\ pause'.grant = pause.grant /\ pause'.session = pause.session
               /\ pause'.resumed = pause.resumed
               /\ pause.used \/ pause'.resumed = 0
<1>1. CASE CloseAccepted(h, g, s, st)
  <2>1. /\ job' = [job EXCEPT !.status = st, !.active = TRUE]
        /\ pause' = [pause EXCEPT !.used = TRUE]
        /\ pause.used \/ pause.state = "approved"
    BY <1>1 DEF ReportClosed, CloseAccepted
  <2>2. /\ pause'.state = pause.state /\ pause'.grant = pause.grant
        /\ pause'.session = pause.session /\ pause'.used = TRUE
        /\ pause'.resumed = pause.resumed
    BY <2>1, Parts DEF HeadTyped, PauseRecord
  <2>3. job'.status \notin {"queued", "assigned"}
    BY <2>1, Parts DEF HeadTyped, JobRecord, Terminal
  <2>4. pause.used \/ pause'.resumed = 0
    BY <2>2 DEF PauseSound
  <2> QED
    BY <2>1, <2>2, <2>3, <2>4, FittingKept
<1>2. CASE ~CloseAccepted(h, g, s, st)
  BY <1>2, FittingStill DEF ReportClosed, NoReport
<1> QED
  BY <1>1, <1>2

\* The run on record stays the same, or there is none.
RecordKept ==
  pause'.used /\ pause'.resumed # 0 =>
    /\ pause.used /\ pause'.resumed = pause.resumed
    /\ pause'.session = pause.session /\ pause'.grant = pause.grant

\* No process is forgotten, or becomes another one's heir.
Remembers ==
  \A s \in Started : /\ s \in Started'
                     /\ child'[s].from = child[s].from /\ child'[s].epoch = child[s].epoch

LEMMA RunKept == ASSUME RunRecorded, RecordKept, Remembers PROVE RunRecorded'
  BY DEF RunRecorded, RecordKept, Remembers

LEMMA HandoverFitting ==
  ASSUME Typed, PauseSound, LeaseKept, count'.epochs = count.epochs, pause.state # "none", Handover
  PROVE  Fitting /\ RecordKept
<1>1. /\ pause'.state = "manual" /\ pause'.session = pause.session /\ pause'.grant = pause.grant
      /\ pause'.used = pause.used /\ pause'.resumed = pause.resumed
      /\ job'.status = "blocked"
  BY Parts DEF Handover, HeadTyped, PauseRecord, JobRecord
<1>2. Fitting
  BY <1>1, FittingKept DEF PauseSound
<1> QED
  BY <1>1, <1>2 DEF RecordKept

LEMMA AssignFitting ==
  ASSUME Typed, PauseSound, NEW h \in Hosts, Assign(h)
  PROVE  Fitting /\ RecordKept
<1>1. /\ pause' = pause /\ pause.state = "none" /\ pause.grant = 0
      /\ lease'.id = count.epochs + 1 /\ count'.epochs = count.epochs + 1
  BY Parts, NewLeaseTyped DEF Assign, PauseSound
<1>2. PauseSound'
  BY <1>1, HeadFields DEF PauseSound
<1>3. /\ \A e \in Nat : \A s : Fits(e, s) => NextFits(e, s)
      /\ \A e \in Nat : Plain(e) => NextPlain(e)
  BY <1>1, HeadFields DEF Fits, Plain, NotClaimed,
         NextFits, NextPlain, NextNotClaimed
<1> QED
  BY <1>1, <1>2, <1>3 DEF Fitting, RecordKept

LEMMA SchedulerFitting ==
  ASSUME Typed, PauseSound, Scheduler \/ Cancel \/ ExpireLease \/ ExpirePause
  PROVE  Fitting /\ RecordKept
<1>1. CASE \E h \in Hosts : Assign(h)
  BY <1>1, AssignFitting
<1>2. CASE BlockUnready \/ Recheck \/ Cancel
  <2>1. UNCHANGED <<lease, pause, count>>
    BY <1>2 DEF BlockUnready, Recheck, Cancel
  <2>2. LeaseKept
    BY <2>1, Parts, LeaseKeeps
  <2>3. job'.status \in {"queued", "assigned"} => pause.state = "none"
    <3>1. CASE BlockUnready \/ Cancel
      BY <3>1, Parts DEF BlockUnready, Cancel, HeadTyped, JobRecord
    <3>2. CASE Recheck
      BY <3>2, NoPauseTyped DEF Recheck, Unstarted
    <3> QED
      BY <1>2, <3>1, <3>2
  <2>4. Fitting
    BY <2>1, <2>2, <2>3, FittingKept DEF PauseSound
  <2> QED
    BY <2>1, <2>4 DEF RecordKept
<1>3. CASE RecoverPause
  <2>1. pause.state # "none" /\ UNCHANGED count /\ Handover
    BY <1>3 DEF RecoverPause, PauseOverdue, Released
  <2>2. LeaseKept
    BY <2>1, Parts, LeaseKeeps DEF Handover
  <2> QED
    BY <2>1, <2>2, HandoverFitting
<1>4. CASE RecoverLease
  <2>1. pause' = pause /\ lease' = NoLease /\ count'.epochs = count.epochs
    BY <1>4, Parts DEF RecoverLease, CountTyped, CountRecord
  <2>2. LeaseKept
    BY <2>1, Parts, LeaseKeeps
  <2>3. job'.status \in {"queued", "assigned"} => job.status = "assigned"
    BY <1>4, Parts DEF RecoverLease, CanRetry, HeadTyped, JobRecord
  <2>4. Fitting
    BY <2>1, <2>2, <2>3, FittingKept DEF PauseSound
  <2> QED
    BY <2>1, <2>4 DEF RecordKept
<1>5. CASE ExpireLease \/ ExpirePause
  <2>1. LeaseKept
    BY <1>5, ExpiryTyped
  <2>2. UNCHANGED <<job, count>>
    BY <1>5 DEF ExpireLease, ExpirePause
  <2>3. /\ pause'.state = pause.state /\ pause'.session = pause.session
        /\ pause'.grant = pause.grant /\ pause'.used = pause.used /\ pause'.resumed = pause.resumed
    BY <1>5, Parts DEF ExpireLease, ExpirePause, HeadTyped, PauseRecord
  <2>4. Fitting
    BY <2>1, <2>2, <2>3, FittingKept DEF PauseSound
  <2> QED
    BY <2>3, <2>4 DEF RecordKept
<1> QED
  BY <1>1, <1>2, <1>3, <1>4, <1>5 DEF Scheduler

LEMMA ForwardFitting ==
  ASSUME Typed, PauseSound, NEW s \in Children, ForwardEvents(s)
  PROVE  Fitting /\ RecordKept
<1>1. UNCHANGED <<lease, pause, count>> /\ job'.status = job.status
  BY Parts DEF ForwardEvents, HeadTyped, JobRecord
<1>2. LeaseKept
  BY <1>1, Parts, LeaseKeeps
<1>3. Fitting
  BY <1>1, <1>2, FittingKept DEF PauseSound
<1> QED
  BY <1>1, <1>3 DEF RecordKept

\* What a daemon's request does to the record, except for the report of a resumed run.
LEMMA RequestFitting ==
  ASSUME Typed, PauseSound, NEW h \in Hosts,
         Dispatching(h) \/ Pausing(h) \/ RenewFails(h) \/ Restart(h) \/ CloseResumed(h)
           \/ RefuseResumed(h) \/ RequestResume(h) \/ ClaimResume(h) \/ AckResume(h)
  PROVE  Fitting /\ RecordKept
<1>1. CASE UNCHANGED <<job, lease, pause>> /\ count'.epochs = count.epochs
  BY <1>1, FittingStill DEF RecordKept
<1>2. CASE PickAssigned(h) \/ CheckClaim(h) \/ StartChild(h) \/ ArmResume(h)
  BY <1>1, <1>2 DEF PickAssigned, CheckClaim, StartChild, ArmResume
<1>3. CASE Restart(h)
  BY <1>1, <1>3, RestartTyped
<1>4. CASE AnnounceRunning(h)
  <2>1. LeaseKept /\ UNCHANGED count /\ (ReportPlain(h, "running", 0) \/ NoReport)
    BY <1>4, AnnounceTyped
  <2>2. CASE ReportPlain(h, "running", 0)
    <3>1. Fitting /\ UNCHANGED pause
      BY <2>1, <2>2, PlainFitting
    <3> QED
      BY <3>1 DEF RecordKept
  <2> QED
    BY <1>1, <2>1, <2>2 DEF NoReport
<1>5. CASE RenewFails(h) \/ Abort(h) \/ ReportTerminal(h) \/ Settled(h) \/ RefuseResumed(h)
           \/ CloseResumed(h)
  <2>1. /\ LeaseKept /\ UNCHANGED count
        /\ \/ NoReport
           \/ \E st \in Terminal, s \in Sessions : ReportPlain(h, st, s)
           \/ \E st \in Terminal : ReportClosed(h, listener[h].grant, listener[h].session, st)
    BY <1>5, RestTyped
  <2>2. CASE \E st \in Terminal, s \in Sessions : ReportPlain(h, st, s)
    <3>1. Fitting /\ UNCHANGED pause
      BY <2>1, <2>2, PlainFitting
    <3> QED
      BY <3>1 DEF RecordKept
  <2>3. CASE \E st \in Terminal : ReportClosed(h, listener[h].grant, listener[h].session, st)
    <3>1. /\ Fitting
          /\ \/ UNCHANGED pause
             \/ /\ pause'.grant = pause.grant /\ pause'.session = pause.session
                /\ pause'.resumed = pause.resumed
                /\ pause.used \/ pause'.resumed = 0
      BY <2>1, <2>3, ClosedFitting
    <3> QED
      BY <3>1 DEF RecordKept
  <2> QED
    BY <1>1, <2>1, <2>2, <2>3 DEF NoReport
<1>6. CASE AnnouncePause(h)
  <2>1. /\ LeaseKept /\ UNCHANGED count /\ listener[h].session \in Sessions
        /\ ReportPause(h, listener[h].epoch, listener[h].session)
    BY <1>6, AnnouncePauseTyped, AtHost, ListenerFields
  <2>2. Fitting /\ (UNCHANGED pause \/ (pause'.used = FALSE /\ pause'.resumed = 0))
    BY <2>1, PauseFitting
  <2> QED
    BY <2>2 DEF RecordKept
<1>7. CASE ReleasePause(h)
  <2>1. LeaseKept /\ UNCHANGED count /\ (ReleaseRecord(h) \/ NoReport)
    BY <1>7, ReleasePauseTyped
  <2>2. CASE pause' = [pause EXCEPT !.state = "released"] /\ pause.state = "attached"
             /\ UNCHANGED job
    <3>1. /\ pause'.state = "released" /\ pause'.session = pause.session
          /\ pause'.grant = pause.grant
          /\ pause'.used = pause.used /\ pause'.resumed = pause.resumed
      BY <2>2, Parts DEF HeadTyped, PauseRecord
    <3>2. Fitting
      BY <2>1, <2>2, <3>1, FittingKept DEF PauseSound
    <3> QED
      BY <3>1, <3>2 DEF RecordKept
  <2> QED
    BY <1>1, <2>1, <2>2 DEF ReleaseRecord, NoReport
<1>8. CASE RequestResume(h)
  <2>1. /\ UNCHANGED <<job, lease, count>>
        /\ \/ UNCHANGED pause
           \/ /\ pause.state = "released"
              /\ pause'.state = "resume_requested" /\ pause'.session = pause.session
              /\ pause'.grant = pause.grant /\ pause'.used = pause.used
              /\ pause'.resumed = pause.resumed
    BY <1>8, RequestTyped
  <2>2. LeaseKept
    BY <2>1, Parts, LeaseKeeps
  <2>3. Fitting
    BY <2>1, <2>2, FittingKept DEF PauseSound
  <2> QED
    BY <2>1, <2>3 DEF RecordKept
<1>9. CASE ClaimResume(h)
  <2>1. CASE /\ NewLease /\ UNCHANGED job /\ pause.state = "resume_requested"
             /\ pause'.state = "resume_claimed" /\ pause'.session = pause.session
             /\ pause'.grant = 0 /\ pause'.used = pause.used /\ pause'.resumed = pause.resumed
    <3>1. lease'.id = count.epochs + 1 /\ count'.epochs = count.epochs + 1
      BY <2>1, Parts, NewLeaseTyped
    <3>2. PauseSound'
      BY <2>1, <3>1, HeadFields DEF PauseSound
    <3>3. /\ \A e \in Nat : \A s : Fits(e, s) => NextFits(e, s)
          /\ \A e \in Nat : Plain(e) => NextPlain(e)
      BY <2>1, <3>1, HeadFields DEF Fits, Plain, NotClaimed,
         NextFits, NextPlain, NextNotClaimed
    <3>4. RecordKept
      BY <2>1 DEF RecordKept, PauseSound
    <3> QED
      BY <3>2, <3>3, <3>4 DEF Fitting
  <2>2. CASE LeaseKept /\ UNCHANGED count /\ pause.state = "resume_requested" /\ Handover
    BY <2>2, HandoverFitting
  <2>3. CASE UNCHANGED count /\ NoReport
    BY <1>1, <2>3 DEF NoReport
  <2> QED
    BY <1>9, <2>1, <2>2, <2>3, ClaimTyped, Zenon
<1>10. CASE AckResume(h)
  <2>1. CASE /\ pause.grant = 0 /\ pause.state \in {"resume_claimed", "approved"} /\ lease.live
             /\ pause'.state = "approved" /\ pause'.grant = lease.id
             /\ pause'.session = pause.session /\ pause'.used = pause.used
             /\ pause'.resumed = pause.resumed /\ UNCHANGED <<job, lease, count>>
    <3>1. pause.state = "resume_claimed" /\ lease.id # 0 /\ ~pause'.used
      BY <2>1 DEF PauseSound
    <3>2. PauseSound'
      BY <2>1, <3>1, HeadFields DEF PauseSound
    <3>3. /\ \A e \in Nat : \A s : Fits(e, s) => NextFits(e, s)
          /\ \A e \in Nat : Plain(e) => NextPlain(e)
      BY <2>1, <3>1, HeadFields DEF Fits, Plain, NotClaimed,
         NextFits, NextPlain, NextNotClaimed
    <3> QED
      BY <3>1, <3>2, <3>3 DEF Fitting, RecordKept
  <2>2. UNCHANGED <<job, lease, count>>
    BY <1>10, AckTyped
  <2> QED
    BY <1>1, <1>10, <2>1, <2>2, AckTyped
<1> QED
  BY <1>1, <1>2, <1>3, <1>4, <1>5, <1>6, <1>7, <1>8, <1>9, <1>10 DEF Dispatching, Pausing

\* The tokens of h are numbers.
LEMMA TokenTypes ==
  ASSUME Typed, NEW h \in Hosts
  PROVE  /\ listener[h].grant \in Nat /\ listener[h].epoch \in Nat /\ arm[h].grant \in Nat
         /\ listener[h].session \in Sessions
  BY AtHost, Numbers DEF ListenerRecord, ArmRecord

LEMMA ChildTypes == ASSUME Typed, NEW s \in Children PROVE child[s].epoch \in Nat
  BY Parts, Numbers DEF ChildTyped, ChildRecord

\* No token at all fits.
LEMMA ZeroFits == ASSUME Typed, Fitting PROVE \A s : NextFits(0, s)
<1>1. \A s : Fits(0, s)
  BY HeadFields DEF Fits, NotClaimed
<1> QED
  BY <1>1 DEF Fitting

\* HostFit after the step.
LEMMA HostFitNext ==
  ASSUME NEW h \in Hosts,
         NextFits(arm'[h].grant, arm'[h].session),
         NextFits(listener'[h].grant, listener'[h].old),
         listener'[h].grant # 0 /\ listener'[h].session # 0 =>
           child'[listener'[h].session].epoch = listener'[h].grant,
         listener'[h].pc \in Assigning => NextPlain(listener'[h].epoch) /\ listener'[h].grant = 0,
         listener'[h].pc \in Handshake => listener'[h].session = 0,
         listener'[h].pc = "reserve" =>
           arm'[h].grant = listener'[h].grant /\ arm'[h].session = listener'[h].old
  PROVE  HostFit(h)'
  BY DEF HostFit, Fits, Plain, NotClaimed, NextFits, NextPlain, NextNotClaimed

LEMMA ChildrenFitNext ==
  ASSUME \A s \in Started' : NextFits(child'[s].epoch, child'[s].from)
  PROVE  ChildrenFit'
  BY DEF ChildrenFit, Fits, NotClaimed, NextFits, NextNotClaimed

\* What a host has still fits, for the record after the step.
LEMMA FitNow ==
  ASSUME Typed, Chain, Fitting, Remembers, NEW h \in Hosts, HostFit(h)
  PROVE  /\ NextFits(arm[h].grant, arm[h].session) /\ NextFits(listener[h].grant, listener[h].old)
         /\ listener[h].pc \in Assigning => NextPlain(listener[h].epoch)
         /\ listener[h].grant # 0 /\ listener[h].session # 0 =>
              child'[listener[h].session].epoch = listener[h].grant
<1>1. listener[h].session # 0 => listener[h].session \in Started
  BY DEF Chain, Hosted
<1> QED
  BY <1>1, TokenTypes DEF HostFit, Fitting, Remembers

\* Hosts that take no part in a step keep what they have.
LEMMA OthersFit ==
  ASSUME Typed, Chain, Fitting, Remembers, NEW g \in Hosts, HostFit(g),
         listener'[g] = listener[g], arm'[g] = arm[g]
  PROVE  HostFit(g)'
<1>1. listener[g].pc = "reserve" =>
        arm[g].grant = listener[g].grant /\ arm[g].session = listener[g].old
  BY DEF HostFit
<1>2. (listener[g].pc \in Handshake => listener[g].session = 0)
      /\ (listener[g].pc \in Assigning => listener[g].grant = 0)
  BY DEF HostFit
<1> QED
  BY <1>1, <1>2, FitNow, HostFitNext

\* A host whose daemon rests, and whose resume state keeps its grant or is armed anew.
LEMMA RestsFit ==
  ASSUME Typed, Chain, Fitting, Remembers, NEW h \in Hosts, HostFit(h), Rests(h),
         arm'[h].grant = 0 \/ (arm'[h].grant = arm[h].grant /\ arm'[h].session = arm[h].session)
  PROVE  HostFit(h)'
<1>1. NextFits(arm'[h].grant, arm'[h].session)
  BY FitNow, ZeroFits
<1>2. CASE listener'[h] = Idle
  <2>1. Idle.pc \notin Assigning \cup Handshake
    BY IdleTyped DEF Assigning, Handshake
  <2> QED
    BY <1>1, <1>2, <2>1, IdleTyped, ZeroFits, HostFitNext DEF Handshake
<1>3. CASE Same(listener'[h], listener[h]) /\ listener'[h].pc \notin Assigning \cup Handshake
  BY <1>1, <1>3, FitNow, HostFitNext DEF Same, Handshake
<1> QED
  BY <1>2, <1>3 DEF Rests

\* The invariant after a step in which one host takes part, and may start a process.
LEMMA GrantsNext ==
  ASSUME Typed, Chain, Grants, Fitting, RunRecorded', Remembers,
         NEW h \in Hosts, Only(h), OnlyArm(h), HostFit(h)',
         \A s \in Started' \ Started : NextFits(child'[s].epoch, child'[s].from)
  PROVE  Grants'
<1>1. \A g \in Hosts : HostFit(g)'
  BY OthersFit DEF Grants, Only, OnlyArm
<1>2. \A s \in Started : NextFits(child'[s].epoch, child'[s].from)
  BY ChildTypes, StartedAre DEF Grants, ChildrenFit, Fitting, Remembers
<1>3. ChildrenFit'
  BY <1>2, ChildrenFitNext
<1> QED
  BY <1>1, <1>3 DEF Grants, Fitting

\* ... or in which none does.
LEMMA GrantsStay ==
  ASSUME Typed, Chain, Grants, Fitting, RunRecorded', Remembers,
         \A g \in Hosts : listener'[g] = listener[g] /\ (arm'[g].grant = arm[g].grant)
                          /\ arm'[g].session = arm[g].session,
         \A s \in Started' \ Started : NextFits(child'[s].epoch, child'[s].from)
  PROVE  Grants'
<1>1. ASSUME NEW g \in Hosts PROVE HostFit(g)'
  <2>1. HostFit(g) /\ listener'[g] = listener[g] /\ arm'[g].grant = arm[g].grant
        /\ arm'[g].session = arm[g].session
    BY DEF Grants
  <2>2. /\ listener[g].pc = "reserve" =>
             arm[g].grant = listener[g].grant /\ arm[g].session = listener[g].old
        /\ listener[g].pc \in Handshake => listener[g].session = 0
        /\ listener[g].pc \in Assigning => listener[g].grant = 0
    BY <2>1 DEF HostFit
  <2> QED
    BY <2>1, <2>2, FitNow, HostFitNext
<1>2. \A s \in Started : NextFits(child'[s].epoch, child'[s].from)
  BY ChildTypes, StartedAre DEF Grants, ChildrenFit, Fitting, Remembers
<1>3. ChildrenFit'
  BY <1>2, ChildrenFitNext
<1> QED
  BY <1>1, <1>3 DEF Grants, Fitting

LEMMA WeakensRemembers == ASSUME Weakens PROVE Remembers /\ Started' = Started
  BY WeakensStarted, StartedAre DEF Weakens, Remembers

LEMMA GrowsRemembers ==
  ASSUME Chain, NEW h, NEW from, NEW epoch, Grows(NewSession, h, from, epoch)
  PROVE  /\ Remembers /\ Started' \ Started = {NewSession}
         /\ child'[NewSession].from = from /\ child'[NewSession].epoch = epoch
  BY GrowsStarted DEF Chain, Remembers, Grows

LEMMA SchedulerGrants ==
  ASSUME Typed, Chain, Grants,
         Scheduler \/ Cancel \/ ExpireLease \/ ExpirePause \/ \E s \in Children : ForwardEvents(s)
  PROVE  Grants'
<1>1. UNCHANGED <<child, arm, listener>>
  BY DEF Scheduler, Assign, BlockUnready, Recheck, RecoverPause, RecoverLease, Cancel,
     ExpireLease, ExpirePause, ForwardEvents
<1>2. Fitting /\ RecordKept
  BY SchedulerFitting, ForwardFitting DEF Grants
<1>3. Remembers /\ Started' = Started
  BY <1>1, StillWeakens, WeakensRemembers
<1>4. RunRecorded'
  BY <1>2, <1>3, RunKept DEF Grants
<1> QED
  BY <1>1, <1>2, <1>3, <1>4, GrantsStay

LEMMA StillRecord == ASSUME Grants, UNCHANGED pause, Remembers PROVE RunRecorded'
  BY RunKept DEF Grants, RecordKept

LEMMA ChildGrants ==
  ASSUME Typed, Chain, Grants, NEW s \in Children,
         ChildStep(s) \/ \E d \in Decisions : Decide(s, d)
  PROVE  Grants'
<1>1. UNCHANGED <<job, lease, pause, listener, count>>
  BY DEF ChildStep, Decide
<1>2. Fitting
  BY <1>1, FittingStill DEF Grants
<1>3. CASE ChildStep(s)
  <2>1. Remembers /\ Started' = Started /\ UNCHANGED arm
    BY <1>3, ChildStepTyped, WeakensRemembers
  <2> QED
    BY <1>1, <1>2, <2>1, StillRecord, GrantsStay
<1>4. ASSUME NEW d \in Decisions, Decide(s, d) PROVE Grants'
  <2>1. s \in Started /\ child[s].phase = "paused"
    BY <1>4, DecideTyped DEF Started
  <2>2. CASE /\ Weakens
             /\ \A g \in Hosts :
                  \/ arm'[g] = arm[g]
                  \/ /\ g = child[s].host /\ arm[g].session = s /\ arm'[g].status = "decided"
                     /\ arm'[g].session = s /\ arm'[g].grant = arm[g].grant
    <3>1. Remembers /\ Started' = Started
      BY <2>2, WeakensRemembers
    <3> QED
      BY <1>1, <1>2, <2>2, <3>1, StillRecord, GrantsStay
  <2>3. CASE /\ NewSession \in Children /\ UNCHANGED arm
             /\ child'[NewSession].host = child[s].host /\ child'[NewSession].phase = "running"
             /\ child'[NewSession].from = s /\ child'[NewSession].epoch = 0
             /\ \/ s = NewSession
                \/ /\ child'[s].phase = "decided" /\ child'[s].host = child[s].host
                   /\ child'[s].from = child[s].from /\ child'[s].epoch = child[s].epoch
             /\ \A t \in Children \ {s, NewSession} : child'[t] = child[t]
    <3>1. s # NewSession
      BY <2>1, NewUnstarted DEF Chain
    <3>2. Grows(NewSession, child[s].host, s, 0)
      BY <2>1, <2>3, <3>1 DEF Grows, Working
    <3>3. Remembers /\ Started' \ Started = {NewSession} /\ child'[NewSession].epoch = 0
      BY <3>2, GrowsRemembers
    <3>4. RunRecorded'
      BY <1>1, <3>3, StillRecord
    <3> QED
      BY <1>1, <1>2, <2>3, <3>3, <3>4, ZeroFits, GrantsStay
  <2> QED
    BY <1>4, <2>2, <2>3, DecideTyped, Zenon
<1> QED
  BY <1>3, <1>4

\* Daemons that rest after the step.
LEMMA RestGrants ==
  ASSUME Typed, Chain, Grants, NEW h \in Hosts,
         \/ RenewFails(h) \/ Abort(h) \/ ReportTerminal(h) \/ Settled(h) \/ RefuseResumed(h)
         \/ CloseResumed(h) \/ Restart(h) \/ AnnouncePause(h) \/ ArmResume(h) \/ ReleasePause(h)
         \/ RejectResumed(h)
  PROVE  Grants'
<1>1. /\ Rests(h) /\ UNCHANGED child /\ OnlyArm(h)
      /\ arm'[h].grant = 0 \/ (arm'[h].grant = arm[h].grant /\ arm'[h].session = arm[h].session)
  BY RestTyped, RestartTyped, AnnouncePauseTyped, ReleasePauseTyped, ArmResumeTyped, RejectTyped
     DEF OnlyArm
<1>2. Fitting /\ RecordKept
  <2>1. CASE RejectResumed(h)
    BY <2>1, RejectTyped, FittingStill DEF Grants, RecordKept
  <2> QED
    BY <2>1, RequestFitting, Zenon DEF Grants, Dispatching, Pausing
<1>3. Remembers /\ Started' = Started
  BY <1>1, StillWeakens, WeakensRemembers
<1>4. RunRecorded'
  BY <1>2, <1>3, RunKept DEF Grants
<1>5. HostFit(h)'
  BY <1>1, <1>2, <1>3, RestsFit DEF Grants
<1> QED
  BY <1>1, <1>2, <1>3, <1>4, <1>5, GrantsNext DEF Rests

\* ... or go on within a handshake.
LEMMA StepFit ==
  ASSUME Typed, Chain, Fitting, Remembers, NEW h \in Hosts, HostFit(h),
         NEW step, Steps2(h, step), UNCHANGED arm, step # "reserve",
         step \in Assigning => listener[h].pc \in Assigning,
         step \in Handshake => listener[h].pc \in Handshake
  PROVE  HostFit(h)'
<1>1. /\ listener[h].pc \in Handshake => listener[h].session = 0
      /\ listener[h].pc \in Assigning => listener[h].grant = 0
  BY DEF HostFit
<1> QED
  BY <1>1, FitNow, HostFitNext DEF Steps2, Same

LEMMA StepGrants ==
  ASSUME Typed, Chain, Grants, NEW h \in Hosts,
         AnnounceRunning(h) \/ CheckClaim(h) \/ RequestResume(h)
  PROVE  Grants'
<1>1. /\ Rests(h) \/ \E step \in {"check", "start", "claim"} :
           /\ Steps2(h, step)
           /\ step \in Assigning => listener[h].pc \in Assigning
           /\ step \in Handshake => listener[h].pc \in Handshake
  <2>1. CASE AnnounceRunning(h)
    BY <2>1, AnnounceTyped DEF AnnounceRunning, Assigning, Handshake
  <2>2. CASE CheckClaim(h)
    BY <2>2, CheckTyped DEF CheckClaim, Assigning, Handshake
  <2>3. CASE RequestResume(h)
    BY <2>3, RequestTyped DEF Assigning, Handshake
  <2> QED
    BY <2>1, <2>2, <2>3
<1>2. UNCHANGED <<child, arm>>
  BY DEF AnnounceRunning, CheckClaim, RequestResume
<1>3. Fitting /\ RecordKept
  BY RequestFitting, Zenon DEF Grants, Dispatching
<1>4. Remembers /\ Started' = Started
  BY <1>2, StillWeakens, WeakensRemembers
<1>5. RunRecorded'
  BY <1>3, <1>4, RunKept DEF Grants
<1>6. HostFit(h)' /\ Only(h)
  <2>1. CASE Rests(h)
    BY <1>2, <1>3, <1>4, <2>1, RestsFit DEF Grants, Rests
  <2>2. ASSUME NEW step \in {"check", "start", "claim"}, Steps2(h, step),
               step \in Assigning => listener[h].pc \in Assigning,
               step \in Handshake => listener[h].pc \in Handshake
        PROVE  HostFit(h)' /\ Only(h)
    BY <1>2, <1>3, <1>4, <2>2, StepFit DEF Grants, Steps2
  <2> QED
    BY <1>1, <2>1, <2>2
<1>7. OnlyArm(h)
  BY <1>2 DEF OnlyArm
<1> QED
  BY <1>3, <1>4, <1>5, <1>6, <1>7, GrantsNext

LEMMA PickGrants ==
  ASSUME Typed, Chain, Grants, NEW h \in Hosts, PickAssigned(h) \/ PickResumable(h)
  PROVE  Grants'
<1>1. UNCHANGED <<job, lease, pause, child, count>>
  BY DEF PickAssigned, PickResumable
<1>2. Fitting
  BY <1>1, FittingStill DEF Grants
<1>3. Remembers /\ Started' = Started /\ RunRecorded'
  BY <1>1, StillWeakens, WeakensRemembers, StillRecord
<1>4. /\ Only(h) /\ OnlyArm(h)
      /\ arm'[h].grant = arm[h].grant /\ arm'[h].session = arm[h].session
  BY PickAssignedTyped, PickResumableTyped DEF PickAssigned, OnlyArm
<1>5. NextFits(arm'[h].grant, arm'[h].session)
  BY <1>2, <1>3, <1>4, FitNow DEF Grants
<1>6. CASE PickAssigned(h)
  <2>1. listener'[h].pc = "announce" /\ listener'[h].epoch = lease.id
        /\ listener'[h].grant = 0 /\ listener'[h].session = 0
    BY <1>6, PickAssignedTyped
  <2>2. Plain(lease.id)
    BY <1>6, HeadFields DEF Grants, PauseSound, PickAssigned, Plain, NotClaimed
  <2>3. NextPlain(lease.id)
    BY <1>2, <2>2, HeadFields DEF Fitting
  <2>4. HostFit(h)'
    BY <1>2, <1>5, <2>1, <2>3, ZeroFits, HostFitNext
  <2> QED
    BY <1>2, <1>3, <1>4, <2>4, GrantsNext
<1>7. CASE PickResumable(h)
  <2>1. /\ listener'[h].pc \in {"request", "claim", "ack", "install"}
        /\ listener'[h].session = 0 /\ listener'[h].old = pause.session
        /\ listener'[h].grant = (IF pause.state = "approved" THEN pause.grant ELSE 0)
    BY <1>7, PickResumableTyped
  <2>2. pause.state = "approved" => Fits(pause.grant, pause.session)
    BY HeadFields DEF Grants, PauseSound, Fits, NotClaimed
  <2>3. NextFits(listener'[h].grant, listener'[h].old)
    BY <1>2, <2>1, <2>2, ZeroFits, HeadFields DEF Fitting
  <2>4. listener'[h].pc \notin Assigning /\ listener'[h].pc # "reserve"
    BY <2>1 DEF Assigning
  <2>5. HostFit(h)'
    BY <1>5, <2>1, <2>3, <2>4, HostFitNext
  <2> QED
    BY <1>2, <1>3, <1>4, <2>5, GrantsNext
<1> QED
  BY <1>6, <1>7

LEMMA StartGrants == ASSUME Typed, Chain, Grants, NEW h \in Hosts, StartChild(h) PROVE Grants'
<1>1. Fitting /\ RecordKept
  BY RequestFitting, Zenon DEF Grants, Dispatching
<1>2. UNCHANGED <<pause, arm>> /\ OnlyArm(h) /\ HostFit(h)
  BY StartTyped DEF OnlyArm, Grants
<1>3. CASE Rests(h) /\ UNCHANGED child
  <2>1. Remembers /\ Started' = Started
    BY <1>3, StillWeakens, WeakensRemembers
  <2>2. RunRecorded' /\ HostFit(h)'
    BY <1>1, <1>2, <1>3, <2>1, StillRecord, RestsFit
  <2> QED
    BY <1>1, <1>2, <1>3, <2>1, <2>2, GrantsNext DEF Rests
<1>4. CASE /\ Only(h) /\ listener'[h].pc = "poll" /\ listener'[h].session = NewSession
           /\ listener'[h].grant = listener[h].grant /\ listener'[h].old = listener[h].old
           /\ Spawn(h, 0, listener[h].epoch) /\ NewSession \in Children
  <2>1. listener[h].epoch \in Epochs /\ 0 \in Sessions
    BY AtHost, ListenerFields, Numbers
  <2>2. Grows(NewSession, h, 0, listener[h].epoch)
    BY <1>4, <2>1, SpawnGrows
  <2>3. /\ Remembers /\ Started' \ Started = {NewSession}
        /\ child'[NewSession].from = 0 /\ child'[NewSession].epoch = listener[h].epoch
    BY <2>2, GrowsRemembers
  <2>4. listener[h].pc \in Assigning
    BY DEF StartChild, Assigning
  <2>5. listener[h].grant = 0 /\ NextPlain(listener[h].epoch)
    BY <1>1, <1>2, <2>3, <2>4, FitNow DEF HostFit
  <2>6. NextFits(listener[h].epoch, 0)
    BY <2>5 DEF NextPlain, NextFits
  <2>7. listener'[h].pc \notin Assigning \cup Handshake
    BY <1>4 DEF Assigning, Handshake
  <2>8. HostFit(h)'
    BY <1>1, <1>2, <1>4, <2>3, <2>5, <2>7, ZeroFits, FitNow, HostFitNext DEF Handshake
  <2>9. RunRecorded'
    BY <1>2, <2>3, StillRecord
  <2> QED
    BY <1>1, <1>2, <1>4, <2>3, <2>6, <2>8, <2>9, GrantsNext
<1> QED
  BY <1>3, <1>4, StartTyped, Zenon

LEMMA ClaimGrants ==
  ASSUME Typed, Chain, Grants, NEW h \in Hosts, ClaimResume(h) \/ AckResume(h)
  PROVE  Grants'
<1>1. Fitting /\ RecordKept
  BY RequestFitting, Zenon DEF Grants
<1>2. UNCHANGED <<child, arm>> /\ OnlyArm(h) /\ HostFit(h)
  BY ClaimTyped, AckTyped DEF OnlyArm, Grants
<1>3. Remembers /\ Started' = Started
  BY <1>2, StillWeakens, WeakensRemembers
<1>4. RunRecorded'
  BY <1>1, <1>3, RunKept DEF Grants
<1>5. CASE Rests(h)
  <2>1. HostFit(h)'
    BY <1>1, <1>2, <1>3, <1>5, RestsFit
  <2> QED
    BY <1>1, <1>2, <1>3, <1>4, <1>5, <2>1, GrantsNext DEF Rests
<1>6. listener[h].session = 0
  BY <1>2, ClaimTyped, AckTyped DEF HostFit, Handshake
<1>7. CASE /\ Only(h) /\ listener'[h].pc = "ack"
           /\ listener'[h].session = listener[h].session
           /\ listener'[h].old = listener[h].old
           /\ listener'[h].grant = listener[h].grant
  <2>1. HostFit(h)'
    BY <1>1, <1>2, <1>3, <1>6, <1>7, FitNow, HostFitNext DEF Assigning
  <2> QED
    BY <1>1, <1>2, <1>3, <1>4, <1>7, <2>1, GrantsNext
<1>8. CASE /\ Only(h) /\ listener'[h].pc = "install" /\ listener'[h].grant = lease.id
           /\ listener'[h].session = listener[h].session
           /\ listener'[h].old = listener[h].old
           /\ SamePause(h) /\ lease.live /\ lease' = lease /\ count' = count
           /\ \/ /\ pause.grant # 0 /\ pause.state \in {"resume_claimed", "approved"}
                 /\ UNCHANGED pause
              \/ /\ pause'.state = "approved" /\ pause'.grant = lease.id
                 /\ pause'.session = pause.session
  <2>1. pause'.session = listener[h].old
    BY <1>8 DEF SamePause
  <2>2. pause'.state = "approved" /\ lease.id <= count.epochs
    BY <1>8 DEF Grants, PauseSound
  <2>3. NextFits(lease.id, listener[h].old)
    BY <1>8, <2>1, <2>2 DEF NextFits, NextNotClaimed
  <2>4. HostFit(h)'
    BY <1>1, <1>2, <1>3, <1>6, <1>8, <2>3, FitNow, HostFitNext DEF Assigning
  <2> QED
    BY <1>1, <1>2, <1>3, <1>4, <1>8, <2>4, GrantsNext
<1> QED
  BY <1>5, <1>7, <1>8, ClaimTyped, AckTyped, Zenon

LEMMA InstallGrants == ASSUME Typed, Chain, Grants, NEW h \in Hosts, InstallGrant(h) PROVE Grants'
<1>1. UNCHANGED <<job, lease, pause, child, count>> /\ HostFit(h) /\ listener[h].pc = "install"
  BY InstallTyped DEF Grants
<1>2. Fitting /\ Remembers /\ Started' = Started /\ RunRecorded'
  BY <1>1, FittingStill, StillWeakens, WeakensRemembers, StillRecord DEF Grants
<1>3. CASE UNCHANGED arm /\ Rests(h)
  <2>1. HostFit(h)' /\ OnlyArm(h)
    BY <1>1, <1>2, <1>3, RestsFit DEF OnlyArm
  <2> QED
    BY <1>2, <1>3, <2>1, GrantsNext DEF Rests
<1>4. CASE /\ Steps2(h, "reserve") /\ OnlyArm(h) /\ arm[h].session = listener[h].old
           /\ arm'[h].session = arm[h].session /\ arm'[h].grant = listener[h].grant
  <2>1. listener[h].session = 0
    BY <1>1 DEF HostFit, Handshake
  <2>2. HostFit(h)'
    BY <1>1, <1>2, <1>4, <2>1, FitNow, HostFitNext DEF Steps2, Same, Assigning
  <2> QED
    BY <1>2, <1>4, <2>2, GrantsNext DEF Steps2
<1> QED
  BY <1>3, <1>4, InstallTyped, Zenon

LEMMA LaunchGrants == ASSUME Typed, Chain, Grants, NEW h \in Hosts, LaunchResumed(h) PROVE Grants'
<1>1. /\ UNCHANGED <<job, lease, pause, count>> /\ HostFit(h) /\ OnlyArm(h)
      /\ arm'[h].session = arm[h].session /\ arm'[h].grant = arm[h].grant
  BY LaunchTyped DEF Grants
<1>2. Fitting
  BY <1>1, FittingStill DEF Grants
<1>3. arm[h].grant = listener[h].grant /\ arm[h].session = listener[h].old
  BY <1>1, LaunchTyped DEF HostFit
<1>4. CASE UNCHANGED child /\ Rests(h)
  <2>1. Remembers /\ Started' = Started /\ RunRecorded'
    BY <1>1, <1>4, StillWeakens, WeakensRemembers, StillRecord
  <2>2. HostFit(h)'
    BY <1>1, <1>2, <1>4, <2>1, RestsFit
  <2> QED
    BY <1>1, <1>2, <1>4, <2>1, <2>2, GrantsNext DEF Rests
<1>5. CASE /\ Spawn(h, arm[h].session, listener[h].grant) /\ Only(h)
           /\ \/ listener'[h] = Idle
              \/ /\ listener'[h].pc = "resumed" /\ listener'[h].session = NewSession
                 /\ listener'[h].grant = listener[h].grant
                 /\ listener'[h].old = listener[h].old
  <2>1. arm[h].session \in Sessions /\ listener[h].grant \in Epochs /\ NewSession \in Children
    BY AtHost, ListenerFields, LaunchTyped DEF ArmRecord
  <2>2. /\ Remembers /\ Started' \ Started = {NewSession}
        /\ child'[NewSession].from = arm[h].session /\ child'[NewSession].epoch = listener[h].grant
    BY <1>5, <2>1, SpawnGrows, GrowsRemembers
  <2>3. RunRecorded'
    BY <1>1, <2>2, StillRecord
  <2>4. /\ NextFits(listener[h].grant, listener[h].old)
        /\ NextFits(arm'[h].grant, arm'[h].session)
    BY <1>1, <1>2, <2>2, FitNow
  <2>5. NextFits(listener[h].grant, arm[h].session)
    BY <1>3, <2>4
  <2>6. HostFit(h)'
    <3>1. CASE listener'[h] = Idle
      <4>1. Idle.pc \notin Assigning \cup Handshake
        BY IdleTyped DEF Assigning, Handshake
      <4> QED
        BY <1>2, <2>4, <3>1, <4>1, IdleTyped, ZeroFits, HostFitNext DEF Handshake
    <3>2. CASE /\ listener'[h].pc = "resumed" /\ listener'[h].session = NewSession
               /\ listener'[h].grant = listener[h].grant
               /\ listener'[h].old = listener[h].old
      BY <2>2, <2>4, <3>2, HostFitNext DEF Assigning, Handshake
    <3> QED
      BY <1>5, <3>1, <3>2
  <2> QED
    BY <1>1, <1>2, <1>5, <2>2, <2>3, <2>5, <2>6, GrantsNext
<1> QED
  BY <1>4, <1>5, LaunchTyped, Zenon

LEMMA ReplayGrants == ASSUME Typed, Chain, Grants, NEW h \in Hosts, ReplayResumed(h) PROVE Grants'
<1>1. /\ UNCHANGED <<job, lease, pause, child, count>> /\ HostFit(h) /\ OnlyArm(h) /\ Only(h)
      /\ arm'[h].session = arm[h].session /\ arm'[h].grant = arm[h].grant
      /\ listener'[h].pc = "resumed" /\ listener'[h].session \in Carrier(h)
      /\ listener'[h].grant = listener[h].grant /\ listener'[h].old = listener[h].old
      /\ listener[h].pc = "reserve"
  BY ReplayTyped DEF Grants
<1>2. Fitting /\ Remembers /\ Started' = Started /\ RunRecorded'
  BY <1>1, FittingStill, StillWeakens, WeakensRemembers, StillRecord DEF Grants
<1>3. child'[listener'[h].session].epoch = listener[h].grant
  BY <1>1 DEF Carrier, HostFit
<1>4. HostFit(h)'
  BY <1>1, <1>2, <1>3, FitNow, HostFitNext DEF Assigning, Handshake
<1> QED
  BY <1>1, <1>2, <1>4, GrantsNext

\* The head node records the process that the daemon names, which was started under the
\* grant it names, and so for the pause on record.
LEMMA AnnounceGrants ==
  ASSUME Typed, Chain, Grants, NEW h \in Hosts, AnnounceResumed(h)
  PROVE  Grants'
<1> DEFINE s == listener[h].session
           g == listener[h].grant
<1>1. /\ UNCHANGED <<arm, count>> /\ LeaseKept /\ Rests(h) /\ OnlyArm(h) /\ HostFit(h)
      /\ ReportResumed(h, g, s) \/ NoReport
      /\ UNCHANGED child \/ child' = [child EXCEPT ![s].phase = "bad"]
  BY AnnounceResumedTyped DEF OnlyArm, Grants
<1>2. Remembers /\ Started' = Started
  BY <1>1, StillWeakens, StoppedWeakens, WeakensRemembers
<1>3. s \in Sessions
  BY TokenTypes
<1>4. /\ Fitting
      /\ \/ UNCHANGED pause
         \/ /\ pause.grant = g /\ g # 0
            /\ pause'.grant = g /\ pause'.session = pause.session
            /\ pause'.used = TRUE /\ pause'.resumed = s
  <2>1. CASE ReportResumed(h, g, s)
    BY <1>1, <1>3, <2>1, ResumedFitting DEF Grants
  <2>2. CASE NoReport
    BY <1>1, <2>2, FittingStill DEF Grants, NoReport
  <2> QED
    BY <1>1, <2>1, <2>2
<1>5. RunRecorded'
  <2>1. CASE UNCHANGED pause
    BY <1>2, <2>1, StillRecord
  <2>2. CASE /\ pause.grant = g /\ g # 0
             /\ pause'.grant = g /\ pause'.session = pause.session
             /\ pause'.used = TRUE /\ pause'.resumed = s
    <3>1. CASE s # 0
      <4>1. s \in Started /\ child[s].epoch = g
        BY <1>1, <2>2, <3>1 DEF HostFit, Chain, Hosted
      <4>2. child[s].from = pause.session
        BY <2>2, <4>1 DEF Grants, ChildrenFit, Fits
      <4> QED
        BY <1>2, <2>2, <4>1, <4>2 DEF RunRecorded, Remembers
    <3>2. CASE s = 0
      BY <2>2, <3>2 DEF RunRecorded
    <3> QED
      BY <3>1, <3>2
  <2> QED
    BY <1>4, <2>1, <2>2
<1>6. HostFit(h)'
  BY <1>1, <1>2, <1>4, RestsFit
<1> QED
  BY <1>1, <1>2, <1>4, <1>5, <1>6, GrantsNext DEF Rests

LEMMA GrantsInit == Init => Grants
<1> SUFFICES ASSUME Init PROVE Grants
  OBVIOUS
<1>1. Started = {}
  BY DEF Init, Started
<1>2. PauseSound /\ RunRecorded
  BY NoPauseTyped, NoLeaseTyped DEF Init, PauseSound, RunRecorded
<1>3. ChildrenFit
  BY <1>1 DEF ChildrenFit
<1>4. ASSUME NEW h \in Hosts PROVE HostFit(h)
  <2>1. listener[h] = Idle /\ arm[h].grant = 0
    BY <1>4 DEF Init, Unarmed
  <2>2. Idle.pc \notin Assigning \cup Handshake
    BY IdleTyped DEF Assigning, Handshake
  <2> QED
    BY <2>1, <2>2, IdleTyped, NoPauseTyped
       DEF Init, HostFit, Fits, NotClaimed, Handshake
<1> QED
  BY <1>2, <1>3, <1>4 DEF Grants

LEMMA GrantsStep == Typed /\ Chain /\ Grants /\ [Next]_vars => Grants'
<1> SUFFICES ASSUME Typed, Chain, Grants, [Next]_vars PROVE Grants'
  OBVIOUS
<1>1. CASE UNCHANGED vars
  <2>1. UNCHANGED <<job, lease, pause, child, arm, listener, count>>
    BY <1>1 DEF vars
  <2>2. Fitting /\ Remembers /\ Started' = Started /\ RunRecorded'
    BY <2>1, FittingStill, StillWeakens, WeakensRemembers, StillRecord DEF Grants
  <2> QED
    BY <2>1, <2>2, GrantsStay
<1>2. CASE Next
  BY <1>2, SchedulerGrants, ChildGrants, RestGrants, StepGrants, PickGrants, StartGrants,
     ClaimGrants, InstallGrants, LaunchGrants, ReplayGrants, AnnounceGrants, Zenon
     DEF Next, Dispatching, Pausing, Resuming
<1> QED
  BY <1>1, <1>2

\* The run that the head node records for a grant (transitionFederatedResumeRunning) is the
\* one the host started under that grant, for the pause the grant was given for.
THEOREM RecordsStartedRun == Spec => []SameSession
<1>1. Spec => [](Typed /\ Chain /\ Grants)
  BY TypedInit, TypedStep, ChainInit, ChainStep, GrantsInit, GrantsStep, PTL DEF Spec
<1>2. Typed /\ Chain /\ Grants => SameSession
  BY DEF Grants, RunRecorded, SameSession
<1> QED
  BY <1>1, <1>2, PTL

-----------------------------------------------------------------------------
(* One process at a time, if the answer to a daemon's running report is an  *)
(* acknowledgement: the daemon does not look at it.                         *)

\* The record's activity: what waits for a worker was never touched by one, and a process
\* runs, or is about to, only for a record that was.
Untouched ==
  /\ job.status \in {"queued", "assigned"} => ~job.active
  /\ job.status = "assigned" => lease.id # 0
  /\ Started # {} => job.active
  /\ \A h \in Hosts : /\ listener[h].pc = "start" => job.active
                      /\ listener[h].pc \in Assigning => listener[h].epoch # 0

\* A daemon before its start that has the lease of the record: nothing was started yet, and
\* after its report the record is active, or the start will be denied.
Entitled(h) == listener[h].pc \in {"announce", "check"} /\ listener[h].epoch = lease.id
FirstStart ==
  /\ \A h \in Hosts : Entitled(h) =>
       /\ job.host = h /\ Started = {} /\ \A g \in Hosts : listener[g].pc # "start"
       /\ listener[h].pc = "announce" => job.status \in {"assigned", "canceled"}
       /\ listener[h].pc = "check" /\ lease.live => job.active \/ job.status = "canceled"
  /\ \A h \in Hosts : listener[h].pc = "start" =>
       Started = {} /\ \A g \in Hosts : listener[g].pc = "start" => g = h

\* All processes are on one host, and one of them works at most.
OneActive ==
  \A s, t \in Started :
    /\ child[s].host = child[t].host
    /\ child[s].phase \in Working /\ child[t].phase \in Working => s = t

Single == Untouched /\ FirstStart /\ OneActive

\* What every step does to the record: activity stays, and an end, but for the recheck of a
\* job no worker touched.
Onward ==
  /\ job.active => job'.active
  /\ job.status \in Terminal => job'.status \in {job.status, "canceled"} \/ Unstarted
  /\ job'.status \in {"queued", "assigned"} => ~job'.active
  /\ job'.status = "assigned" => lease'.id # 0

\* What a request of h does: it changes the record of h, or of no host yet.
Moves(h) ==
  /\ Onward
  /\ lease'.id \in {lease.id, 0, count.epochs + 1}
  /\ UNCHANGED <<job, lease>> \/ HostMatches(h)

LEMMA JobFields ==
  ASSUME Typed
  PROVE  /\ job \in JobRecord /\ job.active \in BOOLEAN /\ job.status \in Status
         /\ lease.id \in Nat /\ lease.live \in BOOLEAN /\ count.epochs \in Nat
  BY Parts, HeadFields DEF HeadTyped, JobRecord

LEMMA StillMoves ==
  ASSUME Typed, Untouched, NEW h \in Hosts, UNCHANGED <<job, lease>>
  PROVE  Moves(h)
  BY JobFields DEF Moves, Onward, Untouched

\* A report that is accepted.
LEMMA ReportMoves ==
  ASSUME Typed, Untouched, NEW h \in Hosts, HostMatches(h), LeaseKept,
         job'.active = TRUE, job'.status \notin {"queued", "assigned"},
         job.status \notin Terminal
  PROVE  Moves(h)
  BY JobFields DEF Moves, Onward, LeaseKept

LEMMA PlainMoves ==
  ASSUME Typed, Untouched, NEW h \in Hosts, NEW st \in Terminal \cup {"running"}, NEW s,
         LeaseKept, ReportPlain(h, st, s)
  PROVE  Moves(h)
<1>1. CASE PlainAccepted(h, st)
  <2>1. job' = [job EXCEPT !.status = st, !.host = h, !.active = TRUE,
                           !.session = IF s # 0 THEN s ELSE @]
    BY <1>1 DEF ReportPlain
  <2>2. job'.active = TRUE /\ job'.status = st
    BY <2>1, JobFields DEF JobRecord
  <2>3. HostMatches(h) /\ job.status \notin Terminal
    BY <1>1 DEF PlainAccepted, Allowed, Terminal
  <2> QED
    BY <2>2, <2>3, ReportMoves DEF Terminal
<1>2. CASE ~PlainAccepted(h, st)
  BY <1>2, StillMoves DEF ReportPlain, NoReport
<1> QED
  BY <1>1, <1>2

LEMMA PauseMoves ==
  ASSUME Typed, Untouched, NEW h \in Hosts, NEW e, NEW s, LeaseKept, ReportPause(h, e, s)
  PROVE  Moves(h)
<1>1. CASE PauseAccepted(h, e, s)
  <2>1. job' = [job EXCEPT !.status = "awaiting_approval", !.active = TRUE]
    BY <1>1 DEF ReportPause
  <2>2. job'.active = TRUE /\ job'.status = "awaiting_approval"
    BY <2>1, JobFields DEF JobRecord
  <2>3. HostMatches(h) /\ job.status \notin Terminal
    BY <1>1 DEF PauseAccepted, HostMatches, Terminal
  <2> QED
    BY <2>2, <2>3, ReportMoves
<1>2. CASE ~PauseAccepted(h, e, s)
  BY <1>2, StillMoves DEF ReportPause, NoReport
<1> QED
  BY <1>1, <1>2

LEMMA ResumedMoves ==
  ASSUME Typed, Untouched, NEW h \in Hosts, NEW g, NEW s, LeaseKept, ReportResumed(h, g, s)
  PROVE  Moves(h)
<1>1. CASE ResumeAccepted(h, g, s)
  <2>1. job' = [job EXCEPT !.status = "running", !.session = s, !.active = TRUE]
    BY <1>1 DEF ReportResumed
  <2>2. job'.active = TRUE /\ job'.status = "running"
    BY <2>1, JobFields DEF JobRecord
  <2>3. HostMatches(h) /\ job.status \notin Terminal
    BY <1>1 DEF ResumeAccepted, Terminal
  <2> QED
    BY <2>2, <2>3, ReportMoves
<1>2. CASE ~ResumeAccepted(h, g, s)
  BY <1>2, StillMoves DEF ReportResumed, NoReport
<1> QED
  BY <1>1, <1>2

LEMMA ClosedMoves ==
  ASSUME Typed, Untouched, NEW h \in Hosts, NEW g, NEW s, NEW st \in Terminal, LeaseKept,
         ReportClosed(h, g, s, st)
  PROVE  Moves(h)
<1>1. CASE CloseAccepted(h, g, s, st)
  <2>1. job' = [job EXCEPT !.status = st, !.active = TRUE]
    BY <1>1 DEF ReportClosed
  <2>2. job'.active = TRUE /\ job'.status = st
    BY <2>1, JobFields DEF JobRecord
  <2>3. HostMatches(h) /\ job.status \notin Terminal
    BY <1>1 DEF CloseAccepted, Terminal
  <2> QED
    BY <2>2, <2>3, ReportMoves DEF Terminal
<1>2. CASE ~CloseAccepted(h, g, s, st)
  BY <1>2, StillMoves DEF ReportClosed, NoReport
<1> QED
  BY <1>1, <1>2

\* A hand over ends the job.
LEMMA HandoverOnward ==
  ASSUME Typed, Handover, job.status = "awaiting_approval"
  PROVE  Onward /\ lease'.id = 0
<1>1. job'.status = "blocked" /\ job'.active = job.active
  BY JobFields DEF Handover, JobRecord
<1> QED
  BY <1>1, NoLeaseTyped DEF Onward, Handover, Terminal

\* The steps of a daemon other than those that lead to a plain start.
Quiet(h) ==
  \/ RenewFails(h) \/ Abort(h) \/ ReportTerminal(h) \/ Settled(h) \/ Restart(h)
  \/ Pausing(h) \/ Resuming(h)

LEMMA QuietRests ==
  ASSUME Typed, NEW h \in Hosts, Quiet(h)
  PROVE  Only(h) /\ listener'[h].pc \notin Assigning
<1>1. ASSUME Rests(h) PROVE Only(h) /\ listener'[h].pc \notin Assigning
  BY <1>1, IdleTyped DEF Rests, Assigning
<1>2. CASE RenewFails(h) \/ Abort(h) \/ ReportTerminal(h) \/ Settled(h) \/ Restart(h) \/ Pausing(h)
           \/ RefuseResumed(h) \/ CloseResumed(h) \/ RejectResumed(h) \/ AnnounceResumed(h)
  <2>1. Rests(h)
    BY <1>2, RestTyped, RestartTyped, AnnouncePauseTyped, ArmResumeTyped, ReleasePauseTyped,
       RejectTyped, AnnounceResumedTyped, Zenon DEF Pausing
  <2> QED
    BY <1>1, <2>1
<1>3. CASE PickResumable(h)
  BY <1>3, PickResumableTyped DEF Assigning
<1>4. CASE RequestResume(h) \/ ClaimResume(h) \/ AckResume(h)
  BY <1>1, <1>4, RequestTyped, ClaimTyped, AckTyped DEF Assigning, Steps2
<1>5. CASE InstallGrant(h) \/ LaunchResumed(h) \/ ReplayResumed(h)
  <2>1. \/ Rests(h)
        \/ Only(h) /\ listener'[h].pc \in {"reserve", "resumed", "idle"}
    BY <1>5, InstallTyped, LaunchTyped, ReplayTyped, IdleTyped DEF Steps2
  <2> QED
    BY <1>1, <2>1 DEF Assigning
<1> QED
  BY <1>2, <1>3, <1>4, <1>5 DEF Quiet, Resuming

LEMMA QuietMoves ==
  ASSUME Typed, Untouched, NEW h \in Hosts, Quiet(h)
  PROVE  Moves(h)
<1>1. CASE UNCHANGED <<job, lease>>
  BY <1>1, StillMoves
<1>2. CASE RenewFails(h) \/ Abort(h) \/ ReportTerminal(h) \/ Settled(h) \/ RefuseResumed(h)
           \/ CloseResumed(h)
  <2>1. /\ LeaseKept
        /\ \/ NoReport
           \/ \E st \in Terminal, s \in Sessions : ReportPlain(h, st, s)
           \/ \E st \in Terminal : ReportClosed(h, listener[h].grant, listener[h].session, st)
    BY <1>2, RestTyped
  <2> QED
    BY <1>1, <2>1, PlainMoves, ClosedMoves DEF NoReport
<1>3. CASE Restart(h) \/ ArmResume(h) \/ PickResumable(h) \/ RequestResume(h) \/ AckResume(h)
           \/ InstallGrant(h) \/ LaunchResumed(h) \/ RejectResumed(h) \/ ReplayResumed(h)
  <2>1. UNCHANGED <<job, lease>>
    BY <1>3, RestartTyped, ArmResumeTyped, PickResumableTyped, RequestTyped, AckTyped,
       InstallTyped, LaunchTyped, RejectTyped, ReplayTyped, Zenon
  <2> QED
    BY <1>1, <2>1
<1>4. CASE AnnouncePause(h)
  BY <1>4, AnnouncePauseTyped, PauseMoves
<1>5. CASE AnnounceResumed(h)
  <2>1. LeaseKept /\ (ReportResumed(h, listener[h].grant, listener[h].session) \/ NoReport)
    BY <1>5, AnnounceResumedTyped
  <2> QED
    BY <1>1, <2>1, ResumedMoves DEF NoReport
<1>6. CASE ReleasePause(h)
  <2>1. LeaseKept /\ (ReleaseRecord(h) \/ NoReport)
    BY <1>6, ReleasePauseTyped
  <2>2. CASE ~NoReport
    <3>1. job' = job /\ job.host = h /\ job.status = "awaiting_approval"
      BY <2>1, <2>2 DEF ReleaseRecord
    <3> QED
      BY <2>1, <3>1, JobFields DEF Moves, Onward, HostMatches, LeaseKept
  <2> QED
    BY <1>1, <2>2 DEF NoReport
<1>7. CASE ClaimResume(h)
  <2>1. CASE SamePause(h) /\ NewLease /\ UNCHANGED job
    <3>1. lease'.id = count.epochs + 1
      BY <2>1, Parts, NewLeaseTyped
    <3> QED
      BY <2>1, <3>1, JobFields DEF Moves, Onward, HostMatches, SamePause
  <2>2. CASE SamePause(h) /\ Handover
    <3>1. Onward /\ lease'.id = 0
      BY <2>2, HandoverOnward DEF SamePause
    <3> QED
      BY <2>2, <3>1 DEF Moves, HostMatches, SamePause
  <2>3. CASE NoReport
    BY <1>1, <2>3 DEF NoReport
  <2> QED
    BY <1>7, <2>1, <2>2, <2>3, ClaimTyped, Zenon
<1> QED
  BY <1>2, <1>3, <1>4, <1>5, <1>6, <1>7, Zenon DEF Quiet, Pausing, Resuming

\* The head node's own steps.
LEMMA SchedulerOnward ==
  ASSUME Typed, Chain, Grants, Single,
         Scheduler \/ Cancel \/ ExpireLease \/ ExpirePause \/ \E s \in Children : ForwardEvents(s)
  PROVE  Onward
<1>1. CASE \E h \in Hosts : Assign(h)
  <2>1. /\ job'.status = "assigned" /\ job'.active = job.active /\ job.status = "queued"
        /\ lease'.id = count.epochs + 1
    BY <1>1, JobFields, Parts, NewLeaseTyped DEF Assign, JobRecord
  <2> QED
    BY <2>1, JobFields DEF Onward, Single, Untouched, Terminal
<1>2. CASE BlockUnready \/ Cancel
  <2>1. /\ job'.active = job.active
        /\ job'.status = "canceled" \/ (job'.status = "blocked" /\ job.status = "queued")
    BY <1>2, JobFields DEF BlockUnready, Cancel, JobRecord
  <2> QED
    BY <2>1 DEF Onward, Terminal
<1>3. CASE Recheck
  <2>1. job'.active = job.active /\ job'.status = "queued" /\ ~job.active /\ Unstarted
    BY <1>3, JobFields DEF Recheck, Unstarted, JobRecord
  <2> QED
    BY <2>1 DEF Onward
<1>4. CASE RecoverPause
  BY <1>4, HandoverOnward DEF RecoverPause, PauseOverdue
<1>5. CASE RecoverLease
  <2>1. /\ job'.active = job.active /\ job.status \notin Terminal
        /\ job'.status = "blocked" \/ (job'.status = "queued" /\ ~job.active)
    BY <1>5, JobFields DEF RecoverLease, CanRetry, Attached, JobRecord, Terminal
  <2> QED
    BY <2>1 DEF Onward
<1>6. CASE ExpireLease \/ ExpirePause
  <2>1. job' = job /\ lease'.id = lease.id
    BY <1>6, Parts DEF ExpireLease, ExpirePause, HeadTyped, LeaseRecord
  <2> QED
    BY <2>1 DEF Onward, Single, Untouched
<1>7. CASE \E s \in Children : ForwardEvents(s)
  <2>1. PICK s \in Children : ForwardEvents(s)
    BY <1>7
  <2>2. s \in Started
    BY <2>1 DEF ForwardEvents, Started
  <2>3. job.active /\ job'.active = TRUE /\ job'.status = job.status
    BY <2>1, <2>2, JobFields DEF Single, Untouched, ForwardEvents, JobRecord
  <2> QED
    BY <2>3 DEF Onward, Single, Untouched
<1> QED
  BY <1>1, <1>2, <1>3, <1>4, <1>5, <1>6, <1>7 DEF Scheduler

LEMMA TokensKnown ==
  ASSUME Typed, Grants, Untouched, NEW h \in Hosts, listener[h].pc \in Assigning
  PROVE  listener[h].epoch # 0 /\ listener[h].epoch # count.epochs + 1
<1>1. listener[h].epoch <= count.epochs /\ listener[h].epoch \in Nat
  BY TokenTypes DEF Grants, HostFit, Plain, NotClaimed
<1> QED
  BY <1>1, JobFields DEF Untouched

\* A daemon is entitled by what it picked up, not by what the head node does later.
LEMMA EntitledBefore ==
  ASSUME Typed, Grants, Untouched, NEW h \in Hosts, listener'[h] = listener[h],
         lease'.id \in {lease.id, 0, count.epochs + 1}, Entitled(h)'
  PROVE  Entitled(h) /\ lease'.id = lease.id
<1>1. listener[h].pc \in {"announce", "check"} /\ listener[h].epoch = lease'.id
  BY DEF Entitled
<1>2. listener[h].epoch # 0 /\ listener[h].epoch # count.epochs + 1
  BY <1>1, TokensKnown DEF Assigning
<1> QED
  BY <1>1, <1>2 DEF Entitled

\* A step in which no daemon comes closer to a plain start.
LEMMA FirstKept ==
  ASSUME Typed, Grants, Single, Onward, lease'.id \in {lease.id, 0, count.epochs + 1},
         Started' = {} \/ Started # {},
         \A h \in Hosts : listener'[h] = listener[h] \/ listener'[h].pc \notin Assigning,
         \A h \in Hosts : Entitled(h) /\ listener'[h] = listener[h] /\ lease'.id = lease.id =>
           /\ job'.host = job.host /\ (lease'.live => lease.live)
           /\ listener[h].pc = "announce" => job'.status \in {"assigned", "canceled"}
  PROVE  Untouched' /\ FirstStart'
<1>1. job.active => job'.active
  BY DEF Onward
<1>2. job.status = "canceled" => job'.status = "canceled"
  BY DEF Onward, Terminal, Unstarted
<1>3. \A h \in Hosts : listener'[h].pc \in Assigning => listener'[h] = listener[h]
  OBVIOUS
<1>4. \A h \in Hosts : listener'[h].pc = "start" => listener[h].pc = "start"
  BY <1>3 DEF Assigning
<1>5. Untouched'
  BY <1>1, <1>3, <1>4 DEF Single, Untouched, Onward
<1>6. ASSUME NEW h \in Hosts, Entitled(h)'
      PROVE  /\ job'.host = h /\ Started' = {} /\ \A g \in Hosts : listener'[g].pc # "start"
             /\ listener'[h].pc = "announce" => job'.status \in {"assigned", "canceled"}
             /\ listener'[h].pc = "check" /\ lease'.live => job'.active \/ job'.status = "canceled"
  <2>1. listener'[h] = listener[h]
    BY <1>3, <1>6 DEF Entitled, Assigning
  <2>2. Entitled(h) /\ lease'.id = lease.id
    BY <1>6, <2>1, EntitledBefore DEF Single
  <2>3. /\ job.host = h /\ Started = {} /\ \A g \in Hosts : listener[g].pc # "start"
        /\ listener[h].pc = "check" /\ lease.live => job.active \/ job.status = "canceled"
    BY <2>2 DEF Single, FirstStart
  <2>4. /\ job'.host = job.host /\ (lease'.live => lease.live)
        /\ listener[h].pc = "announce" => job'.status \in {"assigned", "canceled"}
    BY <2>1, <2>2
  <2> QED
    BY <1>1, <1>2, <1>4, <2>1, <2>3, <2>4
<1>7. ASSUME NEW h \in Hosts, listener'[h].pc = "start"
      PROVE  Started' = {} /\ \A g \in Hosts : listener'[g].pc = "start" => g = h
  BY <1>4, <1>7 DEF Single, FirstStart
<1> QED
  BY <1>5, <1>6, <1>7 DEF FirstStart

LEMMA OneKept == ASSUME OneActive, Weakens PROVE OneActive'
  BY WeakensStarted, StartedAre DEF OneActive, Weakens

\* A process is started where the others were, and none of them works on.
LEMMA OneGrows ==
  ASSUME Chain, OneActive, NEW h, NEW from, NEW epoch, Grows(NewSession, h, from, epoch),
         \A s \in Started : child[s].host = h /\ child'[s].phase \notin Working
  PROVE  OneActive'
<1>1. /\ Started' = Started \cup {NewSession} /\ child'[NewSession].host = h
      /\ \A s \in Started : child'[s].host = child[s].host
  BY GrowsStarted DEF Chain, Grows
<1> QED
  BY <1>1 DEF OneActive

LEMMA SchedulerSingle ==
  ASSUME Typed, Chain, Grants, Single,
         Scheduler \/ Cancel \/ ExpireLease \/ ExpirePause \/ \E s \in Children : ForwardEvents(s)
  PROVE  Single'
<1>1. UNCHANGED <<child, listener>> /\ Onward
  BY SchedulerOnward DEF Scheduler, Assign, BlockUnready, Recheck, RecoverPause, RecoverLease,
     Cancel, ExpireLease, ExpirePause, ForwardEvents
<1>2. Started' = Started /\ OneActive'
  BY <1>1, StillWeakens, WeakensStarted, OneKept DEF Single
<1>3. /\ lease'.id \in {lease.id, 0, count.epochs + 1}
      /\ lease'.id = lease.id /\ lease.id # 0 => (lease'.live => lease.live)
      /\ \/ lease'.id = count.epochs + 1
         \/ lease'.id = 0
         \/ job'.host = job.host /\ (job'.status # job.status => job.status = "queued"
                                                                 \/ job'.status = "canceled")
         \/ Started # {}
  <2>1. CASE \E h \in Hosts : Assign(h)
    <3>1. lease'.id = count.epochs + 1
      BY <2>1, Parts, NewLeaseTyped DEF Assign
    <3> QED
      BY <3>1, JobFields DEF Grants, PauseSound
  <2>2. CASE BlockUnready \/ Cancel
    BY <2>2, JobFields DEF BlockUnready, Cancel, JobRecord
  <2>3. CASE Recheck \/ RecoverPause \/ RecoverLease
    <3>1. lease'.id = 0
      BY <2>3, NoLeaseTyped DEF Recheck, Unstarted, RecoverPause, RecoverLease, Handover
    <3> QED
      BY <3>1
  <2>4. CASE ExpireLease \/ ExpirePause
    BY <2>4, Parts DEF ExpireLease, ExpirePause, HeadTyped, LeaseRecord
  <2>5. CASE \E s \in Children : ForwardEvents(s)
    <3>1. lease' = lease /\ Started # {}
      BY <2>5 DEF ForwardEvents, Started
    <3> QED
      BY <3>1
  <2> QED
    BY <2>1, <2>2, <2>3, <2>4, <2>5 DEF Scheduler
<1>4. ASSUME NEW h \in Hosts, Entitled(h), lease'.id = lease.id
      PROVE  /\ job'.host = job.host /\ (lease'.live => lease.live)
             /\ listener[h].pc = "announce" => job'.status \in {"assigned", "canceled"}
  <2>1. /\ Started = {}
        /\ listener[h].pc = "announce" => job.status \in {"assigned", "canceled"}
    BY <1>4 DEF Single, FirstStart
  <2>2. lease.id # 0 /\ lease.id # count.epochs + 1
    BY <1>4, TokensKnown DEF Single, Entitled, Assigning
  <2> QED
    BY <1>3, <1>4, <2>1, <2>2
<1>5. Untouched' /\ FirstStart'
  BY <1>1, <1>2, <1>3, <1>4, FirstKept
<1> QED
  BY <1>2, <1>5 DEF Single

\* A decision stops the process it is about, which was the only one at work.
LEMMA ChildSingle ==
  ASSUME Typed, Chain, Grants, Single, NEW s \in Children,
         ChildStep(s) \/ \E d \in Decisions : Decide(s, d)
  PROVE  Single'
<1>1. UNCHANGED <<job, lease, pause, listener, count>> /\ s \in Started
  BY DEF ChildStep, Decide, Started
<1>2. Onward
  BY <1>1 DEF Single, Untouched, Onward
<1>3. OneActive'
  <2>1. CASE Weakens
    BY <2>1, OneKept DEF Single
  <2>2. ASSUME NEW d \in Decisions, Decide(s, d), ~Weakens PROVE OneActive'
    <3>1. /\ child'[NewSession].host = child[s].host /\ child'[NewSession].phase = "running"
          /\ child'[NewSession].from = s /\ child'[NewSession].epoch = 0
          /\ \/ s = NewSession
             \/ /\ child'[s].phase = "decided" /\ child'[s].host = child[s].host
                /\ child'[s].from = child[s].from /\ child'[s].epoch = child[s].epoch
          /\ \A t \in Children \ {s, NewSession} : child'[t] = child[t]
          /\ NewSession \in Children /\ child[s].phase = "paused"
      BY <2>2, DecideTyped
    <3>2. s # NewSession
      BY <1>1, NewUnstarted DEF Chain
    <3>3. Grows(NewSession, child[s].host, s, 0)
      BY <3>1, <3>2 DEF Grows, Working
    <3>4. \A t \in Started : child[t].host = child[s].host /\ child'[t].phase \notin Working
      <4> SUFFICES ASSUME NEW t \in Started
                   PROVE  child[t].host = child[s].host /\ child'[t].phase \notin Working
        OBVIOUS
      <4>1. child[t].host = child[s].host
        BY <1>1 DEF Single, OneActive
      <4>2. CASE t = s
        BY <3>1, <3>2, <4>1, <4>2 DEF Working
      <4>3. CASE t # s
        <5>1. child[t].phase \notin Working
          BY <1>1, <3>1, <4>3 DEF Single, OneActive, Working
        <5>2. t # NewSession /\ t \in Children
          BY NewUnstarted, StartedAre DEF Chain
        <5> QED
          BY <3>1, <4>1, <4>3, <5>1, <5>2
      <4> QED
        BY <4>2, <4>3
    <3> QED
      BY <3>3, <3>4, OneGrows DEF Single
  <2> QED
    BY <2>1, <2>2, ChildStepTyped
<1>4. \A h \in Hosts : ~Entitled(h)
  BY <1>1 DEF Single, FirstStart
<1>5. Untouched' /\ FirstStart'
  BY <1>1, <1>2, <1>4, FirstKept
<1> QED
  BY <1>3, <1>5 DEF Single

\* A resumed process follows one of the host, when none is at work there.
LEMMA LaunchSingle ==
  ASSUME Typed, Chain, Single, NEW h \in Hosts, LaunchResumed(h)
  PROVE  OneActive' /\ Started # {}
<1>1. /\ arm[h].status = "decided" /\ Active(h) = {} /\ NewSession \in Children
      /\ \/ UNCHANGED child
         \/ Spawn(h, arm[h].session, listener[h].grant)
  BY LaunchTyped
<1>2. arm[h].session \in Started /\ child[arm[h].session].host = h
  BY <1>1 DEF Chain, Hosted
<1>3. CASE UNCHANGED child
  BY <1>2, <1>3, StillWeakens, OneKept DEF Single
<1>4. CASE Spawn(h, arm[h].session, listener[h].grant)
  <2>1. arm[h].session \in Sessions /\ listener[h].grant \in Epochs
    BY AtHost, ListenerFields DEF ArmRecord
  <2>2. Grows(NewSession, h, arm[h].session, listener[h].grant)
    BY <1>1, <1>4, <2>1, SpawnGrows
  <2>3. \A s \in Started : child[s].host = h /\ child[s].phase \notin Working
    BY <1>1, <1>2 DEF Single, OneActive, Active, Working
  <2>4. \A s \in Started : child'[s].phase \notin Working
    BY <2>2, <2>3, GrowsStarted DEF Chain
  <2> QED
    BY <1>2, <2>2, <2>3, <2>4, OneGrows DEF Single
<1> QED
  BY <1>1, <1>3, <1>4

\* A daemon that moves the record does so for its own host.
LEMMA MovesKept ==
  ASSUME Typed, Grants, Single, NEW h \in Hosts, Moves(h), Only(h),
         Started' = {} \/ Started # {}, listener'[h].pc \notin Assigning
  PROVE  Untouched' /\ FirstStart'
<1>1. \A g \in Hosts : listener'[g] = listener[g] \/ listener'[g].pc \notin Assigning
  BY DEF Only
<1>2. ASSUME NEW g \in Hosts, Entitled(g), listener'[g] = listener[g]
      PROVE  /\ job'.host = job.host /\ (lease'.live => lease.live)
             /\ listener[g].pc = "announce" => job'.status \in {"assigned", "canceled"}
  <2>1. g # h
    BY <1>2 DEF Entitled, Assigning
  <2>2. /\ job.host = g
        /\ listener[g].pc = "announce" => job.status \in {"assigned", "canceled"}
    BY <1>2 DEF Single, FirstStart
  <2>3. UNCHANGED <<job, lease>>
    BY <2>1, <2>2, JobAssumption DEF Moves, HostMatches
  <2> QED
    BY <2>2, <2>3
<1>3. Onward /\ lease'.id \in {lease.id, 0, count.epochs + 1}
  BY DEF Moves
<1> QED
  BY <1>1, <1>2, <1>3, FirstKept

LEMMA QuietSingle ==
  ASSUME Typed, Chain, Grants, Single, NEW h \in Hosts, Quiet(h)
  PROVE  Single'
<1>1. Moves(h) /\ Only(h) /\ listener'[h].pc \notin Assigning
  BY QuietRests, QuietMoves DEF Single
<1>2. CASE LaunchResumed(h)
  BY <1>1, <1>2, LaunchSingle, MovesKept DEF Single
<1>3. CASE AnnounceResumed(h)
  <2>1. Weakens
    BY <1>3, AnnounceResumedTyped, StillWeakens, StoppedWeakens
  <2> QED
    BY <1>1, <2>1, WeakensStarted, OneKept, MovesKept DEF Single
<1>4. CASE UNCHANGED child
  BY <1>1, <1>4, StillWeakens, WeakensStarted, OneKept, MovesKept DEF Single
<1>5. UNCHANGED child \/ LaunchResumed(h) \/ AnnounceResumed(h)
  BY RestTyped, RestartTyped, AnnouncePauseTyped, ArmResumeTyped, ReleasePauseTyped,
     PickResumableTyped, RequestTyped, ClaimTyped, AckTyped, InstallTyped, RejectTyped,
     ReplayTyped, Zenon DEF Quiet, Pausing, Resuming
<1> QED
  BY <1>2, <1>3, <1>4, <1>5

\* A job that is assigned was never started.
LEMMA PickSingle ==
  ASSUME Typed, Chain, Grants, Single, NEW h \in Hosts, PickAssigned(h)
  PROVE  Single'
<1>1. /\ UNCHANGED <<job, lease, child, count>> /\ Only(h)
      /\ job.status = "assigned" /\ job.host = h
      /\ listener'[h].pc = "announce" /\ listener'[h].epoch = lease.id
  BY PickAssignedTyped DEF PickAssigned
<1>2. Started' = Started /\ OneActive'
  BY <1>1, StillWeakens, WeakensStarted, OneKept DEF Single
<1>3. ~job.active /\ lease.id # 0 /\ Started = {} /\ \A g \in Hosts : listener[g].pc # "start"
  BY <1>1 DEF Single, Untouched
<1>4. \A g \in Hosts : listener'[g].pc # "start"
  BY <1>1, <1>3 DEF Only
<1>5. Untouched'
  BY <1>1, <1>2, <1>3, <1>4 DEF Only, Single, Untouched
<1>6. ASSUME NEW g \in Hosts, Entitled(g)'
      PROVE  /\ job'.host = g
             /\ listener'[g].pc = "announce" => job'.status \in {"assigned", "canceled"}
             /\ listener'[g].pc = "check" /\ lease'.live => job'.active \/ job'.status = "canceled"
  <2>1. CASE g = h
    BY <1>1, <2>1
  <2>2. CASE g # h
    <3>1. Entitled(g)
      BY <1>1, <1>6, <2>2 DEF Entitled, Only
    <3> QED
      BY <1>1, <2>2, <3>1 DEF Only, Single, FirstStart
  <2> QED
    BY <2>1, <2>2
<1>7. FirstStart'
  BY <1>2, <1>3, <1>4, <1>6 DEF FirstStart
<1> QED
  BY <1>2, <1>5, <1>7 DEF Single

\* After the report of a daemon that is entitled the record is active, unless its lease is
\* over or the job was canceled; a daemon that is not changes nothing for one that is.
LEMMA AnnounceSingle ==
  ASSUME Typed, Chain, Grants, Single, "refuse" \notin Faults, NEW h \in Hosts, AnnounceRunning(h)
  PROVE  Single'
<1>1. /\ LeaseKept /\ UNCHANGED <<child, arm, count>> /\ listener[h].pc = "announce"
      /\ \/ Steps2(h, "check") /\ ReportPlain(h, "running", 0)
         \/ Rests(h) /\ (ReportPlain(h, "running", 0) \/ NoReport)
  BY AnnounceTyped DEF AnnounceRunning
<1>2. Started' = Started /\ OneActive'
  BY <1>1, StillWeakens, WeakensStarted, OneKept DEF Single
<1>3. Moves(h) /\ lease' = lease
  <2>1. CASE ReportPlain(h, "running", 0)
    BY <1>1, <2>1, PlainMoves DEF Single, ReportPlain, NoReport
  <2>2. CASE NoReport
    BY <2>2, StillMoves DEF Single, NoReport
  <2> QED
    BY <1>1, <2>1, <2>2
<1>4. CASE Rests(h)
  <2>1. Only(h) /\ listener'[h].pc \notin Assigning
    BY <1>4, IdleTyped DEF Rests, Assigning
  <2> QED
    BY <1>2, <1>3, <2>1, MovesKept DEF Single
<1>5. CASE Steps2(h, "check") /\ ReportPlain(h, "running", 0)
  <2>1. /\ Only(h) /\ listener'[h].pc = "check" /\ listener'[h].epoch = listener[h].epoch
    BY <1>5 DEF Steps2, Same
  <2>2. /\ listener[h].pc \in Assigning /\ listener[h].epoch # 0
    BY <1>1 DEF Assigning, Single, Untouched
  <2>3. \A g \in Hosts : listener'[g].pc = "start" => listener[g].pc = "start"
    BY <2>1 DEF Only
  <2>4. job.active => job'.active
    BY <1>3 DEF Moves, Onward
  <2>5. Untouched'
    <3>1. \A g \in Hosts : listener'[g].pc \in Assigning => listener'[g].epoch # 0
      BY <2>1, <2>2 DEF Only, Single, Untouched
    <3> QED
      BY <1>2, <1>3, <2>3, <2>4, <3>1 DEF Moves, Onward, Single, Untouched
  <2>6. ASSUME Entitled(h)
        PROVE  job'.host = h /\ (lease'.live => job'.active \/ job'.status = "canceled")
    <3>1. job.host = h /\ job.status \in {"assigned", "canceled"}
      BY <1>1, <2>6 DEF Single, FirstStart
    <3>2. CASE PlainAccepted(h, "running")
      <4>1. job' = [job EXCEPT !.status = "running", !.host = h, !.active = TRUE,
                               !.session = IF 0 # 0 THEN 0 ELSE @]
        BY <1>5, <3>2 DEF ReportPlain
      <4>2. job'.host = h /\ job'.active = TRUE
        BY <4>1, JobFields DEF JobRecord
      <4> QED
        BY <4>2
    <3>3. CASE ~PlainAccepted(h, "running")
      <4>1. UNCHANGED <<job, lease>>
        BY <1>5, <3>3 DEF ReportPlain, NoReport
      <4>2. job.status = "assigned" => pause.state = "none" /\ lease.id # 0
        BY DEF Grants, PauseSound, Single, Untouched
      <4>3. job.status = "assigned" => ~lease.live
        BY <3>1, <3>3, <4>2 DEF PlainAccepted, HostMatches, Allowed
      <4> QED
        BY <3>1, <4>1, <4>3
    <3> QED
      BY <3>2, <3>3
  <2>7. ASSUME NEW g \in Hosts, Entitled(g)'
        PROVE  /\ job'.host = g /\ Started' = {} /\ \A k \in Hosts : listener'[k].pc # "start"
               /\ listener'[g].pc = "announce" => job'.status \in {"assigned", "canceled"}
               /\ listener'[g].pc = "check" /\ lease'.live =>
                    job'.active \/ job'.status = "canceled"
    <3>1. Entitled(g)
      <4>1. CASE g = h
        BY <1>1, <1>3, <2>1, <2>7, <4>1 DEF Entitled
      <4>2. CASE g # h
        BY <1>3, <2>1, <2>7, <4>2 DEF Entitled, Only
      <4> QED
        BY <4>1, <4>2
    <3>2. /\ job.host = g /\ Started = {} /\ \A k \in Hosts : listener[k].pc # "start"
          /\ listener[g].pc = "announce" => job.status \in {"assigned", "canceled"}
          /\ listener[g].pc = "check" /\ lease.live => job.active \/ job.status = "canceled"
      BY <3>1 DEF Single, FirstStart
    <3>3. CASE g = h
      BY <1>2, <2>1, <2>3, <2>6, <3>1, <3>2, <3>3
    <3>4. CASE g # h
      <4>1. job' = job
        BY <1>3, <3>2, <3>4, JobAssumption DEF Moves, HostMatches
      <4> QED
        BY <1>2, <1>3, <2>1, <2>3, <3>2, <3>4, <4>1 DEF Only
    <3> QED
      BY <3>3, <3>4
  <2>8. FirstStart'
    BY <1>2, <2>3, <2>7 DEF FirstStart, Single
  <2> QED
    BY <1>2, <2>5, <2>8 DEF Single
<1> QED
  BY <1>1, <1>4, <1>5

LEMMA CheckSingle ==
  ASSUME Typed, Chain, Grants, Single, NEW h \in Hosts, CheckClaim(h)
  PROVE  Single'
<1>1. UNCHANGED <<job, lease, pause, child, arm, count>> /\ listener[h].pc = "check"
  BY DEF CheckClaim
<1>2. Started' = Started /\ OneActive'
  BY <1>1, StillWeakens, WeakensStarted, OneKept DEF Single
<1>3. CASE Rests(h)
  <2>1. Only(h) /\ listener'[h].pc \notin Assigning
    BY <1>3, IdleTyped DEF Rests, Assigning
  <2> QED
    BY <1>1, <1>2, <2>1, StillMoves, MovesKept DEF Single
<1>4. CASE /\ Steps2(h, "start") /\ job.status \in {"assigned", "running"} /\ job.host = h
           /\ lease.id = listener[h].epoch /\ lease.live
  <2>1. Only(h) /\ listener'[h].pc = "start" /\ listener'[h].epoch = listener[h].epoch
    BY <1>4 DEF Steps2, Same
  <2>2. Entitled(h)
    BY <1>1, <1>4 DEF Entitled
  <2>3. /\ Started = {} /\ (\A g \in Hosts : listener[g].pc # "start") /\ job.active
        /\ listener[h].epoch # 0
    BY <1>1, <1>4, <2>2 DEF Single, FirstStart, Untouched, Assigning
  <2>4. Untouched'
    BY <1>1, <1>2, <2>1, <2>3 DEF Only, Single, Untouched
  <2>5. \A g \in Hosts : ~Entitled(g)'
    <3> SUFFICES ASSUME NEW g \in Hosts, Entitled(g)' PROVE FALSE
      OBVIOUS
    <3>1. g # h
      BY <2>1 DEF Entitled
    <3>2. Entitled(g)
      BY <1>1, <2>1, <3>1 DEF Entitled, Only
    <3> QED
      BY <1>4, <3>1, <3>2 DEF Single, FirstStart
  <2>6. \A g \in Hosts : listener'[g].pc = "start" => g = h
    BY <2>1, <2>3 DEF Only
  <2>7. FirstStart'
    BY <1>2, <2>3, <2>5, <2>6 DEF FirstStart
  <2> QED
    BY <1>2, <2>4, <2>7 DEF Single
<1> QED
  BY <1>3, <1>4, CheckTyped

\* The one plain start.
LEMMA StartSingle ==
  ASSUME Typed, Chain, Grants, Single, NEW h \in Hosts, StartChild(h)
  PROVE  Single'
<1>1. UNCHANGED <<job, lease, pause, arm, count>> /\ listener[h].pc = "start"
  BY DEF StartChild
<1>2. Started = {} /\ job.active /\ \A g \in Hosts : listener[g].pc = "start" => g = h
  BY <1>1 DEF Single, FirstStart, Untouched
<1>3. CASE Rests(h) /\ UNCHANGED child
  <2>1. Only(h) /\ listener'[h].pc \notin Assigning
    BY <1>3, IdleTyped DEF Rests, Assigning
  <2>2. Started' = Started /\ OneActive'
    BY <1>3, StillWeakens, WeakensStarted, OneKept DEF Single
  <2> QED
    BY <1>1, <2>1, <2>2, StillMoves, MovesKept DEF Single
<1>4. CASE /\ Only(h) /\ listener'[h].pc = "poll" /\ NewSession \in Children
           /\ Spawn(h, 0, listener[h].epoch)
  <2>1. listener[h].epoch \in Epochs /\ 0 \in Sessions
    BY AtHost, ListenerFields, Numbers
  <2>2. Grows(NewSession, h, 0, listener[h].epoch)
    BY <1>4, <2>1, SpawnGrows
  <2>3. OneActive'
    BY <1>2, <2>2, OneGrows DEF Single
  <2>4. \A g \in Hosts : listener'[g].pc # "start"
    BY <1>2, <1>4 DEF Only
  <2>5. \A g \in Hosts : ~Entitled(g)'
    <3> SUFFICES ASSUME NEW g \in Hosts, Entitled(g)' PROVE FALSE
      OBVIOUS
    <3>1. g # h
      BY <1>4 DEF Entitled
    <3>2. Entitled(g)
      BY <1>1, <1>4, <3>1 DEF Entitled, Only
    <3> QED
      BY <1>1, <3>2 DEF Single, FirstStart
  <2>6. FirstStart'
    BY <2>4, <2>5 DEF FirstStart
  <2>7. \A g \in Hosts : listener'[g].pc \in Assigning => listener'[g].epoch # 0
    BY <1>4 DEF Only, Single, Untouched, Assigning
  <2>8. Untouched'
    BY <1>1, <1>2, <2>4, <2>7 DEF Single, Untouched
  <2> QED
    BY <2>3, <2>6, <2>8 DEF Single
<1> QED
  BY <1>3, <1>4, StartTyped, Zenon

LEMMA SingleInit == Init => Single
<1> SUFFICES ASSUME Init PROVE Single
  OBVIOUS
<1>1. Started = {} /\ job.status = "queued" /\ job.active = FALSE
  BY DEF Init, Started
<1>2. \A h \in Hosts : listener[h].pc = "idle"
  BY IdleTyped DEF Init
<1> QED
  BY <1>1, <1>2 DEF Single, Untouched, FirstStart, OneActive, Entitled, Assigning

LEMMA SingleStep ==
  ASSUME "refuse" \notin Faults
  PROVE  Typed /\ Chain /\ Grants /\ Single /\ [Next]_vars => Single'
<1> SUFFICES ASSUME Typed, Chain, Grants, Single, [Next]_vars PROVE Single'
  OBVIOUS
<1>1. CASE UNCHANGED vars
  <2>1. UNCHANGED <<job, lease, pause, child, arm, listener, count>>
    BY <1>1 DEF vars
  <2>2. Started' = Started /\ OneActive'
    BY <2>1, StillWeakens, WeakensStarted, OneKept DEF Single
  <2>3. Untouched' /\ FirstStart'
    BY <2>1, <2>2 DEF Single, Untouched, FirstStart, Entitled
  <2> QED
    BY <2>2, <2>3 DEF Single
<1>2. CASE Next
  BY <1>2, SchedulerSingle, ChildSingle, QuietSingle, PickSingle, AnnounceSingle, CheckSingle,
     StartSingle, Zenon DEF Next, Dispatching, Quiet
<1> QED
  BY <1>1, <1>2

LEMMA SinglePasses ==
  ASSUME "refuse" \notin Faults
  PROVE  Spec => [](Typed /\ Chain /\ Grants /\ Single)
<1>1. Typed /\ Chain /\ Grants /\ Single /\ [Next]_vars => Single'
  BY SingleStep
<1> QED
  BY <1>1, TypedInit, TypedStep, ChainInit, ChainStep, GrantsInit, GrantsStep, SingleInit, PTL
     DEF Spec

\* No two processes work on the job at once, on one host or on two, if the head node does not
\* answer a running report with an error: runJob (scripts/quack-listener.mjs) does not look at
\* the answer, and goes on to a start that the head node's record knows nothing about.
THEOREM OneChildAtATime ==
  ASSUME "refuse" \notin Faults
  PROVE  Spec => []OneChild
<1>1. Single => OneChild
  <2> SUFFICES ASSUME Single PROVE OneChild
    OBVIOUS
  <2> DEFINE R == {s \in Started : child[s].phase = "running"}
  <2>1. \A s, t \in R : s = t
    BY DEF Single, OneActive, Working
  <2>2. CASE R = {}
    BY <2>2, FS_EmptySet DEF OneChild
  <2>3. ASSUME NEW s \in R PROVE OneChild
    <3>1. R = {s}
      BY <2>1, <2>3
    <3>2. Cardinality(R) = 1
      BY <3>1, FS_Singleton
    <3> QED
      BY <3>2 DEF OneChild
  <2> QED
    BY <2>2, <2>3
<1> QED
  BY <1>1, SinglePasses, PTL

\* A step that does not end where the job ended.
LEMMA EndStep ==
  ASSUME Typed, Chain, Grants, Single, [Next]_vars, "refuse" \notin Faults,
         job.status \in Terminal, job'.status # job.status
  PROVE  job'.status = "canceled" \/ (~job.manual /\ job.host = NoHost /\ Started = {})
<1>1. UNCHANGED job \/ Onward
  <2>1. ASSUME NEW h \in Hosts, AnnounceRunning(h) PROVE Onward
    <3>1. LeaseKept /\ (ReportPlain(h, "running", 0) \/ NoReport)
      BY <2>1, AnnounceTyped
    <3>2. Moves(h)
      BY <3>1, PlainMoves, StillMoves DEF Single, NoReport
    <3> QED
      BY <3>2 DEF Moves
  <2>2. ASSUME NEW h \in Hosts, Quiet(h) PROVE Onward
    BY <2>2, QuietMoves DEF Single, Moves
  <2>3. ASSUME NEW h \in Hosts, PickAssigned(h) \/ CheckClaim(h) \/ StartChild(h)
        PROVE  UNCHANGED job
    BY <2>3 DEF PickAssigned, CheckClaim, StartChild
  <2>4. ASSUME NEW s \in Children, ChildStep(s) \/ \E d \in Decisions : Decide(s, d)
        PROVE  UNCHANGED job
    BY <2>4 DEF ChildStep, Decide
  <2>5. CASE UNCHANGED vars
    BY <2>5 DEF vars
  <2> QED
    BY <2>1, <2>2, <2>3, <2>4, <2>5, SchedulerOnward, Zenon DEF Next, Dispatching, Quiet
<1>2. job'.status = "canceled" \/ Unstarted
  BY <1>1 DEF Onward
<1>3. Unstarted => ~job.manual /\ job.host = NoHost /\ Started = {}
  BY DEF Unstarted, Single, Untouched
<1> QED
  BY <1>2, <1>3

\* A job that ended, or was handed over to the operator, is never started again: only a job
\* no worker ever touched is taken up once more (recheckRecoverableFederatedBlocks).
THEOREM EndsForGood ==
  ASSUME "refuse" \notin Faults
  PROVE  Spec => EndStays
<1>1. Typed /\ Chain /\ Grants /\ Single /\ [Next]_vars =>
        [ job.status \in Terminal /\ job'.status # job.status
            => \/ job'.status = "canceled"
               \/ ~job.manual /\ job.host = NoHost /\ Started = {} ]_vars
  BY EndStep
<1> QED
  BY <1>1, SinglePasses, PTL DEF Spec, EndStays
=============================================================================
