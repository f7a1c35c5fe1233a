---------------------- MODULE SessionChokepointProofs ----------------------
(***************************************************************************)
(* Proofs, for every set of observers, every set of reset times and every  *)
(* epoch bound, of the properties MCSessionChokepoint checks on a small    *)
(* instance.  What one event does to one instance is proved in             *)
(* SessionTransitionProofs.                                                *)
(***************************************************************************)
EXTENDS SessionChokepoint, SessionTransitionProofs

(***************************************************************************)
(* The inductive invariant.  Sound collects what the instance alone must   *)
(* satisfy; the observers add that an epoch is never held from the future. *)
(***************************************************************************)
EpochsHeld == \A o \in Observers : seen[o] = NoEpoch \/ seen[o] <= epoch

IInv == /\ TypeOK
        /\ Sound(inst)
        /\ epoch <= MaxEpoch
        /\ EpochsHeld
        /\ FenceOutdatesObservers

\* The writers that do not go through the table keep it sound too: none of them
\* enters Archived or moves the operation axis.
LEMMA LimitWritersSound ==
    ASSUME NEW i, Sound(i), NEW r \in ResetTimes
    PROVE  /\ Sound(ObserveLimit(i, r))
           /\ Sound(ReparkLimitUnderResumeFence(i, r))
           /\ Sound(ClearLimitReached(i))
           /\ \A lv \in {"Running", "Ready"} :
                  Sound(RestoreLivenessUnderResumeFence(i, lv))
<1>1. \A lv \in Liveness \ {"Archived"}, t \in ResetTimes :
          Sound([i EXCEPT !.lv = lv, !.reset = t])
  BY DEF Sound, Inert, Channel, Instance
<1>2. \A lv \in {"LimitReached", "Running"} :
          AssignLiveness(i, lv) \in Liveness \ {"Archived"}
  BY DEF AssignLiveness, Liveness
<1>3. Sound(SetLimitReached(i, r))
  BY <1>1, <1>2 DEF SetLimitReached
<1>7. Sound(ObserveLimit(i, r))
  BY <1>3 DEF ObserveLimit
<1>4. Sound(ReparkLimitUnderResumeFence(i, r))
  BY <1>1 DEF ReparkLimitUnderResumeFence, Liveness
<1>5. Sound(ClearLimitReached(i))
  BY <1>1, <1>2, ResetTimesAssumption DEF ClearLimitReached
<1>6. ASSUME NEW lv \in {"Running", "Ready"}
      PROVE  Sound(RestoreLivenessUnderResumeFence(i, lv))
  BY DEF RestoreLivenessUnderResumeFence, Liveness, Sound, Inert, Channel, Instance
<1> QED
  BY <1>4, <1>5, <1>6, <1>7

\* Reopening the run of a started instance keeps it sound: it is not archived.
LEMMA ResumeSound ==
    ASSUME NEW i, Sound(i), i.started
    PROVE  Sound(ResumeInterruptedTaskRun(i))
  BY ZenonT(60) DEF ResumeInterruptedTaskRun, Sound, Inert, Channel, Instance, RunMarker

\* The events the actions fire are well formed.
LEMMA EventTypes ==
    /\ \A k \in Kinds : Event(k) \in TransitionEvent
    /\ \A r \in ResetTimes : ParkHandoff(r) \in TransitionEvent
    /\ \A lv \in Observable : ObserveLiveness(lv) \in TransitionEvent
    /\ Event("ClearOp") \in TransitionEvent
  BY KindsList, ResetTimesAssumption
     DEF Event, ObserveLiveness, ParkHandoff, TransitionEvent, Observable, Liveness

\* A write of a sound instance preserves the invariant, whether the writer
\* keeps the observers' epochs or lets one go.
LEMMA WritePreserves ==
    ASSUME IInv, NEW i, Sound(i), Write(i),
           seen' = seen \/ \E o \in Observers : seen' = [seen EXCEPT ![o] = NoEpoch]
    PROVE  IInv'
<1> USE DEF IInv, TypeOK
<1>1. inst' = i /\ epoch \in Nat /\ epoch' \in Nat /\ NoEpoch \in Nat
  BY MaxEpochAssumption DEF Write, NoEpoch
<1>2. seen' \in [Observers -> Nat]
  BY <1>1
<1>3. \A o \in Observers : seen'[o] = seen[o] \/ seen'[o] = NoEpoch
  BY <1>1
<1>4. epoch' = epoch \/ epoch' = epoch + 1
  BY DEF Write
<1>5. epoch' <= MaxEpoch /\ MaxEpoch < NoEpoch
  BY <1>1, MaxEpochAssumption DEF NoEpoch, Write
<1>6. EpochsHeld'
  BY <1>1, <1>2, <1>3, <1>4 DEF EpochsHeld
<1>7. FenceOutdatesObservers'
  <2> SUFFICES ASSUME NEW o \in Observers, seen'[o] = epoch' PROVE inst'.op = "None"
    BY DEF FenceOutdatesObservers
  <2>1. seen'[o] # NoEpoch
    BY <1>1, <1>5, MaxEpochAssumption DEF NoEpoch
  <2>2. seen[o] = epoch' /\ seen[o] <= epoch
    BY <1>3, <2>1 DEF EpochsHeld
  <2>3. epoch' = epoch
    BY <1>1, <1>2, <1>4, <2>2
  <2>4. ~EpochMoves(inst, i)
    BY <1>1, <2>3 DEF Write
  <2> QED
    BY <1>1, <2>2, <2>3, <2>4 DEF EpochMoves, FenceOutdatesObservers
<1> QED
  BY <1>1, <1>2, <1>5, <1>6, <1>7 DEF Sound

\* The initial state satisfies the invariant.
LEMMA Initially == Init => IInv
<1> SUFFICES ASSUME Init PROVE IInv
  OBVIOUS
<1> USE DEF Init
<1>1. inst \in Instance
  BY ResetTimesAssumption DEF Instance, Liveness, InFlightOp, RunMarker
<1>2. TypeOK
  BY <1>1, MaxEpochAssumption DEF TypeOK, NoEpoch
<1>3. Sound(inst)
  BY <1>1 DEF Sound, Inert, Channel
<1>4. EpochsHeld /\ FenceOutdatesObservers /\ epoch <= MaxEpoch
  BY MaxEpochAssumption DEF EpochsHeld, FenceOutdatesObservers, NoEpoch
<1> QED
  BY <1>2, <1>3, <1>4 DEF IInv

\* Every step of the chokepoint's environment preserves the invariant.
LEMMA Preserves == IInv /\ [Next]_vars => IInv'
<1> SUFFICES ASSUME IInv, [Next]_vars PROVE IInv'
  OBVIOUS
<1> USE DEF IInv
<1>1. ASSUME NEW k \in Kinds, Fire(k) PROVE IInv'
  BY <1>1, EventTypes, TransitionSound, WritePreserves DEF Fire
<1>2. ASSUME NEW lv \in Observable, ObserveUnscoped(lv) PROVE IInv'
  BY <1>2, EventTypes, TransitionSound, WritePreserves DEF ObserveUnscoped
<1>3. ASSUME NEW o \in Observers, Capture(o) PROVE IInv'
  <2>1. inst' = inst /\ epoch' = epoch /\ seen' = [seen EXCEPT ![o] = epoch] /\ inst.op = "None"
    BY <1>3 DEF Capture
  <2>2. TypeOK'
    BY <2>1 DEF TypeOK
  <2>3. EpochsHeld'
    BY <2>1, <2>2 DEF TypeOK, EpochsHeld
  <2>4. FenceOutdatesObservers'
    BY <2>1, <2>2 DEF TypeOK, FenceOutdatesObservers
  <2> QED
    BY <2>1, <2>2, <2>3, <2>4 DEF Sound
<1>4. ASSUME NEW o \in Observers, NEW lv \in Observable, Settle(o, lv) PROVE IInv'
  <2>1. Sound(AtEpoch(o, Transition(inst, ObserveLiveness(lv))))
    BY EventTypes, TransitionSound DEF AtEpoch
  <2> QED
    BY <1>4, <2>1, WritePreserves DEF Settle
<1>5. ASSUME NEW o \in Observers, NEW r \in ResetTimes, SettleLimit(o, r) PROVE IInv'
  <2>1. Sound(AtEpoch(o, ObserveLimit(inst, r)))
    BY LimitWritersSound DEF AtEpoch
  <2> QED
    BY <1>5, <2>1, WritePreserves DEF SettleLimit
<1>6. ASSUME NEW r \in ResetTimes, ReparkLimit(r) PROVE IInv'
  BY <1>6, LimitWritersSound, WritePreserves DEF ReparkLimit
<1>7. CASE EndLimit
  BY <1>7, LimitWritersSound, ResetTimesAssumption, WritePreserves DEF EndLimit
<1>8. ASSUME NEW op \in {"Restoring", "Respawning"}, LowerFence(op) PROVE IInv'
  <2>1. Sound(ClearOpIfHeld(inst, op))
    BY EventTypes, TransitionSound DEF ClearOpIfHeld
  <2> QED
    BY <1>8, <2>1, WritePreserves DEF LowerFence
<1>9. CASE Surroundings
  <2>1. Sound(inst')
    BY <1>9 DEF Surroundings, Sound, Inert, Channel, Instance
  <2>2. inst'.op = inst.op /\ epoch' = epoch /\ seen' = seen
    BY <1>9 DEF Surroundings, Sound, Instance
  <2> QED
    BY <2>1, <2>2 DEF TypeOK, Sound, EpochsHeld, FenceOutdatesObservers
<1>10. CASE UNCHANGED vars
  BY <1>10 DEF vars, TypeOK, EpochsHeld, FenceOutdatesObservers
<1>11. ASSUME NEW lv \in {"Running", "Ready"}, PutBack(lv) PROVE IInv'
  BY <1>11, LimitWritersSound, ResetTimesAssumption, WritePreserves DEF PutBack
<1>12. ASSUME NEW r \in ResetTimes, Park(r) PROVE IInv'
  BY <1>12, EventTypes, TransitionSound, WritePreserves DEF Park
<1>13. ASSUME NEW o \in Observers, Resume(o) PROVE IInv'
  <2>1. Sound(AtEpoch(o, ResumeInterruptedTaskRun(inst)))
    BY <1>13, ResumeSound DEF AtEpoch, Resume
  <2> QED
    BY <1>13, <2>1, WritePreserves DEF Resume
<1>14. CASE Launch
  <2>1. inst' = [inst EXCEPT !.started = TRUE] /\ inst.lv = "Ready"
    BY <1>14 DEF Launch
  <2>2. Sound(inst')
    BY <2>1 DEF Sound, Inert, Channel, Instance
  <2>3. inst'.op = inst.op /\ epoch' = epoch /\ seen' = seen
    BY <1>14, <2>1 DEF Launch, Sound, Instance
  <2> QED
    BY <2>2, <2>3 DEF TypeOK, Sound, EpochsHeld, FenceOutdatesObservers
<1> QED
  BY <1>1, <1>2, <1>3, <1>4, <1>5, <1>6, <1>7, <1>8, <1>9, <1>10, <1>11, <1>12,
     <1>13, <1>14 DEF Next

\* The inductive invariant holds in every reachable state.
THEOREM Invariance == Spec => []IInv
  BY Initially, Preserves, PTL DEF Spec

\* The instance, the epoch and the observers' epochs keep their types.
THEOREM TypeCorrect == Spec => []TypeOK
  BY Invariance, PTL DEF IInv

\* No observer ever holds the current epoch of a fenced session, so what it
\* concludes about the pane is dropped by AtEpoch once a fence is up.
THEOREM FencesOutdate == Spec => []FenceOutdatesObservers
  BY Invariance, PTL DEF IInv

\* An archived session is stopped, its task run is over and it has its stamp.
THEOREM ArchivedStaysInert == Spec => []ArchivedIsInert
<1>1. IInv => ArchivedIsInert
  BY DEF IInv, Sound, Inert, ArchivedIsInert
<1> QED
  BY <1>1, Invariance, PTL

\* archiveSettled is open exactly while an archive is in flight.
THEOREM ChannelFollowsFence == Spec => []SettledChannelFollowsFence
<1>1. IInv => SettledChannelFollowsFence
  BY DEF IInv, Sound, Channel, SettledChannelFollowsFence
<1> QED
  BY <1>1, Invariance, PTL

\* A step of an observer that lets its epoch go leaves a fenced instance alone.
THEOREM ObserversRespectFences == Spec => ObserversNeverMoveFenced
<1>1. ASSUME IInv, [Next]_vars, NEW o \in Observers,
             seen[o] # NoEpoch, seen'[o] = NoEpoch, inst.op # "None"
      PROVE  inst' = inst
  <2>1. seen[o] # epoch
    BY <1>1 DEF IInv, FenceOutdatesObservers
  <2>2. seen' # seen
    BY <1>1
  <2>3. \A p \in Observers : ~Capture(p)
    BY <1>1 DEF Capture
  <2>4. PICK p \in Observers :
            \/ \E lv \in Observable : Settle(p, lv)
            \/ \E r \in ResetTimes : SettleLimit(p, r)
    BY <1>1, <2>2, <2>3
       DEF Next, Fire, Park, ObserveUnscoped, Resume, ReparkLimit, PutBack, EndLimit,
           LowerFence, Launch, Surroundings, vars
  <2>5. p = o
    BY <1>1, <2>4 DEF Settle, SettleLimit, IInv, TypeOK
  <2> QED
    BY <2>1, <2>4, <2>5 DEF Settle, SettleLimit, Write, AtEpoch
<1>2. IInv /\ [Next]_vars =>
        [\A o \in Observers :
            seen[o] # NoEpoch /\ seen'[o] = NoEpoch /\ inst.op # "None" => inst' = inst]_vars
  BY <1>1
<1> QED
  BY <1>2, Invariance, PTL DEF Spec, ObserversNeverMoveFenced

\* How a step may change the run marker and the liveness: Moves(i, j) is what
\* every writer guarantees of the instance it leaves.
Moves(i, j) == /\ i.run = "ended" => j.run = "ended"
               /\ i.run = "interrupted" /\ j.run # "interrupted"
                      => j.run = "active" /\ i.op = "None" /\ j.held
               /\ j.lv = "Archived" /\ i.lv # "Archived" => i.op = "Archiving"

\* A transition never reopens a run and archives only out of the fence.
LEMMA TransitionMoves ==
    ASSUME NEW i, Sound(i), NEW ev \in TransitionEvent
    PROVE  Moves(i, Transition(i, ev))
<1>1. CASE ~Allowed(i, ev)
  BY <1>1 DEF Transition, Moves
<1>2. CASE Allowed(i, ev)
  <2>1. i \in Instance
    BY DEF Sound
  <2>2. RowFacts(ev.kind) /\ ev.lv # "Archived" /\ i.op \in transitionTable[ev.kind].ops
    BY <1>2, TableRows DEF TransitionEvent, Allowed
  <2>3. i.run # "active" => RunAfter(i, ev) = i.run
    BY DEF RunAfter
  <2>4. LivenessAfter(i, ev) = "Archived" /\ i.lv # "Archived" => i.op = "Archiving"
    BY <2>2 DEF LivenessAfter, AssignLiveness, TargetLiveness, Claimed, RowFacts
  <2> QED
    BY <1>2, <2>1, <2>3, <2>4, TransitionFields DEF Moves
<1> QED
  BY <1>1, <1>2

\* The writers outside the table leave the run marker alone and never archive.
LEMMA LimitWritersMove ==
    ASSUME NEW i, Sound(i), NEW r \in ResetTimes
    PROVE  /\ Moves(i, ObserveLimit(i, r))
           /\ Moves(i, ReparkLimitUnderResumeFence(i, r))
           /\ Moves(i, ClearLimitReached(i))
           /\ \A lv \in {"Running", "Ready"} :
                  Moves(i, RestoreLivenessUnderResumeFence(i, lv))
  BY DEF Moves, RestoreLivenessUnderResumeFence, ObserveLimit, SetLimitReached,
         ReparkLimitUnderResumeFence, ClearLimitReached, AssignLiveness, Sound, Instance

\* Every step moves the instance as Moves allows.
LEMMA StepMoves == IInv /\ [Next]_vars => Moves(inst, inst')
<1> SUFFICES ASSUME IInv, [Next]_vars PROVE Moves(inst, inst')
  OBVIOUS
<1> USE DEF IInv, Write
<1>0. Moves(inst, inst)
  BY DEF Moves
<1>1. ASSUME NEW k \in Kinds, Fire(k) PROVE Moves(inst, inst')
  BY <1>1, EventTypes, TransitionMoves DEF Fire
<1>2. ASSUME NEW lv \in Observable, ObserveUnscoped(lv) PROVE Moves(inst, inst')
  BY <1>2, EventTypes, TransitionMoves DEF ObserveUnscoped
<1>3. ASSUME NEW o \in Observers, Capture(o) PROVE Moves(inst, inst')
  BY <1>0, <1>3 DEF Capture
<1>4. ASSUME NEW o \in Observers, NEW lv \in Observable, Settle(o, lv)
      PROVE  Moves(inst, inst')
  BY <1>0, <1>4, EventTypes, TransitionMoves DEF Settle, AtEpoch
<1>5. ASSUME NEW o \in Observers, NEW r \in ResetTimes, SettleLimit(o, r)
      PROVE  Moves(inst, inst')
  BY <1>0, <1>5, LimitWritersMove DEF SettleLimit, AtEpoch
<1>6. ASSUME NEW r \in ResetTimes, ReparkLimit(r) PROVE Moves(inst, inst')
  BY <1>6, LimitWritersMove DEF ReparkLimit
<1>7. CASE EndLimit
  BY <1>7, LimitWritersMove, ResetTimesAssumption DEF EndLimit
<1>8. ASSUME NEW op \in {"Restoring", "Respawning"}, LowerFence(op)
      PROVE  Moves(inst, inst')
  BY <1>0, <1>8, EventTypes, TransitionMoves DEF LowerFence, ClearOpIfHeld
<1>9. CASE Surroundings
  BY <1>9 DEF Surroundings, Moves, Sound, Instance
<1>10. CASE UNCHANGED vars
  BY <1>0, <1>10 DEF vars
<1>11. ASSUME NEW lv \in {"Running", "Ready"}, PutBack(lv) PROVE Moves(inst, inst')
  BY <1>11, LimitWritersMove, ResetTimesAssumption DEF PutBack
<1>12. ASSUME NEW r \in ResetTimes, Park(r) PROVE Moves(inst, inst')
  BY <1>12, EventTypes, TransitionMoves DEF Park
<1>13. ASSUME NEW o \in Observers, Resume(o) PROVE Moves(inst, inst')
  <2>1. CASE seen[o] = epoch
    <3>1. inst.op = "None" /\ inst' = ResumeInterruptedTaskRun(inst)
      BY <1>13, <2>1 DEF FenceOutdatesObservers, Resume, AtEpoch
    <3> QED
      BY <3>1 DEF ResumeInterruptedTaskRun, Moves, Sound, Instance, RunMarker
  <2>2. CASE seen[o] # epoch
    BY <1>0, <1>13, <2>2 DEF Resume, AtEpoch
  <2> QED
    BY <2>1, <2>2
<1>14. CASE Launch
  BY <1>14 DEF Launch, Moves, Sound, Instance
<1> QED
  BY <1>1, <1>2, <1>3, <1>4, <1>5, <1>6, <1>7, <1>8, <1>9, <1>10, <1>11, <1>12,
     <1>13, <1>14 DEF Next

\* A task run that ended never becomes active again, and an interrupted one only
\* through an observation made with no fence up.
THEOREM RunsStayOver == Spec => RunReopensOnlyInTurn
<1>1. IInv /\ [Next]_vars =>
        [/\ inst.run = "ended" => inst'.run = "ended"
         /\ inst.run = "interrupted" /\ inst'.run # "interrupted"
                => inst'.run = "active" /\ inst.op = "None" /\ inst'.held]_vars
  BY StepMoves DEF Moves
<1> QED
  BY <1>1, Invariance, PTL DEF Spec, RunReopensOnlyInTurn

\* Whoever calls, Archived is entered only out of the Archiving fence.
THEOREM OnlyTheFenceArchives == Spec => ArchivedOnlyThroughFence
<1>1. IInv /\ [Next]_vars =>
        [inst'.lv = "Archived" /\ inst.lv # "Archived" => inst.op = "Archiving"]_vars
  BY StepMoves DEF Moves
<1> QED
  BY <1>1, Invariance, PTL DEF Spec, ArchivedOnlyThroughFence

=============================================================================
