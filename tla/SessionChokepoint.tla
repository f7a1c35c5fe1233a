------------------------- MODULE SessionChokepoint -------------------------
(***************************************************************************)
(* One in-memory session instance driven through the transition chokepoint *)
(* by callers in every order, together with observers that decide from a   *)
(* snapshot: an observer reads the operation axis and the state epoch in   *)
(* one critical section (InFlightOpAndEpoch), looks at the pane for as     *)
(* long as it likes, and then applies its conclusion scoped to the epoch   *)
(* it read (AtEpoch, SetLimitReachedAtEpoch).                              *)
(***************************************************************************)
EXTENDS SessionTransition

CONSTANTS Observers,      \* concurrent observers of the instance
          MaxEpoch        \* bound on the state epoch, for TLC only

ASSUME MaxEpochAssumption == MaxEpoch \in Nat

VARIABLES inst,     \* the in-memory instance
          epoch,    \* stateEpoch
          seen      \* seen[o]: the epoch observer o holds, or NoEpoch

vars == <<inst, epoch, seen>>

NoEpoch == MaxEpoch + 1

\* What the pane of a live session can be read as, and the loss of it.
Observable == {"Running", "Ready", "Lost"}

TypeOK == /\ inst \in Instance
          /\ epoch \in Nat
          /\ seen \in [Observers -> Nat]

-----------------------------------------------------------------------------
\* NewInstance: a session is born Ready before its agent has ever run.
Init == /\ inst = [lv |-> "Ready", op |-> "None", started |-> FALSE,
                   run |-> "active", held |-> FALSE, owes |-> FALSE,
                   awaiting |-> FALSE, replaced |-> FALSE, teardown |-> FALSE,
                   barred |-> FALSE, reset |-> 0,
                   shelved |-> FALSE, settling |-> FALSE, pushed |-> FALSE]
        /\ epoch = 0
        /\ seen = [o \in Observers |-> NoEpoch]

\* Every writer ends in noteStateChangeLocked, under the same mutex.
Write(i) == /\ EpochMoves(inst, i) => epoch < MaxEpoch
            /\ inst' = i
            /\ epoch' = IF EpochMoves(inst, i) THEN epoch + 1 ELSE epoch

\* An event without an epoch applies whatever the epoch is.
Fire(kind) == /\ kind \notin {"ObserveLiveness", "ParkHandoff"}
              /\ Write(Transition(inst, Event(kind)))
              /\ UNCHANGED seen

Park(r) == /\ Write(Transition(inst, ParkHandoff(r)))
           /\ UNCHANGED seen

ObserveUnscoped(lv) == /\ Write(Transition(inst, ObserveLiveness(lv)))
                       /\ UNCHANGED seen

\* InFlightOpAndEpoch, with the skip every caller must take on a fence.
Capture(o) == /\ inst.op = "None"
              /\ seen[o] = NoEpoch
              /\ seen' = [seen EXCEPT ![o] = epoch]
              /\ UNCHANGED <<inst, epoch>>

\* Mutant: the epoch is not compared.
AtAnyEpoch(o, i) == i

\* The event is dropped once a newer transition moved the epoch.
AtEpoch(o, i) == IF seen[o] = epoch THEN i ELSE inst

Settle(o, lv) == /\ seen[o] # NoEpoch
                 /\ Write(AtEpoch(o, Transition(inst, ObserveLiveness(lv))))
                 /\ seen' = [seen EXCEPT ![o] = NoEpoch]

SettleLimit(o, r) == /\ seen[o] # NoEpoch
                     /\ Write(AtEpoch(o, ObserveLimit(inst, r)))
                     /\ seen' = [seen EXCEPT ![o] = NoEpoch]

\* noteTaskRunTurnEvidence, in front of the settlement of the same observation: only
\* the pane of a started session can show a turn.
Resume(o) == /\ seen[o] # NoEpoch
             /\ inst.started
             /\ Write(AtEpoch(o, ResumeInterruptedTaskRun(inst)))
             /\ UNCHANGED seen

\* The writers that bypass the table.
ReparkLimit(r) == /\ Write(ReparkLimitUnderResumeFence(inst, r))
                  /\ UNCHANGED seen

\* Only a manual account swap of a healthy session puts its liveness back.
PutBack(lv) == /\ Write(RestoreLivenessUnderResumeFence(inst, lv))
               /\ UNCHANGED seen

EndLimit == /\ Write(ClearLimitReached(inst))
            /\ UNCHANGED seen

LowerFence(op) == /\ Write(ClearOpIfHeld(inst, op))
                  /\ UNCHANGED seen

\* markStartedLocked: a create has launched its agent.
Launch == /\ inst.op = "Creating" /\ inst.lv = "Ready"
          /\ inst' = [inst EXCEPT !.started = TRUE]
          /\ UNCHANGED <<epoch, seen>>

\* Facts owned by other components, which Transition reads.
Surroundings == /\ \E b \in BOOLEAN :
                       inst' \in {[inst EXCEPT !.owes = b],
                                  [inst EXCEPT !.awaiting = b],
                                  [inst EXCEPT !.replaced = b],
                                  [inst EXCEPT !.teardown = b],
                                  [inst EXCEPT !.barred = b],
                                  [inst EXCEPT !.pushed = b /\ inst.op = "Archiving"]}
                /\ UNCHANGED <<epoch, seen>>

Next == \/ \E k \in Kinds : Fire(k)
        \/ \E r \in ResetTimes : Park(r)
        \/ \E lv \in Observable : ObserveUnscoped(lv)
        \/ \E o \in Observers : \/ Capture(o)
                                \/ Resume(o)
                                \/ \E lv \in Observable : Settle(o, lv)
                                \/ \E r \in ResetTimes : SettleLimit(o, r)
        \/ \E r \in ResetTimes : ReparkLimit(r)
        \/ \E lv \in {"Running", "Ready"} : PutBack(lv)
        \/ EndLimit
        \/ \E op \in {"Restoring", "Respawning"} : LowerFence(op)
        \/ Launch
        \/ Surroundings

Spec == Init /\ [][Next]_vars

-----------------------------------------------------------------------------
\* InFlightOpAndEpoch reads the axis and the epoch together so that no observer
\* ever holds the current epoch of a fenced session: a fence raised after the
\* read has moved the epoch, and the observation will be dropped.
FenceOutdatesObservers ==
    \A o \in Observers : seen[o] = epoch => inst.op = "None"

\* An archived session is inert: CommitArchive stopped it, ended its task run
\* for good and stamped the shelf it sits on.
ArchivedIsInert ==
    inst.lv = "Archived" => ~inst.started /\ inst.run # "active" /\ inst.shelved

\* archiveSettled is open exactly while the archive fence is up, so nobody
\* waits on a channel no transition will close.
SettledChannelFollowsFence == inst.settling <=> inst.op = "Archiving"

\* I2 and I4: Archived is entered only out of the archive fence, whoever calls.
ArchivedOnlyThroughFence ==
    [][inst'.lv = "Archived" /\ inst.lv # "Archived" => inst.op = "Archiving"]_vars

\* An observation applied by Settle or SettleLimit never changes an instance
\* whose operation axis is fenced.
ObserversNeverMoveFenced ==
    [][\A o \in Observers :
          seen[o] # NoEpoch /\ seen'[o] = NoEpoch /\ inst.op # "None"
              => inst' = inst]_vars

\* A run that ended never comes back, and one a restore interrupted is reopened
\* only by what an observer saw with no fence up, in a way that its next idle
\* observation ends it.
RunReopensOnlyInTurn ==
    [][/\ inst.run = "ended" => inst'.run = "ended"
       /\ inst.run = "interrupted" /\ inst'.run # "interrupted"
              => inst'.run = "active" /\ inst.op = "None" /\ inst'.held]_vars
=============================================================================
