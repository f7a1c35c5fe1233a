----------------------- MODULE SessionTransitionProofs -----------------------
(***************************************************************************)
(* What the transition chokepoint does to one instance: the lemmas about   *)
(* the operators of SessionTransition that the proofs about its users, the *)
(* observers of SessionChokepoint and the daemon's operations of           *)
(* SessionLifecycle, rest on.  The transition table enters only through    *)
(* TableRows and EventRows, so those proofs do not depend on its nineteen  *)
(* rows.                                                                   *)
(***************************************************************************)
EXTENDS SessionTransition, TLAPS

TransitionEvent == [kind : Kinds, lv : Liveness \ {"Archived"}, reset : ResetTimes]

EdgeType == [ops     : SUBSET InFlightOp,
             lvs     : SUBSET Liveness,
             lv      : Liveness \cup {"keep", "event"},
             op      : InFlightOp \cup {"keep", "fence"},
             started : {"keep", "set", "clear"},
             run     : {"keep", "idleEdge", "ends"},
             reset   : {"keep", "clear", "event"},
             yields  : BOOLEAN]

\* What the proofs need to know of row k.
RowFacts(k) ==
    LET e == transitionTable[k]
    IN  /\ e \in EdgeType
        /\ e.lv = "Archived" <=> k = "CommitArchive"
        /\ e.started = "set" => e.lv = "Lost"
        /\ k = "CommitArchive" => /\ e.ops = {"Archiving"}
                                  /\ e.started = "clear"
                                  /\ e.run = "ends"
        /\ e.op = "Archiving" <=> k = "BeginArchive"

\* The kinds of event are exactly the keys of transitionTable.
LEMMA KindsList ==
    Kinds = {"BeginRespawn", "BeginCreate", "ConfirmLive", "ObserveLiveness",
             "BeginKill", "RevertKill", "BeginArchive", "CancelArchive",
             "CommitArchive", "AbortArchiveToLost", "BeginRestore", "BeginRestoreFenced",
             "AbortRestoreToLost", "MarkRestoring", "BeginHandoff", "CommitHandoff",
             "ParkHandoff", "AbortHandoff", "ClearOp"}
  BY DEF Kinds, transitionTable

\* Every row of transitionTable is well formed, archives only through
\* CommitArchive and raises the archive fence only through BeginArchive.
LEMMA TableRows == \A k \in Kinds : RowFacts(k)
<1> SUFFICES ASSUME NEW k \in Kinds PROVE RowFacts(k)
  OBVIOUS
<1> USE DEF RowFacts, EdgeType, Edge, Plain, Liveness, InFlightOp
<1>1. CASE k = "BeginRespawn"
  BY <1>1 DEF transitionTable
<1>2. CASE k = "BeginCreate"
  BY <1>2 DEF transitionTable
<1>3. CASE k = "ConfirmLive"
  BY <1>3 DEF transitionTable
<1>4. CASE k = "ObserveLiveness"
  BY <1>4 DEF transitionTable
<1>5. CASE k = "BeginKill"
  BY <1>5 DEF transitionTable
<1>6. CASE k = "RevertKill"
  BY <1>6 DEF transitionTable
<1>7. CASE k = "BeginArchive"
  BY <1>7 DEF transitionTable
<1>8. CASE k = "CancelArchive"
  BY <1>8 DEF transitionTable
<1>9. CASE k = "CommitArchive"
  BY <1>9 DEF transitionTable
<1>10. CASE k = "AbortArchiveToLost"
  BY <1>10 DEF transitionTable
<1>11. CASE k = "BeginRestore"
  BY <1>11 DEF transitionTable
<1>12. CASE k = "BeginRestoreFenced"
  BY <1>12 DEF transitionTable
<1>13. CASE k = "AbortRestoreToLost"
  BY <1>13 DEF transitionTable
<1>14. CASE k = "MarkRestoring"
  BY <1>14 DEF transitionTable
<1>15. CASE k = "BeginHandoff"
  BY <1>15 DEF transitionTable
<1>16. CASE k = "CommitHandoff"
  BY <1>16 DEF transitionTable
<1>17. CASE k = "ParkHandoff"
  BY <1>17 DEF transitionTable
<1>18. CASE k = "AbortHandoff"
  BY <1>18 DEF transitionTable
<1>19. CASE k = "ClearOp"
  BY <1>19 DEF transitionTable
<1> QED
  BY <1>1, <1>2, <1>3, <1>4, <1>5, <1>6, <1>7, <1>8, <1>9, <1>10,
     <1>11, <1>12, <1>13, <1>14, <1>15, <1>16, <1>17, <1>18, <1>19, KindsList

\* transitionLocked returns an instance.
LEMMA TransitionType ==
    ASSUME NEW i \in Instance, NEW ev \in TransitionEvent
    PROVE  Transition(i, ev) \in Instance
<1>1. RowFacts(ev.kind) /\ ev.lv \in Liveness /\ ev.reset \in ResetTimes
  BY TableRows DEF TransitionEvent
<1>2. LivenessAfter(i, ev) \in Liveness
  BY <1>1 DEF LivenessAfter, AssignLiveness, TargetLiveness, Claimed, Liveness,
              RowFacts, EdgeType, Instance
<1>3. TargetOp(i, ev) \in InFlightOp
  BY <1>1 DEF TargetOp, InFlightOp, RowFacts, EdgeType, Instance
<1>4. StartedAfter(i, ev) \in BOOLEAN
  BY <1>1 DEF StartedAfter, RowFacts, EdgeType, Instance
<1>5. RunAfter(i, ev) \in RunMarker /\ HeldAfter(i, ev) \in BOOLEAN
  BY DEF RunAfter, HeldAfter, RunMarker, Instance
<1>6. ResetAfter(i, ev) \in ResetTimes
  BY <1>1, ResetTimesAssumption DEF ResetAfter, RowFacts, EdgeType, Instance
<1>7. ShelvedAfter(i, ev) \in BOOLEAN /\ SettlingAfter(i, ev) \in BOOLEAN
  BY DEF ShelvedAfter, SettlingAfter, Instance
<1>8. PushedAfter(i, ev) \in BOOLEAN
  BY DEF PushedAfter
<1>9. PICK lv \in Liveness, op \in InFlightOp, started \in BOOLEAN,
           run \in RunMarker, held \in BOOLEAN, reset \in ResetTimes,
           shelved \in BOOLEAN, settling \in BOOLEAN, pushed \in BOOLEAN :
           /\ lv = LivenessAfter(i, ev)
           /\ op = TargetOp(i, ev)
           /\ started = StartedAfter(i, ev)
           /\ run = RunAfter(i, ev)
           /\ held = HeldAfter(i, ev)
           /\ reset = ResetAfter(i, ev)
           /\ shelved = ShelvedAfter(i, ev)
           /\ settling = SettlingAfter(i, ev)
           /\ pushed = PushedAfter(i, ev)
  BY <1>2, <1>3, <1>4, <1>5, <1>6, <1>7, <1>8, Zenon
<1>10. Transition(i, ev) =
         IF ~Allowed(i, ev)
         THEN i
         ELSE [i EXCEPT !.lv = lv, !.op = op, !.started = started, !.run = run,
                        !.held = held, !.reset = reset, !.shelved = shelved,
                        !.settling = settling, !.pushed = pushed]
  BY <1>9, Zenon DEF Transition
<1>11. [i EXCEPT !.lv = lv, !.op = op, !.started = started, !.run = run,
                 !.held = held, !.reset = reset, !.shelved = shelved,
                 !.settling = settling, !.pushed = pushed] \in Instance
  BY DEF Instance
<1> QED
  BY <1>10, <1>11, Zenon

\* What a transition leaves in each field it writes.
LEMMA TransitionFields ==
    ASSUME NEW i \in Instance, NEW ev \in TransitionEvent, Allowed(i, ev)
    PROVE  /\ Transition(i, ev).lv = LivenessAfter(i, ev)
           /\ Transition(i, ev).op = TargetOp(i, ev)
           /\ Transition(i, ev).started = StartedAfter(i, ev)
           /\ Transition(i, ev).run = RunAfter(i, ev)
           /\ Transition(i, ev).shelved = ShelvedAfter(i, ev)
           /\ Transition(i, ev).settling = SettlingAfter(i, ev)
  BY DEF Transition, Instance

(***************************************************************************)
(* What an instance must satisfy on its own, whoever writes it: archived   *)
(* means stopped, and archiveSettled is open exactly under the archive     *)
(* fence.                                                                  *)
(***************************************************************************)
Inert(i) == i.lv = "Archived" => ~i.started /\ i.run # "active" /\ i.shelved
Channel(i) == i.settling <=> i.op = "Archiving"
Sound(i) == i \in Instance /\ Inert(i) /\ Channel(i)

\* A transition keeps an archived instance inert: only CommitArchive enters
\* Archived, and the edges that restart the agent leave it.
LEMMA TransitionInert ==
    ASSUME NEW i, Sound(i), NEW ev \in TransitionEvent
    PROVE  Inert(Transition(i, ev))
<1>1. CASE ~Allowed(i, ev)
  BY <1>1 DEF Transition, Sound
<1>2. CASE Allowed(i, ev)
  <2>1. i \in Instance /\ Inert(i)
    BY DEF Sound
  <2>2. RowFacts(ev.kind) /\ ev.lv # "Archived" /\ ev.kind \in Kinds
    BY TableRows DEF TransitionEvent
  <2>3. SUFFICES ASSUME LivenessAfter(i, ev) = "Archived"
                 PROVE  /\ StartedAfter(i, ev) = FALSE
                        /\ RunAfter(i, ev) # "active"
                        /\ ShelvedAfter(i, ev) = TRUE
    BY <1>2, <2>1, TransitionFields DEF Inert
  <2>4. TargetLiveness(i, ev) = "Archived"
    BY <2>3 DEF LivenessAfter, AssignLiveness
  <2>5. CASE ev.kind = "CommitArchive"
    <3>1. transitionTable[ev.kind].started = "clear" /\ transitionTable[ev.kind].run = "ends"
      BY <2>2, <2>5 DEF RowFacts
    <3>2. StartedAfter(i, ev) = FALSE
      BY <3>1 DEF StartedAfter
    <3>3. RunAfter(i, ev) # "active"
      BY <3>1 DEF RunAfter, EndsRun
    <3>4. ShelvedAfter(i, ev) = TRUE
      BY <2>4, <2>5 DEF ShelvedAfter
    <3> QED
      BY <3>2, <3>3, <3>4
  <2>6. CASE ev.kind # "CommitArchive"
    <3>1. transitionTable[ev.kind].lv = "keep" /\ i.lv = "Archived"
      BY <2>2, <2>4, <2>6 DEF TargetLiveness, Claimed, RowFacts
    <3>2. transitionTable[ev.kind].started = "keep" \/ transitionTable[ev.kind].started = "clear"
      BY <2>2, <3>1 DEF RowFacts, EdgeType
    <3>3. ~i.started /\ i.run # "active" /\ i.shelved
      BY <2>1, <3>1 DEF Inert
    <3>4. StartedAfter(i, ev) = FALSE
      BY <2>1, <3>2, <3>3 DEF StartedAfter, Instance
    <3>5. RunAfter(i, ev) # "active"
      BY <3>3 DEF RunAfter
    <3>6. ShelvedAfter(i, ev) = TRUE
      BY <2>1, <2>4, <2>6, <3>3 DEF ShelvedAfter, Instance
    <3> QED
      BY <3>4, <3>5, <3>6
  <2> QED
    BY <2>5, <2>6
<1> QED
  BY <1>1, <1>2

\* A transition opens archiveSettled with the archive fence and closes it when
\* the fence falls.
LEMMA TransitionChannel ==
    ASSUME NEW i, Sound(i), NEW ev \in TransitionEvent
    PROVE  Channel(Transition(i, ev))
<1>1. CASE ~Allowed(i, ev)
  BY <1>1 DEF Transition, Sound
<1>2. CASE Allowed(i, ev)
  <2>1. i \in Instance /\ Channel(i)
    BY DEF Sound
  <2>2. RowFacts(ev.kind) /\ i.op \in transitionTable[ev.kind].ops
    BY <1>2, TableRows DEF TransitionEvent, Allowed
  <2>3. SettlingAfter(i, ev) <=> TargetOp(i, ev) = "Archiving"
    BY <2>1, <2>2 DEF Channel, SettlingAfter, TargetOp, RowFacts
  <2> QED
    BY <1>2, <2>1, <2>3, TransitionFields DEF Channel
<1> QED
  BY <1>1, <1>2

\* Every event keeps a sound instance sound.
LEMMA TransitionSound ==
    ASSUME NEW i, Sound(i), NEW ev \in TransitionEvent
    PROVE  Sound(Transition(i, ev))
<1>1. i \in Instance
  BY DEF Sound
<1> QED
  BY <1>1, TransitionType, TransitionInert, TransitionChannel DEF Sound
-----------------------------------------------------------------------------
(* The events the daemon's operations fire, one by one.                    *)

\* The rows of transitionTable for the events of archive, restore and recovery.
LEMMA EventRows ==
    /\ transitionTable["BeginArchive"] =
         Plain({"None"}, Liveness \ {"Archived"}, "keep", "Archiving")
    /\ transitionTable["CancelArchive"] = Plain({"Archiving"}, Liveness, "keep", "None")
    /\ transitionTable["CommitArchive"] =
         Edge({"Archiving"}, Liveness, "Archived", "None", "clear", "ends", "keep", FALSE)
    /\ transitionTable["AbortArchiveToLost"] =
         Plain({"Archiving"}, Liveness, "Lost", "None")
    /\ transitionTable["BeginRestore"] =
         Edge({"None"}, {"Archived"}, "Lost", "Restoring", "set", "keep", "keep", FALSE)
    /\ transitionTable["BeginRestoreFenced"] =
         Edge({"Restoring"}, {"Archived"}, "Lost", "Restoring", "set", "keep", "keep", FALSE)
    /\ transitionTable["AbortRestoreToLost"] =
         Plain({"Restoring"}, {"Lost"}, "Lost", "None")
    /\ transitionTable["MarkRestoring"] = Plain({"None"}, Liveness, "keep", "Restoring")
    /\ transitionTable["ClearOp"] = Plain(InFlightOp, Liveness, "keep", "None")
    /\ transitionTable["ConfirmLive"] =
         Edge({"None", "Creating", "Restoring", "Respawning"}, Liveness, "Running", "fence",
              "keep", "keep", "keep", TRUE)
    /\ transitionTable["ObserveLiveness"] =
         Edge(InFlightOp, Liveness, "event", "keep", "keep", "idleEdge", "keep", FALSE)
  BY DEF transitionTable

\* The events built by Event and ObserveLiveness are well formed.
LEMMA EventType ==
    /\ \A k \in Kinds : Event(k) \in TransitionEvent /\ Event(k).kind = k
    /\ \A lv \in Liveness \ {"Archived"} :
           /\ ObserveLiveness(lv) \in TransitionEvent
           /\ ObserveLiveness(lv).kind = "ObserveLiveness"
           /\ ObserveLiveness(lv).lv = lv
  BY KindsList, ResetTimesAssumption
     DEF Event, ObserveLiveness, TransitionEvent, Liveness

\* No event reopens a run: a marker that is not active stays as it is.
LEMMA RunNotReopened ==
    ASSUME NEW i, Sound(i), NEW ev \in TransitionEvent
    PROVE  i.run # "active" => Transition(i, ev).run = i.run
<1>1. CASE ~Allowed(i, ev)
  BY <1>1 DEF Transition
<1>2. CASE Allowed(i, ev)
  BY <1>2, TransitionFields DEF RunAfter, Sound
<1> QED
  BY <1>1, <1>2

\* The archive fence goes up and nothing else moves.
LEMMA BeginArchiveEffect ==
    ASSUME NEW i, Sound(i), i.op = "None", i.lv # "Archived", ~i.barred,
           NEW j, j = Transition(i, Event("BeginArchive"))
    PROVE  /\ Sound(j)
           /\ j.lv = i.lv
           /\ j.op = "Archiving"
           /\ j.run = i.run
<1>1. i \in Instance /\ i.lv \in Liveness /\ i.op \in InFlightOp
  BY DEF Sound, Instance
<1>2. Event("BeginArchive") \in TransitionEvent /\ Event("BeginArchive").kind = "BeginArchive"
  BY EventType, KindsList
<1>3. Allowed(i, Event("BeginArchive"))
  BY <1>1, <1>2, EventRows DEF Allowed, Plain, Edge, Liveness, InFlightOp
<1>4. /\ j.lv = LivenessAfter(i, Event("BeginArchive"))
      /\ j.op = TargetOp(i, Event("BeginArchive"))
      /\ j.run = RunAfter(i, Event("BeginArchive"))
  BY <1>1, <1>2, <1>3, TransitionFields
<1>5. Sound(j)
  BY <1>2, TransitionSound
<1>6. j.op = "Archiving"
  BY <1>2, <1>4, EventRows DEF TargetOp, Plain, Edge
<1>7. j.lv = i.lv
  BY <1>2, <1>4, EventRows DEF LivenessAfter, TargetLiveness, AssignLiveness, Plain, Edge
<1>8. j.run = i.run
  BY <1>2, <1>4, EventRows DEF RunAfter, InterruptsRun, EndsRun, IdleObserved, Plain, Edge
<1> QED
  BY <1>5, <1>6, <1>7, <1>8

\* A refused archive lowers its fence and nothing else moves.
LEMMA CancelArchiveEffect ==
    ASSUME NEW i, Sound(i), i.op = "Archiving",
           NEW j, j = Transition(i, Event("CancelArchive"))
    PROVE  /\ Sound(j)
           /\ j.lv = i.lv
           /\ j.op = "None"
           /\ j.run = i.run
<1>1. i \in Instance /\ i.lv \in Liveness /\ i.op \in InFlightOp
  BY DEF Sound, Instance
<1>2. Event("CancelArchive") \in TransitionEvent /\ Event("CancelArchive").kind = "CancelArchive"
  BY EventType, KindsList
<1>3. Allowed(i, Event("CancelArchive"))
  BY <1>1, <1>2, EventRows DEF Allowed, Plain, Edge, Liveness, InFlightOp
<1>4. /\ j.lv = LivenessAfter(i, Event("CancelArchive"))
      /\ j.op = TargetOp(i, Event("CancelArchive"))
      /\ j.run = RunAfter(i, Event("CancelArchive"))
  BY <1>1, <1>2, <1>3, TransitionFields
<1>5. Sound(j)
  BY <1>2, TransitionSound
<1>6. j.op = "None"
  BY <1>2, <1>4, EventRows DEF TargetOp, Plain, Edge
<1>7. j.lv = i.lv
  BY <1>2, <1>4, EventRows DEF LivenessAfter, TargetLiveness, AssignLiveness, Plain, Edge
<1>8. j.run = i.run
  BY <1>2, <1>4, EventRows DEF RunAfter, InterruptsRun, EndsRun, IdleObserved, Plain, Edge
<1> QED
  BY <1>5, <1>6, <1>7, <1>8

\* A committed archive ends the run and lowers the fence.
LEMMA CommitArchiveEffect ==
    ASSUME NEW i, Sound(i), i.op = "Archiving",
           NEW j, j = Transition(i, Event("CommitArchive"))
    PROVE  /\ Sound(j)
           /\ j.lv = "Archived"
           /\ j.op = "None"
           /\ j.run # "active"
<1>1. i \in Instance /\ i.lv \in Liveness /\ i.op \in InFlightOp
  BY DEF Sound, Instance
<1>2. Event("CommitArchive") \in TransitionEvent /\ Event("CommitArchive").kind = "CommitArchive"
  BY EventType, KindsList
<1>3. Allowed(i, Event("CommitArchive"))
  BY <1>1, <1>2, EventRows DEF Allowed, Plain, Edge, Liveness, InFlightOp
<1>4. /\ j.lv = LivenessAfter(i, Event("CommitArchive"))
      /\ j.op = TargetOp(i, Event("CommitArchive"))
      /\ j.run = RunAfter(i, Event("CommitArchive"))
  BY <1>1, <1>2, <1>3, TransitionFields
<1>5. Sound(j)
  BY <1>2, TransitionSound
<1>6. j.op = "None"
  BY <1>2, <1>4, EventRows DEF TargetOp, Plain, Edge
<1>7. j.lv = "Archived"
  BY <1>2, <1>4, EventRows DEF LivenessAfter, TargetLiveness, AssignLiveness, Plain, Edge
<1>8. j.run # "active"
  BY <1>2, <1>4, EventRows DEF RunAfter, InterruptsRun, EndsRun, IdleObserved, Plain, Edge
<1> QED
  BY <1>5, <1>6, <1>7, <1>8

\* A failed archive leaves the session Lost and unfenced.
LEMMA AbortArchiveToLostEffect ==
    ASSUME NEW i, Sound(i), i.op = "Archiving",
           NEW j, j = Transition(i, Event("AbortArchiveToLost"))
    PROVE  /\ Sound(j)
           /\ j.lv = "Lost"
           /\ j.op = "None"
           /\ j.run = i.run
<1>1. i \in Instance /\ i.lv \in Liveness /\ i.op \in InFlightOp
  BY DEF Sound, Instance
<1>2. Event("AbortArchiveToLost") \in TransitionEvent /\ Event("AbortArchiveToLost").kind = "AbortArchiveToLost"
  BY EventType, KindsList
<1>3. Allowed(i, Event("AbortArchiveToLost"))
  BY <1>1, <1>2, EventRows DEF Allowed, Plain, Edge, Liveness, InFlightOp
<1>4. /\ j.lv = LivenessAfter(i, Event("AbortArchiveToLost"))
      /\ j.op = TargetOp(i, Event("AbortArchiveToLost"))
      /\ j.run = RunAfter(i, Event("AbortArchiveToLost"))
  BY <1>1, <1>2, <1>3, TransitionFields
<1>5. Sound(j)
  BY <1>2, TransitionSound
<1>6. j.op = "None"
  BY <1>2, <1>4, EventRows DEF TargetOp, Plain, Edge
<1>7. j.lv = "Lost"
  BY <1>2, <1>4, EventRows DEF LivenessAfter, TargetLiveness, AssignLiveness, Plain, Edge
<1>8. j.run = i.run
  BY <1>2, <1>4, EventRows DEF RunAfter, InterruptsRun, EndsRun, IdleObserved, Plain, Edge
<1> QED
  BY <1>5, <1>6, <1>7, <1>8

\* The restore of an archived session enters through Lost.
LEMMA BeginRestoreEffect ==
    ASSUME NEW i, Sound(i), i.op = "None", i.lv = "Archived",
           NEW j, j = Transition(i, Event("BeginRestore"))
    PROVE  /\ Sound(j)
           /\ j.lv = "Lost"
           /\ j.op = "Restoring"
           /\ j.run = i.run
<1>1. i \in Instance /\ i.lv \in Liveness /\ i.op \in InFlightOp
  BY DEF Sound, Instance
<1>2. Event("BeginRestore") \in TransitionEvent /\ Event("BeginRestore").kind = "BeginRestore"
  BY EventType, KindsList
<1>3. Allowed(i, Event("BeginRestore"))
  BY <1>1, <1>2, EventRows DEF Allowed, Plain, Edge, Liveness, InFlightOp
<1>4. /\ j.lv = LivenessAfter(i, Event("BeginRestore"))
      /\ j.op = TargetOp(i, Event("BeginRestore"))
      /\ j.run = RunAfter(i, Event("BeginRestore"))
  BY <1>1, <1>2, <1>3, TransitionFields
<1>5. Sound(j)
  BY <1>2, TransitionSound
<1>6. j.op = "Restoring"
  BY <1>2, <1>4, EventRows DEF TargetOp, Plain, Edge
<1>7. j.lv = "Lost"
  BY <1>2, <1>4, EventRows DEF LivenessAfter, TargetLiveness, AssignLiveness, Plain, Edge
<1>8. j.run = i.run
  BY <1>2, <1>4, EventRows DEF RunAfter, InterruptsRun, EndsRun, IdleObserved, Plain, Edge
<1> QED
  BY <1>5, <1>6, <1>7, <1>8

\* The same under a fence that is already up.
LEMMA BeginRestoreFencedEffect ==
    ASSUME NEW i, Sound(i), i.op = "Restoring", i.lv = "Archived",
           NEW j, j = Transition(i, Event("BeginRestoreFenced"))
    PROVE  /\ Sound(j)
           /\ j.lv = "Lost"
           /\ j.op = "Restoring"
           /\ j.run = i.run
<1>1. i \in Instance /\ i.lv \in Liveness /\ i.op \in InFlightOp
  BY DEF Sound, Instance
<1>2. Event("BeginRestoreFenced") \in TransitionEvent /\ Event("BeginRestoreFenced").kind = "BeginRestoreFenced"
  BY EventType, KindsList
<1>3. Allowed(i, Event("BeginRestoreFenced"))
  BY <1>1, <1>2, EventRows DEF Allowed, Plain, Edge, Liveness, InFlightOp
<1>4. /\ j.lv = LivenessAfter(i, Event("BeginRestoreFenced"))
      /\ j.op = TargetOp(i, Event("BeginRestoreFenced"))
      /\ j.run = RunAfter(i, Event("BeginRestoreFenced"))
  BY <1>1, <1>2, <1>3, TransitionFields
<1>5. Sound(j)
  BY <1>2, TransitionSound
<1>6. j.op = "Restoring"
  BY <1>2, <1>4, EventRows DEF TargetOp, Plain, Edge
<1>7. j.lv = "Lost"
  BY <1>2, <1>4, EventRows DEF LivenessAfter, TargetLiveness, AssignLiveness, Plain, Edge
<1>8. j.run = i.run
  BY <1>2, <1>4, EventRows DEF RunAfter, InterruptsRun, EndsRun, IdleObserved, Plain, Edge
<1> QED
  BY <1>5, <1>6, <1>7, <1>8

\* A failed restore lowers the fence of a Lost session.
LEMMA AbortRestoreToLostEffect ==
    ASSUME NEW i, Sound(i), i.op = "Restoring", i.lv = "Lost",
           NEW j, j = Transition(i, Event("AbortRestoreToLost"))
    PROVE  /\ Sound(j)
           /\ j.lv = "Lost"
           /\ j.op = "None"
           /\ j.run = i.run
<1>1. i \in Instance /\ i.lv \in Liveness /\ i.op \in InFlightOp
  BY DEF Sound, Instance
<1>2. Event("AbortRestoreToLost") \in TransitionEvent /\ Event("AbortRestoreToLost").kind = "AbortRestoreToLost"
  BY EventType, KindsList
<1>3. Allowed(i, Event("AbortRestoreToLost"))
  BY <1>1, <1>2, EventRows DEF Allowed, Plain, Edge, Liveness, InFlightOp
<1>4. /\ j.lv = LivenessAfter(i, Event("AbortRestoreToLost"))
      /\ j.op = TargetOp(i, Event("AbortRestoreToLost"))
      /\ j.run = RunAfter(i, Event("AbortRestoreToLost"))
  BY <1>1, <1>2, <1>3, TransitionFields
<1>5. Sound(j)
  BY <1>2, TransitionSound
<1>6. j.op = "None"
  BY <1>2, <1>4, EventRows DEF TargetOp, Plain, Edge
<1>7. j.lv = "Lost"
  BY <1>2, <1>4, EventRows DEF LivenessAfter, TargetLiveness, AssignLiveness, Plain, Edge
<1>8. j.run = i.run
  BY <1>2, <1>4, EventRows DEF RunAfter, InterruptsRun, EndsRun, IdleObserved, Plain, Edge
<1> QED
  BY <1>5, <1>6, <1>7, <1>8

\* The restore fence goes up and nothing else moves.
LEMMA MarkRestoringEffect ==
    ASSUME NEW i, Sound(i), i.op = "None",
           NEW j, j = Transition(i, Event("MarkRestoring"))
    PROVE  /\ Sound(j)
           /\ j.lv = i.lv
           /\ j.op = "Restoring"
           /\ j.run = i.run
<1>1. i \in Instance /\ i.lv \in Liveness /\ i.op \in InFlightOp
  BY DEF Sound, Instance
<1>2. Event("MarkRestoring") \in TransitionEvent /\ Event("MarkRestoring").kind = "MarkRestoring"
  BY EventType, KindsList
<1>3. Allowed(i, Event("MarkRestoring"))
  BY <1>1, <1>2, EventRows DEF Allowed, Plain, Edge, Liveness, InFlightOp
<1>4. /\ j.lv = LivenessAfter(i, Event("MarkRestoring"))
      /\ j.op = TargetOp(i, Event("MarkRestoring"))
      /\ j.run = RunAfter(i, Event("MarkRestoring"))
  BY <1>1, <1>2, <1>3, TransitionFields
<1>5. Sound(j)
  BY <1>2, TransitionSound
<1>6. j.op = "Restoring"
  BY <1>2, <1>4, EventRows DEF TargetOp, Plain, Edge
<1>7. j.lv = i.lv
  BY <1>2, <1>4, EventRows DEF LivenessAfter, TargetLiveness, AssignLiveness, Plain, Edge
<1>8. j.run = i.run
  BY <1>2, <1>4, EventRows DEF RunAfter, InterruptsRun, EndsRun, IdleObserved, Plain, Edge
<1> QED
  BY <1>5, <1>6, <1>7, <1>8

\* The fence falls and nothing else moves.
LEMMA ClearOpEffect ==
    ASSUME NEW i, Sound(i), TRUE,
           NEW j, j = Transition(i, Event("ClearOp"))
    PROVE  /\ Sound(j)
           /\ j.lv = i.lv
           /\ j.op = "None"
           /\ j.run = i.run
<1>1. i \in Instance /\ i.lv \in Liveness /\ i.op \in InFlightOp
  BY DEF Sound, Instance
<1>2. Event("ClearOp") \in TransitionEvent /\ Event("ClearOp").kind = "ClearOp"
  BY EventType, KindsList
<1>3. Allowed(i, Event("ClearOp"))
  BY <1>1, <1>2, EventRows DEF Allowed, Plain, Edge, Liveness, InFlightOp
<1>4. /\ j.lv = LivenessAfter(i, Event("ClearOp"))
      /\ j.op = TargetOp(i, Event("ClearOp"))
      /\ j.run = RunAfter(i, Event("ClearOp"))
  BY <1>1, <1>2, <1>3, TransitionFields
<1>5. Sound(j)
  BY <1>2, TransitionSound
<1>6. j.op = "None"
  BY <1>2, <1>4, EventRows DEF TargetOp, Plain, Edge
<1>7. j.lv = i.lv
  BY <1>2, <1>4, EventRows DEF LivenessAfter, TargetLiveness, AssignLiveness, Plain, Edge
<1>8. j.run = i.run
  BY <1>2, <1>4, EventRows DEF RunAfter, InterruptsRun, EndsRun, IdleObserved, Plain, Edge
<1> QED
  BY <1>5, <1>6, <1>7, <1>8

\* clearOpIfHeld lowers the fence it is asked about and no other.
LEMMA ClearOpIfHeldEffect ==
    ASSUME NEW i, Sound(i), NEW held, NEW j, j = ClearOpIfHeld(i, held)
    PROVE  /\ Sound(j)
           /\ j.lv = i.lv
           /\ j.op = IF i.op = held THEN "None" ELSE i.op
           /\ j.run = i.run
  BY ClearOpEffect DEF ClearOpIfHeld

\* A respawned agent is confirmed live: the restore fence falls, the liveness leaves
\* Archived and a run can only be interrupted.
LEMMA ConfirmLiveEffect ==
    ASSUME NEW i, Sound(i), i.op \in {"None", "Restoring"},
           NEW j, j = Transition(i, Event("ConfirmLive"))
    PROVE  /\ Sound(j)
           /\ j.lv \in {"Running", "Lost"}
           /\ j.op = "None"
           /\ j.run \in {i.run, "interrupted"}
           /\ i.run # "active" => j.run = i.run
<1>1. i \in Instance /\ i.lv \in Liveness /\ i.op \in InFlightOp
  BY DEF Sound, Instance
<1>2. Event("ConfirmLive") \in TransitionEvent /\ Event("ConfirmLive").kind = "ConfirmLive"
  BY EventType, KindsList
<1>3. Allowed(i, Event("ConfirmLive"))
  BY <1>1, <1>2, EventRows DEF Allowed, Edge
<1>4. /\ j.lv = LivenessAfter(i, Event("ConfirmLive"))
      /\ j.op = TargetOp(i, Event("ConfirmLive"))
      /\ j.run = RunAfter(i, Event("ConfirmLive"))
  BY <1>1, <1>2, <1>3, TransitionFields
<1>5. Sound(j) /\ (i.run # "active" => j.run = i.run)
  BY <1>2, TransitionSound, RunNotReopened
<1>6. j.op = "None"
  BY <1>2, <1>4, EventRows DEF TargetOp, Edge
<1>7. j.lv \in {"Running", "Lost"}
  BY <1>2, <1>4, EventRows DEF LivenessAfter, TargetLiveness, AssignLiveness, Edge
<1>8. j.run \in {i.run, "interrupted"}
  BY <1>2, <1>4, EventRows DEF RunAfter, InterruptsRun, EndsRun, IdleObserved, Edge
<1> QED
  BY <1>5, <1>6, <1>7, <1>8

\* An observation leaves the operation axis alone and settles the liveness it
\* claims, or Lost.
LEMMA ObserveLivenessEffect ==
    ASSUME NEW i, Sound(i), NEW lv \in Liveness \ {"Archived"},
           NEW j, j = Transition(i, ObserveLiveness(lv))
    PROVE  /\ Sound(j)
           /\ j.lv \in {lv, "Lost"}
           /\ j.op = i.op
           /\ j.run \in {i.run, "ended"}
           /\ i.run # "active" => j.run = i.run
<1>1. i \in Instance /\ i.lv \in Liveness /\ i.op \in InFlightOp
  BY DEF Sound, Instance
<1>2. /\ ObserveLiveness(lv) \in TransitionEvent
      /\ ObserveLiveness(lv).kind = "ObserveLiveness" /\ ObserveLiveness(lv).lv = lv
  BY EventType
<1>3. Allowed(i, ObserveLiveness(lv))
  BY <1>1, <1>2, EventRows DEF Allowed, Edge
<1>4. /\ j.lv = LivenessAfter(i, ObserveLiveness(lv))
      /\ j.op = TargetOp(i, ObserveLiveness(lv))
      /\ j.run = RunAfter(i, ObserveLiveness(lv))
  BY <1>1, <1>2, <1>3, TransitionFields
<1>5. Sound(j) /\ (i.run # "active" => j.run = i.run)
  BY <1>2, TransitionSound, RunNotReopened
<1>6. j.op = i.op
  BY <1>2, <1>4, EventRows DEF TargetOp, Edge
<1>7. j.lv \in {lv, "Lost"}
  BY <1>2, <1>4, EventRows
     DEF LivenessAfter, TargetLiveness, AssignLiveness, Claimed, Edge
<1>8. j.run \in {i.run, "ended"}
  BY <1>2, <1>4, EventRows DEF RunAfter, InterruptsRun, EndsRun, IdleObserved, Edge
<1> QED
  BY <1>5, <1>6, <1>7, <1>8

\* Reopening an interrupted run touches neither axis, and keeps the instance sound
\* unless it is archived.
LEMMA ResumeEffect ==
    ASSUME NEW i, Sound(i), i.lv # "Archived",
           NEW j, j = ResumeInterruptedTaskRun(i)
    PROVE  /\ Sound(j)
           /\ j.lv = i.lv
           /\ j.op = i.op
           /\ IF i.run = "interrupted" THEN j.run = "active" ELSE j = i
  BY DEF ResumeInterruptedTaskRun, Sound, Inert, Channel, Instance, RunMarker
==============================================================================
