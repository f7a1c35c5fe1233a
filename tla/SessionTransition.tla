------------------------- MODULE SessionTransition -------------------------
(***************************************************************************)
(* The lifecycle transition chokepoint of a session: the allowed-edge      *)
(* table of session/transition.go and the function that applies one event  *)
(* to an in-memory instance.  Only definitions: SessionChokepoint drives   *)
(* them with events in every order, SessionLifecycle with the daemon's     *)
(* own operations.                                                         *)
(***************************************************************************)
EXTENDS Naturals

\* The daemon-owned health axis.  LivenessUnset never survives a load
\* (livenessFromData), so it is not a state of an instance.
Liveness == {"Running", "Ready", "Lost", "Dead", "Archived", "LimitReached"}

\* The operation axis: which operation, if any, fences the instance.
InFlightOp == {"None", "Creating", "Killing", "Archiving", "Restoring",
               "Replacing", "Respawning"}

\* taskRunActive, with the reason it ended: the marker the watch-task
\* concurrency cap counts.
RunMarker == {"active", "ended", "interrupted"}

\* limitResetAt: 0 is the zero time, the other values are reset times.
CONSTANT ResetTimes
ASSUME ResetTimesAssumption == ResetTimes \subseteq Nat /\ 0 \in ResetTimes

(***************************************************************************)
(* The part of an Instance that Transition reads or writes.  held merges   *)
(* taskRunIdleEdgeHeld and taskRunTurnGateHeld, which are set by different *)
(* gates but released by the same test.  owes, awaiting, replaced,         *)
(* teardown and barred belong to other components; Transition only reads   *)
(* them.                                                                   *)
(***************************************************************************)
Instance == [lv       : Liveness,
             op       : InFlightOp,
             started  : BOOLEAN,
             run      : RunMarker,
             held     : BOOLEAN,      \* an idle edge was seen and held back
             owes     : BOOLEAN,      \* a hand-off mission is still undelivered
             awaiting : BOOLEAN,      \* the run's prompt shows no turn yet
             replaced : BOOLEAN,      \* agentRuntimeReplaced
             teardown : BOOLEAN,      \* rebuildTeardownPending
             barred   : BOOLEAN,      \* archiveCheckpointSealed or pendingAccountSwap
             reset    : ResetTimes,   \* limitResetAt
             shelved  : BOOLEAN,      \* archivedAt is set
             settling : BOOLEAN,      \* archiveSettled channel is open
             pushed   : BOOLEAN]      \* archivePushCompleted

-----------------------------------------------------------------------------
(***************************************************************************)
(* One row of the table.  ops and lvs are the states the event is legal    *)
(* from; lv and op the target ("keep" leaves the axis, "event" takes the   *)
(* event's liveness, "fence" leaves a Respawning fence up and lowers any   *)
(* other); started, run and reset the side effects; yields says whether a  *)
(* blocked event is a silent no-op instead of an error.                    *)
(***************************************************************************)
Edge(ops, lvs, lv, op, started, run, reset, yields) ==
    [ops |-> ops, lvs |-> lvs, lv |-> lv, op |-> op, started |-> started,
     run |-> run, reset |-> reset, yields |-> yields]

\* A row with no side effect besides the two axes.
Plain(ops, lvs, lv, op) == Edge(ops, lvs, lv, op, "keep", "keep", "keep", FALSE)

transitionTable ==
    [BeginRespawn       |-> Plain({"None"}, Liveness, "keep", "Respawning"),
     BeginCreate        |-> Plain({"None"}, Liveness, "keep", "Creating"),
     ConfirmLive        |-> Edge({"None", "Creating", "Restoring", "Respawning"},
                                 Liveness, "Running", "fence",
                                 "keep", "keep", "keep", TRUE),
     ObserveLiveness    |-> Edge(InFlightOp, Liveness, "event", "keep",
                                 "keep", "idleEdge", "keep", FALSE),
     BeginKill          |-> Plain(InFlightOp, Liveness, "keep", "Killing"),
     RevertKill         |-> Plain({"Killing"}, Liveness, "keep", "None"),
     BeginArchive       |-> Plain({"None"}, Liveness \ {"Archived"}, "keep",
                                  "Archiving"),
     CancelArchive      |-> Plain({"Archiving"}, Liveness, "keep", "None"),
     CommitArchive      |-> Edge({"Archiving"}, Liveness, "Archived", "None",
                                 "clear", "ends", "keep", FALSE),
     AbortArchiveToLost |-> Plain({"Archiving"}, Liveness, "Lost", "None"),
     BeginRestore       |-> Edge({"None"}, {"Archived"}, "Lost", "Restoring",
                                 "set", "keep", "keep", FALSE),
     BeginRestoreFenced |-> Edge({"Restoring"}, {"Archived"}, "Lost", "Restoring",
                                 "set", "keep", "keep", FALSE),
     AbortRestoreToLost |-> Plain({"Restoring"}, {"Lost"}, "Lost", "None"),
     MarkRestoring      |-> Plain({"None"}, Liveness, "keep", "Restoring"),
     BeginHandoff       |-> Plain({"None"}, {"Running", "Ready", "LimitReached"},
                                  "keep", "Replacing"),
     CommitHandoff      |-> Edge({"Replacing"}, Liveness, "Running", "None",
                                 "keep", "keep", "clear", FALSE),
     ParkHandoff        |-> Edge({"Replacing"}, Liveness, "LimitReached", "None",
                                 "keep", "keep", "event", FALSE),
     AbortHandoff       |-> Edge({"Replacing"}, Liveness, "keep", "None",
                                 "keep", "keep", "keep", TRUE),
     ClearOp            |-> Plain(InFlightOp, Liveness, "keep", "None")]

Kinds == DOMAIN transitionTable

\* A TransitionEvent.  lv matters only for ObserveLiveness, reset only for
\* ParkHandoff; epoch scoping is the caller's (see AtEpoch in the users).
Event(kind) == [kind |-> kind, lv |-> "Lost", reset |-> 0]
ObserveLiveness(lv) == [Event("ObserveLiveness") EXCEPT !.lv = lv]
ParkHandoff(reset) == [Event("ParkHandoff") EXCEPT !.reset = reset]

-----------------------------------------------------------------------------
\* allowedFrom, together with the two refusals BeginArchive meets before it.
Allowed(i, ev) ==
    /\ i.op \in transitionTable[ev.kind].ops
    /\ i.lv \in transitionTable[ev.kind].lvs
    /\ ev.kind = "BeginArchive" => ~i.barred

\* Whether Transition returns an error to its caller.
Rejected(i, ev) == ~Allowed(i, ev) /\ ~transitionTable[ev.kind].yields

\* The liveness an observation claims: while a rebuilt worktree still owes the
\* teardown of its stale pane, every answer is held as Lost.
Claimed(i, ev) ==
    IF ev.kind = "ObserveLiveness" /\ i.teardown THEN "Lost" ELSE ev.lv

TargetLiveness(i, ev) ==
    LET t == transitionTable[ev.kind].lv
    IN  CASE t = "keep"  -> i.lv
          [] t = "event" -> Claimed(i, ev)
          [] OTHER       -> t

\* Mutant: "keep" is taken for a target.
TargetOpUnresolved(i, ev) ==
    LET t == transitionTable[ev.kind].op
    IN  IF t = "fence" THEN "None" ELSE t

TargetOp(i, ev) ==
    LET t == transitionTable[ev.kind].op
    IN  CASE t = "keep"  -> i.op
          [] t = "fence" -> IF i.op = "Respawning" THEN i.op ELSE "None"
          [] OTHER       -> t

\* assignLivenessLocked: the same hold, for every other writer.
AssignLiveness(i, lv) ==
    IF i.teardown /\ lv \notin {"Lost", "Archived"} THEN "Lost" ELSE lv

\* Only an edge that moves the liveness goes through the hold.
LivenessAfter(i, ev) ==
    LET to == TargetLiveness(i, ev)
    IN  IF to = i.lv THEN i.lv ELSE AssignLiveness(i, to)

\* The effect on the task-run marker of an instance whose run is active.
InterruptsRun(i, ev) ==
    ev.kind = "ConfirmLive" /\ i.op = "Restoring" /\ i.replaced

IdleObserved(i, ev) ==
    transitionTable[ev.kind].run = "idleEdge" /\ TargetLiveness(i, ev) = "Ready"

HoldsIdleEdge(i, ev) == IdleObserved(i, ev) /\ (i.owes \/ i.awaiting)

EndsRun(i, ev) ==
    \/ transitionTable[ev.kind].run = "ends"
    \/ /\ IdleObserved(i, ev)
       /\ ~i.owes /\ ~i.awaiting
       /\ i.lv # "Ready" \/ i.held

RunAfter(i, ev) ==
    IF i.run # "active"          THEN i.run
    ELSE IF InterruptsRun(i, ev) THEN "interrupted"
    ELSE IF EndsRun(i, ev)       THEN "ended"
    ELSE "active"

\* A held edge is released by the end of the run.
HeldAfter(i, ev) ==
    IF i.run # "active" THEN i.held
    ELSE \/ HoldsIdleEdge(i, ev)
         \/ i.held /\ ~InterruptsRun(i, ev) /\ ~EndsRun(i, ev)

ResetAfter(i, ev) ==
    LET e == transitionTable[ev.kind].reset
    IN  CASE e = "clear" -> 0
          [] e = "event" -> ev.reset
          [] OTHER       -> i.reset

\* Mutant: an archive leaves the session started.
StartedForGood(i, ev) == i.started \/ transitionTable[ev.kind].started = "set"

StartedAfter(i, ev) ==
    LET e == transitionTable[ev.kind].started
    IN  CASE e = "set"   -> TRUE
          [] e = "clear" -> FALSE
          [] OTHER       -> i.started

ShelvedAfter(i, ev) ==
    CASE ev.kind = "CommitArchive" -> TRUE
      [] i.lv = "Archived" /\ TargetLiveness(i, ev) # "Archived" -> FALSE
      [] OTHER -> i.shelved

\* Mutant: only a committed archive closes the channel.
SettlingUntilCommit(i, ev) ==
    CASE ev.kind = "BeginArchive"  -> TRUE
      [] ev.kind = "CommitArchive" -> FALSE
      [] OTHER -> i.settling

SettlingAfter(i, ev) ==
    CASE ev.kind = "BeginArchive" -> TRUE
      [] i.op = "Archiving" /\ TargetOp(i, ev) # "Archiving" -> FALSE
      [] OTHER -> i.settling

ArchiveEdges ==
    {"BeginArchive", "CancelArchive", "CommitArchive", "AbortArchiveToLost"}

PushedAfter(i, ev) == i.pushed /\ ev.kind \notin ArchiveEdges

\* transitionLocked: the instance after the event.  A rejected or yielding
\* event leaves it untouched.
Transition(i, ev) ==
    IF ~Allowed(i, ev)
    THEN i
    ELSE [i EXCEPT !.lv       = LivenessAfter(i, ev),
                   !.op       = TargetOp(i, ev),
                   !.started  = StartedAfter(i, ev),
                   !.run      = RunAfter(i, ev),
                   !.held     = HeldAfter(i, ev),
                   !.reset    = ResetAfter(i, ev),
                   !.shelved  = ShelvedAfter(i, ev),
                   !.settling = SettlingAfter(i, ev),
                   !.pushed   = PushedAfter(i, ev)]

-----------------------------------------------------------------------------
(* Writers of the axes that do not go through the table.                   *)

\* clearOpIfHeld: a fence owner lowers its own fence and no other.
ClearOpIfHeld(i, held) ==
    IF i.op = held THEN Transition(i, Event("ClearOp")) ELSE i

\* setLimitReachedLocked: parks an unfenced instance at the usage limit.
SetLimitReached(i, reset) ==
    IF i.op # "None"
    THEN i
    ELSE [i EXCEPT !.lv = AssignLiveness(i, "LimitReached"), !.reset = reset]

\* SetLimitReachedAtEpoch, once the epoch has been compared: a second look at the
\* wall the instance is parked on is not a new one.
ObserveLimit(i, reset) ==
    IF i.lv = "LimitReached" /\ i.reset = reset THEN i ELSE SetLimitReached(i, reset)

\* ReparkLimitUnderResumeFence: legal only under the resume's own fence.
ReparkLimitUnderResumeFence(i, reset) ==
    IF i.op # "Respawning"
    THEN i
    ELSE [i EXCEPT !.lv = "LimitReached", !.reset = reset]

\* RestoreLivenessUnderResumeFence: a failed attempt puts back what it found.
RestoreLivenessUnderResumeFence(i, lv) ==
    IF i.op # "Respawning" THEN i ELSE [i EXCEPT !.lv = lv]

\* ClearLimitReached: the resume delivered its prompt.
ClearLimitReached(i) ==
    IF i.lv # "LimitReached"
    THEN i
    ELSE [i EXCEPT !.lv = AssignLiveness(i, "Running"), !.reset = 0]

\* ResumeInterruptedTaskRunAtEpoch: the agent was seen in a turn after the restore
\* that interrupted its run.  The held edge lets any later idle observation end it.
ResumeInterruptedTaskRun(i) ==
    IF i.run # "interrupted"
    THEN i
    ELSE [i EXCEPT !.run = "active", !.held = TRUE, !.awaiting = FALSE]

\* Mutant: raising a fence does not move the epoch.
EpochIgnoresOp(i, j) == i.lv # j.lv \/ i.reset # j.reset

\* noteStateChangeLocked: the state epoch moves exactly when one of these does.
EpochMoves(i, j) == i.lv # j.lv \/ i.op # j.op \/ i.reset # j.reset
=============================================================================
