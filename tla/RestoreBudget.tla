---------------------------- MODULE RestoreBudget ----------------------------
(***************************************************************************)
(* How often a Lost session is brought back by itself                      *)
(* (daemon/lostrestore*.go, and the manual restore of daemon/restore.go).  *)
(*                                                                         *)
(* Two goroutines share the retry state of one session.  The poll observes *)
(* the runtime, retires the state of a session that came back (the sweep   *)
(* of RestoreLostSessions) and tries a restore (restoreLostSession); the   *)
(* restore RPC of an operator tries one too, under the operation lock and  *)
(* a fence.  The retry state is lost with the daemon; the two facts of the *)
(* row, the give-up verdict and the environmental wait, are persisted.     *)
(*                                                                         *)
(* Only a comparison with a limit is ever made of a counter, so counters   *)
(* stop at their limit; a back-off is either running or over; the number   *)
(* shown to the user (totalAttempts) and the streak that only lengthens    *)
(* the environmental back-off are left out.                                *)
(***************************************************************************)
EXTENDS Naturals

CONSTANTS
    MaxAttempts,          \* lostRestoreMaxAttempts
    ConfirmObservations,  \* lostRestoreConfirmObservations
    FlapMaxRestores       \* lostRestoreFlapMaxRestores

ASSUME BudgetAssumption ==
    {MaxAttempts, ConfirmObservations, FlapMaxRestores} \subseteq Nat \ {0}

VARIABLES
    remote,   \* the session runs in a sandbox (fixed)
    up,       \* its agent runs
    lost,     \* the row says Lost
    st,       \* lostRestoreStates
    orphan,   \* the state the poll still holds after the RPC removed it
    confs,    \* lostRestoreConfirmations inside the flap window
    facts,    \* of the row: terminal failure and environmental wait
    disk,     \* the persisted facts
    owed,     \* a settlement whose write failed
    poll, rpc, force,    \* where each goroutine is; --force-reap
    spawns, voided        \* history, see below

row   == <<facts, disk, owed>>
hist  == <<spawns, voided>>
vars  == <<remote, up, lost, st, orphan, confs, row, poll, rpc, force, hist>>

States == [on : BOOLEAN, cons : 0..MaxAttempts, dead : 0..MaxAttempts,
           pres : 0..MaxAttempts, backoff : BOOLEAN, await : BOOLEAN,
           flap : BOOLEAN, seen : 0..ConfirmObservations]
Fresh   == [on |-> TRUE, cons |-> 0, dead |-> 0, pres |-> 0, backoff |-> FALSE,
            await |-> FALSE, flap |-> FALSE, seen |-> 0]
NoState == [Fresh EXCEPT !.on = FALSE]
entry   == IF st.on THEN st ELSE Fresh

Facts   == [gaveUp : BOOLEAN, wait : BOOLEAN]
NoFacts == [gaveUp |-> FALSE, wait |-> FALSE]

\* What earns a failed attempt a wait: nothing, a resource limit, no answer.
Classes == {"none", "errno", "deadline"}

upTo(n, limit) == IF n > limit THEN limit ELSE n

TypeOK ==
    /\ {remote, up, lost, owed, force, voided} \subseteq BOOLEAN
    /\ st \in States /\ orphan \in States
    /\ (~st.on => st = NoState)
    /\ confs \in 0..(FlapMaxRestores + 1)
    /\ facts \in Facts /\ disk \in Facts
    /\ poll \in {"observe", "sweep", "enter", "died", "lock", "probe", "respawn"}
    /\ rpc \in {"idle", "probe", "recover", "book"}
    /\ spawns \in 0..(MaxAttempts + 1)

Init ==
    /\ remote \in BOOLEAN /\ up = TRUE /\ lost = FALSE
    /\ st = NoState /\ orphan = NoState /\ confs = 0
    /\ facts = NoFacts /\ disk = NoFacts /\ owed = FALSE
    /\ poll = "observe" /\ rpc = "idle" /\ force = FALSE
    /\ spawns = 0 /\ voided = FALSE

\* The restore fence of the RPC; GetStatus composes it to Lost.
fenced == rpc \in {"probe", "recover"}

(***************************************************************************)
(* Writing the row.  d is what is on disk before: a failed Recover writes  *)
(* the row once, best effort, ahead of its accounting.  A settlement whose *)
(* write fails is owed and written again by the poll; a failed checkpoint  *)
(* is not.                                                                 *)
(***************************************************************************)
settle(f, d) ==
    /\ facts' = f
    /\ \/ disk' = f /\ owed' = FALSE
       \/ disk' = d /\ owed' = TRUE

checkpoint(f, d) == facts' = f /\ disk' \in {d, f} /\ UNCHANGED owed

nothing(d) == disk' = d /\ UNCHANGED <<facts, owed>>

waitOver(d) ==
    IF facts.wait THEN checkpoint([facts EXCEPT !.wait = FALSE], d) ELSE nothing(d)

persistSettlement(f)        == settle(f, disk)
clearLostRestoreWaitDurable == waitOver(disk)

\* prepareRuntimeReplacement and noteRuntimeReplaced.
runtimeReplaced == persistSettlement(NoFacts)

FlushOwed ==
    /\ owed /\ poll = "observe"
    /\ disk' = facts /\ owed' = FALSE
    /\ UNCHANGED <<remote, up, lost, st, orphan, confs, facts, poll, rpc, force,
                   hist>>

(***************************************************************************)
(* The accounting of one failed attempt.                                   *)
(***************************************************************************)
\* Mutant: no answer is waited for without end.
absorbedUnbounded(s, class) == class # "none"

absorbed(s, class) ==
    class = "errno" \/ (class = "deadline" /\ s.dead < MaxAttempts)

armEnvironmentalRetry(s, class) ==
    [s EXCEPT !.backoff = TRUE, !.dead = IF class = "deadline" THEN @ + 1 ELSE @]

\* An environmental failure of a session that already gave up books nothing.
refused(class) == class # "none" /\ facts.gaveUp

terminal(s) == s.cons + 1 >= MaxAttempts
structural(s) ==
    [s EXCEPT !.cons = upTo(@ + 1, MaxAttempts), !.backoff = ~terminal(s)]

\* lostRestoreFailed: what becomes of the state ...
charged(s, class) ==
    IF refused(class) THEN s
    ELSE IF absorbed(s, class) THEN armEnvironmentalRetry(s, class)
    ELSE structural(s)

\* Mutant: a verdict whose write fails is not tried again.
reportedUnsettled(s, class, d) ==
    IF refused(class) THEN nothing(d)
    ELSE IF absorbed(s, class) THEN checkpoint([facts EXCEPT !.wait = TRUE], d)
    ELSE IF terminal(s) THEN checkpoint([gaveUp |-> TRUE, wait |-> FALSE], d)
    ELSE waitOver(d)

\* Mutant: the verdict does not end the wait.
reportedBoth(s, class, d) ==
    IF refused(class) THEN nothing(d)
    ELSE IF absorbed(s, class) THEN checkpoint([facts EXCEPT !.wait = TRUE], d)
    ELSE IF terminal(s) THEN settle([facts EXCEPT !.gaveUp = TRUE], d)
    ELSE waitOver(d)

\* ... and of the row.
reported(s, class, d) ==
    IF refused(class) THEN nothing(d)
    ELSE IF absorbed(s, class) THEN checkpoint([facts EXCEPT !.wait = TRUE], d)
    ELSE IF terminal(s) THEN settle([gaveUp |-> TRUE, wait |-> FALSE], d)
    ELSE waitOver(d)

\* recordLostRestoreFailure, after the best-effort write of the row: without a
\* state the verdict on the row is the count.
seeded == IF ~st.on /\ facts.gaveUp THEN [Fresh EXCEPT !.cons = MaxAttempts]
          ELSE entry

recordLostRestoreFailure(s, class) ==
    /\ st' = charged(s, class)
    /\ \E d \in {disk, facts} : reported(s, class, d)

\* noteLostRestoreConfirmationLocked.
noted == upTo(confs + 1, FlapMaxRestores + 1)

lostRestoreFlapGiveUp ==
    /\ confs >= FlapMaxRestores
    /\ persistSettlement([gaveUp |-> TRUE, wait |-> FALSE]) /\ st' = NoState

\* armRestoreConfirmation.
armed(s, automatic) ==
    [s EXCEPT !.await = TRUE, !.seen = 0, !.flap = automatic]

(***************************************************************************)
(* The poll: observe, sweep, try a restore.                                *)
(***************************************************************************)
observedOnce ==
    IF st.await THEN [st EXCEPT !.seen = upTo(@ + 1, ConfirmObservations)] ELSE st

\* A runtime that answers; a first capture leaves the liveness for the next tick.
\* Once it is out of Lost the old verdict is stale.
ObserveAlive ==
    /\ poll = "observe" /\ ~fenced /\ up
    /\ lost' \in {lost, FALSE} /\ st' = observedOnce
    /\ IF ~lost' /\ facts # NoFacts THEN persistSettlement(NoFacts)
       ELSE UNCHANGED row
    /\ poll' = "sweep"
    /\ spawns' = IF lost /\ ~lost' /\ ~st.await THEN 0 ELSE spawns
    /\ voided' = (voided /\ facts'.gaveUp)
    /\ UNCHANGED <<remote, up, orphan, confs, rpc, force>>

\* Asked, and gone.
ObserveGone ==
    /\ poll = "observe" /\ ~fenced /\ ~up
    /\ lost' = TRUE /\ poll' = "sweep"
    /\ IF lost THEN UNCHANGED row ELSE checkpoint(facts, disk)
    /\ UNCHANGED <<remote, up, st, orphan, confs, rpc, force, hist>>

\* Fenced, or a sandbox that did not answer: nothing is learnt.
ObserveNothing ==
    /\ poll = "observe" /\ (fenced \/ remote)
    /\ poll' = "sweep"
    /\ UNCHANGED <<remote, up, lost, st, orphan, confs, row, rpc, force, hist>>

confirmed(s) == s.await /\ s.seen >= ConfirmObservations

\* Mutant: a row that is no longer Lost is a session that came back.
SweepHasty ==
    /\ poll = "sweep" /\ poll' = "enter"
    /\ IF st.on /\ ~lost /\ ~fenced
       THEN /\ st' = NoState
            /\ confs' = IF confirmed(st) /\ st.flap THEN noted ELSE confs
            /\ spawns' = IF confirmed(st) THEN 0 ELSE spawns
            /\ clearLostRestoreWaitDurable
       ELSE UNCHANGED <<st, confs, spawns, row>>
    /\ UNCHANGED <<remote, up, lost, orphan, rpc, force, voided>>

\* Mutant: a confirmed restore leaves no trace in the flap window.
SweepUnnoted ==
    /\ poll = "sweep" /\ poll' = "enter"
    /\ IF st.on /\ ~lost /\ ~fenced /\ (st.await => confirmed(st))
       THEN /\ st' = NoState
            /\ spawns' = IF st.await THEN 0 ELSE spawns
            /\ clearLostRestoreWaitDurable
       ELSE UNCHANGED <<st, spawns, row>>
    /\ UNCHANGED <<remote, up, lost, orphan, confs, rpc, force, voided>>

\* RestoreLostSessions: the state of a session that is back is retired, but not
\* while a respawn waits for its observations.
Sweep ==
    /\ poll = "sweep" /\ poll' = "enter"
    /\ IF st.on /\ ~lost /\ ~fenced /\ (st.await => confirmed(st))
       THEN /\ st' = NoState
            /\ confs' = IF st.await /\ st.flap THEN noted ELSE confs
            /\ spawns' = IF st.await THEN 0 ELSE spawns
            /\ clearLostRestoreWaitDurable
       ELSE UNCHANGED <<st, confs, spawns, row>>
    /\ UNCHANGED <<remote, up, lost, orphan, rpc, force, voided>>

wantsRestore == lost /\ ~facts.gaveUp /\ rpc = "idle"

\* restoreLostSession up to the operation lock.  A respawn that was confirmed and
\* died since opens a new episode; one that died before has failed.
Enter ==
    LET s == IF confirmed(entry) THEN Fresh ELSE entry
    IN  /\ poll = "enter" /\ wantsRestore
        /\ st' = [s EXCEPT !.await = FALSE, !.seen = 0]
        /\ confs' = IF confirmed(entry) /\ entry.flap THEN noted ELSE confs
        /\ spawns' = IF confirmed(entry) THEN 0 ELSE spawns
        /\ IF confirmed(entry) THEN clearLostRestoreWaitDurable ELSE UNCHANGED row
        /\ poll' = IF s.await THEN "died" ELSE IF s.backoff THEN "observe" ELSE "lock"
        /\ UNCHANGED <<remote, up, lost, orphan, rpc, force, voided>>

EnterNot ==
    /\ poll = "enter" /\ ~wantsRestore
    /\ poll' = "observe"
    /\ UNCHANGED <<remote, up, lost, st, orphan, confs, row, rpc, force, hist>>

\* lostRestoreFailed for that death, with neither lock held in between.
Died ==
    /\ poll = "died" /\ poll' = "observe"
    /\ IF orphan.on THEN reported(orphan, "none", disk) /\ UNCHANGED st
       ELSE st' = charged(entry, "none") /\ reported(entry, "none", disk)
    /\ orphan' = NoState
    /\ UNCHANGED <<remote, up, lost, confs, rpc, force, hist>>

\* The operation lock is only tried, and Lost is checked again under it.
TryLock ==
    /\ poll = "lock"
    /\ poll' = IF rpc = "idle" /\ lost THEN "probe" ELSE "observe"
    /\ UNCHANGED <<remote, up, lost, st, orphan, confs, row, rpc, force, hist>>

\* tryLocalWorktreeAdmission: another repository operation holds it.
Contended ==
    /\ poll = "lock" /\ ~remote /\ poll' = "observe"
    /\ UNCHANGED <<remote, up, lost, st, orphan, confs, row, rpc, force, hist>>

(***************************************************************************)
(* The attempt of the poll, under the operation lock.                      *)
(***************************************************************************)
ProbeAlive ==
    /\ poll = "probe" /\ remote /\ up
    /\ lost' = FALSE /\ persistSettlement(NoFacts) /\ st' = NoState
    /\ poll' = "observe" /\ spawns' = 0 /\ voided' = FALSE
    /\ UNCHANGED <<remote, up, orphan, confs, rpc, force>>

ProbeUnknown ==
    /\ poll = "probe" /\ remote
    /\ st' = [entry EXCEPT !.backoff = TRUE] /\ poll' = "observe"
    /\ UNCHANGED <<remote, up, lost, orphan, confs, row, rpc, force, hist>>

ProbeAbsent ==
    /\ poll = "probe" /\ (remote => ~up)
    /\ st' = [entry EXCEPT !.backoff = FALSE] /\ poll' = "respawn"
    /\ UNCHANGED <<remote, up, lost, orphan, confs, row, rpc, force, hist>>

\* The sandbox answers and its agent is gone: the flap bound comes first, then
\* its work is pushed, on a budget of its own.
answeredDead == poll = "probe" /\ remote /\ ~up

FlapBoundBeforePush ==
    /\ answeredDead /\ lostRestoreFlapGiveUp /\ poll' = "observe"
    /\ UNCHANGED <<remote, up, lost, orphan, confs, rpc, force, hist>>

pushBudgetSpent == entry.pres + 1 >= MaxAttempts

\* Mutant: the give-up of the push leaves the budget of the recovery open.
PreserveFailsOpen(class) ==
    /\ answeredDead /\ confs < FlapMaxRestores
    /\ IF refused(class) THEN UNCHANGED <<st, row>>
       ELSE IF absorbed(entry, class)
       THEN /\ st' = armEnvironmentalRetry(entry, class)
            /\ checkpoint([facts EXCEPT !.wait = TRUE], disk)
       ELSE IF pushBudgetSpent
       THEN /\ st' = [entry EXCEPT !.pres = MaxAttempts, !.backoff = FALSE]
            /\ persistSettlement([gaveUp |-> TRUE, wait |-> FALSE])
       ELSE /\ st' = [entry EXCEPT !.pres = @ + 1, !.backoff = TRUE]
            /\ clearLostRestoreWaitDurable
    /\ poll' = "observe"
    /\ UNCHANGED <<remote, up, lost, orphan, confs, rpc, force, hist>>

PreserveFails(class) ==
    /\ answeredDead /\ confs < FlapMaxRestores
    /\ IF refused(class) THEN UNCHANGED <<st, row>>
       ELSE IF absorbed(entry, class)
       THEN /\ st' = armEnvironmentalRetry(entry, class)
            /\ checkpoint([facts EXCEPT !.wait = TRUE], disk)
       ELSE IF pushBudgetSpent
       THEN /\ st' = [entry EXCEPT !.pres = MaxAttempts, !.cons = MaxAttempts,
                                   !.backoff = FALSE]
            /\ persistSettlement([gaveUp |-> TRUE, wait |-> FALSE])
       ELSE /\ st' = [entry EXCEPT !.pres = @ + 1, !.backoff = TRUE]
            /\ clearLostRestoreWaitDurable
    /\ poll' = "observe"
    /\ UNCHANGED <<remote, up, lost, orphan, confs, rpc, force, hist>>

resetPreserveBudget(s) == [s EXCEPT !.pres = 0, !.dead = 0, !.backoff = FALSE]

Preserved ==
    /\ answeredDead /\ confs < FlapMaxRestores
    /\ st' = resetPreserveBudget(entry) /\ clearLostRestoreWaitDurable
    /\ poll' = "respawn"
    /\ UNCHANGED <<remote, up, lost, orphan, confs, rpc, force, hist>>

\* The last gate before the respawn.
FlapBound ==
    /\ poll = "respawn" /\ lostRestoreFlapGiveUp /\ poll' = "observe"
    /\ UNCHANGED <<remote, up, lost, orphan, confs, rpc, force, hist>>

\* What a Recover can fail with: every probe that may not answer is a local one.
recoverClasses == IF remote THEN {"none", "errno"} ELSE Classes

RespawnFails(class) ==
    /\ poll = "respawn" /\ confs < FlapMaxRestores /\ class \in recoverClasses
    /\ recordLostRestoreFailure(seeded, class)
    /\ poll' = "observe"
    /\ UNCHANGED <<remote, up, lost, orphan, confs, rpc, force, hist>>

\* Mutant: the flap bound is not asked before the respawn.
RespawnedUnbounded ==
    /\ poll = "respawn"
    /\ lost' = FALSE /\ up' = TRUE /\ runtimeReplaced
    /\ st' = armed(entry, TRUE) /\ poll' = "observe"
    /\ spawns' = upTo(spawns + 1, MaxAttempts + 1) /\ voided' = FALSE
    /\ UNCHANGED <<remote, orphan, confs, rpc, force>>

\* The spawn returned; whether the session is back is for the poll to see.
Respawned ==
    /\ poll = "respawn" /\ confs < FlapMaxRestores
    /\ lost' = FALSE /\ up' = TRUE /\ runtimeReplaced
    /\ st' = armed(entry, TRUE) /\ poll' = "observe"
    /\ spawns' = upTo(spawns + 1, MaxAttempts + 1) /\ voided' = FALSE
    /\ UNCHANGED <<remote, orphan, confs, rpc, force>>

Poll == \/ FlushOwed \/ ObserveAlive \/ ObserveGone \/ ObserveNothing \/ Sweep
        \/ Enter \/ EnterNot \/ Died \/ TryLock \/ Contended
        \/ ProbeAlive \/ ProbeUnknown \/ ProbeAbsent
        \/ FlapBoundBeforePush \/ Preserved \/ FlapBound \/ Respawned
        \/ \E c \in Classes : PreserveFails(c) \/ RespawnFails(c)

(***************************************************************************)
(* The restore RPC of the operator (restoreLostOrDeadSession).             *)
(***************************************************************************)
lockFree == poll \notin {"probe", "respawn"}

RestoreClaim ==
    /\ rpc = "idle" /\ lost /\ lockFree
    /\ rpc' = "probe" /\ force' \in (IF remote THEN BOOLEAN ELSE {FALSE})
    /\ UNCHANGED <<remote, up, lost, st, orphan, confs, row, poll, hist>>

\* The sandbox was never gone: the row is healed and the episode closed.
RestoreHealed ==
    /\ rpc = "probe" /\ remote /\ up
    /\ lost' = FALSE /\ persistSettlement(NoFacts)
    /\ st' = NoState /\ confs' = 0
    /\ orphan' = IF poll = "died" THEN st ELSE orphan
    /\ rpc' = "idle" /\ force' = FALSE /\ spawns' = 0 /\ voided' = FALSE
    /\ UNCHANGED <<remote, up, poll>>

\* No answer, or no branch to start the replacement from.
RestoreRefused ==
    /\ rpc = "probe" /\ remote
    /\ rpc' = "idle" /\ force' = FALSE
    /\ UNCHANGED <<remote, up, lost, st, orphan, confs, row, poll, hist>>

RestorePushFailed(class) ==
    /\ rpc = "probe" /\ remote /\ ~up /\ ~force
    /\ IF class = "none" THEN clearLostRestoreWaitDurable ELSE UNCHANGED row
    /\ rpc' = "idle"
    /\ UNCHANGED <<remote, up, lost, st, orphan, confs, poll, force, hist>>

RestorePushed ==
    /\ rpc = "probe" /\ remote /\ ~up /\ ~force
    /\ st' = IF st.on THEN resetPreserveBudget(st) ELSE st
    /\ clearLostRestoreWaitDurable
    /\ rpc' = "recover"
    /\ UNCHANGED <<remote, up, lost, orphan, confs, poll, force, hist>>

\* Nothing to preserve, or --force-reap.
RestoreUnpushed ==
    /\ rpc = "probe" /\ (remote => ~up \/ force)
    /\ rpc' = "recover"
    /\ UNCHANGED <<remote, up, lost, st, orphan, confs, row, poll, force, hist>>

RestoreFailed(class) ==
    /\ rpc = "recover" /\ class \in recoverClasses
    /\ recordLostRestoreFailure(seeded, class)
    /\ rpc' = "idle" /\ force' = FALSE
    /\ UNCHANGED <<remote, up, lost, orphan, confs, poll, hist>>

\* The hook of --force-reap, run once the old sandbox is provably gone.
resetRecoverBudget(s) ==
    [resetPreserveBudget(s) EXCEPT !.cons = 0, !.await = FALSE, !.seen = 0]

\* The old sandbox is gone and its replacement failed to come up.
RestoreFailedRetired(class) ==
    LET s == resetRecoverBudget(entry)
    IN  /\ rpc = "recover" /\ force /\ class \in recoverClasses
        /\ st' = charged(s, class)
        /\ \E d \in {disk, facts, [facts EXCEPT !.wait = FALSE]} :
               reported(s, class, d)
        /\ up' = FALSE /\ rpc' = "idle" /\ force' = FALSE
        /\ spawns' = 0 /\ voided' = facts.gaveUp
        /\ UNCHANGED <<remote, lost, orphan, confs, poll>>

\* The live boundary: the fence falls and the poll sees the session again ...
RestoreSpawned ==
    /\ rpc = "recover"
    /\ lost' = FALSE /\ up' = TRUE /\ runtimeReplaced
    /\ st' = IF force THEN resetRecoverBudget(entry) ELSE st
    /\ rpc' = "book" /\ voided' = FALSE
    /\ UNCHANGED <<remote, orphan, confs, poll, force, spawns>>

\* ... and only then is the confirmation armed.
RestoreBooked ==
    /\ rpc = "book" /\ runtimeReplaced
    /\ st' = armed(entry, FALSE) /\ confs' = 0
    /\ rpc' = "idle" /\ force' = FALSE /\ spawns' = 0
    /\ UNCHANGED <<remote, up, lost, orphan, poll, voided>>

Restore == \/ RestoreHealed \/ RestoreRefused \/ RestorePushed \/ RestoreUnpushed
           \/ RestoreSpawned \/ RestoreBooked
           \/ \E c \in Classes : \/ RestorePushFailed(c) \/ RestoreFailed(c)
                                 \/ RestoreFailedRetired(c)

(***************************************************************************)
(* Time, the runtime, and the death of the daemon.                         *)
(***************************************************************************)
Die ==
    /\ up /\ up' = FALSE
    /\ UNCHANGED <<remote, lost, st, orphan, confs, row, poll, rpc, force, hist>>

\* The agent of a sandbox is started again inside it.
Revive ==
    /\ remote /\ lost /\ ~up /\ up' = TRUE
    /\ UNCHANGED <<remote, lost, st, orphan, confs, row, poll, rpc, force, hist>>

BackoffOver ==
    /\ st.backoff /\ st' = [st EXCEPT !.backoff = FALSE]
    /\ UNCHANGED <<remote, up, lost, orphan, confs, row, poll, rpc, force, hist>>

\* pruneLostRestoreConfirmations: the oldest one leaves the window.
WindowMoves ==
    /\ confs > 0 /\ confs' = confs - 1
    /\ UNCHANGED <<remote, up, lost, st, orphan, row, poll, rpc, force, hist>>

Restart ==
    /\ st' = NoState /\ orphan' = NoState /\ confs' = 0
    /\ facts' = disk /\ owed' = FALSE
    /\ poll' = "observe" /\ rpc' = "idle" /\ force' = FALSE
    /\ spawns' = 0 /\ voided' = FALSE
    /\ UNCHANGED <<remote, up, lost, disk>>

Next == \/ Poll \/ RestoreClaim \/ Restore
        \/ Die \/ Revive \/ BackoffOver \/ WindowMoves \/ Restart

Spec == Init /\ [][Next]_vars

\* The poll ticks for ever, a started RPC runs to its end, time passes.
FairSpec == Spec /\ WF_vars(Poll) /\ WF_vars(Restore) /\ WF_vars(BackoffOver)

-----------------------------------------------------------------------------
\* A session that will not stay up is not started again and again: between two
\* events that open a new episode (observations that confirm a respawn, a heal, an
\* operator's restore, a new daemon) the poll respawns it at most
\* lostRestoreMaxAttempts times, however its deaths fall between the steps.
RespawnBound == spawns <= MaxAttempts

\* Nor is one that stays up just long enough: the window never holds more
\* confirmed automatic restores than lostRestoreFlapMaxRestores, whether the sweep
\* or the next pass counts them.
FlapBounded == confs <= FlapMaxRestores

\* The row never says both that the retry is armed on the environment and that
\* automatic restore has stopped, in memory or after a restart.
WaitOrVerdict == ~(facts.wait /\ facts.gaveUp) /\ ~(disk.wait /\ disk.gaveUp)

\* The verdict reaches the disk: where the two differ the write is owed, so only
\* the daemon's death can lose it, and a stale one never outlives its runtime.
VerdictOwed == facts.gaveUp # disk.gaveUp => owed

\* A pass of the poll that was past the entry gate when the verdict fell.
overtaken == facts.gaveUp /\ poll \in {"probe", "respawn"}

\* A failed attempt, of the poll or of the operator, never books a retry that the
\* verdict on the row forbids: only a forced replacement that failed does, and a
\* pass that the verdict overtook between its gate and the operation lock.
NoDeadPromise ==
    [][~st.backoff /\ st'.backoff /\ facts'.gaveUp => voided' \/ overtaken]_vars

Excused == \/ RestoreClaim \/ Restart \/ WindowMoves \/ Revive
           \/ (ObserveNothing /\ ~fenced) \/ ProbeUnknown \/ Contended
           \/ PreserveFails("errno") \/ RespawnFails("errno")

\* A session is restored for good or given up: when the operator stays away, the
\* daemon lives, probes answer and no resource limit stands in the way, the loop
\* ends, however often the agent dies and whatever else fails.
Settles ==
    <>[][~Excused]_vars => <>[](~lost /\ up) \/ <>[]facts.gaveUp

=============================================================================
