------------------------ MODULE RestoreBudgetProofs ------------------------
(***************************************************************************)
(* The bounds of RestoreBudget, for every value of the three limits.       *)
(***************************************************************************)
EXTENDS RestoreBudget, TLAPS

\* The row: well typed, and the two parts of its correctness.
RowOK(f, d, o) ==
    /\ f \in Facts /\ d \in Facts /\ o \in BOOLEAN
    /\ ~(f.wait /\ f.gaveUp) /\ ~(d.wait /\ d.gaveUp)
    /\ f.gaveUp # d.gaveUp => o

Row == RowOK(facts, disk, owed)

\* What a write of the row may find on disk.
Before(d) == RowOK(facts, d, owed)

-----------------------------------------------------------------------------
\* The limits are positive.
LEMMA Limits ==
    /\ MaxAttempts \in Nat /\ MaxAttempts >= 1
    /\ ConfirmObservations \in Nat /\ ConfirmObservations >= 1
    /\ FlapMaxRestores \in Nat /\ FlapMaxRestores >= 1
    /\ 0 \in 0..MaxAttempts /\ MaxAttempts \in 0..MaxAttempts
    /\ 0 \in 0..ConfirmObservations
  BY BudgetAssumption DEF BudgetAssumption

\* The states of a session without attempts.
LEMMA EmptyStates ==
    /\ Fresh \in States /\ NoState \in States
    /\ ~NoState.on /\ NoState.await = FALSE /\ NoState.backoff = FALSE
    /\ NoState.cons = 0
    /\ Fresh.on /\ Fresh.await = FALSE /\ Fresh.flap = FALSE /\ Fresh.cons = 0
<1>1. Fresh \in States
  BY Limits DEF States, Fresh
<1>2. NoState \in States
  BY Limits, <1>1 DEF States, NoState
<1>3. QED
  BY <1>1, <1>2 DEF NoState, Fresh, States

\* What charging a failed attempt to a state changes.
LEMMA Charged ==
    ASSUME facts \in Facts, NEW s \in States, NEW c \in Classes
    PROVE  /\ charged(s, c) \in States
           /\ charged(s, c).on = s.on
           /\ charged(s, c).await = s.await
           /\ charged(s, c).flap = s.flap
           /\ charged(s, c).cons >= s.cons
           /\ refused(c) => charged(s, c) = s
           /\ ~refused(c) /\ absorbed(s, c) => charged(s, c).cons = s.cons
           /\ ~refused(c) /\ ~absorbed(s, c) =>
                  charged(s, c).cons = IF terminal(s) THEN MaxAttempts ELSE s.cons + 1
<1>1. /\ s.cons \in Nat /\ s.cons <= MaxAttempts
      /\ s.dead \in Nat /\ s.dead <= MaxAttempts
  BY Limits DEF States
<1>2. CASE refused(c)
  BY <1>1, <1>2 DEF charged
<1>3. CASE ~refused(c) /\ absorbed(s, c)
  <2>1. (IF c = "deadline" THEN s.dead + 1 ELSE s.dead) \in 0..MaxAttempts
    BY <1>1, <1>3, Limits DEF absorbed, Classes
  <2>2. charged(s, c) = armEnvironmentalRetry(s, c)
    BY <1>3 DEF charged
  <2>3. armEnvironmentalRetry(s, c) \in States
    BY <2>1 DEF armEnvironmentalRetry, States
  <2>4. /\ armEnvironmentalRetry(s, c).on = s.on
        /\ armEnvironmentalRetry(s, c).await = s.await
        /\ armEnvironmentalRetry(s, c).flap = s.flap
        /\ armEnvironmentalRetry(s, c).cons = s.cons
    BY DEF armEnvironmentalRetry, States
  <2>5. QED
    BY <1>1, <1>3, <2>2, <2>3, <2>4
<1>4. CASE ~refused(c) /\ ~absorbed(s, c)
  <2>1. /\ upTo(s.cons + 1, MaxAttempts) \in 0..MaxAttempts
        /\ upTo(s.cons + 1, MaxAttempts) =
               IF terminal(s) THEN MaxAttempts ELSE s.cons + 1
    BY <1>1, Limits DEF upTo, terminal
  <2>2. charged(s, c) = structural(s)
    BY <1>4 DEF charged
  <2>3. terminal(s) \in BOOLEAN
    BY DEF terminal
  <2>4. structural(s) \in States
    BY <2>1, <2>3 DEF structural, States
  <2>5. /\ structural(s).on = s.on
        /\ structural(s).await = s.await
        /\ structural(s).flap = s.flap
        /\ structural(s).cons = upTo(s.cons + 1, MaxAttempts)
    BY DEF structural, States
  <2>6. QED
    BY <1>1, <1>4, <2>1, <2>2, <2>4, <2>5 DEF terminal
<1>5. QED
  BY <1>2, <1>3, <1>4

\* The resets and the arming of a state.
LEMMA Rearmed ==
    ASSUME NEW s \in States
    PROVE  /\ resetPreserveBudget(s) \in States
           /\ resetPreserveBudget(s).on = s.on
           /\ resetPreserveBudget(s).await = s.await
           /\ resetPreserveBudget(s).flap = s.flap
           /\ resetPreserveBudget(s).cons = s.cons
           /\ resetRecoverBudget(s) \in States
           /\ resetRecoverBudget(s).on = s.on
           /\ ~resetRecoverBudget(s).await
           /\ resetRecoverBudget(s).cons = 0
           /\ \A b \in BOOLEAN : /\ armed(s, b) \in States
                                 /\ armed(s, b).on = s.on
                                 /\ armed(s, b).await
                                 /\ armed(s, b).flap = b
                                 /\ armed(s, b).cons = s.cons
<1>1. /\ resetPreserveBudget(s) \in States
      /\ resetPreserveBudget(s).on = s.on
      /\ resetPreserveBudget(s).await = s.await
      /\ resetPreserveBudget(s).flap = s.flap
      /\ resetPreserveBudget(s).cons = s.cons
  BY Limits DEF resetPreserveBudget, States
<1>2. resetRecoverBudget(s) \in States
  BY Limits DEF resetPreserveBudget, resetRecoverBudget, States
<1>3. /\ resetRecoverBudget(s).on = s.on
      /\ ~resetRecoverBudget(s).await
      /\ resetRecoverBudget(s).cons = 0
  BY Limits DEF resetPreserveBudget, resetRecoverBudget, States
<1>4. ASSUME NEW b \in BOOLEAN
      PROVE  /\ armed(s, b) \in States
             /\ armed(s, b).on = s.on
             /\ armed(s, b).await
             /\ armed(s, b).flap = b
             /\ armed(s, b).cons = s.cons
  BY Limits DEF armed, States
<1>5. QED
  BY <1>1, <1>2, <1>3, <1>4

\* The entry of the poll, and what one more observation makes of the state.
LEMMA Entries ==
    ASSUME TypeOK
    PROVE  /\ entry \in States /\ entry.on
           /\ (st.on => entry = st) /\ (~st.on => entry = Fresh /\ st = NoState)
           /\ entry.cons = st.cons /\ entry.await = st.await
           /\ observedOnce \in States /\ observedOnce.on = st.on
           /\ observedOnce.await = st.await /\ observedOnce.flap = st.flap
           /\ observedOnce.cons = st.cons
           /\ (~st.on => observedOnce = NoState)
<1>1. st \in States /\ (~st.on => st = NoState)
  BY DEF TypeOK
<1>2. /\ entry \in States /\ entry.on
      /\ (st.on => entry = st) /\ (~st.on => entry = Fresh /\ st = NoState)
      /\ entry.cons = st.cons /\ entry.await = st.await
  <2>1. CASE st.on
    BY <1>1, <2>1 DEF entry
  <2>2. CASE ~st.on
    BY <1>1, <2>2, EmptyStates DEF entry
  <2>3. QED
    BY <1>1, <2>1, <2>2
<1>3. upTo(st.seen + 1, ConfirmObservations) \in 0..ConfirmObservations
  BY <1>1, Limits DEF upTo, States
<1>4. observedOnce \in States
  BY <1>1, <1>3 DEF observedOnce, States
<1>5. /\ observedOnce.on = st.on
      /\ observedOnce.await = st.await /\ observedOnce.flap = st.flap
      /\ observedOnce.cons = st.cons
  BY <1>1 DEF observedOnce, States
<1>6. ~st.on => observedOnce = NoState
  BY <1>1, EmptyStates DEF observedOnce
<1>7. QED
  BY <1>1, <1>2, <1>4, <1>5, <1>6

\* Without a state the verdict on the row is the count.
LEMMA Seeded ==
    ASSUME TypeOK
    PROVE  /\ seeded \in States /\ seeded.on
           /\ seeded.await = st.await /\ seeded.flap = entry.flap
           /\ seeded.cons = IF ~st.on /\ facts.gaveUp THEN MaxAttempts ELSE st.cons
<1>1. /\ [Fresh EXCEPT !.cons = MaxAttempts] \in States
      /\ [Fresh EXCEPT !.cons = MaxAttempts].on
      /\ ~[Fresh EXCEPT !.cons = MaxAttempts].await
      /\ ~[Fresh EXCEPT !.cons = MaxAttempts].flap
      /\ [Fresh EXCEPT !.cons = MaxAttempts].cons = MaxAttempts
  BY EmptyStates, Limits DEF States
<1>2. QED
  BY <1>1, Entries, EmptyStates DEF seeded

-----------------------------------------------------------------------------
\* A settlement leaves the row correct, whether or not its write succeeds.
LEMMA Settled ==
    ASSUME NEW f, NEW d, Before(d), settle(f, d), f \in Facts, ~(f.wait /\ f.gaveUp)
    PROVE  Row' /\ facts' = f
<1>1. CASE disk' = f /\ owed' = FALSE
  BY <1>1 DEF Before, RowOK, settle, Row
<1>2. CASE disk' = d /\ owed' = TRUE
  BY <1>2 DEF Before, RowOK, settle, Row
<1>3. QED
  BY <1>1, <1>2 DEF settle

\* The two verdicts a settlement writes.
LEMMA Verdicts ==
    /\ NoFacts \in Facts /\ ~NoFacts.wait /\ ~NoFacts.gaveUp
    /\ [gaveUp |-> TRUE, wait |-> FALSE] \in Facts
  BY DEF NoFacts, Facts

\* So does a checkpoint that only changes the wait, since the verdict it may fail
\* to write is owed already.
LEMMA Checkpointed ==
    ASSUME NEW d, Before(d), NEW w \in BOOLEAN, ~(w /\ facts.gaveUp),
           checkpoint([facts EXCEPT !.wait = w], d)
    PROVE  Row' /\ facts'.gaveUp = facts.gaveUp
<1> DEFINE f == [facts EXCEPT !.wait = w]
<1>1. f \in Facts /\ f.gaveUp = facts.gaveUp /\ f.wait = w
  BY DEF Before, RowOK, Facts
<1>2. /\ d \in Facts /\ ~(d.wait /\ d.gaveUp) /\ owed \in BOOLEAN
      /\ f.gaveUp # d.gaveUp => owed
  BY <1>1 DEF Before, RowOK
<1>3. facts' = f /\ (disk' = d \/ disk' = f) /\ owed' = owed
  BY DEF checkpoint
<1> HIDE DEF f
<1>4. QED
  BY <1>1, <1>2, <1>3 DEF Row, RowOK

\* Clearing the wait leaves the row correct and the verdict alone.
LEMMA WaitOver ==
    ASSUME NEW d, Before(d), waitOver(d)
    PROVE  Row' /\ facts'.gaveUp = facts.gaveUp
<1>1. CASE facts.wait
  BY <1>1, Checkpointed DEF waitOver
<1>2. CASE ~facts.wait
  BY <1>2 DEF waitOver, nothing, Before, Row, RowOK
<1>3. QED
  BY <1>1, <1>2

\* What accounting for a failure makes of the row: a verdict stays one, and a
\* charge that spends the budget is one.
LEMMA Reported ==
    ASSUME NEW s, NEW c \in Classes, NEW d, Before(d), reported(s, c, d)
    PROVE  /\ Row'
           /\ facts.gaveUp => facts'.gaveUp
           /\ ~refused(c) /\ ~absorbed(s, c) /\ terminal(s) => facts'.gaveUp
           /\ ~(~refused(c) /\ ~absorbed(s, c) /\ terminal(s)) =>
                  facts'.gaveUp = facts.gaveUp
<1>1. CASE refused(c)
  BY <1>1 DEF reported, nothing, Before, Row, RowOK
<1>2. CASE ~refused(c) /\ absorbed(s, c)
  <2>1. ~facts.gaveUp /\ checkpoint([facts EXCEPT !.wait = TRUE], d)
    BY <1>2 DEF reported, refused, absorbed
  <2>2. QED
    BY <1>2, <2>1, Checkpointed
<1>3. CASE ~refused(c) /\ ~absorbed(s, c) /\ terminal(s)
  <2>1. settle([gaveUp |-> TRUE, wait |-> FALSE], d)
    BY <1>3 DEF reported
  <2>2. QED
    BY <1>3, <2>1, Settled, Verdicts
<1>4. CASE ~refused(c) /\ ~absorbed(s, c) /\ ~terminal(s)
  BY <1>4, WaitOver DEF reported
<1>5. QED
  BY <1>1, <1>2, <1>3, <1>4

\* Every value the best-effort write may have left on disk is a possible one.
LEMMA Written ==
    ASSUME Row
    PROVE  /\ Before(disk) /\ Before(facts) /\ Before([facts EXCEPT !.wait = FALSE])
  BY DEF Row, Before, RowOK, Facts

\* The same for recordLostRestoreFailure, whatever its first write left on disk.
LEMMA Recorded ==
    ASSUME Row, NEW s, NEW c \in Classes, recordLostRestoreFailure(s, c)
    PROVE  /\ Row' /\ st' = charged(s, c)
           /\ facts.gaveUp => facts'.gaveUp
           /\ ~refused(c) /\ ~absorbed(s, c) /\ terminal(s) => facts'.gaveUp
           /\ ~(~refused(c) /\ ~absorbed(s, c) /\ terminal(s)) =>
                  facts'.gaveUp = facts.gaveUp
<1>1. PICK d \in {disk, facts} : reported(s, c, d)
  BY DEF recordLostRestoreFailure
<1>2. Before(d)
  BY Written, <1>1
<1>3. QED
  BY <1>1, <1>2, Reported DEF recordLostRestoreFailure

-----------------------------------------------------------------------------
\* Every step leaves the row correct.
LEMMA RowStep ==
    ASSUME TypeOK, Row, [Next]_vars
    PROVE  Row'
<1> USE DEF persistSettlement, runtimeReplaced, clearLostRestoreWaitDurable
<1>0. Before(disk)
  BY Written
<1>1. ASSUME UNCHANGED row PROVE Row'
  BY <1>1 DEF row, Row
<1>2. CASE FlushOwed
  BY <1>2 DEF FlushOwed, Row, RowOK
<1>3. CASE ObserveAlive
  BY <1>0, <1>1, <1>3, Settled, Verdicts DEF ObserveAlive
<1>4. CASE ObserveGone
  <2>1. CASE lost
    BY <1>1, <1>4, <2>1 DEF ObserveGone
  <2>2. CASE ~lost
    BY <1>4, <2>2 DEF ObserveGone, checkpoint, Row, RowOK
  <2>3. QED
    BY <2>1, <2>2
<1>5. CASE ObserveNothing \/ EnterNot \/ TryLock \/ Contended \/ ProbeUnknown
           \/ ProbeAbsent
  BY <1>1, <1>5
     DEF ObserveNothing, EnterNot, TryLock, Contended, ProbeUnknown, ProbeAbsent
<1>6. CASE Sweep
  BY <1>0, <1>1, <1>6, WaitOver DEF Sweep
<1>7. CASE Enter
  BY <1>0, <1>1, <1>7, WaitOver DEF Enter
<1>8. CASE Died
  BY <1>0, <1>8, Reported DEF Died, Classes
<1>9. CASE ProbeAlive
  BY <1>0, <1>9, Settled, Verdicts DEF ProbeAlive
<1>10. CASE FlapBoundBeforePush \/ FlapBound
  BY <1>0, <1>10, Settled, Verdicts DEF FlapBoundBeforePush, FlapBound,
     lostRestoreFlapGiveUp
<1>11. CASE Preserved
  BY <1>0, <1>11, WaitOver DEF Preserved
<1>12. CASE Respawned
  BY <1>0, <1>12, Settled, Verdicts DEF Respawned
<1>13. ASSUME NEW c \in Classes, PreserveFails(c) PROVE Row'
  <2>1. CASE refused(c)
    BY <1>1, <1>13, <2>1 DEF PreserveFails
  <2>2. CASE ~refused(c) /\ absorbed(entry, c)
    <3>1. ~facts.gaveUp /\ checkpoint([facts EXCEPT !.wait = TRUE], disk)
      BY <1>13, <2>2 DEF PreserveFails, refused, absorbed
    <3>2. QED
      BY <1>0, <3>1, Checkpointed
  <2>3. CASE ~refused(c) /\ ~absorbed(entry, c)
    BY <1>0, <1>13, <2>3, Settled, Verdicts, WaitOver DEF PreserveFails
  <2>4. QED
    BY <2>1, <2>2, <2>3
<1>14. ASSUME NEW c \in Classes, RespawnFails(c) PROVE Row'
  BY <1>14, Recorded DEF RespawnFails
<1>15. CASE RestoreClaim
  BY <1>1, <1>15 DEF RestoreClaim
<1>16. CASE RestoreHealed
  BY <1>0, <1>16, Settled, Verdicts DEF RestoreHealed
<1>17. CASE RestoreRefused \/ RestoreUnpushed
  BY <1>1, <1>17 DEF RestoreRefused, RestoreUnpushed
<1>18. CASE RestorePushed
  BY <1>0, <1>18, WaitOver DEF RestorePushed
<1>19. CASE RestoreSpawned \/ RestoreBooked
  BY <1>0, <1>19, Settled, Verdicts DEF RestoreSpawned, RestoreBooked
<1>20. ASSUME NEW c \in Classes, RestorePushFailed(c) PROVE Row'
  BY <1>0, <1>1, <1>20, WaitOver DEF RestorePushFailed
<1>21. ASSUME NEW c \in Classes, RestoreFailed(c) PROVE Row'
  BY <1>21, Recorded DEF RestoreFailed
<1>22. ASSUME NEW c \in Classes, RestoreFailedRetired(c) PROVE Row'
  <2>1. PICK d \in {disk, facts, [facts EXCEPT !.wait = FALSE]} :
            reported(resetRecoverBudget(entry), c, d)
    BY <1>22 DEF RestoreFailedRetired
  <2>2. Before(d)
    BY <2>1, Written
  <2>3. QED
    BY <2>1, <2>2, Reported
<1>23. CASE Die \/ Revive \/ BackoffOver \/ WindowMoves
  BY <1>1, <1>23 DEF Die, Revive, BackoffOver, WindowMoves
<1>24. CASE Restart
  BY <1>24 DEF Restart, Row, RowOK
<1>25. CASE UNCHANGED vars
  BY <1>1, <1>25 DEF vars
<1>26. QED
  BY <1>2, <1>3, <1>4, <1>5, <1>6, <1>7, <1>8, <1>9, <1>10, <1>11, <1>12, <1>13,
     <1>14, <1>15, <1>16, <1>17, <1>18, <1>19, <1>20, <1>21, <1>22, <1>23, <1>24,
     <1>25
  DEF Next, Poll, Restore

-----------------------------------------------------------------------------
\* A retry state; one that is retired leaves no trace.
Kept(s) == s \in States /\ (~s.on => s = NoState)

\* Restarting an episode, or clearing what waited, keeps a state a state.
LEMMA Entered ==
    ASSUME TypeOK
    PROVE  LET s == IF confirmed(entry) THEN Fresh ELSE entry
               e == [s EXCEPT !.await = FALSE, !.seen = 0]
           IN  /\ s \in States /\ s.on /\ e \in States /\ e.on
               /\ e.await = FALSE /\ e.cons = s.cons /\ e.backoff = s.backoff
<1> DEFINE s == IF confirmed(entry) THEN Fresh ELSE entry
<1>1. s \in States /\ s.on
  BY Entries, EmptyStates
<1> HIDE DEF s
<1>2. /\ [s EXCEPT !.await = FALSE, !.seen = 0] \in States
      /\ [s EXCEPT !.await = FALSE, !.seen = 0].on
      /\ [s EXCEPT !.await = FALSE, !.seen = 0].await = FALSE
      /\ [s EXCEPT !.await = FALSE, !.seen = 0].cons = s.cons
      /\ [s EXCEPT !.await = FALSE, !.seen = 0].backoff = s.backoff
  BY <1>1, Limits DEF States
<1>3. QED
  BY <1>1, <1>2 DEF s

\* Every step leaves the retry state well typed.
LEMMA StateStep ==
    ASSUME TypeOK, Row, [Next]_vars
    PROVE  Kept(st') /\ orphan' \in States
<1> USE DEF Kept
<1>0. /\ Kept(st) /\ orphan \in States /\ Kept(NoState)
      /\ entry \in States /\ entry.on
      /\ facts \in Facts /\ "none" \in Classes
  BY Entries, EmptyStates DEF TypeOK, Classes
<1>1. ASSUME UNCHANGED <<st, orphan>> PROVE Kept(st') /\ orphan' \in States
  BY <1>0, <1>1
<1>2. CASE FlushOwed \/ ObserveGone \/ ObserveNothing \/ EnterNot \/ TryLock
           \/ Contended \/ RestoreClaim \/ RestoreRefused \/ RestoreUnpushed
           \/ Die \/ Revive \/ WindowMoves
  BY <1>1, <1>2 DEF FlushOwed, ObserveGone, ObserveNothing, EnterNot, TryLock,
     Contended, RestoreClaim, RestoreRefused, RestoreUnpushed, Die, Revive,
     WindowMoves
<1>3. CASE ObserveAlive
  BY <1>0, <1>3, Entries DEF ObserveAlive
<1>4. CASE Sweep
  BY <1>0, <1>4 DEF Sweep
<1>5. CASE Enter
  BY <1>0, <1>5, Entered DEF Enter
<1>6. CASE Died
  BY <1>0, <1>6, Charged, EmptyStates DEF Died
<1>7. CASE ProbeAlive \/ FlapBoundBeforePush \/ FlapBound
  BY <1>0, <1>7 DEF ProbeAlive, FlapBoundBeforePush, FlapBound, lostRestoreFlapGiveUp
<1>8. CASE ProbeUnknown \/ ProbeAbsent
  <2>1. ASSUME NEW b \in BOOLEAN
        PROVE  [entry EXCEPT !.backoff = b] \in States
               /\ [entry EXCEPT !.backoff = b].on
    BY <1>0 DEF States
  <2>2. QED
    BY <1>0, <1>8, <2>1 DEF ProbeUnknown, ProbeAbsent
<1>9. CASE Preserved
  BY <1>0, <1>9, Rearmed DEF Preserved
<1>10. CASE Respawned
  BY <1>0, <1>10, Rearmed DEF Respawned
<1>11. ASSUME NEW c \in Classes, PreserveFails(c)
       PROVE  Kept(st') /\ orphan' \in States
  <2>0. orphan' \in States
    BY <1>0, <1>11 DEF PreserveFails
  <2>1. CASE refused(c)
    BY <1>0, <1>11, <2>1 DEF PreserveFails
  <2>2. CASE ~refused(c) /\ absorbed(entry, c)
    <3>1. st' = charged(entry, c)
      BY <1>11, <2>2 DEF PreserveFails, charged
    <3>2. QED
      BY <1>0, <2>0, <3>1, Charged
  <2>3. CASE ~refused(c) /\ ~absorbed(entry, c) /\ pushBudgetSpent
    <3>1. st' = [entry EXCEPT !.pres = MaxAttempts, !.cons = MaxAttempts,
                              !.backoff = FALSE]
      BY <1>11, <2>3 DEF PreserveFails
    <3>2. st' \in States /\ st'.on
      BY <1>0, <3>1, Limits DEF States
    <3>3. QED
      BY <2>0, <3>2
  <2>4. CASE ~refused(c) /\ ~absorbed(entry, c) /\ ~pushBudgetSpent
    <3>1. st' = [entry EXCEPT !.pres = entry.pres + 1, !.backoff = TRUE]
      BY <1>11, <2>4 DEF PreserveFails
    <3>2. entry.pres + 1 \in 0..MaxAttempts
      BY <1>0, <2>4, Limits DEF pushBudgetSpent, States
    <3>3. st' \in States /\ st'.on
      BY <1>0, <3>1, <3>2 DEF States
    <3>4. QED
      BY <2>0, <3>3
  <2>5. QED
    BY <2>1, <2>2, <2>3, <2>4
<1>12. ASSUME NEW c \in Classes, RespawnFails(c) \/ RestoreFailed(c)
       PROVE  Kept(st') /\ orphan' \in States
  <2>1. st' = charged(seeded, c) /\ orphan' = orphan
    BY <1>12 DEF RespawnFails, RestoreFailed, recordLostRestoreFailure
  <2>2. QED
    BY <1>0, <2>1, Seeded, Charged
<1>13. ASSUME NEW c \in Classes, RestoreFailedRetired(c)
       PROVE  Kept(st') /\ orphan' \in States
  BY <1>0, <1>13, Rearmed, Charged DEF RestoreFailedRetired
<1>14. ASSUME NEW c \in Classes, RestorePushFailed(c)
       PROVE  Kept(st') /\ orphan' \in States
  BY <1>1, <1>14 DEF RestorePushFailed
<1>15. CASE RestoreHealed
  BY <1>0, <1>15 DEF RestoreHealed
<1>16. CASE RestorePushed
  BY <1>0, <1>16, Rearmed DEF RestorePushed
<1>17. CASE RestoreSpawned
  BY <1>0, <1>17, Rearmed DEF RestoreSpawned
<1>18. CASE RestoreBooked
  BY <1>0, <1>18, Rearmed DEF RestoreBooked
<1>19. CASE BackoffOver
  <2>1. st.on /\ st' = [st EXCEPT !.backoff = FALSE] /\ orphan' = orphan
    BY <1>0, <1>19, EmptyStates DEF BackoffOver
  <2>2. st' \in States /\ st'.on
    BY <1>0, <2>1 DEF States
  <2>3. QED
    BY <1>0, <2>1, <2>2
<1>20. CASE Restart
  BY <1>0, <1>20 DEF Restart
<1>21. CASE UNCHANGED vars
  BY <1>1, <1>21 DEF vars
<1>22. QED
  BY <1>2, <1>3, <1>4, <1>5, <1>6, <1>7, <1>8, <1>9, <1>10, <1>11, <1>12, <1>13,
     <1>14, <1>15, <1>16, <1>17, <1>18, <1>19, <1>20, <1>21
  DEF Next, Poll, Restore

\* Counters stop at their limit.
LEMMA Capped ==
    ASSUME TypeOK
    PROVE  /\ noted \in 0..(FlapMaxRestores + 1)
           /\ upTo(spawns + 1, MaxAttempts + 1) \in 0..(MaxAttempts + 1)
           /\ confs > 0 => confs - 1 \in 0..(FlapMaxRestores + 1)
           /\ 0 \in 0..(FlapMaxRestores + 1) /\ 0 \in 0..(MaxAttempts + 1)
           /\ entry.cons \in 0..MaxAttempts /\ 0 \in 0..MaxAttempts
<1>1. /\ confs \in 0..(FlapMaxRestores + 1) /\ spawns \in 0..(MaxAttempts + 1)
      /\ entry \in States
  BY Entries DEF TypeOK
<1>2. QED
  BY <1>1, Limits DEF noted, upTo, States

\* Every step keeps the types.
LEMMA TypeStep ==
    ASSUME TypeOK, Row, [Next]_vars
    PROVE  TypeOK'
<1> DEFINE Plain ==
             /\ remote \in BOOLEAN /\ up \in BOOLEAN /\ lost \in BOOLEAN
             /\ force \in BOOLEAN /\ voided \in BOOLEAN
             /\ confs \in 0..(FlapMaxRestores + 1)
             /\ poll \in {"observe", "sweep", "enter", "died", "lock", "probe",
                          "respawn"}
             /\ rpc \in {"idle", "probe", "recover", "book"}
             /\ spawns \in 0..(MaxAttempts + 1)
<1>0. Plain /\ facts.gaveUp \in BOOLEAN
  BY DEF TypeOK, Facts
<1>1. facts' \in Facts /\ disk' \in Facts /\ owed' \in BOOLEAN /\ facts'.gaveUp \in BOOLEAN
  BY RowStep DEF Row, RowOK, Facts
<1>2. st' \in States /\ orphan' \in States /\ (~st'.on => st' = NoState)
  BY StateStep DEF Kept
<1>3. Plain'
  <2> USE Capped DEF hist
  <2>1. CASE FlushOwed \/ ObserveGone \/ ObserveNothing \/ EnterNot \/ TryLock
             \/ Contended
    BY <1>0, <2>1, ZenonT(60) DEF FlushOwed, ObserveGone, ObserveNothing, EnterNot, TryLock,
       Contended
  <2>2. CASE ObserveAlive
    BY <1>0, <1>1, <2>2 DEF ObserveAlive
  <2>3. CASE Sweep
    BY <1>0, <2>3 DEF Sweep
  <2>4. CASE Enter
    BY <1>0, <2>4 DEF Enter
  <2>5. CASE Died
    BY <1>0, <2>5 DEF Died
  <2>6. CASE ProbeAlive \/ ProbeUnknown \/ ProbeAbsent
    BY <1>0, <2>6 DEF ProbeAlive, ProbeUnknown, ProbeAbsent
  <2>7. CASE FlapBoundBeforePush \/ FlapBound \/ Preserved
    BY <1>0, <2>7 DEF FlapBoundBeforePush, FlapBound, Preserved
  <2>8. CASE Respawned
    BY <1>0, <2>8 DEF Respawned
  <2>9. ASSUME NEW c \in Classes, PreserveFails(c) \/ RespawnFails(c) PROVE Plain'
    BY <1>0, <2>9 DEF PreserveFails, RespawnFails
  <2>10. CASE RestoreClaim
    BY <1>0, <2>10 DEF RestoreClaim
  <2>11. CASE RestoreHealed \/ RestoreRefused \/ RestorePushed \/ RestoreUnpushed
    BY <1>0, <2>11 DEF RestoreHealed, RestoreRefused, RestorePushed, RestoreUnpushed
  <2>12. CASE RestoreSpawned \/ RestoreBooked
    BY <1>0, <2>12 DEF RestoreSpawned, RestoreBooked
  <2>13. ASSUME NEW c \in Classes,
                RestorePushFailed(c) \/ RestoreFailed(c) \/ RestoreFailedRetired(c)
         PROVE  Plain'
    BY <1>0, <2>13 DEF RestorePushFailed, RestoreFailed, RestoreFailedRetired
  <2>14. CASE Die \/ Revive \/ BackoffOver \/ WindowMoves
    <3>1. CASE Die
      BY <1>0, <3>1 DEF Die
    <3>2. CASE Revive
      BY <1>0, <3>2 DEF Revive
    <3>3. CASE BackoffOver
      BY <1>0, <3>3 DEF BackoffOver
    <3>4. CASE WindowMoves
      BY <1>0, <3>4 DEF WindowMoves
    <3>5. QED
      BY <2>14, <3>1, <3>2, <3>3, <3>4
  <2>15. CASE Restart
    BY <1>0, <2>15 DEF Restart
  <2>16. CASE UNCHANGED vars
    BY <1>0, <2>16 DEF vars
  <2>17. QED
    BY <2>1, <2>2, <2>3, <2>4, <2>5, <2>6, <2>7, <2>8, <2>9, <2>10, <2>11, <2>12,
       <2>13, <2>14, <2>15, <2>16
    DEF Next, Poll, Restore
<1>4. QED
  BY <1>1, <1>2, <1>3 DEF TypeOK

-----------------------------------------------------------------------------
\* The row is typed and correct in every reachable state.
RowInv == TypeOK /\ Row

\* It is an invariant of the specification.
LEMMA RowInvariant == Spec => []RowInv
<1>1. Init => RowInv
  <2> SUFFICES ASSUME Init PROVE RowInv
    OBVIOUS
  <2>1. TypeOK
    <3>1. 0 \in 0..(FlapMaxRestores + 1) /\ 0 \in 0..(MaxAttempts + 1)
      BY Limits
    <3>2. st \in States /\ orphan \in States /\ (~st.on => st = NoState)
      BY EmptyStates DEF Init
    <3>3. facts \in Facts /\ disk \in Facts
      BY Verdicts DEF Init
    <3>4. {remote, up, lost, owed, force, voided} \subseteq BOOLEAN
      BY DEF Init
    <3>5. QED
      BY <3>1, <3>2, <3>3, <3>4, Limits DEF Init, TypeOK
  <2>2. Row
    BY Verdicts DEF Init, Row, RowOK
  <2>3. QED
    BY <2>1, <2>2 DEF RowInv
<1>2. RowInv /\ [Next]_vars => RowInv'
  BY TypeStep, RowStep DEF RowInv
<1>3. QED
  BY <1>1, <1>2, PTL DEF Spec

\* The state of RestoreBudget is well typed.
THEOREM TypeCorrect == Spec => []TypeOK
<1>1. RowInv => TypeOK
  BY DEF RowInv
<1>2. QED
  BY <1>1, RowInvariant, PTL

\* Whatever fails to be written and whoever writes it, the row never says both that
\* a retry is armed and that automatic restore stopped (Set/ClearLostRestoreWait and
\* lostRestoreFailed).
THEOREM WaitOrVerdictHolds == Spec => []WaitOrVerdict
<1>1. RowInv => WaitOrVerdict
  BY DEF RowInv, Row, RowOK, WaitOrVerdict
<1>2. QED
  BY <1>1, RowInvariant, PTL

\* A verdict that is not on disk is owed (persistSettlement).
THEOREM VerdictIsOwed == Spec => []VerdictOwed
<1>1. RowInv => VerdictOwed
  BY DEF RowInv, Row, RowOK, VerdictOwed
<1>2. QED
  BY <1>1, RowInvariant, PTL

-----------------------------------------------------------------------------
\* A pending confirmation that will count leaves room in the window for it.
RoomToCount == st.await /\ st.flap => confs < FlapMaxRestores

FlapInv == FlapBounded /\ RoomToCount

\* Every step keeps the flap bound: a respawn is only begun below it, and nothing
\* is counted while one is pending.
LEMMA FlapStep ==
    ASSUME TypeOK, Row, FlapInv, [Next]_vars
    PROVE  FlapInv'
<1>0. /\ confs \in Nat /\ facts \in Facts /\ "none" \in Classes
      /\ confs <= FlapMaxRestores /\ FlapMaxRestores \in Nat
      /\ st.await /\ st.flap => confs < FlapMaxRestores
      /\ st \in States /\ entry \in States
      /\ entry.await /\ entry.flap => confs < FlapMaxRestores
  <2>1. confs \in 0..(FlapMaxRestores + 1) /\ facts \in Facts /\ st \in States
    BY DEF TypeOK
  <2>2. QED
    BY <2>1, Limits, Entries, EmptyStates DEF FlapInv, FlapBounded, RoomToCount, Classes
<1>1. ASSUME confs' \in Nat, confs' <= confs,
             st'.await /\ st'.flap => st.await /\ st.flap
      PROVE  FlapInv'
  BY <1>0, <1>1 DEF FlapInv, FlapBounded, RoomToCount
<1>2. ASSUME confs' = noted, entry.await, entry.flap, ~st'.await PROVE FlapInv'
  BY <1>0, <1>2 DEF FlapInv, FlapBounded, RoomToCount, noted, upTo
<1>3. CASE FlushOwed \/ ObserveGone \/ ObserveNothing \/ EnterNot \/ TryLock
           \/ Contended \/ RestoreClaim \/ RestoreRefused \/ RestoreUnpushed
           \/ Die \/ Revive
  <2>1. UNCHANGED <<st, confs>>
    BY <1>3 DEF FlushOwed, ObserveGone, ObserveNothing, EnterNot, TryLock,
       Contended, RestoreClaim, RestoreRefused, RestoreUnpushed, Die, Revive
  <2>2. QED
    BY <1>0, <1>1, <2>1
<1>4. CASE ObserveAlive
  BY <1>0, <1>1, <1>4, Entries DEF ObserveAlive
<1>5. CASE Sweep
  <2>1. CASE st.on /\ ~lost /\ ~fenced /\ (st.await => confirmed(st))
             /\ st.await /\ st.flap
    BY <1>2, <1>5, <2>1, Entries, EmptyStates DEF Sweep
  <2>2. CASE ~(st.on /\ ~lost /\ ~fenced /\ (st.await => confirmed(st))
               /\ st.await /\ st.flap)
    <3>1. confs' = confs /\ (st' = st \/ st' = NoState)
      BY <1>5, <2>2 DEF Sweep
    <3>2. QED
      BY <1>0, <1>1, <3>1, EmptyStates
  <2>3. QED
    BY <2>1, <2>2
<1>6. CASE Enter
  <2>1. ~st'.await
    BY <1>6, Entered DEF Enter
  <2>2. CASE confirmed(entry) /\ entry.flap
    BY <1>2, <1>6, <2>1, <2>2 DEF Enter, confirmed
  <2>3. CASE ~(confirmed(entry) /\ entry.flap)
    BY <1>0, <1>1, <1>6, <2>1, <2>3 DEF Enter
  <2>4. QED
    BY <2>2, <2>3
<1>7. CASE Died
  <2>1. confs' = confs /\ (st' = st \/ st' = charged(entry, "none"))
    BY <1>7 DEF Died
  <2>2. QED
    BY <1>0, <1>1, <2>1, Charged, Entries, EmptyStates
<1>8. CASE ProbeAlive \/ FlapBoundBeforePush \/ FlapBound
  BY <1>0, <1>1, <1>8, EmptyStates DEF ProbeAlive, FlapBoundBeforePush, FlapBound,
     lostRestoreFlapGiveUp
<1>9. CASE ProbeUnknown \/ ProbeAbsent
  <2>1. ASSUME NEW b \in BOOLEAN
        PROVE  /\ [entry EXCEPT !.backoff = b].await = entry.await
               /\ [entry EXCEPT !.backoff = b].flap = entry.flap
    BY <1>0 DEF States
  <2>2. /\ confs' = confs
        /\ st' = [entry EXCEPT !.backoff = TRUE] \/ st' = [entry EXCEPT !.backoff = FALSE]
    BY <1>9 DEF ProbeUnknown, ProbeAbsent
  <2>3. st'.await = entry.await /\ st'.flap = entry.flap
    BY <2>1, <2>2
  <2>4. QED
    BY <1>0, <2>2, <2>3 DEF FlapInv, FlapBounded, RoomToCount
<1>10. CASE Preserved
  BY <1>0, <1>1, <1>10, Rearmed, Entries, EmptyStates DEF Preserved
<1>11. CASE Respawned
  BY <1>0, <1>11 DEF Respawned, FlapInv, FlapBounded, RoomToCount
<1>12. ASSUME NEW c \in Classes, PreserveFails(c) PROVE FlapInv'
  <2>1. confs' = confs /\ confs < FlapMaxRestores
    BY <1>12 DEF PreserveFails
  <2>2. QED
    BY <1>0, <2>1 DEF FlapInv, FlapBounded, RoomToCount
<1>13. ASSUME NEW c \in Classes, RespawnFails(c) \/ RestoreFailed(c) PROVE FlapInv'
  <2>1. confs' = confs /\ st' = charged(seeded, c)
    BY <1>13 DEF RespawnFails, RestoreFailed, recordLostRestoreFailure
  <2>2. QED
    BY <1>0, <1>1, <2>1, Charged, Seeded, Entries, EmptyStates, SMTT(30)
<1>14. ASSUME NEW c \in Classes, RestoreFailedRetired(c) PROVE FlapInv'
  <2>1. confs' = confs /\ st' = charged(resetRecoverBudget(entry), c)
    BY <1>14 DEF RestoreFailedRetired
  <2>2. QED
    BY <1>0, <1>1, <2>1, Charged, Rearmed
<1>15. ASSUME NEW c \in Classes, RestorePushFailed(c) PROVE FlapInv'
  BY <1>0, <1>1, <1>15 DEF RestorePushFailed
<1>16. CASE RestoreHealed
  BY <1>0, <1>1, <1>16, EmptyStates DEF RestoreHealed
<1>17. CASE RestorePushed
  BY <1>0, <1>1, <1>17, Rearmed DEF RestorePushed
<1>18. CASE RestoreSpawned
  BY <1>0, <1>1, <1>18, Rearmed DEF RestoreSpawned
<1>19. CASE RestoreBooked
  <2>1. confs' = 0 /\ st'.flap = FALSE
    BY <1>0, <1>19, Rearmed DEF RestoreBooked
  <2>2. QED
    BY <1>0, <1>1, <2>1
<1>20. CASE BackoffOver
  <2>1. /\ [st EXCEPT !.backoff = FALSE].await = st.await
        /\ [st EXCEPT !.backoff = FALSE].flap = st.flap
    BY <1>0 DEF States
  <2>2. QED
    BY <1>0, <1>1, <1>20, <2>1 DEF BackoffOver
<1>21. CASE WindowMoves
  BY <1>0, <1>1, <1>21 DEF WindowMoves
<1>22. CASE Restart
  BY <1>0, <1>1, <1>22, EmptyStates DEF Restart
<1>23. CASE UNCHANGED vars
  BY <1>0, <1>1, <1>23 DEF vars
<1>24. QED
  BY <1>3, <1>4, <1>5, <1>6, <1>7, <1>8, <1>9, <1>10, <1>11, <1>12, <1>13,
     <1>14, <1>15, <1>16, <1>17, <1>18, <1>19, <1>20, <1>21, <1>22, <1>23
  DEF Next, Poll, Restore

\* The window never holds more than lostRestoreFlapMaxRestores confirmed restores.
THEOREM FlapBoundHolds == Spec => []FlapBounded
<1>1. Init => FlapInv
  BY EmptyStates, Limits DEF Init, FlapInv, FlapBounded, RoomToCount
<1>2. RowInv /\ FlapInv /\ [Next]_vars => FlapInv'
  BY FlapStep DEF RowInv
<1>3. FlapInv => FlapBounded
  BY DEF FlapInv
<1>4. QED
  BY <1>1, <1>2, <1>3, RowInvariant, PTL DEF Spec

-----------------------------------------------------------------------------
\* A respawn whose death has not been charged yet.
pending == IF st.await \/ poll = "died" THEN 1 ELSE 0

\* Every automatic respawn is covered by a charged failure or is the pending one;
\* without a state there was none, or the verdict stands in for the count.
Covered ==
    /\ spawns <= MaxAttempts
    /\ st.on /\ rpc # "book" => spawns <= st.cons + pending
    /\ ~st.on => spawns = 0 \/ rpc = "book" \/ (facts.gaveUp /\ lost)
    /\ ~lost /\ st.on /\ ~st.await /\ rpc # "book" => spawns = 0

\* A spent budget is a verdict, unless something is about to be done about it.
SpentIsVerdict ==
    st.on /\ st.cons = MaxAttempts /\ ~st.await =>
        \/ facts.gaveUp \/ rpc = "book" \/ poll = "died"
        \/ ~lost /\ poll = "sweep"

\* What a goroutine may rely on where it is.
Placed ==
    /\ fenced => lost
    /\ poll \in {"probe", "respawn"} => lost /\ rpc = "idle"
    /\ poll \in {"lock", "probe", "respawn"} =>
           spawns < MaxAttempts /\ (lost => st.on /\ ~st.await)
    /\ poll = "lock" /\ rpc = "book" => ~lost
    /\ poll = "died" => st.on \/ orphan.on
    /\ orphan.on => /\ poll = "died" /\ rpc = "idle"
                    /\ ~lost /\ ~st.on /\ spawns = 0

BudgetInv == Covered /\ SpentIsVerdict /\ Placed

\* Every step keeps the budget.
LEMMA BudgetStep ==
    ASSUME TypeOK, Row, BudgetInv, [Next]_vars
    PROVE  BudgetInv'
<1> USE DEF BudgetInv, Covered, SpentIsVerdict, Placed, pending, fenced
<1>0. /\ facts \in Facts /\ "none" \in Classes /\ spawns \in Nat
      /\ MaxAttempts \in Nat /\ MaxAttempts >= 1
      /\ st \in States /\ entry \in States /\ entry.on
      /\ st.cons \in Nat /\ st.cons <= MaxAttempts
      /\ entry.cons = st.cons /\ entry.await = st.await
      /\ (st.on => entry = st) /\ (~st.on => entry = Fresh /\ st = NoState)
      /\ ~NoState.on /\ ~NoState.await /\ NoState.cons = 0
      /\ st.on \in BOOLEAN /\ st.await \in BOOLEAN /\ orphan.on \in BOOLEAN
  <2>1. /\ facts \in Facts /\ st \in States /\ orphan \in States
        /\ spawns \in 0..(MaxAttempts + 1)
    BY DEF TypeOK
  <2>2. st.cons \in 0..MaxAttempts /\ st.on \in BOOLEAN /\ st.await \in BOOLEAN
        /\ orphan.on \in BOOLEAN
    BY <2>1 DEF States
  <2>3. QED
    BY <2>1, <2>2, Limits, Entries, EmptyStates DEF Classes
\* A step that leaves all of it alone.
<1>1. ASSUME UNCHANGED <<lost, orphan, poll, rpc, spawns>>,
             st'.on = st.on, st'.cons = st.cons, st'.await = st.await,
             facts'.gaveUp = facts.gaveUp
      PROVE  BudgetInv'
  BY <1>1
<1>2. CASE FlushOwed \/ Die \/ Revive \/ WindowMoves
  BY <1>1, <1>2 DEF FlushOwed, Die, Revive, WindowMoves, row, hist
<1>3. CASE BackoffOver
  <2>1. /\ [st EXCEPT !.backoff = FALSE].on = st.on
        /\ [st EXCEPT !.backoff = FALSE].cons = st.cons
        /\ [st EXCEPT !.backoff = FALSE].await = st.await
    BY <1>0 DEF States
  <2>2. QED
    BY <1>1, <1>3, <2>1 DEF BackoffOver, row, hist
<1>4. CASE ObserveAlive
  <2>1. /\ st'.on = st.on /\ st'.cons = st.cons /\ st'.await = st.await
        /\ lost' = lost \/ lost' = FALSE
        /\ lost' => facts' = facts
    BY <1>4, Entries DEF ObserveAlive, row
  <2>2. QED
    BY <1>0, <1>4, <2>1 DEF ObserveAlive
<1>5. CASE ObserveGone
  <2>1. UNCHANGED <<st, orphan, rpc, spawns, facts>> /\ lost' = TRUE
        /\ poll = "observe" /\ poll' = "sweep" /\ ~fenced
    BY <1>5 DEF ObserveGone, checkpoint, row, hist
  <2>2. QED
    BY <1>0, <2>1
<1>6. CASE ObserveNothing
  BY <1>0, <1>6 DEF ObserveNothing, row, hist
<1>7. CASE Sweep
  <2>1. facts'.gaveUp = facts.gaveUp
    BY <1>7, Written, WaitOver DEF Sweep, clearLostRestoreWaitDurable, row
  <2>2. CASE st.on /\ ~lost /\ ~fenced /\ (st.await => confirmed(st))
    BY <1>0, <1>7, <2>1, <2>2 DEF Sweep
  <2>3. CASE ~(st.on /\ ~lost /\ ~fenced /\ (st.await => confirmed(st)))
    <3>1. UNCHANGED <<st, lost, orphan, rpc, spawns>> /\ poll' = "enter"
          /\ poll = "sweep"
      BY <1>7, <2>3 DEF Sweep
    <3>2. QED
      BY <1>0, <2>1, <2>3, <3>1
  <2>4. QED
    BY <2>2, <2>3
<1>8. CASE Enter
  <2>1. facts'.gaveUp = facts.gaveUp
    BY <1>8, Written, WaitOver DEF Enter, clearLostRestoreWaitDurable, row
  <2>2. /\ st'.on /\ ~st'.await
        /\ UNCHANGED <<lost, orphan, rpc>>
        /\ poll = "enter" /\ lost /\ ~facts.gaveUp /\ rpc = "idle"
    BY <1>8, Entered DEF Enter, wantsRestore
  <2>3. CASE confirmed(entry)
    <3>1. st'.cons = 0 /\ spawns' = 0 /\ poll' \in {"observe", "lock"}
      BY <1>8, <2>3, Entered, EmptyStates DEF Enter
    <3>2. QED
      BY <1>0, <2>1, <2>2, <3>1
  <2>4. CASE ~confirmed(entry)
    <3>1. /\ st'.cons = st.cons /\ spawns' = spawns
          /\ poll' = IF st.await THEN "died" ELSE IF entry.backoff THEN "observe"
                     ELSE "lock"
      BY <1>0, <1>8, <2>4, Entered DEF Enter
    <3>2. CASE st.await
      BY <1>0, <2>1, <2>2, <3>1, <3>2
    <3>3. CASE ~st.await
      <4>1. spawns <= st.cons /\ st.cons < MaxAttempts
        BY <1>0, <2>2, <3>3
      <4>2. poll' \in {"observe", "lock"}
        BY <3>1, <3>3
      <4>3. QED
        BY <1>0, <2>1, <2>2, <3>1, <4>1, <4>2
    <3>4. QED
      BY <3>2, <3>3
  <2>5. QED
    BY <2>3, <2>4
<1>9. CASE EnterNot \/ TryLock \/ Contended
  <2>1. UNCHANGED <<st, lost, orphan, rpc, spawns, facts>>
    BY <1>9 DEF EnterNot, TryLock, Contended, row, hist
  <2>2. \/ poll' = "observe" /\ poll \in {"enter", "lock"}
        \/ poll' = "probe" /\ poll = "lock" /\ rpc = "idle" /\ lost
    BY <1>9 DEF EnterNot, TryLock, Contended
  <2>3. QED
    BY <1>0, <2>1, <2>2
<1>10. CASE Died
  <2>1. UNCHANGED <<lost, rpc, spawns>> /\ poll = "died" /\ poll' = "observe"
        /\ ~orphan'.on
    BY <1>10, EmptyStates DEF Died, hist
  <2>2. CASE orphan.on
    BY <1>0, <1>10, <2>1, <2>2 DEF Died
  <2>3. CASE ~orphan.on
    <3>1. st' = charged(st, "none") /\ reported(st, "none", disk) /\ st.on
      BY <1>0, <1>10, <2>1, <2>3 DEF Died
    <3>2. ~refused("none") /\ ~absorbed(st, "none")
      BY DEF refused, absorbed
    <3>3. /\ st'.on = st.on /\ st'.await = st.await
          /\ st'.cons = IF terminal(st) THEN MaxAttempts ELSE st.cons + 1
      BY <1>0, <3>1, <3>2, Charged
    <3>4. terminal(st) => facts'.gaveUp
      BY <1>0, <3>1, <3>2, Written, Reported
    <3>5. CASE terminal(st)
      <4>1. st'.cons = MaxAttempts /\ facts'.gaveUp
        BY <3>3, <3>4, <3>5
      <4>2. st'.on /\ spawns <= st'.cons
        BY <1>0, <2>1, <3>1, <3>3, <4>1
      <4>3. Covered'
        BY <1>0, <2>1, <3>1, <3>3, <4>1, <4>2
      <4>4. SpentIsVerdict'
        BY <1>0, <2>1, <3>1, <3>3, <4>1
      <4>5. Placed'
        BY <2>1
      <4>6. QED
        BY <4>3, <4>4, <4>5
    <3>6. CASE ~terminal(st)
      <4>1. st'.cons = st.cons + 1 /\ st'.cons < MaxAttempts
        BY <1>0, <3>3, <3>6 DEF terminal
      <4>2. st'.on /\ (rpc # "book" => spawns <= st'.cons)
        BY <1>0, <2>1, <3>1, <3>3, <4>1
      <4>3. Covered'
        BY <1>0, <2>1, <3>1, <3>3, <4>1, <4>2
      <4>4. SpentIsVerdict'
        BY <1>0, <2>1, <3>1, <3>3, <4>1
      <4>5. Placed'
        BY <2>1
      <4>6. QED
        BY <4>3, <4>4, <4>5
    <3>7. QED
      BY <3>5, <3>6
  <2>4. QED
    BY <2>2, <2>3
<1>11. CASE ProbeAlive
  BY <1>0, <1>11 DEF ProbeAlive
<1>12. CASE ProbeUnknown \/ ProbeAbsent
  <2>1. ASSUME NEW b \in BOOLEAN
        PROVE  /\ [entry EXCEPT !.backoff = b].on = entry.on
               /\ [entry EXCEPT !.backoff = b].cons = entry.cons
               /\ [entry EXCEPT !.backoff = b].await = entry.await
    BY <1>0 DEF States
  <2>2. /\ st'.on = entry.on /\ st'.cons = entry.cons /\ st'.await = entry.await
        /\ UNCHANGED <<lost, orphan, rpc, spawns, facts>>
        /\ poll = "probe" /\ poll' \in {"observe", "respawn"}
    BY <1>12, <2>1 DEF ProbeUnknown, ProbeAbsent, row, hist
  <2>3. QED
    BY <1>0, <2>2
<1>13. CASE FlapBoundBeforePush \/ FlapBound
  <2>1. facts'.gaveUp /\ st' = NoState
    BY <1>13, Written, Settled, Verdicts DEF FlapBoundBeforePush, FlapBound,
       lostRestoreFlapGiveUp, persistSettlement
  <2>2. UNCHANGED <<lost, orphan, rpc, spawns>> /\ poll' = "observe"
        /\ poll \in {"probe", "respawn"}
    BY <1>13 DEF FlapBoundBeforePush, FlapBound, answeredDead, hist
  <2>3. QED
    BY <1>0, <2>1, <2>2
<1>14. CASE Preserved
  <2>1. /\ facts'.gaveUp = facts.gaveUp
        /\ st'.on = entry.on /\ st'.cons = entry.cons /\ st'.await = entry.await
    BY <1>0, <1>14, Written, WaitOver, Rearmed
    DEF Preserved, clearLostRestoreWaitDurable
  <2>2. UNCHANGED <<lost, orphan, rpc, spawns>> /\ poll = "probe" /\ poll' = "respawn"
    BY <1>14 DEF Preserved, answeredDead, hist
  <2>3. QED
    BY <1>0, <2>1, <2>2
<1>15. CASE Respawned
  <2>1. st'.on /\ st'.await /\ st'.cons = st.cons
    BY <1>0, <1>15, Rearmed DEF Respawned
  <2>2. /\ spawns < MaxAttempts /\ spawns <= st.cons
        /\ spawns' = spawns + 1
    BY <1>0, <1>15 DEF Respawned, upTo
  <2>3. UNCHANGED <<orphan, rpc>> /\ poll = "respawn" /\ poll' = "observe"
        /\ lost' = FALSE
    BY <1>15 DEF Respawned
  <2>4. QED
    BY <1>0, <2>1, <2>2, <2>3
\* A failure of the poll or of the operator, charged to the seeded state.
<1>16. ASSUME NEW c \in Classes, recordLostRestoreFailure(seeded, c),
              UNCHANGED <<lost, orphan, spawns>>, lost,
              \/ poll = "respawn" /\ poll' = "observe" /\ rpc' = rpc
              \/ poll' = poll /\ rpc = "recover" /\ rpc' = "idle"
       PROVE  BudgetInv'
  <2>1. /\ st' = charged(seeded, c)
        /\ facts.gaveUp => facts'.gaveUp
        /\ ~refused(c) /\ ~absorbed(seeded, c) /\ terminal(seeded) => facts'.gaveUp
    BY <1>16, Recorded
  <2>2. /\ seeded \in States /\ seeded.on /\ seeded.await = st.await
        /\ seeded.cons = IF ~st.on /\ facts.gaveUp THEN MaxAttempts ELSE st.cons
    BY Seeded
  <2>3. /\ st'.on /\ st'.await = st.await /\ st'.cons >= seeded.cons
        /\ refused(c) => st'.cons = seeded.cons
        /\ ~refused(c) /\ absorbed(seeded, c) => st'.cons = seeded.cons
        /\ ~refused(c) /\ ~absorbed(seeded, c) =>
               st'.cons = IF terminal(seeded) THEN MaxAttempts ELSE seeded.cons + 1
        /\ st'.cons \in Nat
    BY <1>0, <2>1, <2>2, Charged
  <2>4. st'.cons = MaxAttempts /\ ~st.await /\ poll # "died" => facts'.gaveUp
    <3>1. seeded.cons = MaxAttempts /\ ~st.await /\ poll # "died" => facts.gaveUp
      BY <1>0, <1>16, <2>2
    <3>2. QED
      BY <1>0, <2>1, <2>2, <2>3, <3>1 DEF terminal
  <2>5. spawns <= seeded.cons + pending
    BY <1>0, <1>16, <2>2
  <2>6. QED
    BY <1>0, <1>16, <2>2, <2>3, <2>4, <2>5
<1>17. ASSUME NEW c \in Classes, RespawnFails(c) PROVE BudgetInv'
  <2>1. poll = "respawn"
    BY <1>17 DEF RespawnFails
  <2>2. QED
    BY <1>16, <1>17, <2>1 DEF RespawnFails, hist
<1>18. ASSUME NEW c \in Classes, RestoreFailed(c) PROVE BudgetInv'
  <2>1. rpc = "recover"
    BY <1>18 DEF RestoreFailed
  <2>2. QED
    BY <1>16, <1>18, <2>1 DEF RestoreFailed, hist
<1>19. ASSUME NEW c \in Classes, PreserveFails(c) PROVE BudgetInv'
  <2>0. /\ UNCHANGED <<lost, orphan, rpc, spawns>>
        /\ poll = "probe" /\ poll' = "observe"
    BY <1>19 DEF PreserveFails, answeredDead, hist
  <2>1. CASE refused(c)
    BY <1>0, <1>19, <2>0, <2>1 DEF PreserveFails, row
  <2>2. CASE ~refused(c) /\ absorbed(entry, c)
    <3>1. st' = charged(entry, c) /\ ~facts.gaveUp
          /\ checkpoint([facts EXCEPT !.wait = TRUE], disk)
      BY <1>19, <2>2 DEF PreserveFails, charged, refused, absorbed
    <3>2. /\ st'.on = entry.on /\ st'.cons = entry.cons /\ st'.await = entry.await
          /\ facts'.gaveUp = facts.gaveUp
      BY <1>0, <2>2, <3>1, Charged, Checkpointed, Written
    <3>3. QED
      BY <1>0, <2>0, <3>2
  <2>3. CASE ~refused(c) /\ ~absorbed(entry, c) /\ pushBudgetSpent
    <3>1. /\ st' = [entry EXCEPT !.pres = MaxAttempts, !.cons = MaxAttempts,
                                 !.backoff = FALSE]
          /\ settle([gaveUp |-> TRUE, wait |-> FALSE], disk)
      BY <1>19, <2>3 DEF PreserveFails, persistSettlement
    <3>2. st'.on = entry.on /\ st'.cons = MaxAttempts /\ st'.await = entry.await
      BY <1>0, <3>1 DEF States
    <3>3. facts'.gaveUp
      BY <3>1, Settled, Verdicts, Written
    <3>4. QED
      BY <1>0, <2>0, <3>2, <3>3
  <2>4. CASE ~refused(c) /\ ~absorbed(entry, c) /\ ~pushBudgetSpent
    <3>1. /\ st' = [entry EXCEPT !.pres = entry.pres + 1, !.backoff = TRUE]
          /\ waitOver(disk)
      BY <1>19, <2>4 DEF PreserveFails, clearLostRestoreWaitDurable
    <3>2. st'.on = entry.on /\ st'.cons = entry.cons /\ st'.await = entry.await
      BY <1>0, <3>1 DEF States
    <3>3. facts'.gaveUp = facts.gaveUp
      BY <3>1, WaitOver, Written
    <3>4. QED
      BY <1>0, <2>0, <3>2, <3>3
  <2>5. QED
    BY <2>1, <2>2, <2>3, <2>4
<1>20. CASE RestoreClaim
  <2>1. UNCHANGED <<st, lost, orphan, poll, spawns, facts>>
        /\ rpc = "idle" /\ rpc' = "probe" /\ lost /\ poll \notin {"probe", "respawn"}
    BY <1>20 DEF RestoreClaim, lockFree, row, hist
  <2>2. QED
    BY <1>0, <2>1
<1>21. CASE RestoreHealed
  <2>1. /\ rpc = "probe" /\ rpc' = "idle" /\ lost' = FALSE /\ st' = NoState
        /\ spawns' = 0 /\ poll' = poll
        /\ orphan' = IF poll = "died" THEN st ELSE orphan
    BY <1>21 DEF RestoreHealed
  <2>2. QED
    BY <1>0, <2>1
<1>22. CASE RestoreRefused \/ RestoreUnpushed
  <2>1. UNCHANGED <<st, lost, orphan, poll, spawns, facts>>
        /\ rpc = "probe" /\ rpc' \in {"idle", "recover"}
    BY <1>22 DEF RestoreRefused, RestoreUnpushed, row, hist
  <2>2. QED
    BY <1>0, <2>1
<1>23. ASSUME NEW c \in Classes, RestorePushFailed(c) PROVE BudgetInv'
  <2>1. UNCHANGED <<st, lost, orphan, poll, spawns>> /\ rpc = "probe" /\ rpc' = "idle"
    BY <1>23 DEF RestorePushFailed, hist
  <2>2. facts'.gaveUp = facts.gaveUp
    BY <1>23, WaitOver, Written DEF RestorePushFailed, clearLostRestoreWaitDurable, row
  <2>3. QED
    BY <1>0, <2>1, <2>2
<1>24. CASE RestorePushed
  <2>1. UNCHANGED <<lost, orphan, poll, spawns>> /\ rpc = "probe" /\ rpc' = "recover"
    BY <1>24 DEF RestorePushed, hist
  <2>2. facts'.gaveUp = facts.gaveUp
    BY <1>24, WaitOver, Written DEF RestorePushed, clearLostRestoreWaitDurable
  <2>3. st'.on = st.on /\ st'.cons = st.cons /\ st'.await = st.await
    BY <1>0, <1>24, Rearmed DEF RestorePushed
  <2>4. QED
    BY <1>0, <2>1, <2>2, <2>3
<1>25. ASSUME NEW c \in Classes, RestoreFailedRetired(c) PROVE BudgetInv'
  <2> DEFINE s == resetRecoverBudget(entry)
  <2>1. /\ UNCHANGED <<lost, orphan, poll>> /\ rpc = "recover" /\ rpc' = "idle"
        /\ spawns' = 0 /\ st' = charged(s, c)
    BY <1>25 DEF RestoreFailedRetired
  <2>2. PICK d \in {disk, facts, [facts EXCEPT !.wait = FALSE]} : reported(s, c, d)
    BY <1>25 DEF RestoreFailedRetired
  <2>3. s \in States /\ s.on /\ ~s.await /\ s.cons = 0 /\ s.await \in BOOLEAN
    BY <1>0, Rearmed DEF States
  <2> HIDE DEF s
  <2>4. ~refused(c) /\ ~absorbed(s, c) /\ terminal(s) => facts'.gaveUp
    BY <2>2, Written, Reported
  <2>5. /\ st'.on /\ ~st'.await
        /\ st'.cons = MaxAttempts => facts'.gaveUp
        /\ st'.cons \in Nat
    BY <1>0, <2>1, <2>3, <2>4, Charged DEF terminal
  <2>6. QED
    BY <1>0, <2>1, <2>5
<1>26. CASE RestoreSpawned
  <2>1. /\ UNCHANGED <<orphan, poll, spawns>> /\ rpc = "recover" /\ rpc' = "book"
        /\ lost' = FALSE /\ (st.on => st'.on)
    BY <1>0, <1>26, Rearmed DEF RestoreSpawned
  <2>2. QED
    BY <1>0, <2>1
<1>27. CASE RestoreBooked
  <2>1. /\ UNCHANGED <<lost, orphan, poll>> /\ rpc = "book" /\ rpc' = "idle"
        /\ spawns' = 0 /\ st'.on /\ st'.await /\ st'.cons \in Nat
    BY <1>0, <1>27, Rearmed, ZenonT(60) DEF RestoreBooked
  <2>2. QED
    BY <1>0, <2>1
<1>28. CASE Restart
  BY <1>0, <1>28 DEF Restart
<1>29. CASE UNCHANGED vars
  BY <1>1, <1>29 DEF vars, row, hist
<1>30. QED
  BY <1>2, <1>3, <1>4, <1>5, <1>6, <1>7, <1>8, <1>9, <1>10, <1>11, <1>12, <1>13,
     <1>14, <1>15, <1>17, <1>18, <1>19, <1>20, <1>21, <1>22, <1>23, <1>24,
     <1>25, <1>26, <1>27, <1>28, <1>29
  DEF Next, Poll, Restore

\* Between two events that open a new episode the poll respawns a session at most
\* lostRestoreMaxAttempts times (lostRestoreFailed), however the steps of the poll,
\* of a manual restore and of the runtime interleave.
THEOREM RespawnBoundHolds == Spec => []RespawnBound
<1>1. Init => BudgetInv
  BY EmptyStates, Limits DEF Init, BudgetInv, Covered, SpentIsVerdict, Placed,
     pending, fenced
<1>2. RowInv /\ BudgetInv /\ [Next]_vars => BudgetInv'
  BY BudgetStep DEF RowInv
<1>3. BudgetInv => RespawnBound
  BY DEF BudgetInv, Covered, RespawnBound
<1>4. QED
  BY <1>1, <1>2, <1>3, RowInvariant, PTL DEF Spec

-----------------------------------------------------------------------------
\* How charging, arming and resetting change the back-off.
LEMMA Backoffs ==
    ASSUME TypeOK, NEW s \in States, NEW c \in Classes
    PROVE  /\ ~refused(c) /\ ~absorbed(s, c) /\ charged(s, c).backoff => ~terminal(s)
           /\ \A b \in BOOLEAN : armed(s, b).backoff = s.backoff
           /\ resetPreserveBudget(s).backoff = FALSE
           /\ resetRecoverBudget(s).backoff = FALSE
           /\ entry.backoff = st.backoff /\ observedOnce.backoff = st.backoff
           /\ ~st.backoff => ~seeded.backoff
<1>1. ASSUME ~refused(c), ~absorbed(s, c)
      PROVE  charged(s, c).backoff => ~terminal(s)
  <2>1. charged(s, c) = structural(s)
    BY <1>1 DEF charged
  <2>2. QED
    BY <2>1 DEF structural, States
<1>2. /\ \A b \in BOOLEAN : armed(s, b).backoff = s.backoff
      /\ resetPreserveBudget(s).backoff = FALSE
  BY DEF armed, resetPreserveBudget, States
<1>3. resetRecoverBudget(s).backoff = FALSE
  BY DEF resetRecoverBudget, resetPreserveBudget, States
<1>4. entry.backoff = st.backoff
  BY Entries, ZenonT(60) DEF Fresh, NoState
<1>5. observedOnce.backoff = st.backoff
  BY DEF observedOnce, TypeOK, States
<1>6. ~st.backoff => ~seeded.backoff
  BY <1>4 DEF seeded, Fresh
<1>7. QED
  BY <1>1, <1>2, <1>3, <1>4, <1>5, <1>6

\* The verdict comes with a spent budget.
VerdictIsSpent == facts.gaveUp /\ ~voided /\ st.on => st.cons = MaxAttempts

\* What a step does to the verdict and the count, and what it promises.
LEMMA VerdictStep ==
    ASSUME TypeOK, Row, BudgetInv, VerdictIsSpent, [Next]_vars
    PROVE  /\ VerdictIsSpent'
           /\ ~st.backoff /\ st'.backoff /\ facts'.gaveUp => voided' \/ overtaken
<1> DEFINE Honest == ~st.backoff /\ st'.backoff /\ facts'.gaveUp => voided' \/ overtaken
<1> USE DEF VerdictIsSpent
<1>0. /\ facts \in Facts /\ "none" \in Classes
      /\ MaxAttempts \in Nat /\ MaxAttempts >= 1
      /\ st \in States /\ entry \in States /\ entry.on
      /\ st.cons \in Nat /\ st.cons <= MaxAttempts
      /\ entry.cons = st.cons /\ entry.backoff = st.backoff
      /\ (st.on => entry = st) /\ (~st.on => entry = Fresh /\ st = NoState)
      /\ ~NoState.on /\ ~NoState.backoff
      /\ st.on \in BOOLEAN /\ voided \in BOOLEAN
  <2>1. facts \in Facts /\ st \in States /\ voided \in BOOLEAN /\ "none" \in Classes
    BY DEF TypeOK, Classes
  <2>2. st.cons \in 0..MaxAttempts /\ st.on \in BOOLEAN
    BY <2>1 DEF States
  <2>3. entry.backoff = st.backoff
    BY <2>1, Backoffs
  <2>4. QED
    BY <2>1, <2>2, <2>3, Limits, Entries, EmptyStates
\* A step that leaves the count, or ends the verdict or the state.
<1>1. ASSUME facts'.gaveUp => facts.gaveUp /\ voided' = voided,
             st'.on => st.on /\ st'.cons = st.cons, st'.backoff => st.backoff
      PROVE  VerdictIsSpent' /\ Honest
  BY <1>1
<1>2. ASSUME ~facts'.gaveUp PROVE VerdictIsSpent' /\ Honest
  BY <1>2
<1>3. ASSUME st' = NoState PROVE VerdictIsSpent' /\ Honest
  BY <1>0, <1>3
<1>4. CASE FlushOwed \/ ObserveNothing \/ EnterNot \/ TryLock \/ Contended
           \/ RestoreClaim \/ RestoreRefused \/ RestoreUnpushed \/ Die \/ Revive
           \/ WindowMoves
  <2>1. UNCHANGED <<facts, st, voided>>
    BY <1>4 DEF FlushOwed, ObserveNothing, EnterNot, TryLock, Contended,
       RestoreClaim, RestoreRefused, RestoreUnpushed, Die, Revive, WindowMoves, row,
       hist
  <2>2. QED
    BY <1>1, <2>1
<1>5. CASE BackoffOver
  <2>1. /\ [st EXCEPT !.backoff = FALSE].on = st.on
        /\ [st EXCEPT !.backoff = FALSE].cons = st.cons
        /\ [st EXCEPT !.backoff = FALSE].backoff = FALSE
    BY <1>0 DEF States
  <2>2. QED
    BY <1>1, <1>5, <2>1 DEF BackoffOver, row, hist
<1>6. CASE ObserveAlive
  <2>1. st'.on = st.on /\ st'.cons = st.cons /\ st'.backoff = st.backoff
    BY <1>0, <1>6, Entries, Backoffs DEF ObserveAlive
  <2>2. facts' = facts \/ ~facts'.gaveUp
    BY <1>6, Settled, Verdicts, Written DEF ObserveAlive, persistSettlement, row
  <2>3. voided' = (voided /\ facts'.gaveUp)
    BY <1>6 DEF ObserveAlive
  <2>4. QED
    BY <1>0, <2>1, <2>2, <2>3
<1>7. CASE ObserveGone
  <2>1. UNCHANGED <<facts, st, voided>>
    BY <1>7 DEF ObserveGone, checkpoint, row, hist
  <2>2. QED
    BY <1>1, <2>1
<1>8. CASE Sweep
  <2>1. facts'.gaveUp = facts.gaveUp /\ voided' = voided
        /\ (st' = st \/ st' = NoState)
    BY <1>8, Written, WaitOver DEF Sweep, clearLostRestoreWaitDurable, row
  <2>2. QED
    BY <1>1, <1>3, <2>1
<1>9. CASE Enter
  <2>1. facts'.gaveUp = facts.gaveUp /\ ~facts.gaveUp
    BY <1>9, Written, WaitOver DEF Enter, clearLostRestoreWaitDurable, row,
       wantsRestore
  <2>2. QED
    BY <1>2, <2>1
<1>10. CASE Died
  <2>1. voided' = voided
    BY <1>10 DEF Died, hist
  <2>2. CASE orphan.on
    <3>1. st' = st /\ ~st.on
      BY <1>10, <2>2 DEF Died, BudgetInv, Placed
    <3>2. QED
      BY <1>0, <3>1
  <2>3. CASE ~orphan.on
    <3>1. st' = charged(entry, "none") /\ reported(entry, "none", disk) /\ st.on
      BY <1>10, <2>3 DEF Died, BudgetInv, Placed
    <3>2. ~refused("none") /\ ~absorbed(entry, "none")
      BY DEF refused, absorbed
    <3>3. /\ st'.cons = IF terminal(entry) THEN MaxAttempts ELSE entry.cons + 1
          /\ (st'.backoff => ~terminal(entry))
      <4>1. st'.cons = IF terminal(entry) THEN MaxAttempts ELSE entry.cons + 1
        BY <1>0, <3>1, <3>2, Charged
      <4>2. st'.backoff => ~terminal(entry)
        BY <1>0, <3>1, <3>2, Backoffs
      <4>3. QED
        BY <4>1, <4>2
    <3>4. ~terminal(entry) => facts'.gaveUp = facts.gaveUp
      BY <1>0, <3>1, <3>2, Written, Reported
    <3>5. QED
      BY <1>0, <2>1, <3>1, <3>3, <3>4 DEF terminal
  <2>4. QED
    BY <2>2, <2>3
<1>11. CASE ProbeAlive \/ FlapBoundBeforePush \/ FlapBound \/ RestoreHealed \/ Restart
  BY <1>3, <1>11 DEF ProbeAlive, FlapBoundBeforePush, FlapBound,
     lostRestoreFlapGiveUp, RestoreHealed, Restart
<1>12. CASE ProbeUnknown \/ ProbeAbsent
  <2>1. ASSUME NEW b \in BOOLEAN
        PROVE  /\ [entry EXCEPT !.backoff = b].on = entry.on
               /\ [entry EXCEPT !.backoff = b].cons = entry.cons
    BY <1>0 DEF States
  <2>2. /\ st'.on = entry.on /\ st'.cons = entry.cons
        /\ UNCHANGED <<facts, voided>> /\ poll = "probe"
    BY <1>12, <2>1 DEF ProbeUnknown, ProbeAbsent, row, hist
  <2>3. st.on
    BY <2>2 DEF BudgetInv, Placed
  <2>4. QED
    BY <1>0, <2>2, <2>3 DEF overtaken
<1>13. CASE Preserved
  <2>1. facts'.gaveUp = facts.gaveUp /\ voided' = voided /\ poll = "probe"
    BY <1>13, Written, WaitOver DEF Preserved, clearLostRestoreWaitDurable, hist,
       answeredDead
  <2>2. st.on
    BY <2>1 DEF BudgetInv, Placed
  <2>3. st'.on = st.on /\ st'.cons = st.cons /\ ~st'.backoff
    BY <1>0, <1>13, <2>2, Rearmed, Backoffs DEF Preserved
  <2>4. QED
    BY <1>1, <2>1, <2>3
<1>14. CASE Respawned \/ RestoreSpawned \/ RestoreBooked
  <2>1. ~facts'.gaveUp
    BY <1>14, Written, Settled, Verdicts DEF Respawned, RestoreSpawned, RestoreBooked,
       runtimeReplaced, persistSettlement
  <2>2. QED
    BY <1>2, <2>1
<1>15. ASSUME NEW c \in Classes, PreserveFails(c) PROVE VerdictIsSpent' /\ Honest
  <2>0. poll = "probe" /\ voided' = voided
    BY <1>15 DEF PreserveFails, answeredDead, hist
  <2>1. CASE refused(c)
    BY <1>1, <1>15, <2>0, <2>1 DEF PreserveFails, row
  <2>2. CASE ~refused(c) /\ absorbed(entry, c)
    <3>1. ~facts.gaveUp /\ checkpoint([facts EXCEPT !.wait = TRUE], disk)
      BY <1>15, <2>2 DEF PreserveFails, refused, absorbed
    <3>2. QED
      BY <1>2, <3>1, Checkpointed, Written
  <2>3. CASE ~refused(c) /\ ~absorbed(entry, c) /\ pushBudgetSpent
    <3>1. st' = [entry EXCEPT !.pres = MaxAttempts, !.cons = MaxAttempts,
                              !.backoff = FALSE]
      BY <1>15, <2>3 DEF PreserveFails
    <3>2. st'.cons = MaxAttempts /\ ~st'.backoff
      BY <1>0, <3>1 DEF States
    <3>3. QED
      BY <3>2
  <2>4. CASE ~refused(c) /\ ~absorbed(entry, c) /\ ~pushBudgetSpent
    <3>1. /\ st' = [entry EXCEPT !.pres = entry.pres + 1, !.backoff = TRUE]
          /\ waitOver(disk)
      BY <1>15, <2>4 DEF PreserveFails, clearLostRestoreWaitDurable
    <3>2. st'.on = entry.on /\ st'.cons = entry.cons
      BY <1>0, <3>1 DEF States
    <3>3. facts'.gaveUp = facts.gaveUp
      BY <3>1, WaitOver, Written
    <3>4. st.on
      BY <2>0 DEF BudgetInv, Placed
    <3>5. QED
      BY <1>0, <2>0, <3>2, <3>3, <3>4 DEF overtaken
  <2>5. QED
    BY <2>1, <2>2, <2>3, <2>4
<1>16. ASSUME NEW c \in Classes, RespawnFails(c) \/ RestoreFailed(c)
       PROVE  VerdictIsSpent' /\ Honest
  <2>0. recordLostRestoreFailure(seeded, c) /\ voided' = voided
    BY <1>16 DEF RespawnFails, RestoreFailed, hist
  <2>1. /\ st' = charged(seeded, c)
        /\ ~(~refused(c) /\ ~absorbed(seeded, c) /\ terminal(seeded)) =>
               facts'.gaveUp = facts.gaveUp
    BY <2>0, Recorded
  <2>2. /\ seeded \in States
        /\ seeded.cons = IF ~st.on /\ facts.gaveUp THEN MaxAttempts ELSE st.cons
        /\ ~st.backoff => ~seeded.backoff
    BY <1>0, Seeded, Backoffs
  <2>3. CASE refused(c)
    <3>1. st' = seeded
      BY <1>0, <2>1, <2>2, <2>3, Charged
    <3>2. QED
      BY <2>0, <2>1, <2>2, <2>3, <3>1
  <2>4. CASE ~refused(c) /\ absorbed(seeded, c)
    <3>1. ~facts'.gaveUp
      BY <2>1, <2>4 DEF refused, absorbed
    <3>2. QED
      BY <1>2, <3>1
  <2>5. CASE ~refused(c) /\ ~absorbed(seeded, c)
    <3>1. /\ st'.cons = IF terminal(seeded) THEN MaxAttempts ELSE seeded.cons + 1
          /\ (st'.backoff => ~terminal(seeded))
      <4>1. st'.cons = IF terminal(seeded) THEN MaxAttempts ELSE seeded.cons + 1
        BY <1>0, <2>1, <2>2, <2>5, Charged
      <4>2. st'.backoff => ~terminal(seeded)
        BY <1>0, <2>1, <2>2, <2>5, Backoffs
      <4>3. QED
        BY <4>1, <4>2
    <3>2. ~terminal(seeded) /\ facts.gaveUp => voided
      BY <1>0, <2>2 DEF terminal
    <3>3. QED
      BY <2>0, <2>1, <2>5, <3>1, <3>2
  <2>6. QED
    BY <2>3, <2>4, <2>5
<1>17. ASSUME NEW c \in Classes, RestoreFailedRetired(c)
       PROVE  VerdictIsSpent' /\ Honest
  <2> DEFINE s == resetRecoverBudget(entry)
  <2>1. st' = charged(s, c) /\ voided' = facts.gaveUp
    BY <1>17 DEF RestoreFailedRetired
  <2>2. PICK d \in {disk, facts, [facts EXCEPT !.wait = FALSE]} : reported(s, c, d)
    BY <1>17 DEF RestoreFailedRetired
  <2>3. s \in States
    BY <1>0, Rearmed
  <2> HIDE DEF s
  <2>4. ~(~refused(c) /\ ~absorbed(s, c) /\ terminal(s)) => facts'.gaveUp = facts.gaveUp
    BY <2>2, Written, Reported
  <2>5. ~refused(c) /\ ~absorbed(s, c) /\ terminal(s) =>
            st'.cons = MaxAttempts /\ ~st'.backoff
    BY <1>0, <2>1, <2>3, Charged, Backoffs, ZenonT(60)
  <2>6. QED
    BY <2>1, <2>4, <2>5
<1>18. ASSUME NEW c \in Classes, RestorePushFailed(c) PROVE VerdictIsSpent' /\ Honest
  <2>1. UNCHANGED <<st, voided>>
    BY <1>18 DEF RestorePushFailed, hist
  <2>2. facts'.gaveUp = facts.gaveUp
    BY <1>18, WaitOver, Written DEF RestorePushFailed, clearLostRestoreWaitDurable, row
  <2>3. QED
    BY <1>1, <2>1, <2>2
<1>19. CASE RestorePushed
  <2>1. facts'.gaveUp = facts.gaveUp /\ voided' = voided
    BY <1>19, WaitOver, Written DEF RestorePushed, clearLostRestoreWaitDurable, hist
  <2>2. st'.on = st.on /\ st'.cons = st.cons /\ (st'.backoff => st.backoff)
    BY <1>0, <1>19, Rearmed, Backoffs DEF RestorePushed
  <2>3. QED
    BY <1>1, <2>1, <2>2
<1>20. CASE UNCHANGED vars
  BY <1>1, <1>20 DEF vars, row, hist
<1>21. QED
  BY <1>4, <1>5, <1>6, <1>7, <1>8, <1>9, <1>10, <1>11, <1>12, <1>13, <1>14, <1>15,
     <1>16, <1>17, <1>18, <1>19, <1>20
  DEF Next, Poll, Restore

\* No failed attempt promises a retry that the verdict on the row forbids
\* (recordLostRestoreFailure seeds the count from the verdict), but for the two
\* cases NoDeadPromise names.
THEOREM NoDeadPromiseHolds == Spec => NoDeadPromise
<1>1. Init => BudgetInv /\ VerdictIsSpent
  BY EmptyStates, Limits, Verdicts DEF Init, BudgetInv, Covered, SpentIsVerdict,
     Placed, pending, fenced, VerdictIsSpent
<1>2. RowInv /\ BudgetInv /\ VerdictIsSpent /\ [Next]_vars =>
          BudgetInv' /\ VerdictIsSpent'
  BY BudgetStep, VerdictStep DEF RowInv
<1>3. RowInv /\ BudgetInv /\ VerdictIsSpent /\ [Next]_vars =>
          [~st.backoff /\ st'.backoff /\ facts'.gaveUp => voided' \/ overtaken]_vars
  BY VerdictStep DEF RowInv
<1>4. QED
  BY <1>1, <1>2, <1>3, RowInvariant, PTL DEF Spec, NoDeadPromise
=============================================================================
