---------------------- MODULE UpgradeTransactionProofs ----------------------
(***************************************************************************)
(* The safety of UpgradeTransaction and its refinement of AtomicUpgrade,   *)
(* for any number of snapshot entries, transactions, faults, deaths and    *)
(* rival starts.                                                           *)
(***************************************************************************)
EXTENDS UpgradeTransaction, TLAPS

\* TypeOK in four parts, for the proofs.
JournalType ==
    /\ journal \in Journals \union {NoTxn}
    /\ survivors \subseteq Journals \union {NoTxn}
    /\ pc \in Steps /\ unconfirmed \in BOOLEAN /\ faults \in 0..MaxFaults
FileType ==
    /\ exe \in Bytes /\ exeSurvivors \subseteq Bytes
    /\ data \in [1..Entries -> {"old", "migrated"}]
ProcType ==
    /\ daemon \in Daemons \union {NoDaemon} /\ dying \in BOOLEAN
    /\ boot \subseteq Starting
RestType ==
    /\ trigger \in {"idle", "prepared", "waiting", "aborting", "ready", "proved"}
    /\ {proof, approved} \subseteq {"none", "mine", "stale"}
    /\ job \in {"absent", "armed", "disabled"} /\ due \in BOOLEAN
    /\ starts \in 0..StartLimitBurst
    /\ run \in [first : BOOLEAN, takeover : BOOLEAN, candOK : BOOLEAN,
                prevStarted : BOOLEAN, prevOK : BOOLEAN]
    /\ status \in Phases \union {"none"}
    /\ {ledger, ran, landed} \subseteq BOOLEAN
    /\ crashes \in 0..MaxCrashes /\ rivals \in 0..MaxRivals /\ txns \in 0..MaxTxns

(***************************************************************************)
(* First layer: the journal, the executable and the actor's program point. *)
(***************************************************************************)
OldBytes == exe = "previous" /\ exeSurvivors = {"previous"}
NewBytes == exe = "candidate" /\ exeSurvivors = {"candidate"}

\* The phases that speak for the executable.
Untouched == {"prepared", "supervisor_ready", "daemon_stopping", "aborted"}
Restored  == {"rollback_restored", "previous_starting", "previous_validating", "rolled_back"}
OldPhases == Untouched \union Restored
NewPhases == {"candidate_installed", "candidate_starting", "candidate_validating",
              "committed"}

\* What a journal that a power loss may leave says of the executable is true.
JournalOK(j) ==
    /\ j.phase \in OldPhases => OldBytes
    /\ j.phase \in NewPhases => NewBytes /\ j.inst
    /\ j.phase \in Untouched => ~j.inst
    /\ j.bin => OldBytes /\ j.phase \in Restored \union {"rolling_back", "rollback_failed"}
    /\ j = NoTxn => exeSurvivors = {exe}

Idle == {"none", "prepared", "aborted", "rolled_back", "committed"}

\* The journal is one of its survivors, and what may be left of an earlier
\* transaction is left only beside no transaction or a fresh one.
SurvivorsOK ==
    /\ journal \in survivors /\ exe \in exeSurvivors
    /\ \A j \in survivors : JournalOK(j)
    /\ NoTxn \in survivors => journal.phase \in {"none", "prepared"}
    /\ journal.phase \in {"none", "prepared"} => \A j \in survivors : j.phase \in Idle

\* Where the actor's copy may be ahead of the disk.
Loose   == {"none", "enter", "leaving"}
MayOpen == Loose \union {"unwind", "rollback", "restoreFailed", "failing"}
DurableOK ==
    /\ pc = "enter" => unconfirmed
    /\ pc \notin MayOpen => ~unconfirmed
    /\ pc \notin Loose /\ ~unconfirmed => survivors = {journal}

\* The phase at each program point.
PhaseOK ==
    /\ pc \in {"handoff", "rearm"} => journal = NoTxn
    /\ pc \notin {"none", "leaving", "handoff", "rearm"} => journal # NoTxn
    /\ pc = "abort" => journal.phase \in {"supervisor_ready", "daemon_stopping"}
    /\ pc = "stopped" => journal.phase = "daemon_stopping"
    /\ pc = "installed" => journal.phase = "daemon_stopped" /\ NewBytes
    /\ pc = "launched" => journal.phase = "candidate_starting"
    /\ pc = "validated" => journal.phase = "candidate_validating"
    /\ pc \in {"relaunched", "approve"} => journal.phase = "committed"
    /\ pc \in {"unwind", "rollback"} => preCommit(journal.phase)
    /\ pc \in {"restore", "restoreBinary", "binaryRestored", "restoreMetadata",
               "entryRestored", "restored", "restoreFailed"} => journal.phase = "rolling_back"
    /\ pc = "binaryRestored" => OldBytes
    /\ pc \in {"restoreMetadata", "entryRestored", "restored"} => journal.bin
    /\ pc = "entryRestored" => journal.meta < Entries
    /\ pc = "failing" => journal.phase \in {"previous_starting", "previous_validating",
                                            "rolled_back", "rollback_failed"}
    /\ pc = "failing" /\ unconfirmed => journal.phase = "rollback_failed"
    /\ pc = "reject" => journal.phase \in {"rolled_back", "rollback_failed"}
    /\ pc = "disable" => terminalPhase(journal.phase) \/ journal.phase = "rollback_failed"
    /\ pc = "cleanup" => terminalPhase(journal.phase)
    /\ pc = "prevStarted" => journal.phase = "previous_starting"
    /\ pc = "prevValid" => journal.phase = "previous_validating"

CoreInv ==
    /\ JournalType /\ FileType /\ ProcType /\ RestType
    /\ SurvivorsOK /\ DurableOK /\ PhaseOK

(***************************************************************************)
(* Second layer: the rejected ledger and the recovery job.                 *)
(***************************************************************************)
CandidateRuns == ran \/ \E p \in boot : p.txn /\ p.bytes = "candidate"

LedgerInv ==
    /\ CandidateRuns =>
          \/ ledger
          \/ \A j \in survivors : j.inst \/ (j = NoTxn /\ exe = "candidate")
    /\ ledger \/ "candidate" \in exeSurvivors \/ (\E j \in survivors : j.inst) => landed
    /\ pc \in {"disable", "cleanup"} /\ journal.phase \notin {"committed", "aborted"}
          /\ journal.inst => ledger
    /\ job = "disabled" =>
          \A j \in survivors :
             /\ terminalPhase(j.phase) \/ j.phase \in {"none", "rollback_failed"}
             /\ j.phase \in {"rolled_back", "rollback_failed"} /\ j.inst => ledger

-----------------------------------------------------------------------------
\* The bounds are numbers.
LEMMA Bounds ==
    /\ Entries \in Nat /\ MaxTxns \in Nat /\ MaxFaults \in Nat /\ MaxCrashes \in Nat
    /\ MaxRivals \in Nat /\ SameVersion \in BOOLEAN /\ StartLimitBurst \in Nat \ {0}
  BY UpgradeAssumption DEF UpgradeAssumption

\* No transaction is no journal.
LEMMA NoTxnFacts ==
    /\ NoTxn.phase = "none" /\ NoTxn.inst = FALSE /\ NoTxn.bin = FALSE /\ NoTxn.meta = 0
    /\ \A j \in Journals : j.phase \in Phases /\ j.phase # "none" /\ j # NoTxn
  BY DEF NoTxn, Journals, Phases

\* A start, granted or refused, keeps the count of starts within its limit.
LEMMA StartsBounded ==
    starts \in 0..StartLimitBurst /\ (Start \/ Restart) =>
       due' \in BOOLEAN /\ starts' \in 0..StartLimitBurst
  <1> SUFFICES ASSUME starts \in 0..StartLimitBurst, Start \/ Restart
               PROVE  due' \in BOOLEAN /\ starts' \in 0..StartLimitBurst
    OBVIOUS
  <1>1. /\ due' = TRUE \/ due' = FALSE
        /\ \/ starts' = IF starts < StartLimitBurst THEN starts + 1 ELSE starts
           \/ starts' = starts
    BY DEF Start, Restart
  <1>2. starts' \in 0..StartLimitBurst
    BY <1>1, Bounds
  <1>3. QED
    BY <1>1, <1>2

\* A copy of a journal in another phase.
LEMMA JournalCopy ==
    ASSUME NEW j \in Journals, NEW p \in Phases
    PROVE  LET k == [j EXCEPT !.phase = p]
           IN  /\ k \in Journals /\ k.phase = p /\ k.inst = j.inst /\ k.bin = j.bin
               /\ k.meta = j.meta
  BY DEF Journals

\* The other copies that are written.
LEMMA MarkerCopies ==
    ASSUME NEW j \in Journals
    PROVE  /\ LET k == [j EXCEPT !.phase = "candidate_installed", !.inst = TRUE]
              IN  /\ k \in Journals /\ k.phase = "candidate_installed" /\ k.inst = TRUE
                  /\ k.bin = j.bin /\ k.meta = j.meta
           /\ LET k == [j EXCEPT !.inst = TRUE]
              IN  /\ k \in Journals /\ k.phase = j.phase /\ k.inst = TRUE
                  /\ k.bin = j.bin /\ k.meta = j.meta
           /\ LET k == [j EXCEPT !.bin = TRUE]
              IN  /\ k \in Journals /\ k.phase = j.phase /\ k.inst = j.inst
                  /\ k.bin = TRUE /\ k.meta = j.meta
  <1>1. "candidate_installed" \in Phases
    BY DEF Phases
  <1>2. QED
    BY <1>1 DEF Journals

\* A copy of a journal that restored one more entry.
LEMMA EntryCopy ==
    ASSUME NEW j \in Journals, j.meta < Entries
    PROVE  LET k == [j EXCEPT !.meta = @ + 1]
           IN  /\ k \in Journals /\ k.phase = j.phase /\ k.inst = j.inst
               /\ k.bin = j.bin /\ k.meta = j.meta + 1
  <1>1. j.meta + 1 \in 0..Entries
    BY Bounds DEF Journals
  <1>2. QED
    BY <1>1 DEF Journals

\* A process that starts runs the bytes on disk.
LEMMA StartedType ==
    ASSUME FileType, NEW t \in BOOLEAN
    PROVE  started(t) \in Starting /\ started(t).bytes = exe /\ started(t).txn = t
           /\ started(t).slow = FALSE
  BY DEF started, Starting, FileType

\* The three outcomes of a journal write.
LEMMA WriteType ==
    ASSUME JournalType, NEW j \in Journals, NEW durable \in Steps, NEW visible \in Steps,
           NEW lost \in Steps, write(j, durable, visible, lost)
    PROVE  JournalType'
  <1>1. /\ journal' \in Journals \union {NoTxn} /\ survivors' \subseteq Journals \union {NoTxn}
        /\ unconfirmed' \in BOOLEAN
    BY DEF JournalType, write
  <1>2. pc' \in Steps /\ faults' \in 0..MaxFaults
    BY Bounds DEF JournalType, write, Fault, NoFault
  <1>3. QED
    BY <1>1, <1>2 DEF JournalType

\* A write of a phase keeps the types.
LEMMA PhaseWriteType ==
    ASSUME JournalType, journal \in Journals, NEW p \in Phases, NEW good \in Steps,
           NEW bad \in Steps, persistPhase(p, good, bad)
    PROVE  JournalType'
  BY JournalCopy, WriteType DEF persistPhase, persistJournal

\* Writing a journal again that may not be durable keeps the types.
LEMMA ReaffirmType ==
    ASSUME JournalType, journal \in Journals, NEW good \in Steps,
           reaffirmDurableJournal(good)
    PROVE  JournalType'
  <1>1. CASE unconfirmed
    <2>1. journal.phase \in Phases /\ "leaving" \in Steps
      BY NoTxnFacts DEF Steps
    <2>2. QED
      BY <1>1, <2>1, PhaseWriteType DEF reaffirmDurableJournal
  <1>2. CASE ~unconfirmed
    BY <1>2 DEF reaffirmDurableJournal, JournalType, NoFault
  <1>3. QED
    BY <1>1, <1>2

\* Every write is of one journal, over the one that is visible; what it leaves.
LEMMA WriteSurvivors ==
    ASSUME JournalType, SurvivorsOK, UNCHANGED <<exe, exeSurvivors>>,
           NEW j \in Journals, JournalOK(j), NEW good, NEW visible, NEW lost,
           write(j, good, visible, lost), journal # NoTxn,
           \/ j.phase = journal.phase
           \/ j.phase # "prepared" /\ (journal.phase = "prepared" => survivors = {journal})
    PROVE  SurvivorsOK'
  <1>1. journal \in Journals /\ journal.phase # "none" /\ journal.phase \in Phases
    BY NoTxnFacts DEF JournalType
  <1>2. \A k \in survivors' : JournalOK(k)'
    <2>1. survivors' \subseteq survivors \union {j}
      BY DEF write
    <2>2. QED
      BY <2>1 DEF SurvivorsOK, JournalOK, OldBytes, NewBytes
  <1>3. journal' \in survivors'
    BY DEF write, SurvivorsOK
  <1>4. NoTxn \in survivors' => journal'.phase \in {"none", "prepared"}
    BY <1>1, NoTxnFacts DEF write, SurvivorsOK
  <1>5. journal'.phase \in {"none", "prepared"} => \A k \in survivors' : k.phase \in Idle
    BY <1>1, NoTxnFacts DEF write, SurvivorsOK, Idle
  <1>6. QED
    BY <1>2, <1>3, <1>4, <1>5 DEF SurvivorsOK

\* Enter keeps the first layer.
LEMMA EnterCore == CoreInv /\ Enter => CoreInv'
  <1> SUFFICES ASSUME CoreInv, Enter PROVE CoreInv'
    OBVIOUS
  <1> USE NoTxnFacts DEF CoreInv
  <1>1. UNCHANGED <<exe, exeSurvivors, data, daemon, dying, boot, trigger, proof, approved,
        job, due, starts, run, status, ledger, ran, landed, crashes, rivals, txns>>
    BY DEF Enter, files, procs, old, service, history, bounds
  <1>2. FileType' /\ ProcType' /\ RestType'
    BY <1>1 DEF FileType, ProcType, RestType
  <1>3. JournalType'
    <2>1. journal \in Journals
      BY DEF Enter, JournalType, PhaseOK
    <2>2. QED
      BY <2>1, ReaffirmType DEF Enter, Steps
  <1>4. SurvivorsOK'
    <2>1. journal \in Journals /\ JournalOK(journal)
      BY DEF Enter, JournalType, PhaseOK, SurvivorsOK
    <2>2. CASE unconfirmed
      <3> DEFINE j == [journal EXCEPT !.phase = journal.phase]
      <3>1. j \in Journals /\ j.phase = journal.phase /\ j.inst = journal.inst
            /\ j.bin = journal.bin
        BY <2>1, NoTxnFacts, JournalCopy
      <3>2. JournalOK(j)
        BY <2>1, <3>1, NoTxnFacts DEF JournalOK
      <3>3. PICK good \in Steps : write(j, good, "leaving", "leaving")
        BY <2>2 DEF Enter, reaffirmDurableJournal, persistPhase, persistJournal, Steps
      <3> HIDE DEF j
      <3>4. QED
        BY <2>1, <3>1, <3>2, <3>3, NoTxnFacts, WriteSurvivors DEF Enter, files
    <2>3. CASE ~unconfirmed
      BY <2>3 DEF Enter, DurableOK
    <2>4. QED
      BY <2>2, <2>3
  <1>5. DurableOK'
    BY JournalCopy DEF Enter, persistPhase, persistJournal, write, reaffirmDurableJournal,
       DurableOK, Restored, Idle, MayOpen, Loose, OldBytes
  <1>6. PhaseOK'
    <2>1. journal \in Journals /\ journal.phase \in Phases /\ unconfirmed
      BY DEF Enter, JournalType, PhaseOK, DurableOK
    <2>2. pc' \in {"leaving", "abort", "loop"} /\ journal' \in Journals
          /\ journal'.phase = journal.phase
      BY <2>1, JournalCopy, ZenonT(60) DEF Enter, reaffirmDurableJournal, persistPhase,
         persistJournal,
         write
    <2>3. pc' = "abort" => journal.phase = "supervisor_ready"
      BY <2>1 DEF Enter, reaffirmDurableJournal, persistPhase, persistJournal, write
    <2>4. QED
      BY <2>1, <2>2, <2>3 DEF PhaseOK
  <1>7. QED
    BY <1>2, <1>3, <1>4, <1>5, <1>6

\* Abort keeps the first layer.
LEMMA AbortCore == CoreInv /\ Abort => CoreInv'
  <1> SUFFICES ASSUME CoreInv, Abort PROVE CoreInv'
    OBVIOUS
  <1> USE NoTxnFacts DEF CoreInv
  <1>1. UNCHANGED <<exe, exeSurvivors, data, daemon, dying, boot, trigger, proof, approved,
        job, due, starts, run, status, ledger, ran, landed, crashes, rivals, txns>>
    BY DEF Abort, files, procs, old, service, history, bounds
  <1>2. FileType' /\ ProcType' /\ RestType'
    BY <1>1 DEF FileType, ProcType, RestType
  <1>3. JournalType'
    <2>1. journal \in Journals
      BY DEF Abort, JournalType, PhaseOK
    <2>2. "aborted" \in Phases /\ "loop" \in Steps /\ "leaving" \in Steps
      BY DEF Phases, Steps
    <2>3. persistPhase("aborted", "loop", "leaving")
      BY DEF Abort
    <2>4. QED
      BY <2>1, <2>2, <2>3, PhaseWriteType
  <1>4. SurvivorsOK'
    BY JournalCopy DEF Abort, files, persistPhase, persistJournal, write, JournalType,
       Journals, SurvivorsOK, DurableOK, PhaseOK, JournalOK, OldPhases, NewPhases,
       Untouched, Restored, MayOpen, Loose, OldBytes
  <1>5. DurableOK'
    BY JournalCopy DEF Abort, persistPhase, persistJournal, write, DurableOK, MayOpen,
       Loose
  <1>6. PhaseOK'
    BY JournalCopy DEF Abort, persistPhase, persistJournal, write, JournalType, PhaseOK
  <1>7. QED
    BY <1>2, <1>3, <1>4, <1>5, <1>6

\* Loop keeps the first layer.
LEMMA LoopCore == CoreInv /\ Loop => CoreInv'
  <1> SUFFICES ASSUME CoreInv, Loop PROVE CoreInv'
    OBVIOUS
  <1> USE NoTxnFacts DEF CoreInv
  <1>1. UNCHANGED <<exe, exeSurvivors, data, daemon, dying, boot>>
    BY DEF Loop, files, procs
  <1>2. FileType' /\ ProcType'
    BY <1>1 DEF FileType, ProcType
  <1>3. JournalType'
    <2>1. journal \in Journals
      BY DEF Loop, JournalType, PhaseOK
    <2>2. loopHead \in Steps
      BY DEF loopHead, Steps
    <2>3. CASE reaffirmDurableJournal(loopHead)
      BY <2>1, <2>2, <2>3, ReaffirmType
    <2>4. CASE Fault /\ Fail /\ UNCHANGED <<journal, survivors, unconfirmed>>
      BY <2>4, Bounds DEF Fault, Fail, JournalType, Steps
    <2>5. QED
      BY <2>3, <2>4 DEF Loop
  <1>4. RestType'
    BY Bounds, ZenonT(60) DEF Loop, old, service, history, bounds, RestType, JournalType
  <1>5. SurvivorsOK'
    BY JournalCopy DEF Loop, files, persistPhase, persistJournal, write,
       reaffirmDurableJournal, JournalType, Journals, SurvivorsOK, PhaseOK, JournalOK,
       OldBytes, NewBytes
  <1>6. DurableOK'
    BY JournalCopy DEF Loop, Fail, reaffirmDurableJournal, loopHead, DurableOK, MayOpen,
       Loose
  <1>7. PhaseOK'
    BY JournalCopy DEF Loop, Fail, persistPhase, persistJournal, write,
       reaffirmDurableJournal, loopHead, JournalType, Journals, PhaseOK
  <1>8. QED
    BY <1>2, <1>3, <1>4, <1>5, <1>6, <1>7

\* advance keeps the first layer.
LEMMA advanceCore == CoreInv /\ advance => CoreInv'
  <1> SUFFICES ASSUME CoreInv, advance PROVE CoreInv'
    OBVIOUS
  <1> USE NoTxnFacts DEF CoreInv
  <1>1. UNCHANGED <<exe, exeSurvivors, data, daemon, dying, boot, trigger, proof, approved,
        job, due, starts, run, status, ledger, ran, landed, crashes, rivals, txns>>
    BY DEF advance, files, procs, old, service, history, bounds
  <1>2. FileType' /\ ProcType' /\ RestType'
    BY <1>1 DEF FileType, ProcType, RestType
  <1>3. JournalType'
    <2>1. journal \in Journals
      BY DEF advance, At, JournalType, PhaseOK
    <2>2. \E p \in Phases, good \in {"loop", "unwind"} : persistPhase(p, good, "leaving")
      BY DEF advance, Phases
    <2>3. "loop" \in Steps /\ "unwind" \in Steps /\ "leaving" \in Steps
      BY DEF Steps
    <2>4. QED
      BY <2>1, <2>2, <2>3, PhaseWriteType
  <1>4. SurvivorsOK'
    BY JournalCopy DEF advance, files, At, persistPhase, persistJournal, write,
       JournalType, Journals, SurvivorsOK, DurableOK, PhaseOK, JournalOK, OldPhases,
       NewPhases, Untouched, Restored, MayOpen, Loose, OldBytes, NewBytes
  <1>5. DurableOK'
    BY JournalCopy DEF advance, persistPhase, persistJournal, write, DurableOK, MayOpen,
       Loose
  <1>6. PhaseOK'
    BY JournalCopy DEF advance, At, persistPhase, persistJournal, write, JournalType,
       Journals, PhaseOK, preCommit
  <1>7. QED
    BY <1>2, <1>3, <1>4, <1>5, <1>6

\* AwaitActivation keeps the first layer.
LEMMA AwaitActivationCore == CoreInv /\ AwaitActivation => CoreInv'
  <1> SUFFICES ASSUME CoreInv, AwaitActivation PROVE CoreInv'
    OBVIOUS
  <1> USE NoTxnFacts DEF CoreInv
  <1>1. UNCHANGED <<exe, exeSurvivors, data, daemon, dying, boot, trigger, proof, approved,
        job, due, starts, run, status, ledger, ran, landed, crashes, rivals, txns>>
    BY DEF AwaitActivation, files, procs, old, service, history, bounds
  <1>2. FileType' /\ ProcType' /\ RestType'
    BY <1>1 DEF FileType, ProcType, RestType
  <1>3. JournalType'
    <2>1. journal \in Journals
      BY DEF AwaitActivation, At, JournalType, PhaseOK
    <2>2. CASE persistPhase("daemon_stopping", "loop", "leaving")
      BY <2>1, <2>2, PhaseWriteType DEF Phases, Steps
    <2>3. CASE ~persistPhase("daemon_stopping", "loop", "leaving")
      BY <2>3, Bounds DEF AwaitActivation, Fault, NoFault, Fail, JournalType, Steps
    <2>4. QED
      BY <2>2, <2>3
  <1>4. SurvivorsOK'
    BY JournalCopy DEF AwaitActivation, files, At, persistPhase, persistJournal, write,
       JournalType, Journals, SurvivorsOK, DurableOK, JournalOK, OldPhases, NewPhases,
       Untouched, Restored, MayOpen, Loose, OldBytes
  <1>5. DurableOK'
    BY JournalCopy DEF AwaitActivation, Fail, At, persistPhase, persistJournal, write,
       DurableOK, MayOpen, Loose
  <1>6. PhaseOK'
    BY JournalCopy DEF AwaitActivation, Fail, At, persistPhase, persistJournal, write,
       JournalType, PhaseOK
  <1>7. QED
    BY <1>2, <1>3, <1>4, <1>5, <1>6

\* StopPrevious keeps the first layer.
LEMMA StopPreviousCore == CoreInv /\ StopPrevious => CoreInv'
  <1> SUFFICES ASSUME CoreInv, StopPrevious PROVE CoreInv'
    OBVIOUS
  <1> USE NoTxnFacts DEF CoreInv
  <1>1. UNCHANGED <<exe, exeSurvivors, data, journal, survivors>>
    BY DEF StopPrevious, files
  <1>2. FileType' /\ SurvivorsOK'
    BY <1>1 DEF FileType, SurvivorsOK, JournalOK, OldBytes, NewBytes
  <1>3. JournalType'
    BY Bounds DEF StopPrevious, Fault, NoFault, stopDaemon, JournalType, Steps
  <1>4. ProcType'
    BY StartedType DEF StopPrevious, stopDaemon, ProcType, FileType, Starting, Daemons
  <1>5. RestType'
    BY Bounds DEF StopPrevious, service, history, bounds, RestType, JournalType, Journals
  <1>6. DurableOK'
    BY DEF StopPrevious, At, stopDaemon, DurableOK, MayOpen, Loose
  <1>7. PhaseOK'
    BY DEF StopPrevious, At, stopDaemon, PhaseOK
  <1>8. QED
    BY <1>2, <1>3, <1>4, <1>5, <1>6, <1>7

\* InstallCandidate keeps the first layer.
LEMMA InstallCandidateCore == CoreInv /\ InstallCandidate => CoreInv'
  <1> SUFFICES ASSUME CoreInv, InstallCandidate PROVE CoreInv'
    OBVIOUS
  <1> USE NoTxnFacts DEF CoreInv
  <1>1. UNCHANGED <<daemon, dying, boot>>
    BY DEF InstallCandidate, procs
  <1>2. ProcType'
    BY <1>1 DEF ProcType
  <1>3. JournalType'
    BY Bounds DEF InstallCandidate, Fault, NoFault, writeExecutable, JournalType, Steps
  <1>4. FileType'
    BY DEF InstallCandidate, writeExecutable, FileType, Bytes
  <1>5. RestType'
    BY Bounds DEF InstallCandidate, old, service, bounds, RestType, JournalType, Journals
  <1>6. SurvivorsOK'
    BY DEF InstallCandidate, At, writeExecutable, SurvivorsOK, DurableOK, JournalOK,
       OldPhases, NewPhases, Untouched, Restored, MayOpen, Loose
  <1>7. DurableOK'
    BY DEF InstallCandidate, At, writeExecutable, DurableOK, MayOpen, Loose
  <1>8. PhaseOK'
    BY DEF InstallCandidate, At, writeExecutable, PhaseOK, NewBytes, preCommit
  <1>9. QED
    BY <1>2, <1>3, <1>4, <1>5, <1>6, <1>7, <1>8

\* Installed keeps the first layer.
LEMMA InstalledCore == CoreInv /\ Installed => CoreInv'
  <1> SUFFICES ASSUME CoreInv, Installed PROVE CoreInv'
    OBVIOUS
  <1> USE NoTxnFacts DEF CoreInv
  <1>1. UNCHANGED <<exe, exeSurvivors, data, daemon, dying, boot, trigger, proof, approved,
        job, due, starts, run, status, ledger, ran, landed, crashes, rivals, txns>>
    BY DEF Installed, files, procs, old, service, history, bounds
  <1>2. FileType' /\ ProcType' /\ RestType'
    BY <1>1 DEF FileType, ProcType, RestType
  <1>3. JournalType'
    <2>1. journal \in Journals
      BY DEF Installed, JournalType, PhaseOK
    <2>2. QED
      <3> DEFINE j == [journal EXCEPT !.phase = "candidate_installed", !.inst = TRUE]
      <3>1. j \in Journals
        BY <2>1, MarkerCopies
      <3>2. write(j, "loop", "unwind", "unwind")
        BY <2>1 DEF Installed, persistJournal
      <3> HIDE DEF j
      <3>3. "loop" \in Steps /\ "unwind" \in Steps
        BY DEF Steps
      <3>4. QED
        BY <3>1, <3>2, <3>3, WriteType
  <1>4. SurvivorsOK'
    <2> DEFINE j == [journal EXCEPT !.phase = "candidate_installed", !.inst = TRUE]
    <2>1. /\ journal \in Journals /\ JournalOK(journal) /\ survivors = {journal}
          /\ journal.phase = "daemon_stopped" /\ NewBytes
      BY DEF Installed, JournalType, PhaseOK, SurvivorsOK, DurableOK, MayOpen, Loose
    <2>2. j \in Journals /\ j.phase = "candidate_installed" /\ j.inst = TRUE /\ j.bin = journal.bin
      BY <2>1, MarkerCopies
    <2>3. write(j, "loop", "unwind", "unwind")
      BY DEF Installed, persistJournal
    <2> HIDE DEF j
    <2>4. JournalOK(j)
      BY <2>1, <2>2, NoTxnFacts DEF JournalOK, OldPhases, NewPhases, Untouched, Restored
    <2>5. QED
      BY <2>1, <2>2, <2>3, <2>4, NoTxnFacts, WriteSurvivors DEF Installed, files
  <1>5. DurableOK'
    BY JournalCopy DEF Installed, persistJournal, write, DurableOK, MayOpen, Loose
  <1>6. PhaseOK'
    <2> DEFINE j == [journal EXCEPT !.phase = "candidate_installed", !.inst = TRUE]
    <2>1. journal \in Journals /\ journal.phase = "daemon_stopped"
      BY DEF Installed, JournalType, PhaseOK
    <2>2. j \in Journals /\ j.phase = "candidate_installed"
      BY <2>1, MarkerCopies
    <2>3. write(j, "loop", "unwind", "unwind")
      BY DEF Installed, persistJournal
    <2> HIDE DEF j
    <2>4. pc' \in {"loop", "unwind"} /\ journal' # NoTxn /\ preCommit(journal'.phase)
      BY <2>1, <2>2, <2>3 DEF write, preCommit
    <2>5. QED
      BY <2>4 DEF PhaseOK
  <1>7. QED
    BY <1>2, <1>3, <1>4, <1>5, <1>6

\* StartCandidate keeps the first layer.
LEMMA StartCandidateCore == CoreInv /\ StartCandidate => CoreInv'
  <1> SUFFICES ASSUME CoreInv, StartCandidate PROVE CoreInv'
    OBVIOUS
  <1> USE NoTxnFacts DEF CoreInv
  <1>1. UNCHANGED <<exe, exeSurvivors, data, trigger, proof, approved, job, due,
        starts, run,
        status, ledger, ran, landed, crashes, rivals, txns, journal, survivors>>
    BY DEF StartCandidate, files, old, service, history, bounds
  <1>2. FileType' /\ RestType' /\ SurvivorsOK'
    BY <1>1 DEF FileType, RestType, SurvivorsOK, JournalOK, OldBytes, NewBytes
  <1>3. JournalType'
    <2>1. pc' \in Steps
      BY DEF StartCandidate, launchCandidate, Steps
    <2>2. faults' \in 0..MaxFaults
      BY Bounds DEF StartCandidate, Fault, NoFault, JournalType
    <2>3. QED
      BY <2>1, <2>2 DEF StartCandidate, JournalType
  <1>4. ProcType'
    BY StartedType DEF StartCandidate, launchCandidate, started, ProcType, FileType,
       Starting, Daemons
  <1>5. DurableOK'
    BY DEF StartCandidate, At, launchCandidate, DurableOK, MayOpen, Loose
  <1>6. PhaseOK'
    BY DEF StartCandidate, At, launchCandidate, PhaseOK, preCommit
  <1>7. QED
    BY <1>2, <1>3, <1>4, <1>5, <1>6

\* ValidateCandidate keeps the first layer.
LEMMA ValidateCandidateCore == CoreInv /\ ValidateCandidate => CoreInv'
  <1> SUFFICES ASSUME CoreInv, ValidateCandidate PROVE CoreInv'
    OBVIOUS
  <1> USE NoTxnFacts DEF CoreInv
  <1>1. UNCHANGED <<exe, exeSurvivors, data, daemon, dying, boot, journal, survivors>>
    BY DEF ValidateCandidate, files, procs
  <1>2. FileType' /\ ProcType' /\ SurvivorsOK'
    BY <1>1 DEF FileType, ProcType, SurvivorsOK, JournalOK, OldBytes, NewBytes
  <1>3. JournalType'
    BY Bounds DEF ValidateCandidate, Fault, NoFault, awaitIdentity, JournalType, Steps
  <1>4. RestType'
    BY Bounds DEF ValidateCandidate, old, service, history, bounds, RestType
  <1>5. DurableOK'
    BY DEF ValidateCandidate, At, awaitIdentity, DurableOK, MayOpen, Loose
  <1>6. PhaseOK'
    BY DEF ValidateCandidate, At, awaitIdentity, PhaseOK, preCommit
  <1>7. QED
    BY <1>2, <1>3, <1>4, <1>5, <1>6

\* CommittedArm keeps the first layer.
LEMMA CommittedArmCore == CoreInv /\ CommittedArm => CoreInv'
  <1> SUFFICES ASSUME CoreInv, CommittedArm PROVE CoreInv'
    OBVIOUS
  <1> USE NoTxnFacts DEF CoreInv
  <1>1. UNCHANGED <<exe, exeSurvivors, data, trigger, proof, approved, job, due,
        starts, run,
        status, ledger, ran, landed, crashes, rivals, txns, journal, survivors>>
    BY DEF CommittedArm, files, old, service, history, bounds
  <1>2. FileType' /\ RestType' /\ SurvivorsOK'
    BY <1>1 DEF FileType, RestType, SurvivorsOK, JournalOK, OldBytes, NewBytes
  <1>3. JournalType'
    <2>1. pc' \in Steps
      BY DEF CommittedArm, Fail, launchCandidate, awaitIdentity, Steps
    <2>2. faults' \in 0..MaxFaults
      BY Bounds DEF CommittedArm, Fault, NoFault, awaitIdentity, JournalType
    <2>3. QED
      BY <2>1, <2>2 DEF CommittedArm, JournalType
  <1>4. ProcType'
    BY StartedType DEF CommittedArm, launchCandidate, started, ProcType, FileType,
       Starting, Daemons
  <1>5. DurableOK'
    BY DEF CommittedArm, Fail, At, launchCandidate, awaitIdentity, DurableOK, MayOpen,
       Loose
  <1>6. PhaseOK'
    BY DEF CommittedArm, Fail, At, launchCandidate, awaitIdentity, PhaseOK, terminalPhase
  <1>7. QED
    BY <1>2, <1>3, <1>4, <1>5, <1>6

\* AbortedArm keeps the first layer.
LEMMA AbortedArmCore == CoreInv /\ AbortedArm => CoreInv'
  <1> SUFFICES ASSUME CoreInv, AbortedArm PROVE CoreInv'
    OBVIOUS
  <1> USE NoTxnFacts DEF CoreInv
  <1>1. UNCHANGED <<exe, exeSurvivors, data, daemon, dying, boot, trigger, proof, approved,
        job, due, starts, run, status, ledger, ran, landed, crashes, rivals, txns, journal,
        survivors>>
    BY DEF AbortedArm, files, procs, old, service, history, bounds
  <1>2. FileType' /\ ProcType' /\ RestType' /\ SurvivorsOK'
    BY <1>1 DEF FileType, ProcType, RestType, SurvivorsOK, JournalOK, OldBytes, NewBytes
  <1>3. JournalType'
    BY Bounds DEF AbortedArm, JournalType, Steps
  <1>4. DurableOK'
    BY DEF AbortedArm, At, DurableOK, MayOpen, Loose
  <1>5. PhaseOK'
    BY DEF AbortedArm, At, PhaseOK, terminalPhase
  <1>6. QED
    BY <1>2, <1>3, <1>4, <1>5

\* DisableRecoveryJob keeps the first layer.
LEMMA DisableRecoveryJobCore == CoreInv /\ DisableRecoveryJob => CoreInv'
  <1> SUFFICES ASSUME CoreInv, DisableRecoveryJob PROVE CoreInv'
    OBVIOUS
  <1> USE NoTxnFacts DEF CoreInv
  <1>1. UNCHANGED <<exe, exeSurvivors, data, daemon, dying, boot, journal, survivors>>
    BY DEF DisableRecoveryJob, files, procs
  <1>2. FileType' /\ ProcType' /\ SurvivorsOK'
    BY <1>1 DEF FileType, ProcType, SurvivorsOK, JournalOK, OldBytes, NewBytes
  <1>3. JournalType'
    BY Bounds DEF DisableRecoveryJob, Fault, NoFault, Fail, JournalType, Steps
  <1>4. RestType'
    BY Bounds DEF DisableRecoveryJob, old, history, bounds, RestType, JournalType, Journals
  <1>5. DurableOK'
    BY DEF DisableRecoveryJob, Fail, DurableOK, MayOpen, Loose
  <1>6. PhaseOK'
    BY DEF DisableRecoveryJob, Fail, PhaseOK
  <1>7. QED
    BY <1>2, <1>3, <1>4, <1>5, <1>6

\* Cleanup keeps the first layer.
LEMMA CleanupCore == CoreInv /\ Cleanup => CoreInv'
  <1> SUFFICES ASSUME CoreInv, Cleanup PROVE CoreInv'
    OBVIOUS
  <1> USE NoTxnFacts DEF CoreInv
  <1>1. UNCHANGED <<exe, exeSurvivors, data, daemon, dying, boot>>
    BY DEF Cleanup, files, procs
  <1>2. FileType' /\ ProcType'
    BY <1>1 DEF FileType, ProcType
  <1>3. JournalType'
    BY Bounds DEF Cleanup, Fault, NoFault, Fail, JournalType, Steps
  <1>4. RestType'
    BY Bounds DEF Cleanup, old, history, bounds, RestType, JournalType, Journals
  <1>5. SurvivorsOK'
    BY DEF Cleanup, files, SurvivorsOK, DurableOK, JournalOK, OldPhases, NewPhases,
       Untouched, Restored, Idle, MayOpen, Loose, OldBytes, NewBytes, terminalPhase
  <1>6. DurableOK'
    BY DEF Cleanup, Fail, DurableOK, MayOpen, Loose
  <1>7. PhaseOK'
    BY DEF Cleanup, Fail, PhaseOK
  <1>8. QED
    BY <1>2, <1>3, <1>4, <1>5, <1>6, <1>7

\* HandOff keeps the first layer.
LEMMA HandOffCore == CoreInv /\ HandOff => CoreInv'
  <1> SUFFICES ASSUME CoreInv, HandOff PROVE CoreInv'
    OBVIOUS
  <1> USE NoTxnFacts DEF CoreInv
  <1>1. UNCHANGED <<exe, exeSurvivors, data, trigger, proof, approved, job, due,
        starts, run,
        status, ledger, ran, landed, crashes, rivals, txns, journal, survivors>>
    BY DEF HandOff, files, service, history, bounds
  <1>2. FileType' /\ RestType' /\ SurvivorsOK'
    BY <1>1 DEF FileType, RestType, SurvivorsOK, JournalOK, OldBytes, NewBytes
  <1>3. JournalType'
    <2>1. pc' \in Steps
      BY DEF HandOff, stopDaemon, Steps
    <2>2. faults' \in 0..MaxFaults
      BY Bounds DEF HandOff, Fault, NoFault, stopDaemon, JournalType
    <2>3. QED
      BY <2>1, <2>2 DEF HandOff, JournalType
  <1>4. ProcType'
    BY StartedType DEF HandOff, stopDaemon, launchPrevious, ProcType
  <1>5. DurableOK'
    BY DEF HandOff, stopDaemon, DurableOK, MayOpen, Loose
  <1>6. PhaseOK'
    BY DEF HandOff, stopDaemon, PhaseOK
  <1>7. QED
    BY <1>2, <1>3, <1>4, <1>5, <1>6

\* StopCandidate keeps the first layer.
LEMMA StopCandidateCore == CoreInv /\ StopCandidate => CoreInv'
  <1> SUFFICES ASSUME CoreInv, StopCandidate PROVE CoreInv'
    OBVIOUS
  <1> USE NoTxnFacts DEF CoreInv
  <1>1. UNCHANGED <<exe, exeSurvivors, data, journal, survivors>>
    BY DEF StopCandidate, files
  <1>2. FileType' /\ SurvivorsOK'
    BY <1>1 DEF FileType, SurvivorsOK, JournalOK, OldBytes, NewBytes
  <1>3. JournalType'
    BY Bounds DEF StopCandidate, Fault, NoFault, stopDaemon, JournalType, Steps
  <1>4. ProcType'
    BY StartedType DEF StopCandidate, stopDaemon, ProcType, FileType, Starting, Daemons
  <1>5. RestType'
    BY Bounds DEF StopCandidate, service, history, bounds, RestType, JournalType, Journals
  <1>6. DurableOK'
    BY DEF StopCandidate, stopDaemon, DurableOK, MayOpen, Loose
  <1>7. PhaseOK'
    BY DEF StopCandidate, stopDaemon, PhaseOK
  <1>8. QED
    BY <1>2, <1>3, <1>4, <1>5, <1>6, <1>7

\* Rollback keeps the first layer.
LEMMA RollbackCore == CoreInv /\ Rollback => CoreInv'
  <1> SUFFICES ASSUME CoreInv, Rollback PROVE CoreInv'
    OBVIOUS
  <1> USE NoTxnFacts DEF CoreInv
  <1>1. UNCHANGED <<exe, exeSurvivors, data, daemon, dying, boot, trigger, proof, approved,
        job, due, starts, run, status, ledger, ran, landed, crashes, rivals, txns>>
    BY DEF Rollback, files, procs, old, service, history, bounds
  <1>2. FileType' /\ ProcType' /\ RestType'
    BY <1>1 DEF FileType, ProcType, RestType
  <1>3. JournalType'
    <2>1. journal \in Journals
      BY DEF Rollback, At, JournalType, PhaseOK
    <2>2. CASE pc = "rollback"
      BY <2>1, <2>2, PhaseWriteType DEF Rollback, At, Phases, Steps
    <2>3. CASE pc # "rollback"
      BY <2>3 DEF Rollback, NoFault, JournalType, Steps
    <2>4. QED
      BY <2>2, <2>3
  <1>4. SurvivorsOK'
    BY JournalCopy DEF Rollback, files, persistPhase, persistJournal, write, JournalType,
       Journals, SurvivorsOK, JournalOK, OldPhases, NewPhases, Untouched, Restored,
       OldBytes, NewBytes, preCommit
  <1>5. DurableOK'
    BY JournalCopy DEF Rollback, At, persistPhase, persistJournal, write, DurableOK,
       MayOpen, Loose
  <1>6. PhaseOK'
    BY JournalCopy DEF Rollback, At, persistPhase, persistJournal, write, JournalType,
       Journals, PhaseOK
  <1>7. QED
    BY <1>2, <1>3, <1>4, <1>5, <1>6

\* RestoreMarker keeps the first layer.
LEMMA RestoreMarkerCore == CoreInv /\ RestoreMarker => CoreInv'
  <1> SUFFICES ASSUME CoreInv, RestoreMarker PROVE CoreInv'
    OBVIOUS
  <1> USE NoTxnFacts DEF CoreInv
  <1>1. UNCHANGED <<exe, exeSurvivors, data, daemon, dying, boot, trigger, proof, approved,
        job, due, starts, run, status, ledger, ran, landed, crashes, rivals, txns>>
    BY DEF RestoreMarker, files, procs, old, service, history, bounds
  <1>2. FileType' /\ ProcType' /\ RestType'
    BY <1>1 DEF FileType, ProcType, RestType
  <1>3. JournalType'
    <2>1. journal \in Journals
      BY DEF RestoreMarker, JournalType, PhaseOK
    <2>2. CASE persistJournal([journal EXCEPT !.inst = TRUE], "restoreBinary", "restoreFailed")
      <3> DEFINE j == [journal EXCEPT !.inst = TRUE]
      <3>1. j \in Journals
        BY <2>1, <2>2, MarkerCopies
      <3>2. write(j, "restoreBinary", "restoreFailed", "restoreFailed")
        BY <2>1, <2>2 DEF RestoreMarker, persistJournal
      <3> HIDE DEF j
      <3>3. "restoreBinary" \in Steps /\ "restoreFailed" \in Steps
        BY DEF Steps
      <3>4. QED
        BY <3>1, <3>2, <3>3, WriteType
    <2>3. CASE pc' = "restoreBinary" /\ UNCHANGED <<journal, survivors, unconfirmed>>
      BY <2>3, Bounds DEF RestoreMarker, persistJournal, write, Fault, NoFault,
         JournalType, Steps
    <2>4. QED
      BY <2>2, <2>3 DEF RestoreMarker
  <1>4. SurvivorsOK'
    BY JournalCopy DEF RestoreMarker, files, persistJournal, write, JournalType, Journals,
       SurvivorsOK, DurableOK, PhaseOK, JournalOK, OldPhases, NewPhases, MayOpen, Loose,
       OldBytes
  <1>5. DurableOK'
    <2>1. ~unconfirmed /\ survivors = {journal}
      BY DEF RestoreMarker, DurableOK, MayOpen, Loose
    <2>2. \/ pc' = "restoreBinary" /\ ~unconfirmed' /\ survivors' = {journal'}
          \/ pc' = "restoreFailed" /\ (~unconfirmed' => survivors' = {journal'})
      BY <2>1 DEF RestoreMarker, persistJournal, write
    <2>3. QED
      BY <2>2 DEF DurableOK, MayOpen, Loose
  <1>6. PhaseOK'
    BY JournalCopy DEF RestoreMarker, persistJournal, write, JournalType, Journals, PhaseOK
  <1>7. QED
    BY <1>2, <1>3, <1>4, <1>5, <1>6

\* RestoreBinary keeps the first layer.
LEMMA RestoreBinaryCore == CoreInv /\ RestoreBinary => CoreInv'
  <1> SUFFICES ASSUME CoreInv, RestoreBinary PROVE CoreInv'
    OBVIOUS
  <1> USE NoTxnFacts DEF CoreInv
  <1>1. UNCHANGED <<daemon, dying, boot, trigger, proof, approved, job, due,
        starts, run, status,
        ledger, ran, landed, crashes, rivals, txns>>
    BY DEF RestoreBinary, procs, old, service, history, bounds
  <1>2. ProcType' /\ RestType'
    BY <1>1 DEF ProcType, RestType
  <1>3. JournalType'
    <2>1. journal \in Journals
      BY DEF RestoreBinary, JournalType, PhaseOK
    <2>2. CASE pc = "binaryRestored"
      <3> DEFINE j == [journal EXCEPT !.bin = TRUE]
      <3>1. j \in Journals
        BY <2>1, <2>2, MarkerCopies
      <3>2. write(j, "restoreMetadata", "restoreFailed", "restoreFailed")
        BY <2>1, <2>2 DEF RestoreBinary, persistJournal
      <3> HIDE DEF j
      <3>3. "restoreMetadata" \in Steps /\ "restoreFailed" \in Steps
        BY DEF Steps
      <3>4. QED
        BY <3>1, <3>2, <3>3, WriteType
    <2>3. CASE pc = "restoreBinary"
      BY <2>3, Bounds DEF RestoreBinary, writeExecutable, Fault, NoFault, JournalType,
         Steps
    <2>4. QED
      BY <2>2, <2>3 DEF RestoreBinary
  <1>4. FileType'
    BY DEF RestoreBinary, writeExecutable, FileType, Bytes
  <1>5. SurvivorsOK'
    BY JournalCopy DEF RestoreBinary, persistJournal, write, writeExecutable, JournalType,
       Journals, SurvivorsOK, DurableOK, PhaseOK, JournalOK, NewPhases, MayOpen, Loose,
       OldBytes
  <1>6. DurableOK'
    <2>1. ~unconfirmed /\ survivors = {journal}
      BY DEF RestoreBinary, DurableOK, MayOpen, Loose
    <2>2. \/ pc' \in {"restoreMetadata", "binaryRestored"} /\ ~unconfirmed' /\ survivors' = {journal'}
          \/ pc' = "restoreFailed" /\ (~unconfirmed' => survivors' = {journal'})
      BY <2>1 DEF RestoreBinary, persistJournal, write, writeExecutable
    <2>3. QED
      BY <2>2 DEF DurableOK, MayOpen, Loose
  <1>7. PhaseOK'
    BY JournalCopy DEF RestoreBinary, persistJournal, write, writeExecutable, JournalType,
       Journals, PhaseOK, OldBytes
  <1>8. QED
    BY <1>2, <1>3, <1>4, <1>5, <1>6, <1>7

\* RestoreMetadata keeps the first layer.
LEMMA RestoreMetadataCore == CoreInv /\ RestoreMetadata => CoreInv'
  <1> SUFFICES ASSUME CoreInv, RestoreMetadata PROVE CoreInv'
    OBVIOUS
  <1> USE NoTxnFacts DEF CoreInv
  <1>1. UNCHANGED <<daemon, dying, boot, trigger, proof, approved, job, due,
        starts, run, status,
        ledger, ran, landed, crashes, rivals, txns>>
    BY DEF RestoreMetadata, procs, old, service, history, bounds
  <1>2. ProcType' /\ RestType'
    BY <1>1 DEF ProcType, RestType
  <1>3. JournalType'
    <2>1. journal \in Journals
      BY DEF RestoreMetadata, JournalType, PhaseOK
    <2>2. CASE pc = "entryRestored"
      <3> DEFINE j == [journal EXCEPT !.meta = @ + 1]
      <3>1. j \in Journals
        BY <2>1, <2>2, EntryCopy DEF PhaseOK
      <3>2. write(j, "restoreMetadata", "restoreFailed", "restoreFailed")
        BY <2>1, <2>2 DEF RestoreMetadata, persistJournal
      <3> HIDE DEF j
      <3>3. "restoreMetadata" \in Steps /\ "restoreFailed" \in Steps
        BY DEF Steps
      <3>4. QED
        BY <3>1, <3>2, <3>3, WriteType
    <2>3. CASE pc = "restoreMetadata"
      BY <2>3, Bounds DEF RestoreMetadata, Fault, NoFault, JournalType, Steps
    <2>4. QED
      BY <2>2, <2>3 DEF RestoreMetadata
  <1>4. FileType'
    BY DEF RestoreMetadata, FileType, Bytes
  <1>5. SurvivorsOK'
    BY JournalCopy DEF RestoreMetadata, persistJournal, write, JournalType, Journals,
       SurvivorsOK, DurableOK, PhaseOK, JournalOK, NewPhases, MayOpen, Loose, OldBytes
  <1>6. DurableOK'
    BY JournalCopy DEF RestoreMetadata, persistJournal, write, DurableOK, MayOpen, Loose
  <1>7. PhaseOK'
    BY JournalCopy DEF RestoreMetadata, persistJournal, write, JournalType, Journals,
       PhaseOK
  <1>8. QED
    BY <1>2, <1>3, <1>4, <1>5, <1>6, <1>7

\* RestoreEnd keeps the first layer.
LEMMA RestoreEndCore == CoreInv /\ RestoreEnd => CoreInv'
  <1> SUFFICES ASSUME CoreInv, RestoreEnd PROVE CoreInv'
    OBVIOUS
  <1> USE NoTxnFacts DEF CoreInv
  <1>1. UNCHANGED <<exe, exeSurvivors, data, daemon, dying, boot, trigger, proof, approved,
        job, due, starts, run, status, ledger, ran, landed, crashes, rivals, txns>>
    BY DEF RestoreEnd, files, procs, old, service, history, bounds
  <1>2. FileType' /\ ProcType' /\ RestType'
    BY <1>1 DEF FileType, ProcType, RestType
  <1>3. JournalType'
    <2>1. journal \in Journals
      BY DEF RestoreEnd, JournalType, PhaseOK
    <2>2. CASE pc = "restored"
      BY <2>1, <2>2, PhaseWriteType DEF RestoreEnd, Phases, Steps
    <2>3. CASE pc = "restoreFailed"
      <3> DEFINE j == [journal EXCEPT !.phase = "rollback_failed"]
      <3>1. j \in Journals
        BY <2>1, <2>3, JournalCopy DEF Phases
      <3>2. write(j, "failing", "failing", "leaving")
        BY <2>1, <2>3 DEF RestoreEnd, persistJournal
      <3> HIDE DEF j
      <3>3. "failing" \in Steps /\ "failing" \in Steps /\ "leaving" \in Steps
        BY DEF Steps
      <3>4. QED
        BY <3>1, <3>2, <3>3, WriteType
    <2>4. QED
      BY <2>2, <2>3 DEF RestoreEnd
  <1>4. SurvivorsOK'
    BY JournalCopy DEF RestoreEnd, files, persistPhase, persistJournal, write, JournalType,
       Journals, SurvivorsOK, PhaseOK, JournalOK, OldPhases, NewPhases, Untouched,
       Restored, OldBytes, NewBytes
  <1>5. DurableOK'
    BY JournalCopy DEF RestoreEnd, persistPhase, persistJournal, write, DurableOK, MayOpen,
       Loose
  <1>6. PhaseOK'
    BY JournalCopy DEF RestoreEnd, persistPhase, persistJournal, write, JournalType,
       Journals, PhaseOK
  <1>7. QED
    BY <1>2, <1>3, <1>4, <1>5, <1>6

\* MarkRollbackFailed keeps the first layer.
LEMMA MarkRollbackFailedCore == CoreInv /\ MarkRollbackFailed => CoreInv'
  <1> SUFFICES ASSUME CoreInv, MarkRollbackFailed PROVE CoreInv'
    OBVIOUS
  <1> USE NoTxnFacts DEF CoreInv
  <1>1. UNCHANGED <<exe, exeSurvivors, data, daemon, dying, boot, trigger, proof, approved,
        job, due, starts, run, status, ledger, ran, landed, crashes, rivals, txns>>
    BY DEF MarkRollbackFailed, files, procs, old, service, history, bounds
  <1>2. FileType' /\ ProcType' /\ RestType'
    BY <1>1 DEF FileType, ProcType, RestType
  <1>3. JournalType'
    <2>1. journal \in Journals
      BY DEF MarkRollbackFailed, JournalType, PhaseOK
    <2>2. CASE journal.phase = "rollback_failed" /\ ~unconfirmed
      BY <2>2 DEF MarkRollbackFailed, NoFault, JournalType, Steps
    <2>3. CASE ~(journal.phase = "rollback_failed" /\ ~unconfirmed)
      <3>1. "rollback_failed" \in Phases /\ "reject" \in Steps /\ "leaving" \in Steps
        BY DEF Phases, Steps
      <3>2. persistPhase("rollback_failed", "reject", "leaving")
        BY <2>3 DEF MarkRollbackFailed
      <3> QED
        BY <2>1, <3>1, <3>2, PhaseWriteType
    <2>4. QED
      BY <2>2, <2>3
  <1>4. SurvivorsOK'
    BY JournalCopy DEF MarkRollbackFailed, files, persistPhase, persistJournal, write,
       JournalType, Journals, SurvivorsOK, PhaseOK, JournalOK, OldPhases, NewPhases,
       Untouched, Restored, OldBytes, NewBytes
  <1>5. DurableOK'
    BY JournalCopy DEF MarkRollbackFailed, persistPhase, persistJournal, write, DurableOK,
       MayOpen, Loose
  <1>6. PhaseOK'
    BY JournalCopy DEF MarkRollbackFailed, persistPhase, persistJournal, write,
       JournalType, Journals, PhaseOK
  <1>7. QED
    BY <1>2, <1>3, <1>4, <1>5, <1>6

\* RecordRejectedCandidate keeps the first layer.
LEMMA RecordRejectedCandidateCore == CoreInv /\ RecordRejectedCandidate => CoreInv'
  <1> SUFFICES ASSUME CoreInv, RecordRejectedCandidate PROVE CoreInv'
    OBVIOUS
  <1> USE NoTxnFacts DEF CoreInv
  <1>1. UNCHANGED <<exe, exeSurvivors, data, daemon, dying, boot, journal, survivors>>
    BY DEF RecordRejectedCandidate, files, procs
  <1>2. FileType' /\ ProcType' /\ SurvivorsOK'
    BY <1>1 DEF FileType, ProcType, SurvivorsOK, JournalOK, OldBytes, NewBytes
  <1>3. JournalType'
    BY Bounds DEF RecordRejectedCandidate, Fault, NoFault, Fail, JournalType, Steps
  <1>4. RestType'
    BY Bounds DEF RecordRejectedCandidate, old, service, history, bounds, RestType,
       JournalType, Journals
  <1>5. DurableOK'
    BY DEF RecordRejectedCandidate, Fail, DurableOK, MayOpen, Loose
  <1>6. PhaseOK'
    BY DEF RecordRejectedCandidate, Fail, PhaseOK, terminalPhase
  <1>7. QED
    BY <1>2, <1>3, <1>4, <1>5, <1>6

\* RollbackFailedArm keeps the first layer.
LEMMA RollbackFailedArmCore == CoreInv /\ RollbackFailedArm => CoreInv'
  <1> SUFFICES ASSUME CoreInv, RollbackFailedArm PROVE CoreInv'
    OBVIOUS
  <1> USE NoTxnFacts DEF CoreInv
  <1>1. UNCHANGED <<exe, exeSurvivors, data, daemon, dying, boot, trigger, proof, approved,
        job, due, starts, run, status, ledger, ran, landed, crashes, rivals, txns, journal,
        survivors>>
    BY DEF RollbackFailedArm, files, procs, old, service, history, bounds
  <1>2. FileType' /\ ProcType' /\ RestType' /\ SurvivorsOK'
    BY <1>1 DEF FileType, ProcType, RestType, SurvivorsOK, JournalOK, OldBytes, NewBytes
  <1>3. JournalType'
    BY Bounds DEF RollbackFailedArm, JournalType, Steps
  <1>4. DurableOK'
    BY DEF RollbackFailedArm, At, DurableOK, MayOpen, Loose
  <1>5. PhaseOK'
    BY DEF RollbackFailedArm, At, PhaseOK
  <1>6. QED
    BY <1>2, <1>3, <1>4, <1>5

\* StartPrevious keeps the first layer.
LEMMA StartPreviousCore == CoreInv /\ StartPrevious => CoreInv'
  <1> SUFFICES ASSUME CoreInv, StartPrevious PROVE CoreInv'
    OBVIOUS
  <1> USE NoTxnFacts DEF CoreInv
  <1>1. UNCHANGED <<exe, exeSurvivors, data, journal, survivors>>
    BY DEF StartPrevious, files
  <1>2. FileType' /\ SurvivorsOK'
    BY <1>1 DEF FileType, SurvivorsOK, JournalOK, OldBytes, NewBytes
  <1>3. JournalType'
    <2>1. pc' \in Steps
      BY DEF StartPrevious, Steps
    <2>2. faults' \in 0..MaxFaults
      BY Bounds DEF StartPrevious, Fault, NoFault, JournalType
    <2>3. QED
      BY <2>1, <2>2 DEF StartPrevious, JournalType
  <1>4. ProcType'
    BY StartedType DEF StartPrevious, launchPrevious, started, ProcType, FileType,
       Starting, Daemons
  <1>5. RestType'
    BY Bounds DEF StartPrevious, old, service, history, bounds, RestType
  <1>6. DurableOK'
    BY DEF StartPrevious, At, DurableOK, MayOpen, Loose
  <1>7. PhaseOK'
    BY DEF StartPrevious, At, DurableOK, PhaseOK, MayOpen, Loose
  <1>8. QED
    BY <1>2, <1>3, <1>4, <1>5, <1>6, <1>7

\* ValidatePrevious keeps the first layer.
LEMMA ValidatePreviousCore == CoreInv /\ ValidatePrevious => CoreInv'
  <1> SUFFICES ASSUME CoreInv, ValidatePrevious PROVE CoreInv'
    OBVIOUS
  <1> USE NoTxnFacts DEF CoreInv
  <1>1. UNCHANGED <<exe, exeSurvivors, data, daemon, dying, boot, journal, survivors>>
    BY DEF ValidatePrevious, files, procs
  <1>2. FileType' /\ ProcType' /\ SurvivorsOK'
    BY <1>1 DEF FileType, ProcType, SurvivorsOK, JournalOK, OldBytes, NewBytes
  <1>3. JournalType'
    BY Bounds DEF ValidatePrevious, Fault, NoFault, awaitIdentity, JournalType, Steps
  <1>4. RestType'
    BY Bounds DEF ValidatePrevious, old, service, history, bounds, RestType
  <1>5. DurableOK'
    BY DEF ValidatePrevious, At, awaitIdentity, DurableOK, MayOpen, Loose
  <1>6. PhaseOK'
    BY DEF ValidatePrevious, At, awaitIdentity, DurableOK, PhaseOK, MayOpen, Loose
  <1>7. QED
    BY <1>2, <1>3, <1>4, <1>5, <1>6

\* Prepare keeps the first layer.
LEMMA PrepareCore == CoreInv /\ Prepare => CoreInv'
  <1> SUFFICES ASSUME CoreInv, Prepare PROVE CoreInv'
    OBVIOUS
  <1> USE NoTxnFacts DEF CoreInv
  <1>1. UNCHANGED <<exe, exeSurvivors, data, daemon, dying, boot>>
    BY DEF Prepare, files, procs
  <1>2. FileType' /\ ProcType'
    BY <1>1 DEF FileType, ProcType
  <1>3. JournalType'
    <2>1. journal' \in Journals /\ journal'.phase = "prepared"
      <3>1. 0 \in 0..Entries
        BY Bounds
      <3>2. QED
        BY <3>1 DEF Prepare, NoTxn, Journals, Phases
    <2>2. faults' \in 0..MaxFaults /\ pc' = pc /\ unconfirmed' = unconfirmed
      BY Bounds DEF Prepare, JournalType, Fault, NoFault
    <2>3. survivors' \subseteq survivors \union {journal'}
      BY DEF Prepare
    <2>4. QED
      BY <2>1, <2>2, <2>3 DEF JournalType
  <1>4. RestType'
    BY Bounds DEF Prepare, history, RestType, JournalType, Journals
  <1>5. SurvivorsOK'
    <2>1. /\ journal' \in Journals /\ journal'.phase = "prepared" /\ journal' # NoTxn
          /\ journal'.inst = FALSE /\ journal'.bin = FALSE
      BY <1>3, NoTxnFacts DEF Prepare, JournalType, NoTxn
    <2>2. OldBytes
      BY DEF Prepare, SurvivorsOK, JournalOK, OldBytes
    <2>3. ASSUME NEW k, k = journal' PROVE JournalOK(k)'
      <3>1. exe' = exe /\ exeSurvivors' = exeSurvivors
        BY DEF Prepare, files
      <3>2. QED
        BY <2>1, <2>2, <2>3, <3>1 DEF JournalOK, OldPhases, NewPhases, Untouched, Restored,
           OldBytes
    <2>4. \A j \in survivors : JournalOK(j)'
      BY DEF Prepare, files, SurvivorsOK, JournalOK, OldBytes, NewBytes
    <2>5. \A j \in survivors : j.phase \in Idle
      BY DEF Prepare, SurvivorsOK
    <2>6. journal' \in survivors' /\ survivors' \subseteq survivors \union {journal'}
      BY DEF Prepare
    <2>7. \A k \in survivors' : JournalOK(k)'
      BY <2>3, <2>4, <2>6
    <2>8. QED
      BY <2>1, <2>5, <2>6, <2>7 DEF SurvivorsOK, Idle, Prepare, files
  <1>6. DurableOK'
    BY DEF Prepare, DurableOK, Loose
  <1>7. PhaseOK'
    BY DEF Prepare, PhaseOK
  <1>8. QED
    BY <1>2, <1>3, <1>4, <1>5, <1>6, <1>7

\* InstallAndStart keeps the first layer.
LEMMA InstallAndStartCore == CoreInv /\ InstallAndStart => CoreInv'
  <1> SUFFICES ASSUME CoreInv, InstallAndStart PROVE CoreInv'
    OBVIOUS
  <1> USE NoTxnFacts DEF CoreInv
  <1>1. UNCHANGED <<exe, exeSurvivors, data, daemon, dying, boot, journal, survivors, pc,
        unconfirmed>>
    BY DEF InstallAndStart, files, procs
  <1>2. FileType' /\ ProcType' /\ SurvivorsOK' /\ DurableOK' /\ PhaseOK'
    BY <1>1 DEF FileType, ProcType, SurvivorsOK, DurableOK, PhaseOK, JournalOK, OldBytes,
       NewBytes
  <1>3. JournalType'
    BY Bounds DEF InstallAndStart, Fault, NoFault, JournalType, Steps
  <1>4. RestType'
    <2>1. due' \in BOOLEAN /\ starts' \in 0..StartLimitBurst
      BY StartsBounded DEF InstallAndStart, RestType, service
    <2>2. QED
      BY <2>1, Bounds DEF InstallAndStart, service, history, bounds, RestType, JournalType, Journals
  <1>5. QED
    BY <1>2, <1>3, <1>4

\* AwaitSupervisorReady keeps the first layer.
LEMMA AwaitSupervisorReadyCore == CoreInv /\ AwaitSupervisorReady => CoreInv'
  <1> SUFFICES ASSUME CoreInv, AwaitSupervisorReady PROVE CoreInv'
    OBVIOUS
  <1> USE NoTxnFacts DEF CoreInv
  <1>1. UNCHANGED <<exe, exeSurvivors, data, daemon, dying, boot, journal, survivors, pc,
        unconfirmed>>
    BY DEF AwaitSupervisorReady, files, procs
  <1>2. FileType' /\ ProcType' /\ SurvivorsOK' /\ DurableOK' /\ PhaseOK'
    BY <1>1 DEF FileType, ProcType, SurvivorsOK, DurableOK, PhaseOK, JournalOK, OldBytes,
       NewBytes
  <1>3. JournalType'
    BY Bounds DEF AwaitSupervisorReady, Fault, NoFault, JournalType, Steps
  <1>4. RestType'
    BY Bounds DEF AwaitSupervisorReady, service, history, bounds, RestType, JournalType,
       Journals
  <1>5. QED
    BY <1>2, <1>3, <1>4

\* AbortPreparedTransaction keeps the first layer.
LEMMA AbortPreparedTransactionCore == CoreInv /\ AbortPreparedTransaction => CoreInv'
  <1> SUFFICES ASSUME CoreInv, AbortPreparedTransaction PROVE CoreInv'
    OBVIOUS
  <1> USE NoTxnFacts DEF CoreInv
  <1>1. UNCHANGED <<exe, exeSurvivors, data, daemon, dying, boot>>
    BY DEF AbortPreparedTransaction, files, procs
  <1>2. FileType' /\ ProcType'
    BY <1>1 DEF FileType, ProcType
  <1>3. JournalType'
    BY Bounds DEF AbortPreparedTransaction, Fault, NoFault, JournalType, Steps
  <1>4. RestType'
    BY Bounds DEF AbortPreparedTransaction, history, bounds, RestType, JournalType,
       Journals
  <1>5. SurvivorsOK'
    BY DEF AbortPreparedTransaction, files, SurvivorsOK, JournalOK, OldPhases, NewPhases,
       Untouched, Idle, OldBytes, NewBytes
  <1>6. DurableOK'
    BY DEF AbortPreparedTransaction, Live, DurableOK, PhaseOK, Loose
  <1>7. PhaseOK'
    BY DEF AbortPreparedTransaction, files, Live, PhaseOK, OldBytes, NewBytes
  <1>8. QED
    BY <1>2, <1>3, <1>4, <1>5, <1>6, <1>7

\* AuthorizeActivation keeps the first layer.
LEMMA AuthorizeActivationCore == CoreInv /\ AuthorizeActivation => CoreInv'
  <1> SUFFICES ASSUME CoreInv, AuthorizeActivation PROVE CoreInv'
    OBVIOUS
  <1> USE NoTxnFacts DEF CoreInv
  <1>1. UNCHANGED <<exe, exeSurvivors, data, journal, survivors, pc, unconfirmed>>
    BY DEF AuthorizeActivation, files
  <1>2. FileType' /\ SurvivorsOK' /\ DurableOK' /\ PhaseOK'
    BY <1>1 DEF FileType, SurvivorsOK, DurableOK, PhaseOK, JournalOK, OldBytes, NewBytes
  <1>3. JournalType'
    BY Bounds DEF AuthorizeActivation, Fault, NoFault, JournalType, Steps
  <1>4. ProcType'
    BY StartedType DEF AuthorizeActivation, ProcType, FileType, Starting, Daemons
  <1>5. RestType'
    BY Bounds DEF AuthorizeActivation, service, history, bounds, RestType, JournalType,
       Journals
  <1>6. QED
    BY <1>2, <1>3, <1>4, <1>5

\* DaemonExit keeps the first layer.
LEMMA DaemonExitCore == CoreInv /\ DaemonExit => CoreInv'
  <1> SUFFICES ASSUME CoreInv, DaemonExit PROVE CoreInv'
    OBVIOUS
  <1> USE NoTxnFacts DEF CoreInv
  <1>1. UNCHANGED <<journal, survivors, pc, unconfirmed, faults, exe, exeSurvivors, data>>
    BY DEF DaemonExit, files
  <1>2. JournalType' /\ FileType' /\ SurvivorsOK' /\ DurableOK' /\ PhaseOK'
    BY <1>1 DEF JournalType, FileType, SurvivorsOK, DurableOK, PhaseOK, JournalOK,
       OldBytes, NewBytes
  <1>3. ProcType'
    BY StartedType DEF DaemonExit, ProcType, FileType, Starting, Daemons
  <1>4. RestType'
    BY Bounds DEF DaemonExit, service, history, bounds, RestType, JournalType, Journals
  <1>5. QED
    BY <1>2, <1>3, <1>4

\* TryAcquireRecovery keeps the first layer.
LEMMA TryAcquireRecoveryCore == CoreInv /\ TryAcquireRecovery => CoreInv'
  <1> SUFFICES ASSUME CoreInv, TryAcquireRecovery PROVE CoreInv'
    OBVIOUS
  <1> USE NoTxnFacts DEF CoreInv
  <1>1. UNCHANGED <<exe, exeSurvivors, data, daemon, dying, boot, journal, survivors>>
    BY DEF TryAcquireRecovery, files, procs
  <1>2. FileType' /\ ProcType' /\ SurvivorsOK'
    BY <1>1 DEF FileType, ProcType, SurvivorsOK, JournalOK, OldBytes, NewBytes
  <1>3. JournalType'
    BY Bounds DEF TryAcquireRecovery, JournalType, Steps
  <1>4. RestType'
    BY Bounds DEF TryAcquireRecovery, history, bounds, FreshRun, aged, RestType
  <1>5. DurableOK'
    BY DEF TryAcquireRecovery, DurableOK, MayOpen, Loose
  <1>6. PhaseOK'
    BY DEF TryAcquireRecovery, PhaseOK
  <1>7. QED
    BY <1>2, <1>3, <1>4, <1>5, <1>6

\* StandDown keeps the first layer.
LEMMA StandDownCore == CoreInv /\ StandDown => CoreInv'
  <1> SUFFICES ASSUME CoreInv, StandDown PROVE CoreInv'
    OBVIOUS
  <1> USE NoTxnFacts DEF CoreInv
  <1>1. UNCHANGED <<journal, survivors, pc, unconfirmed, faults, exe, exeSurvivors, data,
        daemon, dying, boot>>
    BY DEF StandDown, files, procs
  <1>2. JournalType' /\ FileType' /\ ProcType' /\ SurvivorsOK' /\ DurableOK' /\ PhaseOK'
    BY <1>1 DEF JournalType, FileType, ProcType, SurvivorsOK, DurableOK, PhaseOK,
       JournalOK, OldBytes, NewBytes
  <1>3. RestType'
    BY Bounds DEF StandDown, old, history, bounds, RestType, JournalType, Journals
  <1>4. QED
    BY <1>2, <1>3

\* Leave keeps the first layer.
LEMMA LeaveCore == CoreInv /\ Leave => CoreInv'
  <1> SUFFICES ASSUME CoreInv, Leave PROVE CoreInv'
    OBVIOUS
  <1> USE NoTxnFacts DEF CoreInv
  <1>1. UNCHANGED <<exe, exeSurvivors, data, daemon, dying, boot, journal, survivors>>
    BY DEF Leave, files, procs
  <1>2. FileType' /\ ProcType' /\ SurvivorsOK'
    BY <1>1 DEF FileType, ProcType, SurvivorsOK, JournalOK, OldBytes, NewBytes
  <1>3. JournalType'
    BY Bounds DEF Leave, JournalType, Steps
  <1>4. RestType'
    <2>1. due' \in BOOLEAN /\ starts' \in 0..StartLimitBurst
      BY StartsBounded DEF Leave, RestType
    <2>2. QED
      BY <2>1, Bounds DEF Leave, old, history, bounds, RestType, JournalType, Journals
  <1>5. DurableOK'
    BY DEF Leave, DurableOK, MayOpen, Loose
  <1>6. PhaseOK'
    BY DEF Leave, PhaseOK
  <1>7. QED
    BY <1>2, <1>3, <1>4, <1>5, <1>6

\* RivalStart keeps the first layer.
LEMMA RivalStartCore == CoreInv /\ RivalStart => CoreInv'
  <1> SUFFICES ASSUME CoreInv, RivalStart PROVE CoreInv'
    OBVIOUS
  <1> USE NoTxnFacts DEF CoreInv
  <1>1. UNCHANGED <<journal, survivors, pc, unconfirmed, faults, exe, exeSurvivors, data>>
    BY DEF RivalStart, files
  <1>2. JournalType' /\ FileType' /\ SurvivorsOK' /\ DurableOK' /\ PhaseOK'
    BY <1>1 DEF JournalType, FileType, SurvivorsOK, DurableOK, PhaseOK, JournalOK,
       OldBytes, NewBytes
  <1>3. ProcType'
    BY StartedType DEF RivalStart, started, ProcType, FileType, Starting, Daemons
  <1>4. RestType'
    BY Bounds DEF RivalStart, old, service, history, RestType, JournalType, Journals
  <1>5. QED
    BY <1>2, <1>3, <1>4

\* Wake keeps the first layer.
LEMMA WakeCore == CoreInv /\ Wake => CoreInv'
  <1> SUFFICES ASSUME CoreInv, Wake PROVE CoreInv'
    OBVIOUS
  <1> USE NoTxnFacts DEF CoreInv
  <1>1. UNCHANGED <<journal, survivors, pc, unconfirmed, faults, exe, exeSurvivors, data,
        daemon, dying, boot>>
    BY DEF Wake, files, procs
  <1>2. JournalType' /\ FileType' /\ ProcType' /\ SurvivorsOK' /\ DurableOK' /\ PhaseOK'
    BY <1>1 DEF JournalType, FileType, ProcType, SurvivorsOK, DurableOK, PhaseOK,
       JournalOK, OldBytes, NewBytes
  <1>3. RestType'
    <2>1. due' \in BOOLEAN /\ starts' \in 0..StartLimitBurst
      BY StartsBounded DEF Wake, RestType
    <2>2. QED
      BY <2>1, Bounds DEF Wake, old, history, RestType, JournalType, Journals
  <1>4. QED
    BY <1>2, <1>3

\* CrashActor keeps the first layer.
LEMMA CrashActorCore == CoreInv /\ CrashActor => CoreInv'
  <1> SUFFICES ASSUME CoreInv, CrashActor PROVE CoreInv'
    OBVIOUS
  <1> USE NoTxnFacts DEF CoreInv
  <1>1. UNCHANGED <<exe, exeSurvivors, data, daemon, dying, boot, journal, survivors>>
    BY DEF CrashActor, files, procs
  <1>2. FileType' /\ ProcType' /\ SurvivorsOK'
    BY <1>1 DEF FileType, ProcType, SurvivorsOK, JournalOK, OldBytes, NewBytes
  <1>3. JournalType'
    BY Bounds DEF CrashActor, JournalType, Steps
  <1>4. RestType'
    <2>1. due' \in BOOLEAN /\ starts' \in 0..StartLimitBurst
      BY StartsBounded DEF CrashActor, RestType
    <2>2. QED
      BY <2>1, Bounds DEF CrashActor, old, history, Crash, RestType, JournalType, Journals
  <1>5. DurableOK'
    BY DEF CrashActor, DurableOK, MayOpen, Loose
  <1>6. PhaseOK'
    BY DEF CrashActor, PhaseOK
  <1>7. QED
    BY <1>2, <1>3, <1>4, <1>5, <1>6

\* CrashDaemon keeps the first layer.
LEMMA CrashDaemonCore == CoreInv /\ CrashDaemon => CoreInv'
  <1> SUFFICES ASSUME CoreInv, CrashDaemon PROVE CoreInv'
    OBVIOUS
  <1> USE NoTxnFacts DEF CoreInv
  <1>1. UNCHANGED <<journal, survivors, pc, unconfirmed, faults, exe, exeSurvivors, data>>
    BY DEF CrashDaemon, files
  <1>2. JournalType' /\ FileType' /\ SurvivorsOK' /\ DurableOK' /\ PhaseOK'
    BY <1>1 DEF JournalType, FileType, SurvivorsOK, DurableOK, PhaseOK, JournalOK,
       OldBytes, NewBytes
  <1>3. ProcType'
    BY StartedType DEF CrashDaemon, ProcType, FileType, Starting, Daemons
  <1>4. RestType'
    BY Bounds DEF CrashDaemon, service, history, Crash, RestType, JournalType, Journals
  <1>5. QED
    BY <1>2, <1>3, <1>4

\* PowerLoss keeps the first layer.
LEMMA PowerLossCore == CoreInv /\ PowerLoss => CoreInv'
  <1> SUFFICES ASSUME CoreInv, PowerLoss PROVE CoreInv'
    OBVIOUS
  <1> USE NoTxnFacts DEF CoreInv
  <1>1. JournalType'
    BY Bounds DEF PowerLoss, JournalType, Steps
  <1>2. FileType'
    BY DEF PowerLoss, FileType, Bytes
  <1>3. ProcType'
    BY StartedType DEF PowerLoss, ProcType, FileType, Starting, Daemons
  <1>4. RestType'
    BY Bounds DEF PowerLoss, history, Crash, RestType, JournalType, Journals
  <1>5. SurvivorsOK'
    BY DEF PowerLoss, SurvivorsOK, JournalOK, Idle, OldBytes, NewBytes
  <1>6. DurableOK'
    BY DEF PowerLoss, DurableOK, MayOpen, Loose
  <1>7. PhaseOK'
    BY DEF PowerLoss, PhaseOK
  <1>8. QED
    BY <1>1, <1>2, <1>3, <1>4, <1>5, <1>6, <1>7

\* checkUpgradeGate keeps the first layer.
LEMMA checkUpgradeGateCore ==
    ASSUME CoreInv, NEW p \in boot, checkUpgradeGate(p)
    PROVE  CoreInv'
  <1>1. boot' \subseteq Starting
    BY DEF CoreInv, ProcType, checkUpgradeGate, Starting
  <1>2. UNCHANGED <<journal, survivors, files, daemon, dying, old, service, pc,
                    unconfirmed, run, status, ledger, history, faults, bounds>>
    BY DEF checkUpgradeGate
  <1>3. QED
    BY <1>1, <1>2 DEF CoreInv, JournalType, FileType, ProcType, RestType, SurvivorsOK,
       DurableOK, PhaseOK, JournalOK, OldBytes, NewBytes, files, old, service, history,
       bounds

\* Dawdle keeps the first layer.
LEMMA DawdleCore ==
    ASSUME CoreInv, NEW p \in boot, Dawdle(p)
    PROVE  CoreInv'
  <1>1. boot' \subseteq Starting
    BY DEF CoreInv, ProcType, Dawdle, Starting
  <1>2. rivals' \in 0..MaxRivals
    BY Bounds DEF CoreInv, RestType, Dawdle
  <1>3. UNCHANGED <<journal, survivors, files, daemon, dying, old, service, pc,
                    unconfirmed, run, status, ledger, history, faults, crashes, txns>>
    BY DEF Dawdle
  <1>4. QED
    BY <1>1, <1>2, <1>3 DEF CoreInv, JournalType, FileType, ProcType, RestType,
       SurvivorsOK, DurableOK, PhaseOK, JournalOK, OldBytes, NewBytes, files, old, service,
       history

\* runDaemon keeps the first layer.
LEMMA runDaemonCore ==
    ASSUME CoreInv, NEW p \in boot, runDaemon(p)
    PROVE  CoreInv'
  <1>1. boot' \subseteq Starting /\ daemon' \in Daemons \union {NoDaemon}
    BY DEF CoreInv, ProcType, runDaemon, Starting, Daemons
  <1>2. ran' \in BOOLEAN
    BY DEF CoreInv, RestType, ProcType, runDaemon, Starting
  <1>3. UNCHANGED <<journal, survivors, files, dying, old, service, pc,
                    unconfirmed, run, status, ledger, landed, faults, bounds>>
    BY DEF runDaemon
  <1>4. QED
    BY <1>1, <1>2, <1>3 DEF CoreInv, JournalType, FileType, ProcType, RestType,
       SurvivorsOK, DurableOK, PhaseOK, JournalOK, OldBytes, NewBytes, files, old, service,
       bounds

\* migrateOnLoad keeps the first layer.
LEMMA migrateOnLoadCore ==
    ASSUME CoreInv, NEW e \in 1..Entries, migrateOnLoad(e)
    PROVE  CoreInv'
  <1>1. data' \in [1..Entries -> {"old", "migrated"}]
    BY DEF CoreInv, FileType, migrateOnLoad
  <1>2. UNCHANGED <<journal, survivors, exe, exeSurvivors, procs, old, service,
                    pc, unconfirmed, run, status, ledger, history, faults, bounds>>
    BY DEF migrateOnLoad
  <1>3. QED
    BY <1>1, <1>2 DEF CoreInv, JournalType, FileType, ProcType, RestType, SurvivorsOK,
       DurableOK, PhaseOK, JournalOK, OldBytes, NewBytes, procs, old, service, history,
       bounds

\* A step that changes nothing keeps the first layer.
LEMMA StutterCore == CoreInv /\ UNCHANGED vars => CoreInv'
  BY DEF vars, CoreInv, JournalType, FileType, ProcType, RestType, SurvivorsOK, DurableOK,
     PhaseOK, JournalOK, OldBytes, NewBytes, files, procs, old, service, history, bounds

\* The first layer at the start: no transaction, the previous bytes.
LEMMA InitCore == Init => CoreInv
  <1> SUFFICES ASSUME Init PROVE CoreInv
    OBVIOUS
  <1>1. JournalType
    <2>1. faults \in 0..MaxFaults
      BY Bounds DEF Init
    <2>2. pc \in Steps
      BY DEF Init, Steps
    <2>3. QED
      BY <2>1, <2>2 DEF Init, JournalType
  <1>2. FileType
    BY DEF Init, FileType, Bytes
  <1>3. ProcType
    BY DEF Init, ProcType, Daemons, Bytes
  <1>4. RestType
    <2>1. crashes \in 0..MaxCrashes /\ rivals \in 0..MaxRivals /\ txns \in 0..MaxTxns
      BY Bounds DEF Init
    <2>2. starts \in 0..StartLimitBurst
      BY Bounds DEF Init
    <2>3. QED
      BY <2>1, <2>2 DEF Init, RestType, FreshRun
  <1>5. SurvivorsOK
    BY NoTxnFacts DEF Init, SurvivorsOK, JournalOK, OldPhases, NewPhases, Untouched,
       Restored, Idle
  <1>6. DurableOK /\ PhaseOK
    BY NoTxnFacts DEF Init, DurableOK, PhaseOK, Loose, MayOpen
  <1>7. QED
    BY <1>1, <1>2, <1>3, <1>4, <1>5, <1>6 DEF CoreInv

\* Every step keeps the first layer.
LEMMA CoreStep == CoreInv /\ [Next]_vars => CoreInv'
  <1> SUFFICES ASSUME CoreInv, [Next]_vars PROVE CoreInv'
    OBVIOUS
  <1>1. CASE Supervise
    BY <1>1, EnterCore, AbortCore, LoopCore, advanceCore, AwaitActivationCore,
       StopPreviousCore, InstallCandidateCore, InstalledCore, StartCandidateCore,
       ValidateCandidateCore, CommittedArmCore, AbortedArmCore, DisableRecoveryJobCore,
       CleanupCore, HandOffCore, StopCandidateCore, RollbackCore, RestoreMarkerCore,
       RestoreBinaryCore, RestoreMetadataCore, RestoreEndCore, MarkRollbackFailedCore,
       RecordRejectedCandidateCore, RollbackFailedArmCore, StartPreviousCore,
       ValidatePreviousCore DEF Supervise
  <1>2. CASE Trigger
    BY <1>2, PrepareCore, InstallAndStartCore, AwaitSupervisorReadyCore,
       AbortPreparedTransactionCore, AuthorizeActivationCore DEF Trigger
  <1>3. CASE Daemon
    BY <1>3, checkUpgradeGateCore, runDaemonCore, migrateOnLoadCore, DaemonExitCore DEF
       Daemon
  <1>4. CASE Manager
    BY <1>4, TryAcquireRecoveryCore, StandDownCore, LeaveCore DEF Manager
  <1>5. CASE Disturb
    BY <1>5, RivalStartCore, WakeCore, CrashActorCore, CrashDaemonCore, PowerLossCore,
       DawdleCore DEF Disturb
  <1>6. CASE UNCHANGED vars
    BY <1>6, StutterCore
  <1>7. QED
    BY <1>1, <1>2, <1>3, <1>4, <1>5, <1>6 DEF Next

\* The first layer is an invariant.
LEMMA Core == Spec => []CoreInv
  BY InitCore, CoreStep, PTL DEF Spec

\* The variables stay in the sets the code gives them, for any number of
\* metadata files, transactions, faults, deaths and rival starts.
THEOREM UpgradeTypeCorrect == Spec => []TypeOK
  <1>1. CoreInv => TypeOK
    BY DEF CoreInv, JournalType, FileType, ProcType, RestType, TypeOK
  <1>2. QED
    BY <1>1, Core, PTL

-----------------------------------------------------------------------------
\* A step that leaves the journals, the bytes and the ledger alone.
LEMMA LedgerFrame ==
    ASSUME LedgerInv, CandidateRuns' => CandidateRuns,
           UNCHANGED <<survivors, exe, exeSurvivors, landed, ledger>>,
           UNCHANGED job \/ job' # "disabled",
           pc' \in {"disable", "cleanup"} =>
              \/ UNCHANGED <<pc, journal>>
              \/ journal'.phase \in {"committed", "aborted"}
    PROVE  LedgerInv'
  BY DEF LedgerInv

\* A journal write that keeps the installed marker, or sets it.
LEMMA LedgerWrite ==
    ASSUME CoreInv, LedgerInv, journal # NoTxn, NEW j \in Journals,
           survivors' \subseteq survivors \union {j},
           journal.inst => j.inst, j.inst => journal.inst \/ "candidate" \in exeSurvivors,
           UNCHANGED <<exe, exeSurvivors, boot, ran, landed, ledger, job>>,
           pc' \notin {"disable", "cleanup"},
           \/ job # "disabled"
           \/ /\ j.inst = journal.inst
              /\ \/ j.phase = journal.phase
                 \/ journal.phase = "rolled_back" /\ j.phase = "rollback_failed"
    PROVE  LedgerInv'
  <1>1. journal \in survivors
    BY DEF CoreInv, SurvivorsOK
  <1>2. CandidateRuns' <=> CandidateRuns
    BY DEF CandidateRuns
  <1>3. CandidateRuns =>
          \/ ledger
          \/ \A k \in survivors' : k.inst \/ (k = NoTxn /\ exe = "candidate")
    BY <1>1 DEF LedgerInv
  <1>4. ledger \/ "candidate" \in exeSurvivors \/ (\E k \in survivors' : k.inst) => landed
    BY <1>1 DEF LedgerInv
  <1>5. job = "disabled" =>
          \A k \in survivors' :
             /\ terminalPhase(k.phase) \/ k.phase \in {"none", "rollback_failed"}
             /\ k.phase \in {"rolled_back", "rollback_failed"} /\ k.inst => ledger
    BY <1>1 DEF LedgerInv
  <1>6. QED
    BY <1>2, <1>3, <1>4, <1>5 DEF LedgerInv

\* A write of a phase keeps the second layer, provided it claims no more than the ledger backs.
LEMMA LedgerPhase ==
    ASSUME CoreInv, LedgerInv, journal # NoTxn, NEW p \in Phases, NEW good, NEW bad, NEW lost,
           write([journal EXCEPT !.phase = p], good, bad, lost),
           {good, bad, lost} \cap {"disable", "cleanup"} = {},
           UNCHANGED <<exe, exeSurvivors, boot, ran, landed, ledger, job>>,
           \/ job # "disabled"
           \/ p = journal.phase
           \/ journal.phase = "rolled_back" /\ p = "rollback_failed"
    PROVE  LedgerInv'
  <1> DEFINE j == [journal EXCEPT !.phase = p]
  <1>1. journal \in Journals
    BY DEF CoreInv, JournalType
  <1>2. j \in Journals /\ j.phase = p /\ j.inst = journal.inst
    BY <1>1, JournalCopy
  <1>3. write(j, good, bad, lost)
    OBVIOUS
  <1> HIDE DEF j
  <1>4. survivors' \subseteq survivors \union {j} /\ pc' \in {good, bad, lost}
    BY <1>3 DEF write
  <1>5. QED
    BY <1>2, <1>4, LedgerWrite

\* The job is switched off only over a verdict.
LEMMA JobWorks ==
    CoreInv /\ LedgerInv /\ job = "disabled" =>
        terminalPhase(journal.phase) \/ journal.phase \in {"none", "rollback_failed"}
  BY DEF CoreInv, SurvivorsOK, LedgerInv

\* StopPrevious keeps the second layer.
LEMMA StopPreviousLedger == CoreInv /\ LedgerInv /\ StopPrevious => LedgerInv'
  BY LedgerFrame DEF StopPrevious, files, service, history, stopDaemon, CandidateRuns

\* ValidateCandidate keeps the second layer.
LEMMA ValidateCandidateLedger == CoreInv /\ LedgerInv /\ ValidateCandidate => LedgerInv'
  BY LedgerFrame DEF ValidateCandidate, files, procs, service, history, awaitIdentity,
     CandidateRuns

\* HandOff keeps the second layer.
LEMMA HandOffLedger == CoreInv /\ LedgerInv /\ HandOff => LedgerInv'
  BY LedgerFrame DEF HandOff, files, service, history, stopDaemon, CandidateRuns,
     launchPrevious, started

\* StopCandidate keeps the second layer.
LEMMA StopCandidateLedger == CoreInv /\ LedgerInv /\ StopCandidate => LedgerInv'
  BY LedgerFrame DEF StopCandidate, files, service, history, stopDaemon, CandidateRuns

\* RollbackFailedArm keeps the second layer.
LEMMA RollbackFailedArmLedger == CoreInv /\ LedgerInv /\ RollbackFailedArm => LedgerInv'
  BY LedgerFrame DEF RollbackFailedArm, files, procs, old, service, history, CandidateRuns

\* StartPrevious keeps the second layer.
LEMMA StartPreviousLedger == CoreInv /\ LedgerInv /\ StartPrevious => LedgerInv'
  BY LedgerFrame DEF StartPrevious, files, service, history, CandidateRuns, launchPrevious,
     started

\* ValidatePrevious keeps the second layer.
LEMMA ValidatePreviousLedger == CoreInv /\ LedgerInv /\ ValidatePrevious => LedgerInv'
  BY LedgerFrame DEF ValidatePrevious, files, procs, service, history, awaitIdentity,
     CandidateRuns

\* InstallAndStart keeps the second layer.
LEMMA InstallAndStartLedger == CoreInv /\ LedgerInv /\ InstallAndStart => LedgerInv'
  BY LedgerFrame DEF InstallAndStart, service, files, procs, history, CandidateRuns

\* AwaitSupervisorReady keeps the second layer.
LEMMA AwaitSupervisorReadyLedger == CoreInv /\ LedgerInv /\ AwaitSupervisorReady => LedgerInv'
  BY LedgerFrame DEF AwaitSupervisorReady, files, procs, service, history, CandidateRuns

\* AuthorizeActivation keeps the second layer.
LEMMA AuthorizeActivationLedger == CoreInv /\ LedgerInv /\ AuthorizeActivation => LedgerInv'
  BY LedgerFrame DEF AuthorizeActivation, files, service, history, CandidateRuns

\* DaemonExit keeps the second layer.
LEMMA DaemonExitLedger == CoreInv /\ LedgerInv /\ DaemonExit => LedgerInv'
  BY LedgerFrame DEF DaemonExit, files, service, history, CandidateRuns

\* TryAcquireRecovery keeps the second layer.
LEMMA TryAcquireRecoveryLedger == CoreInv /\ LedgerInv /\ TryAcquireRecovery => LedgerInv'
  BY LedgerFrame DEF TryAcquireRecovery, files, procs, history, CandidateRuns

\* StandDown keeps the second layer.
LEMMA StandDownLedger == CoreInv /\ LedgerInv /\ StandDown => LedgerInv'
  BY LedgerFrame DEF StandDown, files, procs, old, history, CandidateRuns

\* Leave keeps the second layer.
LEMMA LeaveLedger == CoreInv /\ LedgerInv /\ Leave => LedgerInv'
  BY LedgerFrame DEF Leave, files, procs, old, history, CandidateRuns

\* RivalStart keeps the second layer.
LEMMA RivalStartLedger == CoreInv /\ LedgerInv /\ RivalStart => LedgerInv'
  BY LedgerFrame DEF RivalStart, files, service, history, CandidateRuns, started

\* Wake keeps the second layer.
LEMMA WakeLedger == CoreInv /\ LedgerInv /\ Wake => LedgerInv'
  BY LedgerFrame DEF Wake, files, procs, old, history, CandidateRuns

\* CrashActor keeps the second layer.
LEMMA CrashActorLedger == CoreInv /\ LedgerInv /\ CrashActor => LedgerInv'
  BY LedgerFrame DEF CrashActor, files, procs, old, history, CandidateRuns

\* CrashDaemon keeps the second layer.
LEMMA CrashDaemonLedger == CoreInv /\ LedgerInv /\ CrashDaemon => LedgerInv'
  BY LedgerFrame DEF CrashDaemon, files, service, history, CandidateRuns

\* AbortedArm keeps the second layer.
LEMMA AbortedArmLedger == CoreInv /\ LedgerInv /\ AbortedArm => LedgerInv'
  BY LedgerFrame DEF AbortedArm, files, procs, service, history, CandidateRuns, At

\* runDaemon keeps the second layer.
LEMMA runDaemonLedger ==
    ASSUME CoreInv, LedgerInv, NEW p \in boot, runDaemon(p)
    PROVE  LedgerInv'
  BY LedgerFrame DEF runDaemon, files, old, service, CandidateRuns

\* migrateOnLoad keeps the second layer.
LEMMA migrateOnLoadLedger ==
    ASSUME CoreInv, LedgerInv, NEW e \in 1..Entries, migrateOnLoad(e)
    PROVE  LedgerInv'
  BY LedgerFrame DEF migrateOnLoad, procs, old, service, history, CandidateRuns

\* A step that changes nothing keeps the second layer.
LEMMA StutterLedger == LedgerInv /\ UNCHANGED vars => LedgerInv'
  BY LedgerFrame DEF vars, files, procs, service, history, CandidateRuns

\* checkUpgradeGate keeps the second layer.
LEMMA checkUpgradeGateLedger ==
    ASSUME CoreInv, LedgerInv, NEW p \in boot, checkUpgradeGate(p)
    PROVE  LedgerInv'
  <1> DEFINE q == [p EXCEPT !.gated = TRUE]
  <1>1. q.txn = p.txn /\ q.bytes = p.bytes
    BY DEF CoreInv, ProcType, Starting
  <1>2. boot' \subseteq boot \union {q}
    BY DEF checkUpgradeGate
  <1>3. UNCHANGED <<journal, survivors, files, pc, job, ledger, history>>
    BY DEF checkUpgradeGate, old, service
  <1> HIDE DEF q
  <1>4. CandidateRuns' => CandidateRuns
    BY <1>1, <1>2, <1>3 DEF CandidateRuns, history
  <1>5. QED
    BY <1>3, <1>4, LedgerFrame DEF files, history

\* Dawdle keeps the second layer.
LEMMA DawdleLedger ==
    ASSUME CoreInv, LedgerInv, NEW p \in boot, Dawdle(p)
    PROVE  LedgerInv'
  <1> DEFINE q == [p EXCEPT !.slow = TRUE]
  <1>1. q.txn = p.txn /\ q.bytes = p.bytes
    BY DEF CoreInv, ProcType, Starting
  <1>2. boot' \subseteq boot \union {q}
    BY DEF Dawdle
  <1>3. UNCHANGED <<journal, survivors, files, pc, job, ledger, history>>
    BY DEF Dawdle, old, service
  <1> HIDE DEF q
  <1>4. CandidateRuns' => CandidateRuns
    BY <1>1, <1>2, <1>3 DEF CandidateRuns, history
  <1>5. QED
    BY <1>3, <1>4, LedgerFrame DEF files, history

\* Enter keeps the second layer.
LEMMA EnterLedger == CoreInv /\ LedgerInv /\ Enter => LedgerInv'
  <1> SUFFICES ASSUME CoreInv, LedgerInv, Enter PROVE LedgerInv'
    OBVIOUS
  <1>1. UNCHANGED <<exe, exeSurvivors, boot, ran, landed, ledger, job>>
    BY DEF Enter, files, procs, service, history
  <1>2. journal \in Journals /\ journal # NoTxn /\ journal.phase \in Phases
    BY NoTxnFacts DEF CoreInv, JournalType, PhaseOK, Enter
  <1>3. CASE \E good \in {"abort", "loop"} :
                write([journal EXCEPT !.phase = journal.phase], good, "leaving", "leaving")
    BY <1>1, <1>2, <1>3, LedgerPhase
  <1>4. CASE /\ pc' \in {"abort", "loop", "leaving"}
             /\ UNCHANGED <<journal, survivors, unconfirmed>>
    BY <1>1, <1>4, LedgerFrame DEF CandidateRuns
  <1>5. QED
    BY <1>3, <1>4 DEF Enter, reaffirmDurableJournal, persistPhase, persistJournal

\* Loop keeps the second layer.
LEMMA LoopLedger == CoreInv /\ LedgerInv /\ Loop => LedgerInv'
  <1> SUFFICES ASSUME CoreInv, LedgerInv, Loop PROVE LedgerInv'
    OBVIOUS
  <1>1. UNCHANGED <<exe, exeSurvivors, boot, ran, landed, ledger, job>>
    BY DEF Loop, files, procs, service, history
  <1>2. journal \in Journals /\ journal # NoTxn /\ journal.phase \in Phases
    BY NoTxnFacts DEF CoreInv, JournalType, PhaseOK, Loop
  <1>3. CASE \E good \in {"unwind", "act"} :
                write([journal EXCEPT !.phase = journal.phase], good, "leaving", "leaving")
    BY <1>1, <1>2, <1>3, LedgerPhase
  <1>4. CASE /\ pc' \in {"unwind", "act", "leaving"}
             /\ UNCHANGED <<journal, survivors, unconfirmed>>
    BY <1>1, <1>4, LedgerFrame DEF CandidateRuns
  <1>5. QED
    BY <1>3, <1>4 DEF Loop, reaffirmDurableJournal, persistPhase, persistJournal, loopHead,
       Fail

\* Abort keeps the second layer.
LEMMA AbortLedger == CoreInv /\ LedgerInv /\ Abort => LedgerInv'
  <1> SUFFICES ASSUME CoreInv, LedgerInv, Abort PROVE LedgerInv'
    OBVIOUS
  <1>1. UNCHANGED <<exe, exeSurvivors, boot, ran, landed, ledger, job>>
    BY DEF Abort, files, procs, service, history
  <1>2. journal \in Journals /\ journal # NoTxn
    BY NoTxnFacts DEF CoreInv, JournalType, PhaseOK, Abort
  <1>3. job # "disabled"
    BY <1>2, JobWorks DEF CoreInv, PhaseOK, terminalPhase, preCommit, Abort
  <1>4. QED
    BY <1>1, <1>2, <1>3, LedgerPhase DEF Abort, persistPhase, persistJournal, Phases

\* advance keeps the second layer.
LEMMA advanceLedger == CoreInv /\ LedgerInv /\ advance => LedgerInv'
  <1> SUFFICES ASSUME CoreInv, LedgerInv, advance PROVE LedgerInv'
    OBVIOUS
  <1>1. UNCHANGED <<exe, exeSurvivors, boot, ran, landed, ledger, job>>
    BY DEF advance, files, procs, service, history
  <1>2. journal \in Journals /\ journal # NoTxn
    BY NoTxnFacts DEF CoreInv, JournalType, PhaseOK, advance, At
  <1>3. job # "disabled"
    BY <1>2, JobWorks DEF CoreInv, PhaseOK, terminalPhase, preCommit, advance, At
  <1>4. QED
    BY <1>1, <1>2, <1>3, LedgerPhase DEF advance, persistPhase, persistJournal, Phases

\* AwaitActivation keeps the second layer.
LEMMA AwaitActivationLedger == CoreInv /\ LedgerInv /\ AwaitActivation => LedgerInv'
  <1> SUFFICES ASSUME CoreInv, LedgerInv, AwaitActivation PROVE LedgerInv'
    OBVIOUS
  <1>1. UNCHANGED <<exe, exeSurvivors, boot, ran, landed, ledger, job>>
    BY DEF AwaitActivation, files, procs, service, history
  <1>2. journal \in Journals /\ journal # NoTxn
    BY NoTxnFacts DEF CoreInv, JournalType, PhaseOK, AwaitActivation, At
  <1>3. job # "disabled"
    BY <1>2, JobWorks DEF CoreInv, PhaseOK, terminalPhase, preCommit, AwaitActivation, At
  <1>4. CASE persistPhase("daemon_stopping", "loop", "leaving")
    BY <1>1, <1>2, <1>3, <1>4, LedgerPhase DEF persistPhase, persistJournal, Phases
  <1>5. CASE ~persistPhase("daemon_stopping", "loop", "leaving")
    BY <1>1, <1>5, LedgerFrame DEF AwaitActivation, Fail, CandidateRuns
  <1>6. QED
    BY <1>4, <1>5

\* Rollback keeps the second layer.
LEMMA RollbackLedger == CoreInv /\ LedgerInv /\ Rollback => LedgerInv'
  <1> SUFFICES ASSUME CoreInv, LedgerInv, Rollback PROVE LedgerInv'
    OBVIOUS
  <1>1. UNCHANGED <<exe, exeSurvivors, boot, ran, landed, ledger, job>>
    BY DEF Rollback, files, procs, service, history
  <1>2. journal \in Journals /\ journal # NoTxn
    BY NoTxnFacts DEF CoreInv, JournalType, PhaseOK, Rollback, At
  <1>3. job # "disabled"
    BY <1>2, JobWorks DEF CoreInv, PhaseOK, terminalPhase, preCommit, Rollback, At
  <1>4. CASE pc = "rollback"
    BY <1>1, <1>2, <1>3, <1>4, LedgerPhase DEF Rollback, At, persistPhase, persistJournal,
       Phases
  <1>5. CASE pc # "rollback"
    BY <1>1, <1>5, LedgerFrame DEF Rollback, CandidateRuns
  <1>6. QED
    BY <1>4, <1>5

\* RestoreEnd keeps the second layer.
LEMMA RestoreEndLedger == CoreInv /\ LedgerInv /\ RestoreEnd => LedgerInv'
  <1> SUFFICES ASSUME CoreInv, LedgerInv, RestoreEnd PROVE LedgerInv'
    OBVIOUS
  <1>1. UNCHANGED <<exe, exeSurvivors, boot, ran, landed, ledger, job>>
    BY DEF RestoreEnd, files, procs, service, history
  <1>2. journal \in Journals /\ journal # NoTxn
    BY NoTxnFacts DEF CoreInv, JournalType, PhaseOK, RestoreEnd
  <1>3. job # "disabled"
    BY <1>2, JobWorks DEF CoreInv, PhaseOK, terminalPhase, preCommit, RestoreEnd
  <1>4. QED
    BY <1>1, <1>2, <1>3, LedgerPhase DEF RestoreEnd, persistPhase, persistJournal, Phases

\* MarkRollbackFailed keeps the second layer.
LEMMA MarkRollbackFailedLedger == CoreInv /\ LedgerInv /\ MarkRollbackFailed => LedgerInv'
  <1> SUFFICES ASSUME CoreInv, LedgerInv, MarkRollbackFailed PROVE LedgerInv'
    OBVIOUS
  <1>1. UNCHANGED <<exe, exeSurvivors, boot, ran, landed, ledger, job>>
    BY DEF MarkRollbackFailed, files, procs, service, history
  <1>2. journal \in Journals /\ journal # NoTxn
    BY NoTxnFacts DEF CoreInv, JournalType, PhaseOK, MarkRollbackFailed
  <1>3. job # "disabled" \/ journal.phase \in {"rolled_back", "rollback_failed"}
    BY <1>2, JobWorks DEF CoreInv, PhaseOK, terminalPhase, MarkRollbackFailed
  <1>4. CASE pc' = "reject" /\ UNCHANGED <<journal, survivors, unconfirmed>>
    BY <1>1, <1>4, LedgerFrame DEF CandidateRuns
  <1>5. CASE persistPhase("rollback_failed", "reject", "leaving")
    BY <1>1, <1>2, <1>3, <1>5, LedgerPhase DEF persistPhase, persistJournal, Phases
  <1>6. QED
    BY <1>4, <1>5 DEF MarkRollbackFailed

\* Installed keeps the second layer.
LEMMA InstalledLedger == CoreInv /\ LedgerInv /\ Installed => LedgerInv'
  <1> SUFFICES ASSUME CoreInv, LedgerInv, Installed PROVE LedgerInv'
    OBVIOUS
  <1>1. UNCHANGED <<exe, exeSurvivors, boot, ran, landed, ledger, job>>
    BY DEF Installed, files, procs, service, history
  <1>2. journal \in Journals /\ journal # NoTxn
    BY NoTxnFacts DEF CoreInv, JournalType, PhaseOK, Installed
  <1>3. job # "disabled"
    BY <1>2, JobWorks DEF CoreInv, PhaseOK, terminalPhase, preCommit, Installed
  <1>4. "candidate" \in exeSurvivors
    BY DEF Installed, CoreInv, PhaseOK, NewBytes
  <1>5. LedgerInv'
    <2> DEFINE j == [journal EXCEPT !.phase = "candidate_installed", !.inst = TRUE]
    <2>1. j \in Journals /\ (journal.inst => j.inst) /\ (j.inst => journal.inst \/ "candidate" \in exeSurvivors)
      BY <1>2, <1>4, MarkerCopies
    <2>2. write(j, "loop", "unwind", "unwind")
      BY <1>4 DEF Installed, persistJournal
    <2> HIDE DEF j
    <2>3. survivors' \subseteq survivors \union {j} /\ pc' \in {"loop", "unwind"}
      BY <2>2 DEF write
    <2>4. QED
      BY <1>1, <1>2, <1>3, <2>1, <2>3, LedgerWrite
  <1>6. QED
    BY <1>5

\* RestoreMarker keeps the second layer.
LEMMA RestoreMarkerLedger == CoreInv /\ LedgerInv /\ RestoreMarker => LedgerInv'
  <1> SUFFICES ASSUME CoreInv, LedgerInv, RestoreMarker PROVE LedgerInv'
    OBVIOUS
  <1>1. UNCHANGED <<exe, exeSurvivors, boot, ran, landed, ledger, job>>
    BY DEF RestoreMarker, files, procs, service, history
  <1>2. journal \in Journals /\ journal # NoTxn
    BY NoTxnFacts DEF CoreInv, JournalType, PhaseOK, RestoreMarker
  <1>3. job # "disabled"
    BY <1>2, JobWorks DEF CoreInv, PhaseOK, terminalPhase, preCommit, RestoreMarker
  <1>4. CASE exe = "candidate" /\ ~journal.inst
             /\ persistJournal([journal EXCEPT !.inst = TRUE], "restoreBinary", "restoreFailed")
    <2> DEFINE j == [journal EXCEPT !.inst = TRUE]
    <2>1. j \in Journals /\ (journal.inst => j.inst) /\ (j.inst => journal.inst \/ "candidate" \in exeSurvivors)
      BY <1>2, <1>4, MarkerCopies DEF CoreInv, SurvivorsOK
    <2>2. write(j, "restoreBinary", "restoreFailed", "restoreFailed")
      BY <1>4 DEF RestoreMarker, persistJournal
    <2> HIDE DEF j
    <2>3. survivors' \subseteq survivors \union {j} /\ pc' \in {"restoreBinary", "restoreFailed"}
      BY <2>2 DEF write
    <2>4. QED
      BY <1>1, <1>2, <1>3, <2>1, <2>3, LedgerWrite
  <1>5. CASE pc' = "restoreBinary" /\ UNCHANGED <<journal, survivors, unconfirmed>>
    BY <1>1, <1>5, LedgerFrame DEF CandidateRuns
  <1>6. QED
    BY <1>4, <1>5 DEF RestoreMarker

\* RestoreBinary keeps the second layer.
LEMMA RestoreBinaryLedger == CoreInv /\ LedgerInv /\ RestoreBinary => LedgerInv'
  <1> SUFFICES ASSUME CoreInv, LedgerInv, RestoreBinary PROVE LedgerInv'
    OBVIOUS
  <1>1. UNCHANGED <<boot, ran, landed, ledger, job>>
    BY DEF RestoreBinary, procs, service, history
  <1>2. journal \in Journals /\ journal # NoTxn
    BY NoTxnFacts DEF CoreInv, JournalType, PhaseOK, RestoreBinary
  <1>3. job # "disabled"
    BY <1>2, JobWorks DEF CoreInv, PhaseOK, terminalPhase, preCommit, RestoreBinary
  <1>4. CASE pc = "binaryRestored"
    <2> DEFINE j == [journal EXCEPT !.bin = TRUE]
    <2>1. j \in Journals /\ (journal.inst => j.inst) /\ (j.inst => journal.inst \/ "candidate" \in exeSurvivors)
      BY <1>2, <1>4, MarkerCopies
    <2>2. write(j, "restoreMetadata", "restoreFailed", "restoreFailed")
      BY <1>4 DEF RestoreBinary, persistJournal
    <2> HIDE DEF j
    <2>3. survivors' \subseteq survivors \union {j} /\ pc' \in {"restoreMetadata", "restoreFailed"}
      BY <2>2 DEF write
    <2>4. QED
      BY <1>1, <1>2, <1>3, <1>4, <2>1, <2>3, LedgerWrite DEF RestoreBinary
  <1>5. CASE pc = "restoreBinary"
    <2>1. /\ exeSurvivors' \subseteq exeSurvivors \union {"previous"}
          /\ UNCHANGED survivors /\ pc' \notin {"disable", "cleanup"}
      BY <1>5 DEF RestoreBinary, writeExecutable
    <2>2. NoTxn \notin survivors
      BY <1>5 DEF CoreInv, SurvivorsOK, PhaseOK
    <2>3. QED
      BY <1>1, <1>3, <2>1, <2>2 DEF LedgerInv, CandidateRuns
  <1>6. QED
    BY <1>4, <1>5 DEF RestoreBinary

\* RestoreMetadata keeps the second layer.
LEMMA RestoreMetadataLedger == CoreInv /\ LedgerInv /\ RestoreMetadata => LedgerInv'
  <1> SUFFICES ASSUME CoreInv, LedgerInv, RestoreMetadata PROVE LedgerInv'
    OBVIOUS
  <1>1. UNCHANGED <<exe, exeSurvivors, boot, ran, landed, ledger, job>>
    BY DEF RestoreMetadata, files, procs, service, history
  <1>2. journal \in Journals /\ journal # NoTxn
    BY NoTxnFacts DEF CoreInv, JournalType, PhaseOK, RestoreMetadata
  <1>3. job # "disabled"
    BY <1>2, JobWorks DEF CoreInv, PhaseOK, terminalPhase, preCommit, RestoreMetadata
  <1>4. CASE pc = "entryRestored"
    <2> DEFINE j == [journal EXCEPT !.meta = @ + 1]
    <2>1. j \in Journals /\ (journal.inst => j.inst) /\ (j.inst => journal.inst \/ "candidate" \in exeSurvivors)
      BY <1>2, <1>4, EntryCopy DEF CoreInv, PhaseOK
    <2>2. write(j, "restoreMetadata", "restoreFailed", "restoreFailed")
      BY <1>4 DEF RestoreMetadata, persistJournal
    <2> HIDE DEF j
    <2>3. survivors' \subseteq survivors \union {j} /\ pc' \in {"restoreMetadata", "restoreFailed"}
      BY <2>2 DEF write
    <2>4. QED
      BY <1>1, <1>2, <1>3, <2>1, <2>3, LedgerWrite
  <1>5. CASE pc = "restoreMetadata"
    BY <1>1, <1>5, LedgerFrame DEF RestoreMetadata, CandidateRuns
  <1>6. QED
    BY <1>4, <1>5 DEF RestoreMetadata

\* InstallCandidate keeps the second layer.
LEMMA InstallCandidateLedger == CoreInv /\ LedgerInv /\ InstallCandidate => LedgerInv'
  <1> SUFFICES ASSUME CoreInv, LedgerInv, InstallCandidate PROVE LedgerInv'
    OBVIOUS
  <1>1. journal.phase = "daemon_stopped" /\ NoTxn \notin survivors
    BY NoTxnFacts DEF InstallCandidate, At, CoreInv, SurvivorsOK
  <1>2. UNCHANGED <<survivors, boot, ran, ledger, job>> /\ pc' \notin {"disable", "cleanup"}
    BY DEF InstallCandidate, writeExecutable, procs, service
  <1>3. "candidate" \in exeSurvivors' => landed' \/ "candidate" \in exeSurvivors
    BY DEF InstallCandidate, writeExecutable
  <1>4. job # "disabled"
    BY <1>1, JobWorks DEF terminalPhase
  <1>5. landed => landed'
    BY DEF InstallCandidate
  <1>6. QED
    BY <1>1, <1>2, <1>3, <1>4, <1>5 DEF LedgerInv, CandidateRuns

\* StartCandidate keeps the second layer.
LEMMA StartCandidateLedger == CoreInv /\ LedgerInv /\ StartCandidate => LedgerInv'
  <1> SUFFICES ASSUME CoreInv, LedgerInv, StartCandidate PROVE LedgerInv'
    OBVIOUS
  <1>1. UNCHANGED <<survivors, exe, exeSurvivors, ran, landed, ledger, job>>
    BY DEF StartCandidate, files, service, history
  <1>2. journal.phase \in {"candidate_starting", "committed"} => \A j \in survivors : j.inst
    BY DEF CoreInv, SurvivorsOK, DurableOK, MayOpen, Loose, JournalOK, NewPhases,
       StartCandidate, At
  <1>3. (\A j \in survivors : j.inst) /\ pc' \notin {"disable", "cleanup"}
    BY <1>2 DEF StartCandidate, At, launchCandidate
  <1>4. QED
    BY <1>1, <1>3 DEF LedgerInv, StartCandidate, service

\* CommittedArm keeps the second layer.
LEMMA CommittedArmLedger == CoreInv /\ LedgerInv /\ CommittedArm => LedgerInv'
  <1> SUFFICES ASSUME CoreInv, LedgerInv, CommittedArm PROVE LedgerInv'
    OBVIOUS
  <1>1. UNCHANGED <<survivors, exe, exeSurvivors, ran, landed, ledger, job>>
    BY DEF CommittedArm, files, service, history
  <1>2. journal.phase \in {"candidate_starting", "committed"} => \A j \in survivors : j.inst
    BY DEF CoreInv, SurvivorsOK, DurableOK, MayOpen, Loose, JournalOK, NewPhases,
       CommittedArm, At
  <1>3. journal.phase = "committed" /\ journal' = journal
    BY DEF CommittedArm, At, CoreInv, PhaseOK
  <1>4. \A j \in survivors : j.inst
    BY <1>2, <1>3
  <1>5. QED
    BY <1>1, <1>3, <1>4 DEF LedgerInv

\* DisableRecoveryJob keeps the second layer.
LEMMA DisableRecoveryJobLedger == CoreInv /\ LedgerInv /\ DisableRecoveryJob => LedgerInv'
  <1> SUFFICES ASSUME CoreInv, LedgerInv, DisableRecoveryJob PROVE LedgerInv'
    OBVIOUS
  <1>1. survivors = {journal} /\ UNCHANGED <<journal, survivors, exe, exeSurvivors, boot, ran, landed, ledger>>
    BY DEF DisableRecoveryJob, CoreInv, DurableOK, MayOpen, Loose, files, procs, history
  <1>2. CandidateRuns' <=> CandidateRuns
    BY <1>1 DEF CandidateRuns
  <1>3. journal.phase \in {"rolled_back", "rollback_failed"} /\ journal.inst => ledger
    BY DEF DisableRecoveryJob, LedgerInv
  <1>4. terminalPhase(journal.phase) \/ journal.phase = "rollback_failed"
    BY DEF DisableRecoveryJob, CoreInv, PhaseOK
  <1>5. pc' \in {"disable", "cleanup"} => UNCHANGED journal /\ pc = "disable"
    BY <1>1 DEF DisableRecoveryJob
  <1>6. QED
    BY <1>1, <1>2, <1>3, <1>4, <1>5 DEF LedgerInv

\* Cleanup keeps the second layer.
LEMMA CleanupLedger == CoreInv /\ LedgerInv /\ Cleanup => LedgerInv'
  <1> SUFFICES ASSUME CoreInv, LedgerInv, Cleanup PROVE LedgerInv'
    OBVIOUS
  <1>1. survivors = {journal} /\ journal # NoTxn
    BY DEF Cleanup, CoreInv, DurableOK, PhaseOK, MayOpen, Loose
  <1>2. /\ survivors' \subseteq survivors \union {NoTxn} /\ pc' \notin {"disable", "cleanup"}
        /\ UNCHANGED <<exe, exeSurvivors, boot, ran, landed, ledger>>
        /\ job' = job \/ job' = "absent"
    BY DEF Cleanup, Fail, files, procs, history
  <1>3. CandidateRuns' <=> CandidateRuns
    BY <1>2 DEF CandidateRuns
  <1>4. CandidateRuns => ledger \/ exe = "candidate"
    <2>1. CASE journal.phase = "committed"
      BY <1>1, <2>1 DEF CoreInv, SurvivorsOK, JournalOK, NewPhases, NewBytes
    <2>2. CASE journal.phase = "aborted"
      BY <1>1, <2>2 DEF CoreInv, SurvivorsOK, JournalOK, Untouched, LedgerInv
    <2>3. CASE journal.phase = "rolled_back"
      BY <1>1, <2>3 DEF Cleanup, LedgerInv
    <2>4. QED
      BY <2>1, <2>2, <2>3 DEF Cleanup, terminalPhase
  <1>5. QED
    BY <1>1, <1>2, <1>3, <1>4, NoTxnFacts DEF LedgerInv

\* AbortPreparedTransaction keeps the second layer.
LEMMA AbortPreparedTransactionLedger == CoreInv /\ LedgerInv /\ AbortPreparedTransaction => LedgerInv'
  <1> SUFFICES ASSUME CoreInv, LedgerInv, AbortPreparedTransaction PROVE LedgerInv'
    OBVIOUS
  <1>1. /\ UNCHANGED <<exe, exeSurvivors, boot, ran, landed, ledger, pc>>
        /\ job' = job \/ job' = "absent"
    BY DEF AbortPreparedTransaction, files, procs, history
  <1>2. CASE UNCHANGED <<journal, survivors, job>>
    BY <1>1, <1>2, LedgerFrame DEF CandidateRuns
  <1>3. CASE /\ journal.phase = "prepared" /\ ~Live
             /\ survivors' \subseteq survivors \union {NoTxn}
    <2>1. pc \notin {"disable", "cleanup"}
      BY <1>3 DEF Live
    <2>2. CandidateRuns => ledger
      BY <1>3, NoTxnFacts DEF CoreInv, SurvivorsOK, JournalOK, Untouched, LedgerInv
    <2>3. CandidateRuns' <=> CandidateRuns
      BY <1>1 DEF CandidateRuns
    <2>4. QED
      BY <1>1, <1>3, <2>1, <2>2, <2>3, NoTxnFacts DEF LedgerInv
  <1>4. QED
    BY <1>2, <1>3 DEF AbortPreparedTransaction

\* Prepare keeps the second layer.
LEMMA PrepareLedger == CoreInv /\ LedgerInv /\ Prepare => LedgerInv'
  <1> SUFFICES ASSUME CoreInv, LedgerInv, Prepare PROVE LedgerInv'
    OBVIOUS
  <1>1. /\ UNCHANGED <<exe, exeSurvivors, boot, ran, landed, ledger, pc>> /\ job' = "absent"
        /\ ~ledger /\ exe = "previous" /\ pc = "none" /\ NoTxn \in survivors
    BY DEF Prepare, files, procs, history, CoreInv, SurvivorsOK
  <1>2. journal'.inst = FALSE /\ survivors' \subseteq survivors \union {journal'}
    BY DEF Prepare, NoTxn
  <1>3. ~CandidateRuns
    BY <1>1, NoTxnFacts DEF LedgerInv
  <1>4. QED
    BY <1>1, <1>2, <1>3 DEF LedgerInv, CandidateRuns

\* RecordRejectedCandidate keeps the second layer.
LEMMA RecordRejectedCandidateLedger == CoreInv /\ LedgerInv /\ RecordRejectedCandidate => LedgerInv'
  <1> SUFFICES ASSUME CoreInv, LedgerInv, RecordRejectedCandidate PROVE LedgerInv'
    OBVIOUS
  <1>1. /\ UNCHANGED <<journal, survivors, exe, exeSurvivors, boot, ran, landed, job>>
        /\ \/ ledger' = (ledger \/ journal.inst) /\ pc' = "disable"
           \/ ledger' = ledger /\ pc' = "leaving"
    BY DEF RecordRejectedCandidate, Fail, files, procs, service, history
  <1>2. CandidateRuns' <=> CandidateRuns
    BY <1>1 DEF CandidateRuns
  <1>3. journal \in survivors
    BY DEF CoreInv, SurvivorsOK
  <1>4. (ledger => ledger') /\ (pc' = "disable" /\ journal.inst => ledger')
    <2>1. ledger \in BOOLEAN /\ journal.inst \in BOOLEAN
      BY NoTxnFacts DEF CoreInv, RestType, JournalType, Journals
    <2>2. CASE ledger' = (ledger \/ journal.inst)
      BY <2>1, <2>2
    <2>3. CASE ledger' = ledger /\ pc' = "leaving"
      BY <2>1, <2>3
    <2>4. QED
      BY <1>1, <2>2, <2>3
  <1>5. ledger' => landed
    BY <1>1, <1>3 DEF LedgerInv
  <1>6. QED
    BY <1>1, <1>2, <1>4, <1>5 DEF LedgerInv

\* PowerLoss keeps the second layer.
LEMMA PowerLossLedger == CoreInv /\ LedgerInv /\ PowerLoss => LedgerInv'
  <1> SUFFICES ASSUME CoreInv, LedgerInv, PowerLoss PROVE LedgerInv'
    OBVIOUS
  <1>1. /\ survivors' \subseteq survivors /\ exeSurvivors' \subseteq exeSurvivors
        /\ boot' = {} /\ pc' = "none" /\ UNCHANGED <<ran, landed, ledger, job>>
        /\ exe' \in exeSurvivors
    BY DEF PowerLoss, history
  <1>2. CandidateRuns' => CandidateRuns
    BY <1>1 DEF CandidateRuns
  <1>3. NoTxn \in survivors => exe' = exe
    BY <1>1 DEF CoreInv, SurvivorsOK, JournalOK
  <1>4. QED
    BY <1>1, <1>2, <1>3 DEF LedgerInv

\* The second layer at the start: no candidate has run.
LEMMA InitLedger == Init => LedgerInv
  BY NoTxnFacts DEF Init, LedgerInv, CandidateRuns

\* Every step keeps the second layer.
LEMMA LedgerStep == CoreInv /\ LedgerInv /\ [Next]_vars => LedgerInv'
  <1> SUFFICES ASSUME CoreInv, LedgerInv, [Next]_vars PROVE LedgerInv'
    OBVIOUS
  <1>1. CASE Supervise
    BY <1>1, EnterLedger, AbortLedger, LoopLedger, advanceLedger, AwaitActivationLedger,
       StopPreviousLedger, InstallCandidateLedger, InstalledLedger, StartCandidateLedger,
       ValidateCandidateLedger, CommittedArmLedger, AbortedArmLedger,
       DisableRecoveryJobLedger, CleanupLedger, HandOffLedger, StopCandidateLedger,
       RollbackLedger, RestoreMarkerLedger, RestoreBinaryLedger, RestoreMetadataLedger,
       RestoreEndLedger, MarkRollbackFailedLedger, RecordRejectedCandidateLedger,
       RollbackFailedArmLedger, StartPreviousLedger, ValidatePreviousLedger DEF Supervise
  <1>2. CASE Trigger
    BY <1>2, PrepareLedger, InstallAndStartLedger, AwaitSupervisorReadyLedger,
       AbortPreparedTransactionLedger, AuthorizeActivationLedger DEF Trigger
  <1>3. CASE Daemon
    BY <1>3, checkUpgradeGateLedger, runDaemonLedger, migrateOnLoadLedger, DaemonExitLedger
       DEF Daemon
  <1>4. CASE Manager
    BY <1>4, TryAcquireRecoveryLedger, StandDownLedger, LeaveLedger DEF Manager
  <1>5. CASE Disturb
    BY <1>5, RivalStartLedger, WakeLedger, CrashActorLedger, CrashDaemonLedger,
       PowerLossLedger, DawdleLedger DEF Disturb
  <1>6. CASE UNCHANGED vars
    BY <1>6, StutterLedger
  <1>7. QED
    BY <1>1, <1>2, <1>3, <1>4, <1>5, <1>6 DEF Next

\* Both layers are invariants.
LEMMA Ledger == Spec => [](CoreInv /\ LedgerInv)
  BY Core, InitLedger, LedgerStep, PTL DEF Spec

\* A candidate that ran and was taken back is in the rejected ledger before the
\* journal naming it is gone or its recovery is switched off, and only a build
\* that was installed is ever disqualified.
THEOREM RejectedIsRecorded == Spec => []RejectedBeforeForgotten
  <1>1. CoreInv /\ LedgerInv => RejectedBeforeForgotten
    BY NoTxnFacts DEF CoreInv, SurvivorsOK, LedgerInv, CandidateRuns,
       RejectedBeforeForgotten
  <1>2. QED
    BY <1>1, Ledger, PTL

\* The actor acts on a phase, and its job is switched off over a verdict, only
\* when no power loss can take it back.
THEOREM ActsOnDurablePhase == Spec => []PhaseIsDurable
  <1>1. CoreInv /\ LedgerInv => PhaseIsDurable
    BY DEF CoreInv, DurableOK, MayOpen, Loose, LedgerInv, PhaseIsDurable, phasesOf
  <1>2. QED
    BY <1>1, Ledger, PTL

(***************************************************************************)
(* The refinement of AtomicUpgrade.                                        *)
(***************************************************************************)
\* A journal in one of these phases leaves the upgrade undecided.
OpenPhases == {"supervisor_ready", "daemon_stopping", "daemon_stopped", "candidate_installed",
               "candidate_starting", "candidate_validating", "rolling_back"}
OldVerdict == Restored \union {"aborted", "none", "rollback_failed"}

\* Which phases a set of journals covers, element by element.
LEMMA InPhases ==
    ASSUME NEW S
    PROVE  /\ \A j \in S : j.phase \in phasesOf(S)
           /\ \A p \in phasesOf(S) : \E j \in S : j.phase = p
  BY DEF phasesOf

\* The verdict, one case at a time.
LEMMA VerdictIs ==
    ASSUME NEW S
    PROVE  LET P == phasesOf(S)
               none == "none" \in P /\ P \subseteq {"none", "prepared"}
               new  == P \subseteq {"none", "committed"}
               brkn == P = {"rollback_failed"}
               aged0 == P \subseteq OldVerdict
           IN  /\ none => verdictOf(S) = "none"
               /\ ~none /\ new => verdictOf(S) = "new"
               /\ ~none /\ ~new /\ brkn => verdictOf(S) = "broken"
               /\ ~none /\ ~new /\ ~brkn /\ aged0 => verdictOf(S) = "old"
               /\ ~none /\ ~new /\ ~brkn /\ ~aged0 => verdictOf(S) = "open"
  <1> DEFINE P == phasesOf(S)
  <1>1. (\A p \in P : IsRollbackRestore(p) \/ p \in {"none", "aborted", "rollback_failed"})
          <=> P \subseteq OldVerdict
    BY DEF IsRollbackRestore, OldVerdict, Restored
  <1>2. verdictOf(S) =
           IF "none" \in P /\ P \subseteq {"none", "prepared"} THEN "none"
           ELSE IF P \subseteq {"none", "committed"} THEN "new"
           ELSE IF P = {"rollback_failed"} THEN "broken"
           ELSE IF P \subseteq OldVerdict THEN "old" ELSE "open"
    BY <1>1 DEF verdictOf
  <1> HIDE DEF P
  <1>3. QED
    BY <1>2 DEF P

\* What the phases of the survivors say of the verdict.
LEMMA VerdictOpen ==
    ASSUME CoreInv,
           \/ journal.phase \in OpenPhases
           \/ survivors = {journal} /\ journal.phase = "prepared"
    PROVE  verdictOf(survivors) = "open"
  <1>1. journal.phase \in phasesOf(survivors)
    BY InPhases DEF CoreInv, SurvivorsOK
  <1>2. CASE journal.phase \in OpenPhases
    BY <1>1, <1>2, VerdictIs DEF OpenPhases, OldVerdict, Restored
  <1>3. CASE survivors = {journal} /\ journal.phase = "prepared"
    <2>1. phasesOf(survivors) = {"prepared"}
      BY <1>3 DEF phasesOf
    <2>2. QED
      BY <2>1, VerdictIs DEF OldVerdict, Restored
  <1>4. QED
    BY <1>2, <1>3

\* The verdict of one journal is that of its phase.
LEMMA VerdictOfOne ==
    ASSUME NEW j
    PROVE  LET v == verdictOf({j})
           IN  /\ j.phase = "none" => v = "none"
               /\ j.phase = "committed" => v = "new"
               /\ j.phase = "rollback_failed" => v = "broken"
               /\ j.phase \in Restored \union {"aborted"} => v = "old"
               /\ j.phase \in OpenPhases \union {"prepared"} => v = "open"
  <1>1. phasesOf({j}) = {j.phase}
    BY DEF phasesOf
  <1>2. QED
    BY <1>1, VerdictIs DEF OpenPhases, OldVerdict, Restored

\* Every phase has a verdict.
LEMMA PhaseKinds ==
    \A p \in Phases :
        \/ p \in {"committed", "rollback_failed"}
        \/ p \in Restored \union {"aborted"}
        \/ p \in OpenPhases \union {"prepared"}
  BY DEF Phases, Restored, OpenPhases

AtomicStep == [AU!Next]_(AU!vars)

\* A journal that a write closes over, or that a power loss leaves: one of the
\* survivors becomes the only one.
LEMMA AtomicClose ==
    ASSUME CoreInv, NEW j, j.phase \in phasesOf(survivors), survivors' = {j},
           exe' \in exeSurvivors
    PROVE  AtomicStep
  <1> DEFINE P == phasesOf(survivors)  v == verdictOf(survivors)  p == j.phase
  <1>1. verdictOf(survivors)' = verdictOf({j})
    BY DEF verdictOf, phasesOf
  <1>2. PICK k \in survivors : k.phase = p
    BY InPhases
  <1>3. JournalOK(k) /\ exe \in exeSurvivors /\ exe' \in {"previous", "candidate"}
        /\ exe \in {"previous", "candidate"}
    BY DEF CoreInv, SurvivorsOK, FileType, Bytes
  <1>4. p \in Phases \union {"none"}
    BY <1>2, NoTxnFacts DEF CoreInv, JournalType
  <1>5. p = "none" => exe' = exe
    BY <1>2, <1>3, NoTxnFacts DEF CoreInv, JournalType, JournalOK
  <1>6. p \in OldPhases => exe' = "previous" /\ exe = "previous"
    BY <1>2, <1>3 DEF JournalOK, OldBytes
  <1>7. p = "committed" => exe' = "candidate" /\ exe = "candidate"
    BY <1>2, <1>3 DEF JournalOK, NewBytes, NewPhases
  <1>8. CASE p = "none"
    <2>1. v' = "none" /\ exe' = exe
      BY <1>1, <1>5, <1>8, VerdictOfOne
    <2>0. /\ P \subseteq {"none", "committed"} => v \in {"none", "new"}
          /\ P \subseteq OldVerdict /\ P # {"rollback_failed"} => v \in {"none", "new", "old"}
          /\ v \in {"none", "new", "broken", "old", "open"}
          /\ v = "broken" => P = {"rollback_failed"}
      BY VerdictIs
    <2>2. P \subseteq Idle
      <3>1. NoTxn \in survivors
        BY <1>2, <1>8, NoTxnFacts DEF CoreInv, JournalType
      <3>2. QED
        BY <3>1 DEF CoreInv, SurvivorsOK, phasesOf
    <2>3. v \in {"none", "new", "old"} \/ (v = "open" /\ "prepared" \in P)
      <3>1. \A q \in P : q \in OldPhases => exe = "previous"
        BY DEF phasesOf, CoreInv, SurvivorsOK, JournalOK, OldBytes
      <3>2. \A q \in P : q \in NewPhases => exe = "candidate"
        BY DEF phasesOf, CoreInv, SurvivorsOK, JournalOK, NewBytes
      <3>3. CASE "committed" \in P
        <4>1. P \subseteq {"none", "committed"}
          BY <2>2, <3>1, <3>2, <3>3 DEF Idle, OldPhases, NewPhases, Untouched, Restored
        <4>2. QED
          BY <2>0, <4>1
      <3>4. CASE "committed" \notin P /\ "prepared" \notin P
        <4>1. P \subseteq OldVerdict /\ "rollback_failed" \notin P
          BY <2>2, <3>4 DEF Idle, OldVerdict, Restored
        <4>2. P # {"rollback_failed"}
          BY <4>1
        <4>3. QED
          BY <2>0, <4>1, <4>2
      <3>5. CASE "prepared" \in P
        <4>1. ~(P \subseteq {"none", "committed"}) /\ P # {"rollback_failed"}
              /\ ~(P \subseteq OldVerdict)
          BY <3>5 DEF OldVerdict, Restored
        <4>2. QED
          BY <2>0, <3>5, <4>1
      <3>6. QED
        BY <3>3, <3>4, <3>5
    <2>4. "prepared" \in P => exe = "previous"
      BY DEF phasesOf, CoreInv, SurvivorsOK, JournalOK, OldPhases, Untouched, OldBytes
    <2>5. QED
      BY <2>1, <2>3, <2>4 DEF AtomicStep, AU!Next, AU!vars, AU!End, AU!Withdraw
  <1>9. CASE p \in Phases
    <2>1. v \in {"none", "new", "broken", "old", "open"}
      BY VerdictIs
    <2>2. v = "none" => p = "prepared"
      BY <1>9, VerdictIs DEF Phases
    <2>3. v = "new" => p = "committed"
      BY <1>9, VerdictIs DEF Phases
    <2>4. v = "broken" => p = "rollback_failed"
      BY VerdictIs
    <2>5. v = "old" => p \in Restored \union {"aborted", "rollback_failed"}
      BY <1>9, VerdictIs DEF Phases, OldVerdict
    <2>6. CASE p \in OpenPhases \union {"prepared"}
      <3>1. v' = "open"
        BY <1>1, <2>6, VerdictOfOne
      <3>2. p = "prepared" => exe' = "previous" /\ exe = "previous"
        BY <1>6 DEF OldPhases, Untouched
      <3>3. v = "open" \/ (p = "prepared" /\ v = "none")
        <4> HIDE DEF v
        <4>1. p \notin Restored \union {"committed", "rollback_failed", "aborted"}
          BY <2>6 DEF OpenPhases, Restored
        <4>2. QED
          BY <2>1, <2>2, <2>3, <2>4, <2>5, <4>1
      <3>4. QED
        BY <1>3, <3>1, <3>2, <3>3 DEF AtomicStep, AU!Next, AU!vars, AU!Begin, AU!Try
    <2>7. CASE p \in Restored \union {"aborted"}
      <3>1. v' = "old" /\ exe' = "previous" /\ exe = "previous"
        BY <1>1, <1>6, <2>7, VerdictOfOne DEF OldPhases, Untouched
      <3>2. v \in {"old", "open"}
        BY <2>1, <2>2, <2>3, <2>4, <2>7 DEF Restored
      <3>3. QED
        BY <3>1, <3>2 DEF AtomicStep, AU!Next, AU!vars, AU!Decide
    <2>8. CASE p = "committed"
      <3>1. v' = "new" /\ exe' = "candidate" /\ exe = "candidate"
        BY <1>1, <1>7, <2>8, VerdictOfOne
      <3>2. v \in {"new", "open"}
        BY <2>1, <2>2, <2>4, <2>5, <2>8 DEF Restored
      <3>3. QED
        BY <3>1, <3>2 DEF AtomicStep, AU!Next, AU!vars, AU!Decide
    <2>9. CASE p = "rollback_failed"
      <3>1. v' = "broken"
        BY <1>1, <2>9, VerdictOfOne
      <3>2. v \in {"broken", "old", "open"}
        BY <2>1, <2>2, <2>3, <2>9
      <3>3. QED
        BY <1>3, <3>1, <3>2 DEF AtomicStep, AU!Next, AU!vars, AU!Break, AU!Repair
    <2>10. QED
      BY <1>9, <2>6, <2>7, <2>8, <2>9, PhaseKinds
  <1>10. QED
    BY <1>4, <1>8, <1>9

\* The verdict depends on the phases alone.
LEMMA SamePhases ==
    ASSUME NEW S, NEW T, phasesOf(S) = phasesOf(T)
    PROVE  verdictOf(S) = verdictOf(T)
  BY DEF verdictOf

\* A step that leaves the journals and the executable alone.
LEMMA AtomicFrame ==
    ASSUME UNCHANGED <<survivors, exe>>
    PROVE  AtomicStep
  BY DEF AtomicStep, AU!vars, verdictOf, phasesOf

\* A step of an undecided upgrade that may replace the executable.
LEMMA AtomicTry ==
    ASSUME CoreInv, CoreInv', journal.phase \in OpenPhases, UNCHANGED survivors
    PROVE  AtomicStep
  <1>1. verdictOf(survivors) = "open"
    BY VerdictOpen
  <1>2. verdictOf(survivors)' = verdictOf(survivors)
    BY DEF verdictOf, phasesOf
  <1>3. exe' \in {"previous", "candidate"}
    BY DEF CoreInv, FileType, Bytes
  <1>4. QED
    BY <1>1, <1>2, <1>3 DEF AtomicStep, AU!Next, AU!Try

\* The outcomes of a write: an undecided upgrade goes on or is decided for the
\* bytes it has, a restored one goes on or is given up.
LEMMA AtomicWrite ==
    ASSUME CoreInv, CoreInv', journal # NoTxn, NEW j \in Journals, NEW good, NEW bad, NEW lost,
           write(j, good, bad, lost), exe' = exe,
           \/ j.phase = journal.phase
           \/ journal.phase \in OpenPhases
           \/ survivors = {journal} /\ journal.phase = "prepared" /\ j.phase # "prepared"
           \/ /\ survivors = {journal} /\ journal.phase \in Restored
              /\ j.phase \in Restored \union {"rollback_failed"}
    PROVE  AtomicStep
  <1>1. journal \in survivors /\ journal.phase \in phasesOf(survivors) /\ exe \in exeSurvivors
        /\ exe \in {"previous", "candidate"}
    BY InPhases DEF CoreInv, SurvivorsOK, FileType, Bytes
  <1>2. j.phase \in Phases /\ j.phase # "none" /\ journal.phase # "none"
    BY NoTxnFacts DEF CoreInv, JournalType
  <1>3. CASE UNCHANGED survivors
    BY <1>3, AtomicFrame
  <1>4. CASE j.phase = journal.phase
    <2>1. CASE survivors' = {j}
      BY <1>1, <1>4, <2>1, AtomicClose
    <2>2. CASE survivors' = survivors \union {j}
      <3>1. phasesOf(survivors \union {j}) = phasesOf(survivors)
        BY <1>1, <1>4 DEF phasesOf
      <3>2. verdictOf(survivors)' = verdictOf(survivors \union {j})
        BY <2>2 DEF verdictOf, phasesOf
      <3>3. QED
        BY <3>1, <3>2, SamePhases DEF AtomicStep, AU!vars
    <2>3. QED
      BY <1>3, <2>1, <2>2 DEF write
  <1>5. CASE survivors' = {j}
    <2>1. verdictOf(survivors)' = verdictOf({j})
      BY <1>5 DEF verdictOf, phasesOf
    <2>2. JournalOK(j)'
      BY <1>5 DEF CoreInv, SurvivorsOK
    <2>3. j.phase \in Restored \union {"aborted"} => exe = "previous"
      BY <2>2 DEF JournalOK, OldPhases, Untouched, OldBytes
    <2>4. j.phase = "committed" => exe = "candidate"
      BY <2>2 DEF JournalOK, NewPhases, NewBytes
    <2>5. CASE \/ journal.phase \in OpenPhases
               \/ survivors = {journal} /\ journal.phase = "prepared"
      <3>1. verdictOf(survivors) = "open"
        BY <2>5, VerdictOpen
      <3>2. \/ verdictOf(survivors)' \in {"open", "broken"}
            \/ verdictOf(survivors)' = "new" /\ exe = "candidate"
            \/ verdictOf(survivors)' = "old" /\ exe = "previous"
        BY <1>2, <2>1, <2>3, <2>4, PhaseKinds, VerdictOfOne
      <3>3. QED
        BY <1>1, <3>1, <3>2 DEF AtomicStep, AU!Next, AU!vars, AU!Try, AU!Decide, AU!Break
    <2>6. CASE /\ survivors = {journal} /\ journal.phase \in Restored
               /\ j.phase \in Restored \union {"rollback_failed"}
      <3>1. verdictOf(survivors) = "old" /\ verdictOf(survivors)' \in {"old", "broken"}
        BY <2>1, <2>6, VerdictOfOne
      <3>2. QED
        BY <1>1, <3>1 DEF AtomicStep, AU!Next, AU!vars, AU!Break
    <2>7. QED
      BY <1>4, <2>5, <2>6
  <1>6. CASE survivors' = survivors \union {j}
    <2>1. verdictOf(survivors)' = verdictOf(survivors \union {j})
      BY <1>6 DEF verdictOf, phasesOf
    <2>2. /\ journal.phase \in phasesOf(survivors \union {j})
          /\ j.phase \in phasesOf(survivors \union {j})
      BY <1>1 DEF phasesOf
    <2>3. CASE journal.phase \in OpenPhases
      <3>1. verdictOf(survivors \union {j}) = "open"
        BY <2>2, <2>3, VerdictIs DEF OpenPhases, OldVerdict, Restored
      <3>2. QED
        BY <2>1, <2>3, <3>1, VerdictOpen, exe' = exe DEF AtomicStep, AU!vars
    <2>4. CASE survivors = {journal} /\ journal.phase = "prepared" /\ j.phase # "prepared"
      <3>1. verdictOf(survivors \union {j}) = "open"
        <4>1. "prepared" \in phasesOf(survivors \union {j}) /\ "none" \notin phasesOf(survivors \union {j})
          BY <1>2, <2>2, <2>4 DEF phasesOf
        <4>2. QED
          BY <4>1, VerdictIs DEF OldVerdict, Restored
      <3>2. QED
        BY <2>1, <2>4, <3>1, VerdictOpen, exe' = exe DEF AtomicStep, AU!vars
    <2>5. CASE /\ survivors = {journal} /\ journal.phase \in Restored
               /\ j.phase \in Restored \union {"rollback_failed"}
      <3>1. phasesOf(survivors \union {j}) = {journal.phase, j.phase}
        BY <2>5 DEF phasesOf
      <3>2. verdictOf(survivors \union {j}) = "old"
        <4>1. phasesOf(survivors \union {j}) \subseteq OldVerdict
          BY <3>1, <2>5 DEF OldVerdict
        <4>2. "none" \notin phasesOf(survivors \union {j})
              /\ ~(phasesOf(survivors \union {j}) \subseteq {"none", "committed"})
              /\ phasesOf(survivors \union {j}) # {"rollback_failed"}
          BY <1>2, <3>1, <2>5 DEF Restored
        <4>3. QED
          BY <4>1, <4>2, VerdictIs
      <3>3. verdictOf(survivors) = "old"
        BY <2>5, VerdictOfOne
      <3>4. QED
        BY <2>1, <3>2, <3>3, exe' = exe DEF AtomicStep, AU!vars
    <2>6. QED
      BY <1>4, <2>3, <2>4, <2>5
  <1>7. QED
    BY <1>3, <1>5, <1>6 DEF write

\* A write of a phase that reopens no verdict is a step of AtomicUpgrade or a stutter.
LEMMA AtomicPhase ==
    ASSUME CoreInv, CoreInv', journal # NoTxn, NEW p \in Phases, NEW good, NEW bad, NEW lost,
           write([journal EXCEPT !.phase = p], good, bad, lost), exe' = exe,
           \/ p = journal.phase
           \/ journal.phase \in OpenPhases
           \/ survivors = {journal} /\ journal.phase = "prepared" /\ p # "prepared"
           \/ /\ survivors = {journal} /\ journal.phase \in Restored
              /\ p \in Restored \union {"rollback_failed"}
    PROVE  AtomicStep
  <1> DEFINE j == [journal EXCEPT !.phase = p]
  <1>1. j \in Journals /\ j.phase = p
    BY JournalCopy DEF CoreInv, JournalType
  <1>2. write(j, good, bad, lost)
    OBVIOUS
  <1> HIDE DEF j
  <1>3. QED
    BY <1>1, <1>2, AtomicWrite

\* Enter is a step of AtomicUpgrade or a stutter.
LEMMA EnterAtomic == CoreInv /\ CoreInv' /\ Enter => AtomicStep
  <1> SUFFICES ASSUME CoreInv, CoreInv', Enter PROVE AtomicStep
    OBVIOUS
  <1>1. journal \in Journals /\ journal # NoTxn /\ exe' = exe
    BY NoTxnFacts DEF CoreInv, JournalType, PhaseOK, Enter, files
  <1>2. CASE UNCHANGED survivors
    BY <1>1, <1>2, AtomicFrame
  <1>3. CASE ~UNCHANGED survivors
    <2>1. \E good : write([journal EXCEPT !.phase = journal.phase], good, "leaving", "leaving")
      BY <1>3 DEF Enter, reaffirmDurableJournal, persistPhase, persistJournal
    <2>2. QED
      BY <1>1, <2>1, AtomicPhase, NoTxnFacts
  <1>4. QED
    BY <1>2, <1>3

\* Loop is a step of AtomicUpgrade or a stutter.
LEMMA LoopAtomic == CoreInv /\ CoreInv' /\ Loop => AtomicStep
  <1> SUFFICES ASSUME CoreInv, CoreInv', Loop PROVE AtomicStep
    OBVIOUS
  <1>1. journal \in Journals /\ journal # NoTxn /\ exe' = exe
    BY NoTxnFacts DEF CoreInv, JournalType, PhaseOK, Loop, files
  <1>2. CASE UNCHANGED survivors
    BY <1>1, <1>2, AtomicFrame
  <1>3. CASE ~UNCHANGED survivors
    <2>1. \E good : write([journal EXCEPT !.phase = journal.phase], good, "leaving", "leaving")
      BY <1>3 DEF Loop, reaffirmDurableJournal, persistPhase, persistJournal
    <2>2. QED
      BY <1>1, <2>1, AtomicPhase, NoTxnFacts
  <1>4. QED
    BY <1>2, <1>3

\* Abort is a step of AtomicUpgrade or a stutter.
LEMMA AbortAtomic == CoreInv /\ CoreInv' /\ Abort => AtomicStep
  <1> SUFFICES ASSUME CoreInv, CoreInv', Abort PROVE AtomicStep
    OBVIOUS
  <1>1. journal \in Journals /\ journal # NoTxn /\ exe' = exe
    BY NoTxnFacts DEF CoreInv, JournalType, PhaseOK, Abort, files
  <1>2. journal.phase \in OpenPhases
    BY DEF Abort, CoreInv, PhaseOK, OpenPhases
  <1>3. QED
    BY <1>1, <1>2, AtomicPhase DEF Abort, persistPhase, persistJournal, Phases

\* advance is a step of AtomicUpgrade or a stutter.
LEMMA advanceAtomic == CoreInv /\ CoreInv' /\ advance => AtomicStep
  <1> SUFFICES ASSUME CoreInv, CoreInv', advance PROVE AtomicStep
    OBVIOUS
  <1>1. journal \in Journals /\ journal # NoTxn /\ exe' = exe
    BY NoTxnFacts DEF CoreInv, JournalType, PhaseOK, advance, At, files
  <1>2. survivors = {journal}
    BY DEF advance, At, CoreInv, DurableOK, MayOpen, Loose
  <1>3. CASE journal.phase \in OpenPhases
    BY <1>1, <1>3, AtomicPhase DEF advance, persistPhase, persistJournal, Phases
  <1>4. CASE journal.phase = "prepared"
    BY <1>1, <1>2, <1>4, AtomicPhase DEF advance, At, CoreInv, PhaseOK, persistPhase,
       persistJournal, Phases
  <1>5. CASE journal.phase \in Restored
    <2>1. \E p \in Restored : persistPhase(p, "loop", "leaving")
      BY <1>5 DEF advance, At, CoreInv, PhaseOK, Restored
    <2>2. Restored \subseteq Phases
      BY DEF Restored, Phases
    <2>3. QED
      BY <1>1, <1>2, <1>5, <2>1, <2>2, AtomicPhase DEF persistPhase, persistJournal
  <1>6. QED
    BY <1>3, <1>4, <1>5 DEF advance, At, CoreInv, PhaseOK, OpenPhases, Restored

\* AwaitActivation is a step of AtomicUpgrade or a stutter.
LEMMA AwaitActivationAtomic == CoreInv /\ CoreInv' /\ AwaitActivation => AtomicStep
  <1> SUFFICES ASSUME CoreInv, CoreInv', AwaitActivation PROVE AtomicStep
    OBVIOUS
  <1>1. journal \in Journals /\ journal # NoTxn /\ exe' = exe
    BY NoTxnFacts DEF CoreInv, JournalType, PhaseOK, AwaitActivation, At, files
  <1>2. journal.phase \in OpenPhases
    BY DEF AwaitActivation, At, OpenPhases
  <1>3. CASE persistPhase("daemon_stopping", "loop", "leaving")
    BY <1>1, <1>2, <1>3, AtomicPhase DEF persistPhase, persistJournal, Phases
  <1>4. CASE UNCHANGED survivors
    BY <1>1, <1>4, AtomicFrame
  <1>5. QED
    BY <1>3, <1>4 DEF AwaitActivation

\* Rollback is a step of AtomicUpgrade or a stutter.
LEMMA RollbackAtomic == CoreInv /\ CoreInv' /\ Rollback => AtomicStep
  <1> SUFFICES ASSUME CoreInv, CoreInv', Rollback PROVE AtomicStep
    OBVIOUS
  <1>1. journal \in Journals /\ journal # NoTxn /\ exe' = exe
    BY NoTxnFacts DEF CoreInv, JournalType, PhaseOK, Rollback, At, files
  <1>2. journal.phase \in OpenPhases
    BY DEF Rollback, At, OpenPhases, preCommit
  <1>3. CASE persistPhase("rolling_back", "restore", "leaving")
    BY <1>1, <1>2, <1>3, AtomicPhase DEF persistPhase, persistJournal, Phases
  <1>4. CASE UNCHANGED survivors
    BY <1>1, <1>4, AtomicFrame
  <1>5. QED
    BY <1>3, <1>4 DEF Rollback

\* RestoreEnd is a step of AtomicUpgrade or a stutter.
LEMMA RestoreEndAtomic == CoreInv /\ CoreInv' /\ RestoreEnd => AtomicStep
  <1> SUFFICES ASSUME CoreInv, CoreInv', RestoreEnd PROVE AtomicStep
    OBVIOUS
  <1>1. journal \in Journals /\ journal # NoTxn /\ exe' = exe
    BY NoTxnFacts DEF CoreInv, JournalType, PhaseOK, RestoreEnd, files
  <1>2. journal.phase \in OpenPhases
    BY DEF RestoreEnd, CoreInv, PhaseOK, OpenPhases
  <1>3. QED
    BY <1>1, <1>2, AtomicPhase DEF RestoreEnd, persistPhase, persistJournal, Phases

\* MarkRollbackFailed is a step of AtomicUpgrade or a stutter.
LEMMA MarkRollbackFailedAtomic == CoreInv /\ CoreInv' /\ MarkRollbackFailed => AtomicStep
  <1> SUFFICES ASSUME CoreInv, CoreInv', MarkRollbackFailed PROVE AtomicStep
    OBVIOUS
  <1>1. journal \in Journals /\ journal # NoTxn /\ exe' = exe
    BY NoTxnFacts DEF CoreInv, JournalType, PhaseOK, MarkRollbackFailed, files
  <1>2. CASE UNCHANGED survivors
    BY <1>1, <1>2, AtomicFrame
  <1>3. CASE persistPhase("rollback_failed", "reject", "leaving")
    <2>1. \/ journal.phase = "rollback_failed"
          \/ survivors = {journal} /\ journal.phase \in Restored
      BY DEF MarkRollbackFailed, CoreInv, PhaseOK, DurableOK, Loose, Restored
    <2>2. QED
      BY <1>1, <1>3, <2>1, AtomicPhase DEF persistPhase, persistJournal, Phases
  <1>4. QED
    BY <1>2, <1>3 DEF MarkRollbackFailed

\* Installed is a step of AtomicUpgrade or a stutter.
LEMMA InstalledAtomic == CoreInv /\ CoreInv' /\ Installed => AtomicStep
  <1> SUFFICES ASSUME CoreInv, CoreInv', Installed PROVE AtomicStep
    OBVIOUS
  <1>1. journal \in Journals /\ journal # NoTxn /\ journal.phase \in OpenPhases
    BY NoTxnFacts DEF CoreInv, JournalType, PhaseOK, OpenPhases, Installed
  <1>2. CASE Installed
    <2> DEFINE j == [journal EXCEPT !.phase = "candidate_installed", !.inst = TRUE]
    <2>1. j \in Journals
      BY <1>1, <1>2, MarkerCopies
    <2>2. write(j, "loop", "unwind", "unwind")
      BY <1>2 DEF Installed, persistJournal
    <2> HIDE DEF j
    <2>3. QED
      BY <1>1, <1>2, <2>1, <2>2, AtomicWrite DEF Installed, files
  <1>3. QED
    BY <1>2

\* RestoreMarker is a step of AtomicUpgrade or a stutter.
LEMMA RestoreMarkerAtomic == CoreInv /\ CoreInv' /\ RestoreMarker => AtomicStep
  <1> SUFFICES ASSUME CoreInv, CoreInv', RestoreMarker PROVE AtomicStep
    OBVIOUS
  <1>1. journal \in Journals /\ journal # NoTxn /\ journal.phase \in OpenPhases
    BY NoTxnFacts DEF CoreInv, JournalType, PhaseOK, OpenPhases, RestoreMarker
  <1>2. CASE persistJournal([journal EXCEPT !.inst = TRUE], "restoreBinary", "restoreFailed")
    <2> DEFINE j == [journal EXCEPT !.inst = TRUE]
    <2>1. j \in Journals
      BY <1>1, <1>2, MarkerCopies
    <2>2. write(j, "restoreBinary", "restoreFailed", "restoreFailed")
      BY <1>2 DEF RestoreMarker, persistJournal
    <2> HIDE DEF j
    <2>3. QED
      BY <1>1, <1>2, <2>1, <2>2, AtomicWrite DEF RestoreMarker, files
  <1>3. CASE UNCHANGED survivors
    BY <1>3, AtomicFrame DEF RestoreMarker, files
  <1>4. QED
    BY <1>2, <1>3 DEF RestoreMarker

\* RestoreBinary is a step of AtomicUpgrade or a stutter.
LEMMA RestoreBinaryAtomic == CoreInv /\ CoreInv' /\ RestoreBinary => AtomicStep
  <1> SUFFICES ASSUME CoreInv, CoreInv', RestoreBinary PROVE AtomicStep
    OBVIOUS
  <1>1. journal \in Journals /\ journal # NoTxn /\ journal.phase \in OpenPhases
    BY NoTxnFacts DEF CoreInv, JournalType, PhaseOK, OpenPhases, RestoreBinary
  <1>2. CASE pc = "binaryRestored"
    <2> DEFINE j == [journal EXCEPT !.bin = TRUE]
    <2>1. j \in Journals
      BY <1>1, <1>2, MarkerCopies
    <2>2. write(j, "restoreMetadata", "restoreFailed", "restoreFailed")
      BY <1>2 DEF RestoreBinary, persistJournal
    <2> HIDE DEF j
    <2>3. QED
      BY <1>1, <1>2, <2>1, <2>2, AtomicWrite DEF RestoreBinary
  <1>3. CASE UNCHANGED survivors
    BY <1>1, <1>3, AtomicTry
  <1>4. QED
    BY <1>2, <1>3 DEF RestoreBinary

\* RestoreMetadata is a step of AtomicUpgrade or a stutter.
LEMMA RestoreMetadataAtomic == CoreInv /\ CoreInv' /\ RestoreMetadata => AtomicStep
  <1> SUFFICES ASSUME CoreInv, CoreInv', RestoreMetadata PROVE AtomicStep
    OBVIOUS
  <1>1. journal \in Journals /\ journal # NoTxn /\ journal.phase \in OpenPhases
    BY NoTxnFacts DEF CoreInv, JournalType, PhaseOK, OpenPhases, RestoreMetadata
  <1>2. CASE pc = "entryRestored"
    <2> DEFINE j == [journal EXCEPT !.meta = @ + 1]
    <2>1. j \in Journals
      BY <1>1, <1>2, EntryCopy DEF CoreInv, PhaseOK
    <2>2. write(j, "restoreMetadata", "restoreFailed", "restoreFailed")
      BY <1>2 DEF RestoreMetadata, persistJournal
    <2> HIDE DEF j
    <2>3. QED
      BY <1>1, <1>2, <2>1, <2>2, AtomicWrite DEF RestoreMetadata
  <1>3. CASE UNCHANGED survivors
    BY <1>3, AtomicFrame DEF RestoreMetadata
  <1>4. QED
    BY <1>2, <1>3 DEF RestoreMetadata

\* InstallCandidate is a step of AtomicUpgrade or a stutter.
LEMMA InstallCandidateAtomic == CoreInv /\ CoreInv' /\ InstallCandidate => AtomicStep
  <1> SUFFICES ASSUME CoreInv, CoreInv', InstallCandidate PROVE AtomicStep
    OBVIOUS
  <1>1. journal.phase \in OpenPhases /\ UNCHANGED survivors
    BY DEF InstallCandidate, At, OpenPhases
  <1>2. QED
    BY <1>1, AtomicTry

\* Cleanup is a step of AtomicUpgrade or a stutter.
LEMMA CleanupAtomic == CoreInv /\ CoreInv' /\ Cleanup => AtomicStep
  <1> SUFFICES ASSUME CoreInv, CoreInv', Cleanup PROVE AtomicStep
    OBVIOUS
  <1>1. survivors = {journal} /\ journal.phase \in {"committed", "aborted", "rolled_back"}
        /\ exe' = exe
    BY DEF Cleanup, terminalPhase, CoreInv, DurableOK, MayOpen, Loose, files
  <1>2. verdictOf(survivors) = IF journal.phase = "committed" THEN "new" ELSE "old"
    BY <1>1, VerdictOfOne DEF Restored
  <1>3. CASE UNCHANGED survivors
    BY <1>1, <1>3, AtomicFrame
  <1>4. CASE survivors' = {NoTxn}
    <2>1. verdictOf(survivors)' = verdictOf({NoTxn})
      BY <1>4 DEF verdictOf, phasesOf
    <2>2. verdictOf(survivors)' = "none"
      BY <2>1, VerdictOfOne, NoTxnFacts
    <2>3. QED
      BY <1>1, <1>2, <2>2 DEF AtomicStep, AU!Next, AU!End
  <1>5. CASE survivors' = survivors \union {NoTxn}
    <2>1. verdictOf(survivors)' = verdictOf({journal, NoTxn})
      BY <1>1, <1>5 DEF verdictOf, phasesOf
    <2>2. phasesOf({journal, NoTxn}) = {journal.phase, "none"}
      BY NoTxnFacts DEF phasesOf
    <2>3. verdictOf({journal, NoTxn}) = IF journal.phase = "committed" THEN "new" ELSE "old"
      BY <1>1, <2>2, VerdictIs DEF OldVerdict, Restored
    <2>4. QED
      BY <1>1, <1>2, <2>1, <2>3 DEF AtomicStep, AU!vars
  <1>6. QED
    BY <1>3, <1>4, <1>5 DEF Cleanup

\* Before a fresh transaction is durable, the verdict is that of what is left of
\* the last one.
LEMMA VerdictPrepared ==
    ASSUME NEW S, "prepared" \in phasesOf(S)
    PROVE  verdictOf(S) = IF "none" \in phasesOf(S) /\ phasesOf(S) \subseteq {"none", "prepared"}
                          THEN "none" ELSE "open"
  BY VerdictIs DEF OldVerdict, Restored

\* AbortPreparedTransaction is a step of AtomicUpgrade or a stutter.
LEMMA AbortPreparedTransactionAtomic == CoreInv /\ CoreInv' /\ AbortPreparedTransaction => AtomicStep
  <1> SUFFICES ASSUME CoreInv, CoreInv', AbortPreparedTransaction PROVE AtomicStep
    OBVIOUS
  <1>1. exe' = exe
    BY DEF AbortPreparedTransaction, files
  <1>2. CASE UNCHANGED survivors
    BY <1>1, <1>2, AtomicFrame
  <1>3. CASE journal.phase = "prepared" /\ survivors' \in {{NoTxn}, survivors \union {NoTxn}}
    <2>1. "prepared" \in phasesOf(survivors) /\ exe = "previous"
      BY <1>3 DEF CoreInv, SurvivorsOK, JournalOK, OldPhases, Untouched, OldBytes, phasesOf
    <2>2. verdictOf(survivors) \in {"none", "open"}
      BY <2>1, VerdictPrepared
    <2>3. CASE survivors' = {NoTxn}
      <3>1. verdictOf(survivors)' = verdictOf({NoTxn})
        BY <2>3 DEF verdictOf, phasesOf
      <3>2. verdictOf(survivors)' = "none"
        BY <3>1, VerdictOfOne, NoTxnFacts
      <3>3. QED
        BY <1>1, <2>1, <2>2, <3>2 DEF AtomicStep, AU!Next, AU!vars, AU!Withdraw
    <2>4. CASE survivors' = survivors \union {NoTxn}
      <3>1. verdictOf(survivors)' = verdictOf(survivors \union {NoTxn})
        BY <2>4 DEF verdictOf, phasesOf
      <3>2. phasesOf(survivors \union {NoTxn}) = phasesOf(survivors) \union {"none"}
        BY NoTxnFacts DEF phasesOf
      <3>3. verdictOf(survivors) = "none" => verdictOf(survivors)' = "none"
        BY <2>1, <3>1, <3>2, VerdictPrepared
      <3>4. verdictOf(survivors)' \in {"none", "open"}
        BY <2>1, <3>1, <3>2, VerdictPrepared
      <3>5. QED
        BY <1>1, <2>1, <2>2, <3>3, <3>4 DEF AtomicStep, AU!Next, AU!vars, AU!Withdraw
    <2>5. QED
      BY <1>3, <2>3, <2>4
  <1>4. QED
    BY <1>2, <1>3 DEF AbortPreparedTransaction

\* Prepare is a step of AtomicUpgrade or a stutter.
LEMMA PrepareAtomic == CoreInv /\ CoreInv' /\ Prepare => AtomicStep
  <1> SUFFICES ASSUME CoreInv, CoreInv', Prepare PROVE AtomicStep
    OBVIOUS
  <1>1. exe' = exe /\ exe = "previous" /\ journal'.phase = "prepared" /\ NoTxn \in survivors
        /\ journal.phase = "none"
    BY NoTxnFacts DEF Prepare, files, CoreInv, SurvivorsOK, NoTxn
  <1>2. "none" \in phasesOf(survivors)
    BY <1>1, NoTxnFacts DEF phasesOf
  <1>3. phasesOf(survivors) \subseteq {"none", "prepared", "aborted", "rolled_back"}
    BY <1>1 DEF CoreInv, SurvivorsOK, JournalOK, Idle, NewPhases, NewBytes, phasesOf
  <1>4. \/ verdictOf(survivors) \in {"none", "old"}
        \/ verdictOf(survivors) = "open"
    BY <1>2, <1>3, VerdictIs DEF OldVerdict, Restored
  <1>5. CASE survivors' = {journal'}
    <2>1. phasesOf(survivors') = {"prepared"}
      BY <1>1, <1>5 DEF phasesOf
    <2>2. verdictOf(survivors') = "open"
      BY <2>1, VerdictPrepared
    <2>3. verdictOf(survivors)' = "open"
      BY <2>2 DEF verdictOf, phasesOf
    <2>4. QED
      BY <1>1, <1>4, <2>3 DEF AtomicStep, AU!Next, AU!vars, AU!Begin
  <1>6. CASE survivors' = survivors \union {journal'}
    <2>1. phasesOf(survivors') = phasesOf(survivors) \union {"prepared"}
      BY <1>1, <1>6 DEF phasesOf
    <2>2. verdictOf(survivors') \in {"none", "open"}
          /\ (verdictOf(survivors') = "none" => verdictOf(survivors) = "none")
      BY <1>2, <2>1, VerdictPrepared, VerdictIs
    <2>3. verdictOf(survivors)' = verdictOf(survivors')
      BY DEF verdictOf, phasesOf
    <2>4. QED
      BY <1>1, <1>4, <2>2, <2>3 DEF AtomicStep, AU!Next, AU!vars, AU!Begin
  <1>7. QED
    BY <1>5, <1>6 DEF Prepare

\* PowerLoss is a step of AtomicUpgrade or a stutter.
LEMMA PowerLossAtomic == CoreInv /\ CoreInv' /\ PowerLoss => AtomicStep
  <1> SUFFICES ASSUME CoreInv, CoreInv', PowerLoss PROVE AtomicStep
    OBVIOUS
  <1>1. journal'.phase \in phasesOf(survivors) /\ exe' \in exeSurvivors
    BY InPhases DEF PowerLoss
  <1>2. QED
    BY <1>1, AtomicClose DEF PowerLoss

\* Every other step leaves the journals and the executable alone.
LEMMA QuietAtomic ==
    ASSUME \/ StopPrevious \/ StartCandidate \/ ValidateCandidate \/ CommittedArm
           \/ AbortedArm \/ DisableRecoveryJob \/ HandOff \/ StopCandidate
           \/ RecordRejectedCandidate \/ RollbackFailedArm \/ StartPrevious \/ ValidatePrevious
           \/ InstallAndStart \/ AwaitSupervisorReady \/ AuthorizeActivation \/ DaemonExit
           \/ TryAcquireRecovery \/ StandDown \/ Leave \/ RivalStart
           \/ Wake \/ CrashActor \/ CrashDaemon
           \/ \E p \in boot : checkUpgradeGate(p) \/ runDaemon(p) \/ Dawdle(p)
           \/ \E e \in 1..Entries : migrateOnLoad(e)
           \/ UNCHANGED vars
    PROVE  AtomicStep
  <1>1. UNCHANGED <<survivors, exe>>
    BY DEF StopPrevious, StartCandidate, ValidateCandidate, CommittedArm, AbortedArm,
       DisableRecoveryJob, HandOff, StopCandidate, RecordRejectedCandidate,
       RollbackFailedArm, StartPrevious, ValidatePrevious, InstallAndStart,
       AwaitSupervisorReady, AuthorizeActivation, DaemonExit, TryAcquireRecovery,
       StandDown, Leave, RivalStart, Wake, CrashActor, CrashDaemon, checkUpgradeGate,
       runDaemon, Dawdle, migrateOnLoad, vars, files
  <1>2. QED
    BY <1>1, AtomicFrame

\* Every step is a step of AtomicUpgrade or a stutter.
LEMMA AtomicNext == CoreInv /\ CoreInv' /\ [Next]_vars => AtomicStep
  BY EnterAtomic, AbortAtomic, LoopAtomic, advanceAtomic, AwaitActivationAtomic,
     InstallCandidateAtomic, InstalledAtomic, CleanupAtomic, RollbackAtomic,
     RestoreMarkerAtomic, RestoreBinaryAtomic, RestoreMetadataAtomic, RestoreEndAtomic,
     MarkRollbackFailedAtomic, PrepareAtomic, AbortPreparedTransactionAtomic,
     PowerLossAtomic, QuietAtomic DEF Next, Supervise, Trigger, Daemon, Manager, Disturb

\* The initial states are initial states of AtomicUpgrade.
LEMMA AtomicInit == Init => AU!Init
  <1>1. verdictOf({NoTxn}) = "none"
    BY VerdictOfOne, NoTxnFacts
  <1>2. QED
    BY <1>1 DEF Init, AU!Init

\* Through failed writes, deaths and takeovers an upgrade is decided once, the
\* executable holds the decided bytes, and no undecided upgrade is forgotten:
\* Supervisor.Run and Transaction implement AtomicUpgrade.
THEOREM UpgradeIsAtomic == Spec => Atomic
  <1>1. CoreInv /\ CoreInv' /\ [Next]_vars => [AU!Next]_(AU!vars)
    BY AtomicNext DEF AtomicStep
  <1>2. QED
    BY <1>1, AtomicInit, Core, PTL DEF Spec, Atomic, AU!Spec

-----------------------------------------------------------------------------
(***************************************************************************)
(* Third layer: who runs, and what the files hold, without rival starts.   *)
(***************************************************************************)
Nobody  == daemon = NoDaemon /\ boot = {}
Only(b) == /\ daemon # NoDaemon => daemon.bytes = b
           /\ \A p \in boot : p.bytes = b
AllOld  == \A e \in 1..Entries : data[e] = "old"

RunsOK(j) ==
    /\ j.phase \in OldPhases \union {"daemon_stopped"} => AllOld /\ Only("previous")
    /\ j.phase \in NewPhases => Only("candidate")
    /\ j = NoTxn => Only(exe) /\ (exe = "previous" => AllOld)
    /\ j.phase \notin Restored \union {"rolling_back", "rollback_failed"} => j.meta = 0
    /\ j.phase = "rolling_back" => Nobody /\ \A e \in 1..j.meta : data[e] = "old"

QuietInv ==
    rivals = 0 =>
        /\ \A p \in boot : ~p.slow
        /\ \A j \in survivors : RunsOK(j)
        /\ exeSurvivors # {exe} => Nobody
        /\ journal.phase = "daemon_stopped" \/ pc \in {"stopped", "rollback"} => Nobody
        /\ pc = "entryRestored" => data[journal.meta + 1] = "old"
        /\ pc = "restored" => AllOld

\* The points of the actor's run that speak for the processes or the files.
Telling == {"stopped", "rollback", "entryRestored", "restored"}

\* Nobody joins: whoever runs ran, or was starting, with the same bytes.
NobodyJoins ==
    /\ (\A p \in boot : ~p.slow) => (\A p \in boot' : ~p.slow)
    /\ \A b \in Bytes : Only(b) => Only(b)'
    /\ Nobody => Nobody'

\* With every process left alone nobody joins the home.
LEMMA SameRuns ==
    ASSUME UNCHANGED <<daemon, boot>>
    PROVE  NobodyJoins
  BY DEF NobodyJoins, Only, Nobody

\* A step that writes no file and starts nobody.
LEMMA QuietFrame ==
    ASSUME CoreInv, QuietInv, UNCHANGED <<journal, survivors, exe, exeSurvivors, data, rivals>>,
           NobodyJoins, pc' \notin Telling \/ pc' = pc
    PROVE  QuietInv'
  <1> SUFFICES ASSUME rivals = 0 PROVE QuietInv'
    BY DEF QuietInv
  <1>1. \A p \in boot' : ~p.slow
    BY DEF QuietInv, NobodyJoins
  <1>2. (Nobody => Nobody') /\ (AllOld => AllOld') /\ exe \in Bytes
    BY DEF NobodyJoins, AllOld, CoreInv, FileType
  <1>3. \A b \in Bytes : Only(b) => Only(b)'
    BY DEF NobodyJoins
  <1>4. ASSUME NEW j \in survivors PROVE RunsOK(j)'
    BY <1>2, <1>3 DEF QuietInv, RunsOK, Bytes
  <1>5. QED
    BY <1>1, <1>2, <1>4 DEF QuietInv, Telling

\* A journal write that is true of the processes and the files.
LEMMA QuietWrite ==
    ASSUME CoreInv, QuietInv, NEW j \in Journals, rivals = 0 => RunsOK(j),
           NEW good, NEW bad, NEW lost,
           write(j, good, bad, lost), {good, bad, lost} \cap Telling = {},
           UNCHANGED <<exe, exeSurvivors, data, daemon, boot, rivals>>,
           rivals = 0 /\ j.phase = "daemon_stopped" => Nobody
    PROVE  QuietInv'
  <1> SUFFICES ASSUME rivals = 0 PROVE QuietInv'
    BY DEF QuietInv
  <1>1. /\ survivors' \subseteq survivors \union {j} /\ pc' \notin Telling
        /\ journal' \in {j, journal}
    BY DEF write
  <1>2. (Nobody <=> Nobody') /\ (\A b : Only(b) <=> Only(b)') /\ (AllOld <=> AllOld')
    BY DEF Nobody, Only, AllOld
  <1>3. ASSUME NEW k \in survivors \union {j} PROVE RunsOK(k)'
    <2>1. RunsOK(k)
      BY <1>3 DEF QuietInv
    <2>2. QED
      BY <1>2, <2>1 DEF RunsOK
  <1>4. journal'.phase = "daemon_stopped" => Nobody'
    BY <1>1, <1>2 DEF QuietInv
  <1>5. QED
    BY <1>1, <1>2, <1>3, <1>4 DEF QuietInv, Telling

\* A write of a phase keeps the third layer.
LEMMA QuietPhase ==
    ASSUME CoreInv, QuietInv, journal # NoTxn, NEW p \in Phases, NEW good, NEW bad, NEW lost,
           write([journal EXCEPT !.phase = p], good, bad, lost),
           {good, bad, lost} \cap Telling = {},
           UNCHANGED <<exe, exeSurvivors, data, daemon, boot, rivals>>,
           rivals = 0 =>
              \/ p \in {journal.phase, "rollback_failed"}
              \/ {p, journal.phase} \subseteq Untouched
              \/ {p, journal.phase} \subseteq NewPhases
              \/ {p, journal.phase} \subseteq Restored
              \/ p = "daemon_stopped" /\ journal.phase = "daemon_stopping" /\ Nobody
              \/ p = "rolling_back" /\ preCommit(journal.phase) /\ Nobody
              \/ p = "rollback_restored" /\ journal.phase = "rolling_back" /\ AllOld
    PROVE  QuietInv'
  <1> DEFINE j == [journal EXCEPT !.phase = p]
  <1>1. j \in Journals /\ j.phase = p /\ j.meta = journal.meta /\ j # NoTxn
    BY JournalCopy, NoTxnFacts DEF CoreInv, JournalType
  <1>2. write(j, good, bad, lost)
    OBVIOUS
  <1> HIDE DEF j
  <1>3. rivals = 0 => RunsOK(journal)
    BY DEF QuietInv, CoreInv, SurvivorsOK
  <1>4. Nobody => Only("previous") /\ Only("candidate")
    BY DEF Nobody, Only
  <1>5. rivals = 0 => RunsOK(j)
    <2> SUFFICES ASSUME rivals = 0 PROVE RunsOK(j)
      OBVIOUS
    <2>1. CASE p \in {journal.phase, "rollback_failed"}
      BY <1>1, <1>3, <2>1 DEF RunsOK, OldPhases, NewPhases, Untouched, Restored
    <2>2. CASE {p, journal.phase} \subseteq Untouched
      BY <1>1, <1>3, <2>2 DEF RunsOK, OldPhases, NewPhases, Untouched, Restored
    <2>3. CASE {p, journal.phase} \subseteq NewPhases
      BY <1>1, <1>3, <2>3 DEF RunsOK, OldPhases, NewPhases, Untouched, Restored
    <2>4. CASE {p, journal.phase} \subseteq Restored
      BY <1>1, <1>3, <2>4 DEF RunsOK, OldPhases, NewPhases, Untouched, Restored
    <2>5. CASE p = "daemon_stopped" /\ journal.phase = "daemon_stopping" /\ Nobody
      BY <1>1, <1>3, <1>4, <2>5 DEF RunsOK, OldPhases, NewPhases, Untouched, Restored
    <2>6. CASE p = "rolling_back" /\ preCommit(journal.phase) /\ Nobody
      <3>1. journal.meta = 0
        BY <1>3, <2>6 DEF RunsOK, Restored, preCommit
      <3>2. QED
        BY <1>1, <2>6, <3>1 DEF RunsOK, OldPhases, NewPhases, Untouched, Restored
    <2>7. CASE p = "rollback_restored" /\ journal.phase = "rolling_back" /\ AllOld
      BY <1>1, <1>3, <1>4, <2>7 DEF RunsOK, OldPhases, NewPhases, Untouched, Restored
    <2>8. QED
      BY <2>1, <2>2, <2>3, <2>4, <2>5, <2>6, <2>7
  <1>6. rivals = 0 /\ p = "daemon_stopped" => Nobody
    BY DEF QuietInv, Untouched, NewPhases, Restored
  <1>7. QED
    BY <1>1, <1>2, <1>5, <1>6, QuietWrite

\* ValidateCandidate keeps the third layer.
LEMMA ValidateCandidateQuiet == CoreInv /\ QuietInv /\ ValidateCandidate => QuietInv'
  BY SameRuns, QuietFrame DEF ValidateCandidate, Telling, files, procs, bounds,
     awaitIdentity

\* AbortedArm keeps the third layer.
LEMMA AbortedArmQuiet == CoreInv /\ QuietInv /\ AbortedArm => QuietInv'
  BY SameRuns, QuietFrame DEF AbortedArm, Telling, files, procs, bounds

\* DisableRecoveryJob keeps the third layer.
LEMMA DisableRecoveryJobQuiet == CoreInv /\ QuietInv /\ DisableRecoveryJob => QuietInv'
  BY SameRuns, QuietFrame DEF DisableRecoveryJob, Telling, files, procs, bounds, Fail

\* RollbackFailedArm keeps the third layer.
LEMMA RollbackFailedArmQuiet == CoreInv /\ QuietInv /\ RollbackFailedArm => QuietInv'
  BY SameRuns, QuietFrame DEF RollbackFailedArm, Telling, files, procs, bounds

\* RecordRejectedCandidate keeps the third layer.
LEMMA RecordRejectedCandidateQuiet == CoreInv /\ QuietInv /\ RecordRejectedCandidate => QuietInv'
  BY SameRuns, QuietFrame DEF RecordRejectedCandidate, Telling, files, procs, bounds, Fail

\* ValidatePrevious keeps the third layer.
LEMMA ValidatePreviousQuiet == CoreInv /\ QuietInv /\ ValidatePrevious => QuietInv'
  BY SameRuns, QuietFrame DEF ValidatePrevious, Telling, files, procs, bounds,
     awaitIdentity

\* InstallAndStart keeps the third layer.
LEMMA InstallAndStartQuiet == CoreInv /\ QuietInv /\ InstallAndStart => QuietInv'
  BY SameRuns, QuietFrame DEF InstallAndStart, Telling, files, procs, bounds

\* AwaitSupervisorReady keeps the third layer.
LEMMA AwaitSupervisorReadyQuiet == CoreInv /\ QuietInv /\ AwaitSupervisorReady => QuietInv'
  BY SameRuns, QuietFrame DEF AwaitSupervisorReady, Telling, files, procs, bounds

\* AuthorizeActivation keeps the third layer.
LEMMA AuthorizeActivationQuiet == CoreInv /\ QuietInv /\ AuthorizeActivation => QuietInv'
  BY SameRuns, QuietFrame DEF AuthorizeActivation, Telling, files, bounds

\* TryAcquireRecovery keeps the third layer.
LEMMA TryAcquireRecoveryQuiet == CoreInv /\ QuietInv /\ TryAcquireRecovery => QuietInv'
  BY SameRuns, QuietFrame DEF TryAcquireRecovery, Telling, files, procs, bounds

\* StandDown keeps the third layer.
LEMMA StandDownQuiet == CoreInv /\ QuietInv /\ StandDown => QuietInv'
  BY SameRuns, QuietFrame DEF StandDown, Telling, files, procs, bounds

\* Leave keeps the third layer.
LEMMA LeaveQuiet == CoreInv /\ QuietInv /\ Leave => QuietInv'
  BY SameRuns, QuietFrame DEF Leave, Telling, files, procs, bounds

\* CrashActor keeps the third layer.
LEMMA CrashActorQuiet == CoreInv /\ QuietInv /\ CrashActor => QuietInv'
  BY SameRuns, QuietFrame DEF CrashActor, Telling, files, procs

\* DaemonExit keeps the third layer.
LEMMA DaemonExitQuiet == CoreInv /\ QuietInv /\ DaemonExit => QuietInv'
  <1> SUFFICES ASSUME CoreInv, QuietInv, DaemonExit PROVE QuietInv'
    OBVIOUS
  <1>1. NobodyJoins
    BY DEF DaemonExit, NobodyJoins, Only, Nobody
  <1>2. QED
    BY <1>1, QuietFrame DEF DaemonExit, files, bounds

\* CrashDaemon keeps the third layer.
LEMMA CrashDaemonQuiet == CoreInv /\ QuietInv /\ CrashDaemon => QuietInv'
  <1> SUFFICES ASSUME CoreInv, QuietInv, CrashDaemon PROVE QuietInv'
    OBVIOUS
  <1>1. NobodyJoins
    BY DEF CrashDaemon, NobodyJoins, Only, Nobody
  <1>2. QED
    BY <1>1, QuietFrame DEF CrashDaemon, files, bounds

\* RivalStart keeps the third layer.
LEMMA RivalStartQuiet == CoreInv /\ QuietInv /\ RivalStart => QuietInv'
  <1> SUFFICES ASSUME CoreInv, QuietInv, RivalStart PROVE QuietInv'
    OBVIOUS
  <1>1. rivals' # 0
    BY DEF RivalStart, CoreInv, RestType
  <1>2. QED
    BY <1>1 DEF QuietInv

\* Wake keeps the third layer.
LEMMA WakeQuiet == CoreInv /\ QuietInv /\ Wake => QuietInv'
  <1> SUFFICES ASSUME CoreInv, QuietInv, Wake PROVE QuietInv'
    OBVIOUS
  <1>1. rivals' # 0
    BY DEF Wake, CoreInv, RestType
  <1>2. QED
    BY <1>1 DEF QuietInv

\* Dawdle keeps the third layer.
LEMMA DawdleQuiet ==
    ASSUME CoreInv, QuietInv, NEW p \in boot, Dawdle(p)
    PROVE  QuietInv'
  <1>1. rivals' # 0
    BY DEF Dawdle, CoreInv, RestType
  <1>2. QED
    BY <1>1 DEF QuietInv

\* checkUpgradeGate keeps the third layer.
LEMMA checkUpgradeGateQuiet ==
    ASSUME CoreInv, QuietInv, NEW p \in boot, checkUpgradeGate(p)
    PROVE  QuietInv'
  <1> DEFINE q == [p EXCEPT !.gated = TRUE]
  <1>1. q.bytes = p.bytes /\ q.slow = p.slow
    BY DEF CoreInv, ProcType, Starting
  <1>2. boot' \subseteq boot \union {q} /\ daemon' = daemon
    BY DEF checkUpgradeGate
  <1> HIDE DEF q
  <1>3. NobodyJoins
    BY <1>1, <1>2 DEF NobodyJoins, Only, Nobody
  <1>4. QED
    BY <1>3, QuietFrame DEF checkUpgradeGate, files, bounds

\* runDaemon keeps the third layer.
LEMMA runDaemonQuiet ==
    ASSUME CoreInv, QuietInv, NEW p \in boot, runDaemon(p)
    PROVE  QuietInv'
  <1>1. boot' \subseteq boot /\ (daemon' = daemon \/ daemon'.bytes = p.bytes)
    BY DEF runDaemon
  <1>2. NobodyJoins
    BY <1>1 DEF NobodyJoins, Only, Nobody
  <1>3. QED
    BY <1>2, QuietFrame DEF runDaemon, files, bounds

\* migrateOnLoad keeps the third layer.
LEMMA migrateOnLoadQuiet ==
    ASSUME CoreInv, QuietInv, NEW e \in 1..Entries, migrateOnLoad(e)
    PROVE  QuietInv'
  <1> SUFFICES ASSUME rivals = 0 PROVE QuietInv'
    BY DEF QuietInv, migrateOnLoad, bounds
  <1>1. daemon # NoDaemon /\ daemon.bytes = "candidate" /\ ~Only("previous") /\ ~Nobody
    BY DEF migrateOnLoad, Only, Nobody
  <1>2. UNCHANGED <<journal, survivors, exe, exeSurvivors, daemon, boot, pc, rivals>>
    BY DEF migrateOnLoad, procs, bounds
  <1>3. /\ \A b : Only(b)' <=> Only(b)
        /\ Nobody' <=> Nobody
    BY <1>2 DEF Only, Nobody
  <1>4. ASSUME NEW j \in survivors PROVE RunsOK(j)'
    <2>1. RunsOK(j) /\ exe \in Bytes
      BY DEF QuietInv, CoreInv, FileType
    <2>2. QED
      BY <1>1, <1>2, <1>3, <2>1 DEF RunsOK, Bytes
  <1>5. journal \in survivors /\ RunsOK(journal)
    BY DEF QuietInv, CoreInv, SurvivorsOK
  <1>6. pc \notin {"entryRestored", "restored"}
    BY <1>1, <1>5 DEF RunsOK, CoreInv, PhaseOK
  <1>7. QED
    BY <1>2, <1>3, <1>4, <1>6 DEF QuietInv

\* StopPrevious keeps the third layer.
LEMMA StopPreviousQuiet == CoreInv /\ QuietInv /\ StopPrevious => QuietInv'
  <1> SUFFICES ASSUME CoreInv, QuietInv, StopPrevious PROVE QuietInv'
    OBVIOUS
  <1> SUFFICES ASSUME rivals = 0 PROVE QuietInv'
    BY DEF QuietInv, StopPrevious, bounds
  <1>1. /\ UNCHANGED <<journal, survivors, exe, exeSurvivors, data, boot, rivals>>
        /\ daemon' \in {daemon, NoDaemon}
    BY DEF StopPrevious, stopDaemon, files, bounds
  <1>2. NobodyJoins
    BY <1>1 DEF NobodyJoins, Only, Nobody
  <1>3. CASE pc' \notin Telling
    BY <1>1, <1>2, <1>3, QuietFrame
  <1>4. CASE pc' \in Telling
    <2>1. daemon' = NoDaemon /\ settled /\ pc' \in {"stopped", "rollback"}
      BY <1>4 DEF StopPrevious, stopDaemon, Telling
    <2>2. Nobody'
      BY <1>1, <2>1 DEF Nobody, settled, QuietInv
    <2>3. \A p \in boot' : ~p.slow
      BY <1>1 DEF QuietInv
    <2>4. ASSUME NEW j \in survivors PROVE RunsOK(j)'
      <3>1. RunsOK(j)
        BY DEF QuietInv
      <3>2. (\A b : Only(b)') /\ (AllOld => AllOld')
        BY <1>1, <2>2 DEF Only, Nobody, AllOld
      <3>3. QED
        BY <1>1, <2>2, <3>1, <3>2 DEF RunsOK
    <2>5. QED
      BY <1>1, <2>1, <2>2, <2>3, <2>4 DEF QuietInv
  <1>5. QED
    BY <1>3, <1>4

\* StopCandidate keeps the third layer.
LEMMA StopCandidateQuiet == CoreInv /\ QuietInv /\ StopCandidate => QuietInv'
  <1> SUFFICES ASSUME CoreInv, QuietInv, StopCandidate PROVE QuietInv'
    OBVIOUS
  <1> SUFFICES ASSUME rivals = 0 PROVE QuietInv'
    BY DEF QuietInv, StopCandidate, bounds
  <1>1. /\ UNCHANGED <<journal, survivors, exe, exeSurvivors, data, boot, rivals>>
        /\ daemon' \in {daemon, NoDaemon}
    BY DEF StopCandidate, stopDaemon, files, bounds
  <1>2. NobodyJoins
    BY <1>1 DEF NobodyJoins, Only, Nobody
  <1>3. CASE pc' \notin Telling
    BY <1>1, <1>2, <1>3, QuietFrame
  <1>4. CASE pc' \in Telling
    <2>1. daemon' = NoDaemon /\ settled /\ pc' \in {"stopped", "rollback"}
      BY <1>4 DEF StopCandidate, stopDaemon, Telling
    <2>2. Nobody'
      BY <1>1, <2>1 DEF Nobody, settled, QuietInv
    <2>3. \A p \in boot' : ~p.slow
      BY <1>1 DEF QuietInv
    <2>4. ASSUME NEW j \in survivors PROVE RunsOK(j)'
      <3>1. RunsOK(j)
        BY DEF QuietInv
      <3>2. (\A b : Only(b)') /\ (AllOld => AllOld')
        BY <1>1, <2>2 DEF Only, Nobody, AllOld
      <3>3. QED
        BY <1>1, <2>2, <3>1, <3>2 DEF RunsOK
    <2>5. QED
      BY <1>1, <2>1, <2>2, <2>3, <2>4 DEF QuietInv
  <1>5. QED
    BY <1>3, <1>4

\* Starting the installed executable beside journals that speak for it.
LEMMA QuietLaunch ==
    ASSUME CoreInv, QuietInv, NEW t \in BOOLEAN, boot' \subseteq boot \union {started(t)},
           UNCHANGED <<journal, survivors, exe, exeSurvivors, data, daemon, rivals>>,
           pc' \notin Telling, exeSurvivors = {exe},
           \A j \in survivors : j = NoTxn \/ j.phase \in OldPhases \union NewPhases
    PROVE  QuietInv'
  <1> SUFFICES ASSUME rivals = 0 PROVE QuietInv'
    BY DEF QuietInv
  <1>1. started(t).bytes = exe /\ started(t).slow = FALSE
    BY StartedType DEF CoreInv
  <1>2. \A p \in boot' : ~p.slow
    BY <1>1 DEF QuietInv
  <1>3. (Only(exe) => Only(exe)') /\ (AllOld => AllOld')
    BY <1>1 DEF Only, AllOld
  <1>4. ASSUME NEW j \in survivors PROVE RunsOK(j)'
    <2>1. RunsOK(j) /\ JournalOK(j)
      BY DEF QuietInv, CoreInv, SurvivorsOK
    <2>2. j.phase \in OldPhases => exe = "previous"
      BY <2>1 DEF JournalOK, OldBytes
    <2>3. j.phase \in NewPhases => exe = "candidate"
      BY <2>1 DEF JournalOK, NewBytes
    <2>4. j.phase \notin {"daemon_stopped", "rolling_back"}
      BY NoTxnFacts DEF OldPhases, NewPhases, Untouched, Restored
    <2>5. QED
      BY <1>3, <2>1, <2>2, <2>3, <2>4 DEF RunsOK
  <1>5. journal'.phase # "daemon_stopped"
    BY NoTxnFacts DEF CoreInv, SurvivorsOK, OldPhases, NewPhases, Untouched, Restored
  <1>6. QED
    BY <1>2, <1>4, <1>5 DEF QuietInv, Telling

\* StartCandidate keeps the third layer.
LEMMA StartCandidateQuiet == CoreInv /\ QuietInv /\ StartCandidate => QuietInv'
  <1> SUFFICES ASSUME CoreInv, QuietInv, StartCandidate PROVE QuietInv'
    OBVIOUS
  <1>1. UNCHANGED <<journal, survivors, exe, exeSurvivors, data, daemon, rivals>> /\ pc' \notin Telling
    BY DEF StartCandidate, Telling, launchCandidate, files, bounds, awaitIdentity, Fail
  <1>2. CASE UNCHANGED boot
    BY <1>1, <1>2, SameRuns, QuietFrame
  <1>3. survivors = {journal} /\ journal.phase = "candidate_starting"
    BY DEF StartCandidate, At, CoreInv, DurableOK, MayOpen, Loose
  <1>4. exeSurvivors = {exe}
    BY <1>3 DEF CoreInv, SurvivorsOK, JournalOK, NewPhases, NewBytes
  <1>5. boot' \subseteq boot \union {started(TRUE)}
    BY DEF StartCandidate, launchCandidate
  <1>6. QED
    BY <1>1, <1>3, <1>4, <1>5, QuietLaunch DEF NewPhases

\* CommittedArm keeps the third layer.
LEMMA CommittedArmQuiet == CoreInv /\ QuietInv /\ CommittedArm => QuietInv'
  <1> SUFFICES ASSUME CoreInv, QuietInv, CommittedArm PROVE QuietInv'
    OBVIOUS
  <1>1. UNCHANGED <<journal, survivors, exe, exeSurvivors, data, daemon, rivals>> /\ pc' \notin Telling
    BY DEF CommittedArm, Telling, launchCandidate, files, bounds, awaitIdentity, Fail
  <1>2. CASE UNCHANGED boot
    BY <1>1, <1>2, SameRuns, QuietFrame
  <1>3. CASE ~UNCHANGED boot
    <2>1. At("committed") /\ boot' \subseteq boot \union {started(TRUE)}
      BY <1>3 DEF CommittedArm, launchCandidate
    <2>2. survivors = {journal} /\ journal.phase = "committed"
      BY <2>1 DEF At, CoreInv, DurableOK, MayOpen, Loose
    <2>3. exeSurvivors = {exe}
      BY <2>2 DEF CoreInv, SurvivorsOK, JournalOK, NewPhases, NewBytes
    <2>4. QED
      BY <1>1, <2>1, <2>2, <2>3, QuietLaunch DEF NewPhases
  <1>4. QED
    BY <1>2, <1>3

\* StartPrevious keeps the third layer.
LEMMA StartPreviousQuiet == CoreInv /\ QuietInv /\ StartPrevious => QuietInv'
  <1> SUFFICES ASSUME CoreInv, QuietInv, StartPrevious PROVE QuietInv'
    OBVIOUS
  <1>1. UNCHANGED <<journal, survivors, exe, exeSurvivors, data, daemon, rivals>> /\ pc' \notin Telling
    BY DEF StartPrevious, Telling, launchCandidate, files, bounds, awaitIdentity, Fail
  <1>2. CASE UNCHANGED boot
    BY <1>1, <1>2, SameRuns, QuietFrame
  <1>3. /\ survivors = {journal}
        /\ journal.phase \in {"previous_starting", "previous_validating", "rolled_back"}
    BY DEF StartPrevious, At, CoreInv, DurableOK, MayOpen, Loose
  <1>4. exeSurvivors = {exe}
    BY <1>3 DEF CoreInv, SurvivorsOK, JournalOK, OldPhases, Restored, OldBytes
  <1>5. boot' \subseteq boot \union {started(FALSE)}
    BY DEF StartPrevious, launchPrevious
  <1>6. QED
    BY <1>1, <1>3, <1>4, <1>5, QuietLaunch DEF OldPhases, Restored

\* HandOff keeps the third layer.
LEMMA HandOffQuiet == CoreInv /\ QuietInv /\ HandOff => QuietInv'
  <1> SUFFICES ASSUME CoreInv, QuietInv, HandOff PROVE QuietInv'
    OBVIOUS
  <1>1. /\ UNCHANGED <<journal, survivors, exe, exeSurvivors, data, rivals>>
        /\ pc' \notin Telling /\ journal = NoTxn
    BY DEF HandOff, stopDaemon, Telling, files, bounds, CoreInv, PhaseOK
  <1>2. CASE UNCHANGED boot
    <2>1. daemon' \in {daemon, NoDaemon}
      BY DEF HandOff, stopDaemon
    <2>2. NobodyJoins
      BY <1>2, <2>1 DEF NobodyJoins, Only, Nobody
    <2>3. QED
      BY <1>1, <2>2, QuietFrame
  <1>3. CASE ~UNCHANGED boot
    <2>1. boot' \subseteq boot \union {started(FALSE)} /\ daemon' = daemon
      BY <1>3 DEF HandOff, launchPrevious
    <2>2. exeSurvivors = {exe}
      BY <1>1, NoTxnFacts DEF CoreInv, SurvivorsOK, JournalOK
    <2>3. \A j \in survivors : j = NoTxn \/ j.phase \in OldPhases \union NewPhases
      <3>1. \A j \in survivors : j.phase \in Idle /\ j \in Journals \union {NoTxn}
        BY <1>1, NoTxnFacts DEF CoreInv, SurvivorsOK, JournalType
      <3>2. QED
        BY <3>1, NoTxnFacts DEF Idle, OldPhases, NewPhases, Untouched, Restored
    <2>4. QED
      BY <1>1, <2>1, <2>2, <2>3, QuietLaunch
  <1>4. QED
    BY <1>2, <1>3

\* Enter keeps the third layer.
LEMMA EnterQuiet == CoreInv /\ QuietInv /\ Enter => QuietInv'
  <1> SUFFICES ASSUME CoreInv, QuietInv, Enter PROVE QuietInv'
    OBVIOUS
  <1>1. UNCHANGED <<exe, exeSurvivors, data, daemon, boot, rivals>>
    BY DEF Enter, files, procs, bounds
  <1>2. journal \in Journals /\ journal # NoTxn
    BY NoTxnFacts DEF CoreInv, JournalType, PhaseOK, Enter
  <1>3. CASE \E good \in {"abort", "loop"} :
                write([journal EXCEPT !.phase = journal.phase], good, "leaving", "leaving")
    <2>1. journal.phase \in Phases
      BY <1>2, NoTxnFacts
    <2>2. QED
      BY <1>1, <1>2, <1>3, <2>1, QuietPhase DEF Telling
  <1>4. CASE pc' \in {"abort", "loop", "leaving"} /\ UNCHANGED <<journal, survivors>>
    BY <1>1, <1>4, SameRuns, QuietFrame DEF Telling
  <1>5. QED
    BY <1>3, <1>4 DEF Enter, reaffirmDurableJournal, persistPhase, persistJournal

\* Loop keeps the third layer.
LEMMA LoopQuiet == CoreInv /\ QuietInv /\ Loop => QuietInv'
  <1> SUFFICES ASSUME CoreInv, QuietInv, Loop PROVE QuietInv'
    OBVIOUS
  <1>1. UNCHANGED <<exe, exeSurvivors, data, daemon, boot, rivals>>
    BY DEF Loop, files, procs, bounds
  <1>2. journal \in Journals /\ journal # NoTxn
    BY NoTxnFacts DEF CoreInv, JournalType, PhaseOK, Loop
  <1>3. CASE \E good \in {"unwind", "act"} :
                write([journal EXCEPT !.phase = journal.phase], good, "leaving", "leaving")
    <2>1. journal.phase \in Phases
      BY <1>2, NoTxnFacts
    <2>2. QED
      BY <1>1, <1>2, <1>3, <2>1, QuietPhase DEF Telling
  <1>4. CASE pc' \in {"unwind", "act", "leaving"} /\ UNCHANGED <<journal, survivors>>
    BY <1>1, <1>4, SameRuns, QuietFrame DEF Telling
  <1>5. QED
    BY <1>3, <1>4 DEF Loop, reaffirmDurableJournal, persistPhase, persistJournal, loopHead,
       Fail

\* Abort keeps the third layer.
LEMMA AbortQuiet == CoreInv /\ QuietInv /\ Abort => QuietInv'
  <1> SUFFICES ASSUME CoreInv, QuietInv, Abort PROVE QuietInv'
    OBVIOUS
  <1>1. UNCHANGED <<exe, exeSurvivors, data, daemon, boot, rivals>>
    BY DEF Abort, files, procs, bounds
  <1>2. journal \in Journals /\ journal # NoTxn
    BY NoTxnFacts DEF CoreInv, JournalType, PhaseOK, Abort
  <1>3. journal.phase \in Untouched
    BY DEF Abort, CoreInv, PhaseOK, Untouched
  <1>4. QED
    BY <1>1, <1>2, <1>3, QuietPhase DEF Abort, persistPhase, persistJournal, Phases,
       Untouched, Telling

\* advance keeps the third layer.
LEMMA advanceQuiet == CoreInv /\ QuietInv /\ advance => QuietInv'
  <1> SUFFICES ASSUME CoreInv, QuietInv, advance PROVE QuietInv'
    OBVIOUS
  <1>1. UNCHANGED <<exe, exeSurvivors, data, daemon, boot, rivals>>
    BY DEF advance, files, procs, bounds
  <1>2. journal \in Journals /\ journal # NoTxn
    BY NoTxnFacts DEF CoreInv, JournalType, PhaseOK, advance, At
  <1>3. \E p \in Phases, good \in {"loop", "unwind"} :
           /\ write([journal EXCEPT !.phase = p], good, "leaving", "leaving")
           /\ \/ {p, journal.phase} \subseteq Untouched
              \/ {p, journal.phase} \subseteq NewPhases
              \/ {p, journal.phase} \subseteq Restored
              \/ p = "daemon_stopped" /\ journal.phase = "daemon_stopping" /\ pc = "stopped"
    BY DEF advance, At, CoreInv, PhaseOK, persistPhase, persistJournal, Phases, Untouched,
       NewPhases, Restored
  <1>4. rivals = 0 /\ pc = "stopped" => Nobody
    BY DEF QuietInv
  <1>5. QED
    BY <1>1, <1>2, <1>3, <1>4, QuietPhase DEF Telling

\* AwaitActivation keeps the third layer.
LEMMA AwaitActivationQuiet == CoreInv /\ QuietInv /\ AwaitActivation => QuietInv'
  <1> SUFFICES ASSUME CoreInv, QuietInv, AwaitActivation PROVE QuietInv'
    OBVIOUS
  <1>1. UNCHANGED <<exe, exeSurvivors, data, daemon, boot, rivals>>
    BY DEF AwaitActivation, files, procs, bounds
  <1>2. journal \in Journals /\ journal # NoTxn
    BY NoTxnFacts DEF CoreInv, JournalType, PhaseOK, AwaitActivation, At
  <1>3. CASE persistPhase("daemon_stopping", "loop", "leaving")
    BY <1>1, <1>2, <1>3, QuietPhase DEF AwaitActivation, At, persistPhase, persistJournal,
       Phases, Untouched, Telling
  <1>4. CASE pc' \in {"leaving", "abort"} /\ UNCHANGED <<journal, survivors>>
    BY <1>1, <1>4, SameRuns, QuietFrame DEF Telling
  <1>5. QED
    BY <1>3, <1>4 DEF AwaitActivation, Fail

\* Rollback keeps the third layer.
LEMMA RollbackQuiet == CoreInv /\ QuietInv /\ Rollback => QuietInv'
  <1> SUFFICES ASSUME CoreInv, QuietInv, Rollback PROVE QuietInv'
    OBVIOUS
  <1>1. UNCHANGED <<exe, exeSurvivors, data, daemon, boot, rivals>>
    BY DEF Rollback, files, procs, bounds
  <1>2. journal \in Journals /\ journal # NoTxn
    BY NoTxnFacts DEF CoreInv, JournalType, PhaseOK, Rollback, At
  <1>3. CASE pc = "rollback"
    <2>1. (rivals = 0 => Nobody) /\ preCommit(journal.phase)
      BY <1>3 DEF QuietInv, CoreInv, PhaseOK
    <2>2. QED
      BY <1>1, <1>2, <1>3, <2>1, QuietPhase DEF Rollback, At, persistPhase, persistJournal,
         Phases, Telling
  <1>4. CASE pc # "rollback"
    BY <1>1, <1>4, SameRuns, QuietFrame DEF Rollback, Telling
  <1>5. QED
    BY <1>3, <1>4

\* RestoreEnd keeps the third layer.
LEMMA RestoreEndQuiet == CoreInv /\ QuietInv /\ RestoreEnd => QuietInv'
  <1> SUFFICES ASSUME CoreInv, QuietInv, RestoreEnd PROVE QuietInv'
    OBVIOUS
  <1>1. UNCHANGED <<exe, exeSurvivors, data, daemon, boot, rivals>>
    BY DEF RestoreEnd, files, procs, bounds
  <1>2. journal \in Journals /\ journal # NoTxn
    BY NoTxnFacts DEF CoreInv, JournalType, PhaseOK, RestoreEnd
  <1>3. CASE pc = "restored"
    <2>1. (rivals = 0 => AllOld) /\ journal.phase = "rolling_back"
      BY <1>3 DEF QuietInv, CoreInv, PhaseOK
    <2>2. QED
      BY <1>1, <1>2, <1>3, <2>1, QuietPhase DEF RestoreEnd, persistPhase, persistJournal,
         Phases, Telling
  <1>4. CASE pc # "restored"
    BY <1>1, <1>2, <1>4, QuietPhase DEF RestoreEnd, Phases, Telling
  <1>5. QED
    BY <1>3, <1>4

\* MarkRollbackFailed keeps the third layer.
LEMMA MarkRollbackFailedQuiet == CoreInv /\ QuietInv /\ MarkRollbackFailed => QuietInv'
  <1> SUFFICES ASSUME CoreInv, QuietInv, MarkRollbackFailed PROVE QuietInv'
    OBVIOUS
  <1>1. UNCHANGED <<exe, exeSurvivors, data, daemon, boot, rivals>>
    BY DEF MarkRollbackFailed, files, procs, bounds
  <1>2. journal \in Journals /\ journal # NoTxn
    BY NoTxnFacts DEF CoreInv, JournalType, PhaseOK, MarkRollbackFailed
  <1>3. CASE persistPhase("rollback_failed", "reject", "leaving")
    BY <1>1, <1>2, <1>3, QuietPhase DEF persistPhase, persistJournal, Phases, Telling
  <1>4. CASE pc' = "reject" /\ UNCHANGED <<journal, survivors>>
    BY <1>1, <1>4, SameRuns, QuietFrame DEF Telling
  <1>5. QED
    BY <1>3, <1>4 DEF MarkRollbackFailed

\* Installed keeps the third layer.
LEMMA InstalledQuiet == CoreInv /\ QuietInv /\ Installed => QuietInv'
  <1> SUFFICES ASSUME CoreInv, QuietInv, Installed PROVE QuietInv'
    OBVIOUS
  <1>1. UNCHANGED <<exe, exeSurvivors, data, daemon, boot, rivals>>
    BY DEF Installed, files, procs, bounds
  <1>2. journal \in Journals /\ journal # NoTxn
    BY NoTxnFacts DEF CoreInv, JournalType, PhaseOK, Installed
  <1>3. CASE Installed
    <2> DEFINE j == [journal EXCEPT !.phase = "candidate_installed", !.inst = TRUE]
    <2>1. j \in Journals /\ j.phase = "candidate_installed" /\ j.meta = journal.meta
      BY <1>2, <1>3, MarkerCopies
    <2>2. write(j, "loop", "unwind", "unwind")
      BY <1>3 DEF Installed, persistJournal
    <2> HIDE DEF j
    <2>3. rivals = 0 => RunsOK(journal)
      BY DEF QuietInv, CoreInv, SurvivorsOK
    <2>4. rivals = 0 => RunsOK(j)
      <3>1. journal.phase = "daemon_stopped"
        BY DEF Installed, CoreInv, PhaseOK
      <3>2. rivals = 0 => Only("candidate")
        BY <3>1 DEF QuietInv, Nobody, Only
      <3>3. QED
        BY <2>1, <2>3, <3>1, <3>2, NoTxnFacts DEF RunsOK, OldPhases, NewPhases, Untouched,
           Restored
    <2>5. QED
      BY <1>1, <1>3, <2>1, <2>2, <2>4, QuietWrite DEF Telling, CoreInv, PhaseOK
  <1>4. QED
    BY <1>3

\* RestoreMarker keeps the third layer.
LEMMA RestoreMarkerQuiet == CoreInv /\ QuietInv /\ RestoreMarker => QuietInv'
  <1> SUFFICES ASSUME CoreInv, QuietInv, RestoreMarker PROVE QuietInv'
    OBVIOUS
  <1>1. UNCHANGED <<exe, exeSurvivors, data, daemon, boot, rivals>>
    BY DEF RestoreMarker, files, procs, bounds
  <1>2. journal \in Journals /\ journal # NoTxn
    BY NoTxnFacts DEF CoreInv, JournalType, PhaseOK, RestoreMarker
  <1>3. CASE persistJournal([journal EXCEPT !.inst = TRUE], "restoreBinary", "restoreFailed")
    <2> DEFINE j == [journal EXCEPT !.inst = TRUE]
    <2>1. j \in Journals /\ j.phase = journal.phase /\ j.meta = journal.meta
      BY <1>2, <1>3, MarkerCopies
    <2>2. write(j, "restoreBinary", "restoreFailed", "restoreFailed")
      BY <1>3 DEF RestoreMarker, persistJournal
    <2> HIDE DEF j
    <2>3. rivals = 0 => RunsOK(journal)
      BY DEF QuietInv, CoreInv, SurvivorsOK
    <2>4. rivals = 0 => RunsOK(j)
      BY <1>2, <2>1, <2>3, NoTxnFacts DEF RunsOK
    <2>5. QED
      BY <1>1, <1>3, <2>1, <2>2, <2>4, QuietWrite DEF Telling, CoreInv, PhaseOK,
         RestoreMarker
  <1>4. CASE pc' = "restoreBinary" /\ UNCHANGED <<journal, survivors>>
    BY <1>1, <1>4, SameRuns, QuietFrame DEF Telling
  <1>5. QED
    BY <1>3, <1>4 DEF RestoreMarker

\* RestoreBinary keeps the third layer.
LEMMA RestoreBinaryQuiet == CoreInv /\ QuietInv /\ RestoreBinary => QuietInv'
  <1> SUFFICES ASSUME CoreInv, QuietInv, RestoreBinary PROVE QuietInv'
    OBVIOUS
  <1>1. UNCHANGED <<data, daemon, boot, rivals>>
    BY DEF RestoreBinary, procs, bounds
  <1>2. journal \in Journals /\ journal # NoTxn /\ journal.phase = "rolling_back"
    BY NoTxnFacts DEF CoreInv, JournalType, PhaseOK, RestoreBinary
  <1>3. CASE pc = "binaryRestored"
    <2> DEFINE j == [journal EXCEPT !.bin = TRUE]
    <2>1. j \in Journals /\ j.phase = journal.phase /\ j.meta = journal.meta
      BY <1>2, <1>3, MarkerCopies
    <2>2. write(j, "restoreMetadata", "restoreFailed", "restoreFailed")
      BY <1>3 DEF RestoreBinary, persistJournal
    <2> HIDE DEF j
    <2>3. rivals = 0 => RunsOK(journal)
      BY DEF QuietInv, CoreInv, SurvivorsOK
    <2>4. rivals = 0 => RunsOK(j)
      BY <1>2, <2>1, <2>3, NoTxnFacts DEF RunsOK
    <2>5. QED
      BY <1>1, <1>3, <2>1, <2>2, <2>4, <1>2, QuietWrite DEF Telling, RestoreBinary
  <1>4. CASE pc = "restoreBinary"
    <2>1. UNCHANGED <<journal, survivors>> /\ pc' \notin Telling
      BY <1>4 DEF RestoreBinary, writeExecutable, Telling
    <2> SUFFICES ASSUME rivals = 0 PROVE QuietInv'
      BY <1>1 DEF QuietInv
    <2>2. Nobody'
      BY <1>1, <1>2 DEF QuietInv, CoreInv, SurvivorsOK, RunsOK, Nobody
    <2>3. NoTxn \notin survivors
      BY <1>2 DEF CoreInv, SurvivorsOK
    <2>4. ASSUME NEW j \in survivors PROVE RunsOK(j)'
      <3>1. RunsOK(j) /\ j # NoTxn
        BY <2>3 DEF QuietInv
      <3>2. (\A b : Only(b)') /\ (AllOld => AllOld')
        BY <1>1, <2>2 DEF Only, Nobody, AllOld
      <3>3. QED
        BY <1>1, <2>2, <3>1, <3>2 DEF RunsOK
    <2>5. \A p \in boot' : ~p.slow
      BY <1>1 DEF QuietInv
    <2>6. QED
      BY <1>1, <2>1, <2>2, <2>4, <2>5 DEF QuietInv, Telling
  <1>5. QED
    BY <1>3, <1>4 DEF RestoreBinary

\* RestoreMetadata keeps the third layer.
LEMMA RestoreMetadataQuiet == CoreInv /\ QuietInv /\ RestoreMetadata => QuietInv'
  <1> SUFFICES ASSUME CoreInv, QuietInv, RestoreMetadata PROVE QuietInv'
    OBVIOUS
  <1>1. UNCHANGED <<exe, exeSurvivors, daemon, boot, rivals>>
    BY DEF RestoreMetadata, procs, bounds
  <1>2. journal \in Journals /\ journal # NoTxn /\ journal.phase = "rolling_back"
    BY NoTxnFacts DEF CoreInv, JournalType, PhaseOK, RestoreMetadata
  <1>3. CASE pc = "entryRestored"
    <2> DEFINE j == [journal EXCEPT !.meta = @ + 1]
    <2>1. j \in Journals /\ j.phase = journal.phase /\ j.meta = journal.meta + 1
      BY <1>2, <1>3, EntryCopy DEF CoreInv, PhaseOK
    <2>2. write(j, "restoreMetadata", "restoreFailed", "restoreFailed")
      BY <1>3 DEF RestoreMetadata, persistJournal
    <2> HIDE DEF j
    <2>3. rivals = 0 => RunsOK(journal)
      BY DEF QuietInv, CoreInv, SurvivorsOK
    <2>4. rivals = 0 => RunsOK(j)
      <3>1. rivals = 0 => \A e \in 1..(journal.meta + 1) : data[e] = "old"
        <4>1. rivals = 0 => data[journal.meta + 1] = "old" /\ \A e \in 1..journal.meta : data[e] = "old"
          BY <1>2, <1>3, <2>3 DEF QuietInv, RunsOK
        <4>2. \A e \in 1..(journal.meta + 1) : e = journal.meta + 1 \/ e \in 1..journal.meta
          BY <1>2, Bounds DEF Journals
        <4>3. QED
          BY <4>1, <4>2
      <3>2. QED
        BY <1>2, <2>1, <2>3, <3>1, NoTxnFacts DEF RunsOK, OldPhases, NewPhases, Untouched,
           Restored
    <2>5. QED
      BY <1>1, <1>3, <2>1, <2>2, <2>4, <1>2, QuietWrite DEF Telling, RestoreMetadata
  <1>4. CASE pc = "restoreMetadata"
    <2> SUFFICES ASSUME rivals = 0 PROVE QuietInv'
      BY <1>1 DEF QuietInv
    <2>1. /\ UNCHANGED <<journal, survivors>>
          /\ pc' \in {"restored", "entryRestored", "restoreFailed"}
      BY <1>4 DEF RestoreMetadata
    <2>2. \A e \in 1..Entries : data[e] = "old" => data'[e] = "old"
      BY <1>4 DEF RestoreMetadata, CoreInv, FileType
    <2>3. \A m \in 0..Entries : 1..m \subseteq 1..Entries
      BY Bounds
    <2>4. ASSUME NEW j \in survivors PROVE RunsOK(j)'
      <3>1. RunsOK(j) /\ (j \in Journals \/ j = NoTxn)
        BY DEF QuietInv, CoreInv, JournalType
      <3>2. /\ \A b : Only(b) => Only(b)'
            /\ Nobody => Nobody'
            /\ AllOld => AllOld'
        BY <1>1, <2>2 DEF Only, Nobody, AllOld
      <3>3. j.meta \in 0..Entries
        BY <3>1, NoTxnFacts, Bounds DEF Journals
      <3>4. QED
        BY <1>1, <2>2, <2>3, <3>1, <3>2, <3>3 DEF RunsOK
    <2>5. RunsOK(journal)
      BY DEF QuietInv, CoreInv, SurvivorsOK
    <2>6. pc' = "entryRestored" => data'[journal'.meta + 1] = "old"
      <3>1. journal.meta < Entries => journal.meta + 1 \in 1..Entries
        BY <1>2, Bounds DEF Journals
      <3>2. QED
        BY <1>4, <2>1, <3>1 DEF RestoreMetadata, CoreInv, FileType
    <2>7. pc' = "restored" => AllOld'
      BY <1>2, <1>4, <2>5 DEF RestoreMetadata, RunsOK, AllOld
    <2>8. (\A p \in boot' : ~p.slow) /\ (exeSurvivors' # {exe'} => Nobody')
      BY <1>1 DEF QuietInv, Nobody
    <2>9. journal'.phase # "daemon_stopped" /\ pc' \notin {"stopped", "rollback"}
      BY <1>2, <2>1
    <2>10. QED
      BY <2>1, <2>4, <2>6, <2>7, <2>8, <2>9 DEF QuietInv
  <1>5. QED
    BY <1>3, <1>4 DEF RestoreMetadata

\* InstallCandidate keeps the third layer.
LEMMA InstallCandidateQuiet == CoreInv /\ QuietInv /\ InstallCandidate => QuietInv'
  <1> SUFFICES ASSUME CoreInv, QuietInv, InstallCandidate PROVE QuietInv'
    OBVIOUS
  <1> SUFFICES ASSUME rivals = 0 PROVE QuietInv'
    BY DEF QuietInv, InstallCandidate, bounds
  <1>1. /\ UNCHANGED <<journal, survivors, data, daemon, boot>>
        /\ pc' \notin Telling /\ journal.phase = "daemon_stopped"
    BY DEF InstallCandidate, At, writeExecutable, procs, Telling
  <1>2. Nobody'
    BY <1>1 DEF QuietInv, Nobody
  <1>3. NoTxn \notin survivors
    BY <1>1 DEF CoreInv, SurvivorsOK
  <1>4. ASSUME NEW j \in survivors PROVE RunsOK(j)'
    <2>1. RunsOK(j) /\ j # NoTxn
      BY <1>3 DEF QuietInv
    <2>2. (\A b : Only(b)') /\ (AllOld => AllOld')
      BY <1>1, <1>2 DEF Only, Nobody, AllOld
    <2>3. QED
      BY <1>1, <1>2, <2>1, <2>2 DEF RunsOK
  <1>5. \A p \in boot' : ~p.slow
    BY <1>1 DEF QuietInv
  <1>6. QED
    BY <1>1, <1>2, <1>4, <1>5 DEF QuietInv, Telling

\* Forgetting or beginning a transaction beside the executable it speaks for.
LEMMA QuietRenew ==
    ASSUME CoreInv, QuietInv, NEW j, survivors' \subseteq survivors \union {j}, journal' = j,
           rivals = 0 => RunsOK(j), j.phase # "daemon_stopped", pc' \notin Telling,
           UNCHANGED <<exe, exeSurvivors, data, daemon, boot, rivals>>
    PROVE  QuietInv'
  <1> SUFFICES ASSUME rivals = 0 PROVE QuietInv'
    BY DEF QuietInv
  <1>1. (Nobody <=> Nobody') /\ (\A b : Only(b) <=> Only(b)') /\ (AllOld <=> AllOld')
    BY DEF Nobody, Only, AllOld
  <1>2. ASSUME NEW k \in survivors \union {j} PROVE RunsOK(k)'
    <2>1. RunsOK(k)
      BY <1>2 DEF QuietInv
    <2>2. QED
      BY <1>1, <2>1 DEF RunsOK
  <1>3. QED
    BY <1>1, <1>2 DEF QuietInv, Telling

\* Cleanup keeps the third layer.
LEMMA CleanupQuiet == CoreInv /\ QuietInv /\ Cleanup => QuietInv'
  <1> SUFFICES ASSUME CoreInv, QuietInv, Cleanup PROVE QuietInv'
    OBVIOUS
  <1>1. /\ UNCHANGED <<exe, exeSurvivors, data, daemon, boot, rivals>> /\ pc' \notin Telling
        /\ journal.phase \in {"committed", "rolled_back", "aborted"}
    BY DEF Cleanup, Fail, terminalPhase, files, procs, bounds, Telling
  <1>2. CASE UNCHANGED <<journal, survivors>>
    BY <1>1, <1>2, SameRuns, QuietFrame
  <1>3. CASE journal' = NoTxn /\ survivors' \subseteq survivors \union {NoTxn}
    <2>1. (rivals = 0 => RunsOK(journal)) /\ JournalOK(journal)
      BY DEF QuietInv, CoreInv, SurvivorsOK
    <2>2. rivals = 0 => Only(exe) /\ (exe = "previous" => AllOld)
      BY <1>1, <2>1 DEF RunsOK, JournalOK, OldPhases, NewPhases, Untouched, Restored,
         OldBytes, NewBytes
    <2>3. rivals = 0 => RunsOK(NoTxn)
      BY <2>2, NoTxnFacts DEF RunsOK, OldPhases, NewPhases, Untouched, Restored
    <2>4. QED
      BY <1>1, <1>3, <2>3, QuietRenew, NoTxnFacts
  <1>4. QED
    BY <1>2, <1>3 DEF Cleanup

\* AbortPreparedTransaction keeps the third layer.
LEMMA AbortPreparedTransactionQuiet == CoreInv /\ QuietInv /\ AbortPreparedTransaction => QuietInv'
  <1> SUFFICES ASSUME CoreInv, QuietInv, AbortPreparedTransaction PROVE QuietInv'
    OBVIOUS
  <1>1. UNCHANGED <<exe, exeSurvivors, data, daemon, boot, rivals, pc>>
    BY DEF AbortPreparedTransaction, files, procs, bounds
  <1>2. CASE UNCHANGED <<journal, survivors>>
    BY <1>1, <1>2, SameRuns, QuietFrame
  <1>3. CASE /\ journal' = NoTxn /\ survivors' \subseteq survivors \union {NoTxn}
             /\ journal.phase = "prepared" /\ ~Live
    <2>1. (rivals = 0 => RunsOK(journal)) /\ JournalOK(journal)
      BY DEF QuietInv, CoreInv, SurvivorsOK
    <2>2. rivals = 0 => Only(exe) /\ (exe = "previous" => AllOld)
      BY <1>3, <2>1 DEF RunsOK, JournalOK, OldPhases, Untouched, OldBytes
    <2>3. rivals = 0 => RunsOK(NoTxn)
      BY <2>2, NoTxnFacts DEF RunsOK, OldPhases, NewPhases, Untouched, Restored
    <2>4. pc' \notin Telling
      BY <1>1, <1>3 DEF Live, Telling
    <2>5. QED
      BY <1>1, <1>3, <2>3, <2>4, QuietRenew, NoTxnFacts
  <1>4. QED
    BY <1>2, <1>3 DEF AbortPreparedTransaction

\* Prepare keeps the third layer.
LEMMA PrepareQuiet == CoreInv /\ QuietInv /\ Prepare => QuietInv'
  <1> SUFFICES ASSUME CoreInv, QuietInv, Prepare PROVE QuietInv'
    OBVIOUS
  <1>1. /\ UNCHANGED <<exe, exeSurvivors, data, daemon, boot, rivals>> /\ pc' \notin Telling
        /\ survivors' \subseteq survivors \union {journal'}
        /\ journal = NoTxn /\ exe = "previous"
    BY DEF Prepare, files, procs, Telling
  <1>2. journal'.phase = "prepared" /\ journal'.meta = 0
    BY DEF Prepare, NoTxn
  <1>3. rivals = 0 => AllOld /\ Only("previous")
    BY <1>1 DEF QuietInv, RunsOK, CoreInv, SurvivorsOK
  <1>4. ASSUME NEW j, j = journal' PROVE rivals = 0 => RunsOK(j)
    BY <1>2, <1>3, <1>4, NoTxnFacts DEF RunsOK, OldPhases, NewPhases, Untouched, Restored
  <1>5. ASSUME NEW j, j = journal' PROVE QuietInv'
    BY <1>1, <1>2, <1>4, <1>5, QuietRenew
  <1>6. QED
    BY <1>5

\* PowerLoss keeps the third layer.
LEMMA PowerLossQuiet == CoreInv /\ QuietInv /\ PowerLoss => QuietInv'
  <1> SUFFICES ASSUME CoreInv, QuietInv, PowerLoss PROVE QuietInv'
    OBVIOUS
  <1> SUFFICES ASSUME rivals = 0 PROVE QuietInv'
    BY DEF QuietInv, PowerLoss
  <1>1. /\ survivors' \subseteq survivors /\ exe' \in exeSurvivors /\ exeSurvivors' = {exe'}
        /\ daemon' = NoDaemon /\ boot' = {} /\ data' = data /\ pc' = "none"
    BY DEF PowerLoss
  <1>2. Nobody' /\ (\A b : Only(b)') /\ (AllOld => AllOld')
    BY <1>1 DEF Nobody, Only, AllOld
  <1>3. NoTxn \in survivors => exe' = exe
    BY <1>1 DEF CoreInv, SurvivorsOK, JournalOK
  <1>4. ASSUME NEW j \in survivors PROVE RunsOK(j)'
    <2>1. RunsOK(j)
      BY DEF QuietInv
    <2>2. QED
      BY <1>1, <1>2, <1>3, <2>1 DEF RunsOK
  <1>5. QED
    BY <1>1, <1>2, <1>4 DEF QuietInv

\* A step that changes nothing keeps the third layer.
LEMMA StutterQuiet == CoreInv /\ QuietInv /\ UNCHANGED vars => QuietInv'
  BY SameRuns, QuietFrame DEF vars, files, procs, bounds

\* The third layer at the start: all metadata is old.
LEMMA InitQuiet == Init => QuietInv
  BY NoTxnFacts DEF Init, QuietInv, RunsOK, NewPhases, Only, AllOld

\* Every step keeps the third layer.
LEMMA QuietStep == CoreInv /\ QuietInv /\ [Next]_vars => QuietInv'
  <1> SUFFICES ASSUME CoreInv, QuietInv, [Next]_vars PROVE QuietInv'
    OBVIOUS
  <1>1. CASE Supervise
    BY <1>1, EnterQuiet, AbortQuiet, LoopQuiet, advanceQuiet, AwaitActivationQuiet,
       StopPreviousQuiet, InstallCandidateQuiet, InstalledQuiet, StartCandidateQuiet,
       ValidateCandidateQuiet, CommittedArmQuiet, AbortedArmQuiet, DisableRecoveryJobQuiet,
       CleanupQuiet, HandOffQuiet, StopCandidateQuiet, RollbackQuiet, RestoreMarkerQuiet,
       RestoreBinaryQuiet, RestoreMetadataQuiet, RestoreEndQuiet, MarkRollbackFailedQuiet,
       RecordRejectedCandidateQuiet, RollbackFailedArmQuiet, StartPreviousQuiet,
       ValidatePreviousQuiet DEF Supervise
  <1>2. CASE Trigger
    BY <1>2, PrepareQuiet, InstallAndStartQuiet, AwaitSupervisorReadyQuiet,
       AbortPreparedTransactionQuiet, AuthorizeActivationQuiet DEF Trigger
  <1>3. CASE Daemon
    BY <1>3, checkUpgradeGateQuiet, runDaemonQuiet, migrateOnLoadQuiet, DaemonExitQuiet DEF
       Daemon
  <1>4. CASE Manager
    BY <1>4, TryAcquireRecoveryQuiet, StandDownQuiet, LeaveQuiet DEF Manager
  <1>5. CASE Disturb
    BY <1>5, RivalStartQuiet, WakeQuiet, CrashActorQuiet, CrashDaemonQuiet, PowerLossQuiet,
       DawdleQuiet DEF Disturb
  <1>6. CASE UNCHANGED vars
    BY <1>6, StutterQuiet
  <1>7. QED
    BY <1>1, <1>2, <1>3, <1>4, <1>5, <1>6 DEF Next

\* The first and the third layer are invariants.
LEMMA Quiet == Spec => [](CoreInv /\ QuietInv)
  BY Core, InitQuiet, QuietStep, PTL DEF Spec

\* The previous daemon never reads a file the candidate migrated: the restore is
\* complete before startPreviousDaemon, unless it was given up or a rival start
\* came first.
THEOREM PreviousReadsItsSchema == Spec => []PreviousReadsOldSchema
  <1>1. CoreInv /\ QuietInv => PreviousReadsOldSchema
    <2> SUFFICES ASSUME CoreInv, QuietInv, daemon # NoDaemon, daemon.bytes = "previous",
                        journal.phase # "rollback_failed", rivals = 0
                 PROVE  AllOld
      BY DEF PreviousReadsOldSchema, AllOld
    <2>1. RunsOK(journal) /\ exe \in Bytes /\ (journal \in Journals \/ journal = NoTxn)
      BY DEF QuietInv, CoreInv, SurvivorsOK, FileType, JournalType
    <2>2. ~Only("candidate") /\ ~Nobody
      BY DEF Only, Nobody
    <2>3. CASE journal = NoTxn
      BY <2>1, <2>2, <2>3 DEF RunsOK, Bytes
    <2>4. CASE journal \in Journals
      <3>1. journal.phase \in OldPhases \union NewPhases
                              \union {"daemon_stopped", "rolling_back", "rollback_failed"}
        BY <2>4, NoTxnFacts DEF Phases, OldPhases, NewPhases, Untouched, Restored
      <3>2. QED
        BY <2>1, <2>2, <3>1 DEF RunsOK
    <2>5. QED
      BY <2>1, <2>3, <2>4
  <1>2. QED
    BY <1>1, Quiet, PTL

\* The executable and the metadata are replaced only while no daemon serves the
\* home: StopConfirmed still holds when the write happens, unless a start nobody
\* waits for binds in between.
THEOREM SwapsOnlyWhenStopped == Spec => SwapOnlyStopped
  <1> DEFINE Swap == \/ exe' # exe
                     \/ \E e \in 1..Entries : data[e] = "migrated" /\ data'[e] = "old"
  <1>1. ASSUME CoreInv, QuietInv, [Next]_vars, rivals = 0, Swap
        PROVE  daemon = NoDaemon
    <2>1. journal \in survivors /\ (\A j \in survivors : RunsOK(j)) /\ exe \in exeSurvivors
      BY <1>1 DEF QuietInv, CoreInv, SurvivorsOK
    <2>2. CASE InstallCandidate
      BY <1>1, <2>2 DEF InstallCandidate, At, QuietInv, Nobody
    <2>3. CASE RestoreBinary \/ RestoreMetadata
      <3>1. journal.phase = "rolling_back"
        BY <1>1, <2>3 DEF RestoreBinary, RestoreMetadata, CoreInv, PhaseOK
      <3>2. QED
        BY <2>1, <3>1 DEF RunsOK, Nobody
    <2>4. CASE PowerLoss
      <3>1. exe' # exe /\ exe' \in exeSurvivors
        BY <1>1, <2>4 DEF PowerLoss
      <3>2. QED
        BY <1>1, <2>1, <3>1 DEF QuietInv, Nobody
    <2>5. CASE \E e \in 1..Entries : migrateOnLoad(e)
      BY <1>1, <2>5 DEF migrateOnLoad, CoreInv, FileType
    <2>6. CASE ~(\/ InstallCandidate \/ RestoreBinary \/ RestoreMetadata \/ PowerLoss
                 \/ \E e \in 1..Entries : migrateOnLoad(e))
      <3>1. exe' = exe /\ data' = data
        BY <1>1, <2>6 DEF Next, Supervise, Trigger, Daemon, Manager, Disturb, Enter, Abort,
           Loop, advance, AwaitActivation, StopPrevious, Installed, StartCandidate,
           ValidateCandidate, CommittedArm, AbortedArm, DisableRecoveryJob, Cleanup,
           HandOff, StopCandidate, Rollback, RestoreMarker, RestoreEnd, MarkRollbackFailed,
           RecordRejectedCandidate, RollbackFailedArm, StartPrevious, ValidatePrevious,
           Prepare, InstallAndStart, AwaitSupervisorReady, AbortPreparedTransaction,
           AuthorizeActivation, DaemonExit, TryAcquireRecovery, StandDown, Leave,
           RivalStart, Wake, CrashActor, CrashDaemon, checkUpgradeGate, runDaemon, Dawdle,
           vars, files
      <3>2. QED
        BY <1>1, <3>1
    <2>7. QED
      BY <2>2, <2>3, <2>4, <2>5, <2>6
  <1>2. CoreInv /\ QuietInv /\ [Next]_vars => [rivals = 0 /\ Swap => daemon = NoDaemon]_vars
    BY <1>1
  <1>3. QED
    BY <1>2, Quiet, PTL DEF Spec, SwapOnlyStopped
=============================================================================
