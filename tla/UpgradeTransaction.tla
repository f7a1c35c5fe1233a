------------------------- MODULE UpgradeTransaction -------------------------
(***************************************************************************)
(* One daemon-owned upgrade of the af executable, from the serving         *)
(* daemon's Prepare to the end of the transaction                          *)
(* (internal/upgradetxn and daemon/upgrade_*.go).                          *)
(*                                                                         *)
(* Four parties share the files of one home: the old daemon, which         *)
(* prepares the transaction and authorises its own replacement; the        *)
(* recovery actor, a process of the preserved previous binary that runs    *)
(* Supervisor.Run under the recovery lock; the service manager, which      *)
(* starts the actor again when it fails, until its start limit is reached  *)
(* (a detached actor has none and is started once); and daemon processes   *)
(* on their way to binding the home (the candidate, the restored previous  *)
(* daemon, and ordinary starts by a unit or a client).                     *)
(*                                                                         *)
(* A journal write ends in one of three ways: durable, not visible, or     *)
(* visible with its barrier open.  survivors holds what active.json may    *)
(* contain after a power loss; exeSurvivors likewise for the executable.   *)
(***************************************************************************)
EXTENDS Integers, FiniteSets

CONSTANTS
    Entries,      \* number of metadata files in the snapshot
    SameVersion,  \* FromVersion = ToVersion: bytes cannot be told by version
    Detached,     \* RecoveryJobDetached: the actor has no service manager
    StartLimitBurst, \* starts a unit is granted before one may be refused;
                     \* launchd refuses none
    MaxTxns,      \* bound: upgrades prepared
    MaxFaults,    \* bound: failed writes and failed operations
    MaxCrashes,   \* bound: deaths of a process or of the machine
    MaxRivals     \* bound: starts, wakes and slow binds outside the upgrade

ASSUME UpgradeAssumption ==
    /\ {Entries, MaxTxns, MaxFaults, MaxCrashes, MaxRivals} \subseteq Nat
    /\ {SameVersion, Detached} \subseteq BOOLEAN
    /\ StartLimitBurst \in Nat \ {0}

VARIABLES
    journal, survivors,        \* active.json
    exe, exeSurvivors,         \* the installed executable
    data,                      \* the migrate-on-load metadata files
    daemon, dying, boot,       \* who serves the home, who is starting
    trigger, proof, approved,  \* the old daemon's side of the handshake
    job, due, starts,          \* the recovery job, a pending start, a count
    pc, unconfirmed, run, status, \* the recovery actor and recovery.json
    ledger,                    \* the candidate is in the rejected ledger
    ran, landed,               \* history: candidate served, its bytes landed
    faults, crashes, rivals, txns

files    == <<exe, exeSurvivors, data>>
procs    == <<daemon, dying, boot>>
old      == <<trigger, proof, approved>>
service  == <<job, due, starts>>
history  == <<ran, landed>>
bounds   == <<crashes, rivals, txns>>
vars     == <<journal, survivors, files, procs, old, service, pc, unconfirmed,
              run, status, ledger, history, faults, bounds>>

(***************************************************************************)
(* Journal and processes.                                                  *)
(***************************************************************************)
Phases == {"prepared", "supervisor_ready", "daemon_stopping", "daemon_stopped",
           "candidate_installed", "candidate_starting", "candidate_validating",
           "committed", "aborted", "rolling_back", "rollback_restored",
           "previous_starting", "previous_validating", "rolled_back",
           "rollback_failed"}

Journals == [phase : Phases, inst : BOOLEAN, bin : BOOLEAN, meta : 0..Entries]
NoTxn    == [phase |-> "none", inst |-> FALSE, bin |-> FALSE, meta |-> 0]

Bytes   == {"previous", "candidate"}
NoDaemon == [bytes |-> "none", txn |-> FALSE]
Daemons == [bytes : Bytes, txn : BOOLEAN]
\* A process that has not bound yet.  gated: it is past the entrypoint gate;
\* slow: it is still on its way when every grace period has run out.
Starting == [bytes : Bytes, txn : BOOLEAN, gated : BOOLEAN, slow : BOOLEAN]
started(t) == [bytes |-> exe, txn |-> t, gated |-> t, slow |-> FALSE]

terminalPhase(p)     == p \in {"committed", "rolled_back", "aborted"}
IsRollbackRestore(p) == p \in {"rollback_restored", "previous_starting",
                               "previous_validating", "rolled_back"}

\* The recovery lock is held: every point of the actor's run up to its release.
Live == pc \notin {"none", "handoff", "rearm"}

Fault   == faults < MaxFaults /\ faults' = faults + 1
NoFault == UNCHANGED faults
Crash   == crashes < MaxCrashes /\ crashes' = crashes + 1

\* The launcher starts the actor.
Start == /\ due' = TRUE
         /\ starts' = IF starts < StartLimitBurst THEN starts + 1 ELSE starts

\* An actor that fails or dies: Restart=on-failure starts it again.  Once
\* StartLimitBurst starts were granted the next one is refused, unless it is
\* five minutes since the first.  Nobody restarts a detached actor.
Restart == \/ ~Detached /\ Start
           \/ /\ Detached \/ starts = StartLimitBurst
              /\ due' = FALSE /\ UNCHANGED starts

FreshRun == [first |-> TRUE, takeover |-> FALSE, candOK |-> FALSE,
             prevStarted |-> FALSE, prevOK |-> FALSE]

(***************************************************************************)
(* persistJournalLocked: the three outcomes of writing the journal.  The   *)
(* actor's copy follows what is visible, so it is always journal itself.   *)
(***************************************************************************)
write(j, durable, visible, lost) ==
    \/ /\ journal' = j /\ survivors' = {j} /\ unconfirmed' = FALSE
       /\ pc' = durable /\ NoFault
    \/ /\ Fault /\ pc' = visible
       /\ journal' = j /\ survivors' = survivors \union {j}
       /\ unconfirmed' = TRUE
    \/ /\ Fault /\ pc' = lost
       /\ UNCHANGED <<journal, survivors, unconfirmed>>

persistJournal(j, good, bad) == write(j, good, bad, bad)

persistPhase(p, good, bad) ==
    persistJournal([journal EXCEPT !.phase = p], good, bad)

\* A phase that is visible and perhaps not durable is written again first.
reaffirmDurableJournal(good) ==
    IF unconfirmed THEN persistPhase(journal.phase, good, "leaving")
    ELSE pc' = good /\ NoFault /\ UNCHANGED <<journal, survivors, unconfirmed>>

\* durableAtomicWriteFile on the executable.
writeExecutable(b, good, bad) ==
    \/ exe' = b /\ exeSurvivors' = {b} /\ pc' = good /\ NoFault
    \/ Fault /\ exe' = b /\ exeSurvivors' = exeSurvivors \union {b} /\ pc' = bad
    \/ Fault /\ UNCHANGED <<exe, exeSurvivors>> /\ pc' = bad

\* Supervisor.Run returns an error; the lease is released on the way out.
Fail == pc' = "leaving"

(***************************************************************************)
(* Acquisition and exit.                                                   *)
(***************************************************************************)
aged(a) == IF a = "mine" THEN "stale" ELSE a

\* Mutant: a loaded journal is taken for a durable one.
TryAcquireTrusting ==
    /\ due /\ pc = "none" /\ journal # NoTxn
    /\ pc' = "enter" /\ unconfirmed' = FALSE /\ run' = FreshRun
    /\ status' = "none" /\ due' = FALSE
    /\ approved' = aged(approved) /\ proof' = aged(proof)
    /\ UNCHANGED <<journal, survivors, files, procs, trigger, job, starts,
                   ledger, history, faults, bounds>>

TryAcquireRecovery ==
    /\ due /\ pc = "none" /\ journal # NoTxn
    /\ pc' = "enter" /\ unconfirmed' = TRUE /\ run' = FreshRun
    /\ status' = "none" /\ due' = FALSE
    /\ approved' = aged(approved) /\ proof' = aged(proof)
    /\ UNCHANGED <<journal, survivors, files, procs, trigger, job, starts,
                   ledger, history, faults, bounds>>

\* A start that finds no active transaction exits 0.
StandDown ==
    /\ due /\ pc = "none" /\ journal = NoTxn
    /\ due' = FALSE
    /\ UNCHANGED <<journal, survivors, files, procs, old, job, starts, pc,
                   unconfirmed, run, status, ledger, history, faults, bounds>>

\* Mutant: every failed run exits 0, so the service manager stays quiet.
LeaveQuietly ==
    /\ pc = "leaving"
    /\ pc' = "none" /\ UNCHANGED <<due, starts>>
    /\ UNCHANGED <<journal, survivors, files, procs, old, job, unconfirmed, run,
                   status, ledger, history, faults, bounds>>

\* A failed run exits nonzero.
Leave ==
    /\ pc = "leaving"
    /\ pc' = "none" /\ Restart
    /\ UNCHANGED <<journal, survivors, files, procs, old, job, unconfirmed, run,
                   status, ledger, history, faults, bounds>>

(***************************************************************************)
(* Supervisor.Run: entry, loop head, and the arms.                         *)
(***************************************************************************)
Enter ==
    /\ pc = "enter"
    /\ reaffirmDurableJournal(
           IF journal.phase = "supervisor_ready" THEN "abort" ELSE "loop")
    /\ UNCHANGED <<files, procs, old, service, run, status, ledger, history,
                   bounds>>

Abort ==
    /\ pc = "abort"
    /\ persistPhase("aborted", "loop", "leaving")
    /\ UNCHANGED <<files, procs, old, service, run, status, ledger, history,
                   bounds>>

\* Mutant: a takeover reopens a committed upgrade.
preCommitReopens(p) == p \in {"daemon_stopped", "candidate_installed",
                       "candidate_starting", "candidate_validating", "committed"}

preCommit(p) == p \in {"daemon_stopped", "candidate_installed",
                       "candidate_starting", "candidate_validating"}

\* The heartbeat and the decision of the first iteration.
loopHead ==
    IF run.first /\ preCommit(journal.phase) THEN "unwind" ELSE "act"

Loop ==
    /\ pc = "loop"
    /\ \/ reaffirmDurableJournal(loopHead)
       \/ Fault /\ Fail /\ UNCHANGED <<journal, survivors, unconfirmed>>
    /\ IF pc' = "leaving" THEN UNCHANGED <<run, status>>
       ELSE /\ status' = journal.phase
            /\ run' = [run EXCEPT !.first = FALSE,
                   !.takeover = @ \/ (run.first /\ journal.phase = "daemon_stopping")]
    /\ UNCHANGED <<files, procs, old, service, ledger, history, bounds>>

At(p) == pc = "act" /\ journal.phase = p

\* The boundaries that write the next phase and nothing else.
advance ==
    /\ \/ At("prepared") /\ persistPhase("supervisor_ready", "loop", "leaving")
       \/ At("candidate_installed")
          /\ persistPhase("candidate_starting", "loop", "leaving")
       \/ At("rollback_restored")
          /\ persistPhase("previous_starting", "loop", "leaving")
       \/ pc = "stopped"
          /\ persistPhase("daemon_stopped",
                 IF run.takeover THEN "unwind" ELSE "loop", "leaving")
       \/ pc = "launched"
          /\ persistPhase("candidate_validating", "loop", "leaving")
       \/ pc = "validated" /\ exe = "candidate"
          /\ persistPhase("committed", "loop", "leaving")
       \/ pc = "prevStarted"
          /\ persistPhase("previous_validating", "loop", "leaving")
       \/ pc = "prevValid" /\ persistPhase("rolled_back", "loop", "leaving")
    /\ UNCHANGED <<files, procs, old, service, run, status, ledger, history,
                   bounds>>

AwaitActivation ==
    /\ At("supervisor_ready")
    /\ \/ /\ approved = "mine"
          /\ persistPhase("daemon_stopping", "loop", "leaving")
       \/ /\ approved = "mine" /\ Fault /\ Fail
          /\ UNCHANGED <<journal, survivors, unconfirmed>>
       \/ /\ approved = "stale" /\ pc' = "abort" /\ NoFault
          /\ UNCHANGED <<journal, survivors, unconfirmed>>
       \/ /\ approved = "none" /\ Fail /\ NoFault
          /\ UNCHANGED <<journal, survivors, unconfirmed>>
    /\ UNCHANGED <<files, procs, old, service, run, status, ledger, history,
                   bounds>>

(***************************************************************************)
(* stopDaemonForRecovery: the daemon of the home is gone, or still answers *)
(* at the deadline (signalled, so it may yet exit), or nothing is known.   *)
(***************************************************************************)
settled == \A p \in boot : p.slow

stopDaemon(confirmed, still, unknown) ==
    /\ settled
    /\ \/ daemon' = NoDaemon /\ dying' = FALSE /\ pc' = confirmed /\ NoFault
       \/ /\ daemon # NoDaemon /\ Fault
          /\ dying' = TRUE /\ pc' = still /\ UNCHANGED daemon
       \/ Fault /\ pc' = unknown /\ UNCHANGED <<daemon, dying>>

StopPrevious ==
    /\ At("daemon_stopping")
    /\ stopDaemon("stopped", "abort", "leaving")
    /\ trigger' = IF daemon' = NoDaemon THEN "idle" ELSE trigger
    /\ UNCHANGED <<journal, survivors, files, boot, proof, approved, service,
                   unconfirmed, run, status, ledger, history, bounds>>

InstallCandidate ==
    /\ At("daemon_stopped")
    /\ writeExecutable("candidate", "installed", "unwind")
    /\ landed' = (landed \/ exe' = "candidate")
    /\ UNCHANGED <<journal, survivors, data, procs, old, service, unconfirmed,
                   run, status, ledger, ran, bounds>>

Installed ==
    /\ pc = "installed"
    /\ persistJournal([journal EXCEPT !.phase = "candidate_installed",
                                      !.inst = TRUE], "loop", "unwind")
    /\ UNCHANGED <<files, procs, old, service, run, status, ledger, history,
                   bounds>>

\* launchCandidateDaemon forks a child; it binds later, past no gate.
launchCandidate(next) ==
    /\ pc' = next
    /\ boot' = IF daemon # NoDaemon /\ daemon.txn THEN boot
               ELSE boot \union {started(TRUE)}

\* startPreviousDaemon: a unit restart or a spawn of the canonical binary.
launchPrevious == boot \union {started(FALSE)}

StartCandidate ==
    /\ At("candidate_starting")
    /\ \/ launchCandidate("launched") /\ NoFault
       \/ Fault /\ pc' = "unwind" /\ UNCHANGED boot
    /\ UNCHANGED <<journal, survivors, files, daemon, dying, old, service,
                   unconfirmed, run, status, ledger, history, bounds>>

\* daemonMatchesIdentity for the two directions.
isCandidate == daemon # NoDaemon /\ daemon.txn
               /\ (SameVersion \/ daemon.bytes = "candidate")
isPrevious  == daemon # NoDaemon /\ ~daemon.txn
               /\ (SameVersion \/ daemon.bytes = "previous")

\* awaitDaemonIdentity: healthy in time, or not.
awaitIdentity(match, good, bad) ==
    \/ match /\ pc' = good /\ NoFault
    \/ ~match /\ settled /\ pc' = bad /\ NoFault
    \/ match /\ Fault /\ pc' = bad

ValidateCandidate ==
    /\ At("candidate_validating")
    /\ awaitIdentity(isCandidate, "validated", "unwind")
    /\ run' = [run EXCEPT !.candOK = (pc' = "validated")]
    /\ UNCHANGED <<journal, survivors, files, procs, old, service, unconfirmed,
                   status, ledger, history, bounds>>

(***************************************************************************)
(* The committed arm: the candidate is live again, released, and only then *)
(* is the job disarmed and the journal removed.                            *)
(***************************************************************************)
CommittedArm ==
    /\ \/ /\ At("committed") /\ run.candOK
          /\ pc' = "approve" /\ NoFault /\ UNCHANGED boot
       \/ /\ At("committed") /\ ~run.candOK
          /\ launchCandidate("relaunched") /\ NoFault
       \/ /\ At("committed") /\ ~run.candOK
          /\ Fault /\ Fail /\ UNCHANGED boot
       \/ /\ pc = "relaunched" /\ UNCHANGED boot
          /\ awaitIdentity(isCandidate, "approve", "leaving")
       \/ /\ pc = "approve" /\ UNCHANGED boot
          /\ \/ daemon # NoDaemon /\ daemon.txn /\ pc' = "disable" /\ NoFault
             \/ ~(daemon # NoDaemon /\ daemon.txn) /\ Fail /\ NoFault
             \/ Fault /\ Fail
    /\ UNCHANGED <<journal, survivors, files, daemon, dying, old, service,
                   unconfirmed, run, status, ledger, history, bounds>>

AbortedArm ==
    /\ At("aborted")
    /\ pc' = "disable"
    /\ UNCHANGED <<journal, survivors, files, procs, old, service, unconfirmed,
                   run, status, ledger, history, faults, bounds>>

\* RecoveryJobController.Disable reads the phase from the journal again.
DisableRecoveryJob ==
    /\ pc = "disable"
    /\ \/ /\ terminalPhase(journal.phase) \/ journal.phase = "rollback_failed"
          /\ job' = "disabled" /\ NoFault
          /\ pc' = IF journal.phase = "rollback_failed" THEN "none" ELSE "cleanup"
       \/ Fault /\ Fail /\ UNCHANGED job
    /\ UNCHANGED <<journal, survivors, files, procs, old, due, starts,
                   unconfirmed, run, status, ledger, history, bounds>>

\* removeRequiredDurableFile(active.json), then the inert artifacts.
Cleanup ==
    /\ pc = "cleanup" /\ terminalPhase(journal.phase)
    /\ \/ /\ journal' = NoTxn /\ survivors' = {NoTxn} /\ job' = "absent"
          /\ \/ NoFault
                /\ pc' = IF journal.phase = "committed" THEN "handoff" ELSE "none"
             \/ Fault /\ Fail
       \/ /\ Fault /\ Fail /\ UNCHANGED job
          /\ journal' = NoTxn /\ survivors' = survivors \union {NoTxn}
       \/ Fault /\ Fail /\ UNCHANGED <<journal, survivors, job>>
    /\ UNCHANGED <<files, procs, old, due, starts, unconfirmed, run, status,
                   ledger, history, bounds>>

(***************************************************************************)
(* adoptAfterUpgradeCommit: the parked candidate is replaced by a daemon   *)
(* that arms.  The lease is released by then.                              *)
(***************************************************************************)
HandOff ==
    /\ \/ /\ pc = "handoff" /\ daemon # NoDaemon /\ ~daemon.txn
          /\ pc' = "none" /\ NoFault /\ UNCHANGED <<daemon, dying, boot, trigger>>
       \/ /\ pc = "handoff" /\ (daemon = NoDaemon \/ daemon.txn)
          /\ stopDaemon("rearm", "none", "none")
          /\ UNCHANGED <<boot, trigger>>
       \/ /\ pc = "rearm" /\ pc' = "none"
          /\ UNCHANGED <<daemon, dying, trigger>>
          /\ \/ boot' = launchPrevious /\ NoFault
             \/ Fault /\ UNCHANGED boot
    /\ UNCHANGED <<journal, survivors, files, proof, approved, service,
                   unconfirmed, run, status, ledger, history, bounds>>

(***************************************************************************)
(* stopCandidateAndRestore and Transaction.rollback.                       *)
(***************************************************************************)
\* Mutant: a candidate still answering at the deadline counts as stopped.
StopCandidateHopeful ==
    /\ pc = "unwind"
    /\ stopDaemon("rollback", "rollback", "leaving")
    /\ trigger' = IF daemon' = NoDaemon THEN "idle" ELSE trigger
    /\ UNCHANGED <<journal, survivors, files, boot, proof, approved, service,
                   unconfirmed, run, status, ledger, history, bounds>>

StopCandidate ==
    /\ pc = "unwind"
    /\ stopDaemon("rollback", "leaving", "leaving")
    /\ trigger' = IF daemon' = NoDaemon THEN "idle" ELSE trigger
    /\ UNCHANGED <<journal, survivors, files, boot, proof, approved, service,
                   unconfirmed, run, status, ledger, history, bounds>>

Rollback ==
    /\ \/ pc = "rollback" /\ preCommit(journal.phase)
          /\ persistPhase("rolling_back", "restore", "leaving")
       \/ At("rolling_back") /\ pc' = "restore" /\ NoFault
          /\ UNCHANGED <<journal, survivors, unconfirmed>>
    /\ UNCHANGED <<files, procs, old, service, run, status, ledger, history,
                   bounds>>

\* restoreLocked asks the executable whether the candidate was installed.
RestoreMarker ==
    /\ pc = "restore"
    /\ \/ ~journal.inst /\ exe = "candidate"
          /\ persistJournal([journal EXCEPT !.inst = TRUE],
                            "restoreBinary", "restoreFailed")
       \/ /\ journal.inst \/ exe = "previous"
          /\ pc' = "restoreBinary" /\ NoFault
          /\ UNCHANGED <<journal, survivors, unconfirmed>>
       \/ /\ ~journal.inst /\ Fault /\ pc' = "restoreBinary"
          /\ UNCHANGED <<journal, survivors, unconfirmed>>
    /\ UNCHANGED <<files, procs, old, service, run, status, ledger, history,
                   bounds>>

RestoreBinary ==
    /\ \/ /\ pc = "restoreBinary" /\ journal.bin
          /\ pc' = "restoreMetadata" /\ NoFault
          /\ UNCHANGED <<exe, exeSurvivors, journal, survivors, unconfirmed>>
       \/ /\ pc = "restoreBinary" /\ ~journal.bin
          /\ writeExecutable("previous", "binaryRestored", "restoreFailed")
          /\ UNCHANGED <<journal, survivors, unconfirmed>>
       \/ /\ pc = "binaryRestored"
          /\ persistJournal([journal EXCEPT !.bin = TRUE],
                            "restoreMetadata", "restoreFailed")
          /\ UNCHANGED <<exe, exeSurvivors>>
    /\ UNCHANGED <<data, procs, old, service, run, status, ledger, history,
                   bounds>>

\* Mutant: the loop runs one entry too far.
RestoreMetadataPast ==
    /\ \/ /\ pc = "restoreMetadata" /\ journal.meta = Entries + 1
          /\ pc' = "restored" /\ NoFault
          /\ UNCHANGED <<data, journal, survivors, unconfirmed>>
       \/ /\ pc = "restoreMetadata" /\ journal.meta <= Entries
          /\ \/ data' = [data EXCEPT ![journal.meta + 1] = "old"]
                /\ pc' = "entryRestored" /\ NoFault
             \/ Fault /\ pc' = "restoreFailed" /\ UNCHANGED data
          /\ UNCHANGED <<journal, survivors, unconfirmed>>
       \/ /\ pc = "entryRestored"
          /\ persistJournal([journal EXCEPT !.meta = @ + 1],
                            "restoreMetadata", "restoreFailed")
          /\ UNCHANGED data
    /\ UNCHANGED <<exe, exeSurvivors, procs, old, service, run, status, ledger,
                   history, bounds>>

\* Mutant: the last entry is never restored.
RestoreMetadataShort ==
    /\ \/ /\ pc = "restoreMetadata" /\ journal.meta >= Entries - 1
          /\ pc' = "restored" /\ NoFault
          /\ UNCHANGED <<data, journal, survivors, unconfirmed>>
       \/ /\ pc = "restoreMetadata" /\ journal.meta < Entries - 1
          /\ \/ data' = [data EXCEPT ![journal.meta + 1] = "old"]
                /\ pc' = "entryRestored" /\ NoFault
             \/ Fault /\ pc' = "restoreFailed" /\ UNCHANGED data
          /\ UNCHANGED <<journal, survivors, unconfirmed>>
       \/ /\ pc = "entryRestored"
          /\ persistJournal([journal EXCEPT !.meta = @ + 1],
                            "restoreMetadata", "restoreFailed")
          /\ UNCHANGED data
    /\ UNCHANGED <<exe, exeSurvivors, procs, old, service, run, status, ledger,
                   history, bounds>>

RestoreMetadata ==
    /\ \/ /\ pc = "restoreMetadata" /\ journal.meta = Entries
          /\ pc' = "restored" /\ NoFault
          /\ UNCHANGED <<data, journal, survivors, unconfirmed>>
       \/ /\ pc = "restoreMetadata" /\ journal.meta < Entries
          /\ \/ data' = [data EXCEPT ![journal.meta + 1] = "old"]
                /\ pc' = "entryRestored" /\ NoFault
             \/ Fault /\ pc' = "restoreFailed" /\ UNCHANGED data
          /\ UNCHANGED <<journal, survivors, unconfirmed>>
       \/ /\ pc = "entryRestored"
          /\ persistJournal([journal EXCEPT !.meta = @ + 1],
                            "restoreMetadata", "restoreFailed")
          /\ UNCHANGED data
    /\ UNCHANGED <<exe, exeSurvivors, procs, old, service, run, status, ledger,
                   history, bounds>>

\* The end of rollback(), and finishTerminalRollbackFailure: only a journal
\* that says rollback_failed goes on to the circuit breaker.
RestoreEnd ==
    /\ \/ pc = "restored" /\ persistPhase("rollback_restored", "loop", "leaving")
       \/ /\ pc = "restoreFailed"
          /\ write([journal EXCEPT !.phase = "rollback_failed"],
                   "failing", "failing", "leaving")
    /\ UNCHANGED <<files, procs, old, service, run, status, ledger, history,
                   bounds>>

\* finishFailedRollback up to the ledger: MarkRollbackFailed.
MarkRollbackFailed ==
    /\ pc = "failing"
    /\ IF journal.phase = "rollback_failed" /\ ~unconfirmed
       THEN pc' = "reject" /\ NoFault
            /\ UNCHANGED <<journal, survivors, unconfirmed>>
       ELSE persistPhase("rollback_failed", "reject", "leaving")
    /\ UNCHANGED <<files, procs, old, service, run, status, ledger, history,
                   bounds>>

\* Mutant: a ledger that cannot be written is logged past.
RecordBestEffort ==
    /\ pc = "reject" /\ pc' = "disable"
    /\ \/ ledger' = (ledger \/ journal.inst) /\ NoFault
       \/ Fault /\ UNCHANGED ledger
    /\ UNCHANGED <<journal, survivors, files, procs, old, service, unconfirmed,
                   run, status, history, bounds>>

RecordRejectedCandidate ==
    /\ pc = "reject"
    /\ \/ ledger' = (ledger \/ journal.inst) /\ pc' = "disable" /\ NoFault
       \/ journal.inst /\ Fault /\ Fail /\ UNCHANGED ledger
    /\ UNCHANGED <<journal, survivors, files, procs, old, service, unconfirmed,
                   run, status, history, bounds>>

RollbackFailedArm ==
    /\ At("rollback_failed")
    /\ pc' = "reject"
    /\ UNCHANGED <<journal, survivors, files, procs, old, service, unconfirmed,
                   run, status, ledger, history, faults, bounds>>

\* StartPrevious in previous_starting, or again after a takeover.
StartPrevious ==
    /\ \/ At("previous_starting")
       \/ At("previous_validating") /\ ~run.prevStarted
       \/ At("rolled_back") /\ ~run.prevOK /\ ~run.prevStarted
    /\ \/ /\ boot' = launchPrevious /\ NoFault
          /\ run' = [run EXCEPT !.prevStarted = TRUE]
          /\ pc' = IF journal.phase = "previous_starting" THEN "prevStarted"
                   ELSE "act"
       \/ Fault /\ pc' = "failing" /\ UNCHANGED <<boot, run>>
    /\ UNCHANGED <<journal, survivors, files, daemon, dying, old, service,
                   unconfirmed, status, ledger, history, bounds>>

ValidatePrevious ==
    /\ \/ /\ At("previous_validating") /\ run.prevStarted
          /\ awaitIdentity(isPrevious, "prevValid", "failing")
       \/ /\ At("rolled_back") /\ ~run.prevOK /\ run.prevStarted
          /\ awaitIdentity(isPrevious, "reject", "failing")
       \/ /\ At("rolled_back") /\ run.prevOK
          /\ pc' = "reject" /\ NoFault
    /\ run' = [run EXCEPT !.prevOK = (pc' # "failing")]
    /\ UNCHANGED <<journal, survivors, files, procs, old, service, unconfirmed,
                   status, ledger, history, bounds>>

Supervise ==
    \/ Enter \/ Abort \/ Loop \/ advance \/ AwaitActivation \/ StopPrevious
    \/ InstallCandidate \/ Installed \/ StartCandidate \/ ValidateCandidate
    \/ CommittedArm \/ AbortedArm \/ DisableRecoveryJob \/ Cleanup \/ HandOff
    \/ StopCandidate \/ Rollback \/ RestoreMarker \/ RestoreBinary
    \/ RestoreMetadata \/ RestoreEnd \/ MarkRollbackFailed
    \/ RecordRejectedCandidate \/ RollbackFailedArm \/ StartPrevious
    \/ ValidatePrevious

(***************************************************************************)
(* triggerUpgradeActivation: the old daemon's side.                        *)
(***************************************************************************)
serving == daemon # NoDaemon /\ daemon.bytes = "previous" /\ ~daemon.txn /\ ~dying

\* upgradetxn.Prepare publishes active.json last.  A barrier left open is
\* reported as a failure: the trigger returns and does not abort.  Jobs and
\* locks belong to one transaction; an actor still on its way out of an earlier
\* one would only stand down, so Prepare waits for it here.
Prepare ==
    /\ trigger = "idle" /\ serving /\ journal = NoTxn /\ exe = "previous"
    /\ ~ledger /\ txns < MaxTxns /\ txns' = txns + 1
    /\ pc = "none" /\ ~due /\ job' = "absent" /\ starts' = 0
    /\ journal' = [NoTxn EXCEPT !.phase = "prepared"]
    /\ \/ survivors' = {journal'} /\ trigger' = "prepared" /\ NoFault
       \/ Fault /\ survivors' = survivors \union {journal'} /\ UNCHANGED trigger
    /\ approved' = "none" /\ proof' = "none" /\ status' = "none"
    /\ UNCHANGED <<files, procs, due, pc, unconfirmed, run, ledger, history,
                   crashes, rivals>>

InstallAndStart ==
    /\ trigger = "prepared" /\ serving
    /\ \/ job' = "armed" /\ Start /\ trigger' = "waiting" /\ NoFault
       \/ /\ Fault /\ trigger' = "aborting"
          /\ \/ ~Detached /\ job' = "armed" /\ Start
             \/ UNCHANGED service
    /\ UNCHANGED <<journal, survivors, files, procs, proof, approved, pc,
                   unconfirmed, run, status, ledger, history, bounds>>

\* AwaitSupervisorReady: the proof of the live actor, or the minute is over.
AwaitSupervisorReady ==
    /\ trigger = "waiting" /\ serving
    /\ \/ Live /\ status = "supervisor_ready" /\ trigger' = "ready" /\ NoFault
       \/ Fault /\ trigger' = "aborting"
    /\ UNCHANGED <<journal, survivors, files, procs, proof, approved, service,
                   pc, unconfirmed, run, status, ledger, history, bounds>>

AbortPreparedTransaction ==
    /\ trigger = "aborting" /\ serving
    /\ trigger' = "idle"
    /\ \/ /\ journal.phase = "prepared" /\ ~Live /\ NoFault
          /\ journal' = NoTxn /\ survivors' = {NoTxn} /\ job' = "absent"
       \/ /\ journal.phase = "prepared" /\ ~Live /\ Fault
          /\ journal' = NoTxn /\ survivors' = survivors \union {NoTxn}
          /\ UNCHANGED job
       \/ /\ journal.phase # "prepared" \/ Live
          /\ NoFault /\ UNCHANGED <<journal, survivors, job>>
    /\ UNCHANGED <<files, procs, proof, approved, due, starts, pc,
                   unconfirmed, run, status, ledger, history, bounds>>

\* AuthorizeActivation: the proof is read, then the approval is published for
\* the actor the proof named; another actor may own the lock by then.
AuthorizeActivation ==
    /\ serving
    /\ \/ /\ trigger = "ready"
          /\ \/ /\ journal.phase = "supervisor_ready" /\ Live
                /\ status = "supervisor_ready"
                /\ trigger' = "proved" /\ proof' = "mine"
             \/ /\ ~(journal.phase = "supervisor_ready" /\ Live
                     /\ status = "supervisor_ready")
                /\ trigger' = "idle" /\ UNCHANGED proof
          /\ NoFault /\ UNCHANGED <<approved, dying>>
       \/ /\ trigger = "proved" /\ trigger' = "idle" /\ UNCHANGED proof
          /\ \/ approved' = proof /\ dying' = TRUE /\ NoFault
             \/ Fault /\ approved' = proof /\ UNCHANGED dying
             \/ Fault /\ UNCHANGED <<approved, dying>>
    /\ UNCHANGED <<journal, survivors, files, daemon, boot, service, pc,
                   unconfirmed, run, status, ledger, history, bounds>>

(***************************************************************************)
(* Daemon processes: the entrypoint gate, the bind, the exit.              *)
(***************************************************************************)
\* EntrypointGate.Check without wake: a live actor whose published phase is
\* not a rollback restore holds an ordinary start back.
upgradeInProgress ==
    /\ journal # NoTxn /\ journal.phase # "rollback_failed" /\ Live
    /\ ~IsRollbackRestore(IF status = "none" THEN journal.phase ELSE status)

checkUpgradeGate(p) ==
    /\ p \in boot /\ ~p.gated
    /\ boot' = (boot \ {p})
               \union IF upgradeInProgress THEN {}
                      ELSE {[p EXCEPT !.gated = TRUE]}
    /\ UNCHANGED <<journal, survivors, files, daemon, dying, old, service, pc,
                   unconfirmed, run, status, ledger, history, faults, bounds>>

\* The home lock and the socket: one daemon binds, the others exit.
runDaemon(p) ==
    /\ p \in boot /\ p.gated
    /\ boot' = boot \ {p}
    /\ IF daemon = NoDaemon
       THEN /\ daemon' = [bytes |-> p.bytes, txn |-> p.txn]
            /\ ran' = (ran \/ (p.txn /\ p.bytes = "candidate"))
       ELSE UNCHANGED <<daemon, ran>>
    /\ UNCHANGED <<journal, survivors, files, dying, old, service, pc,
                   unconfirmed, run, status, ledger, landed, faults, bounds>>

\* The candidate rewrites a metadata file to its schema as it loads it.
migrateOnLoad(e) ==
    /\ daemon # NoDaemon /\ daemon.bytes = "candidate" /\ data[e] = "old"
    /\ data' = [data EXCEPT ![e] = "migrated"]
    /\ UNCHANGED <<journal, survivors, exe, exeSurvivors, procs, old, service,
                   pc, unconfirmed, run, status, ledger, history, faults, bounds>>

DaemonExit ==
    /\ dying /\ daemon # NoDaemon
    /\ daemon' = NoDaemon /\ dying' = FALSE /\ trigger' = "idle"
    /\ UNCHANGED <<journal, survivors, files, boot, proof, approved, service, pc,
                   unconfirmed, run, status, ledger, history, faults, bounds>>

(***************************************************************************)
(* Ordinary starts, the client's wake, and death.                          *)
(***************************************************************************)
\* A unit or a client starts the installed executable on its own account.
RivalStart ==
    /\ rivals < MaxRivals /\ rivals' = rivals + 1
    /\ daemon = NoDaemon /\ boot = {}
    /\ boot' = {started(FALSE)}
    /\ UNCHANGED <<journal, survivors, files, daemon, dying, old, service, pc,
                   unconfirmed, run, status, ledger, history, faults, crashes,
                   txns>>

\* EnsureDaemon's gate finds a stale journal and wakes the recovery job.
Wake ==
    /\ rivals < MaxRivals /\ rivals' = rivals + 1
    /\ daemon = NoDaemon /\ pc = "none" /\ ~due
    /\ journal # NoTxn /\ journal.phase # "rollback_failed"
    /\ job' = "armed" /\ Start
    /\ UNCHANGED <<journal, survivors, files, procs, old, pc, unconfirmed, run,
                   status, ledger, history, faults, crashes, txns>>

\* A start outlives the grace its launcher gives it.
Dawdle(p) ==
    /\ rivals < MaxRivals /\ rivals' = rivals + 1
    /\ p \in boot /\ ~p.slow
    /\ boot' = (boot \ {p}) \union {[p EXCEPT !.slow = TRUE]}
    /\ UNCHANGED <<journal, survivors, files, daemon, dying, old, service, pc,
                   unconfirmed, run, status, ledger, history, faults, crashes,
                   txns>>

CrashActor ==
    /\ Crash /\ pc # "none"
    /\ pc' = "none" /\ Restart
    /\ UNCHANGED <<journal, survivors, files, procs, old, job, unconfirmed, run,
                   status, ledger, history, faults, rivals, txns>>

CrashDaemon ==
    /\ Crash /\ daemon # NoDaemon
    /\ daemon' = NoDaemon /\ dying' = FALSE /\ trigger' = "idle"
    /\ UNCHANGED <<journal, survivors, files, boot, proof, approved, service, pc,
                   unconfirmed, run, status, ledger, history, faults, rivals,
                   txns>>

\* Only an armed unit is started again at boot, its starts counted anew.
PowerLoss ==
    /\ Crash
    /\ journal' \in survivors /\ survivors' = {journal'}
    /\ exe' \in exeSurvivors /\ exeSurvivors' = {exe'}
    /\ daemon' = NoDaemon /\ dying' = FALSE /\ boot' = {} /\ trigger' = "idle"
    /\ pc' = "none" /\ due' = (job = "armed" /\ ~Detached)
    /\ starts' = IF due' THEN 1 ELSE 0
    /\ UNCHANGED <<data, proof, approved, job, unconfirmed, run, status, ledger,
                   history, faults, rivals, txns>>

Init ==
    /\ journal = NoTxn /\ survivors = {NoTxn}
    /\ exe = "previous" /\ exeSurvivors = {"previous"}
    /\ data = [e \in 1..Entries |-> "old"]
    /\ daemon = [bytes |-> "previous", txn |-> FALSE]
    /\ dying = FALSE /\ boot = {}
    /\ trigger = "idle" /\ proof = "none" /\ approved = "none"
    /\ job = "absent" /\ due = FALSE /\ starts = 0
    /\ pc = "none" /\ unconfirmed = FALSE /\ run = FreshRun /\ status = "none"
    /\ ledger = FALSE /\ ran = FALSE /\ landed = FALSE
    /\ faults = 0 /\ crashes = 0 /\ rivals = 0 /\ txns = 0

Trigger == \/ Prepare \/ InstallAndStart \/ AwaitSupervisorReady
           \/ AbortPreparedTransaction \/ AuthorizeActivation
Daemon  == \/ \E p \in boot : checkUpgradeGate(p) \/ runDaemon(p)
           \/ \E e \in 1..Entries : migrateOnLoad(e)
           \/ DaemonExit
Manager == TryAcquireRecovery \/ StandDown \/ Leave
Disturb == \/ RivalStart \/ Wake \/ CrashActor \/ CrashDaemon \/ PowerLoss
           \/ \E p \in boot : Dawdle(p)

Next == Supervise \/ Trigger \/ Daemon \/ Manager \/ Disturb

Spec == Init /\ [][Next]_vars

\* The processes run; the bounds make failures and deaths finite.
FairSpec == Spec /\ WF_vars(Supervise) /\ WF_vars(Manager) /\ WF_vars(Daemon)
                 /\ WF_vars(trigger # "idle" /\ Trigger)

(***************************************************************************)
(* Properties.                                                             *)
(***************************************************************************)
Steps == {"none", "enter", "abort", "loop", "act", "unwind", "stopped",
          "installed", "launched", "validated", "relaunched", "approve",
          "disable", "cleanup", "handoff", "rearm", "rollback", "restore",
          "restoreBinary", "binaryRestored", "restoreMetadata",
          "entryRestored", "restored", "restoreFailed", "failing", "reject",
          "prevStarted", "prevValid", "leaving"}

\* The variables stay in the sets the code gives them.
TypeOK ==
    /\ journal \in Journals \union {NoTxn}
    /\ survivors \subseteq Journals \union {NoTxn}
    /\ exe \in Bytes /\ exeSurvivors \subseteq Bytes
    /\ data \in [1..Entries -> {"old", "migrated"}]
    /\ daemon \in Daemons \union {NoDaemon} /\ dying \in BOOLEAN
    /\ boot \subseteq Starting
    /\ trigger \in {"idle", "prepared", "waiting", "aborting", "ready", "proved"}
    /\ {proof, approved} \subseteq {"none", "mine", "stale"}
    /\ job \in {"absent", "armed", "disabled"} /\ due \in BOOLEAN
    /\ starts \in 0..StartLimitBurst
    /\ pc \in Steps /\ unconfirmed \in BOOLEAN
    /\ run \in [first : BOOLEAN, takeover : BOOLEAN, candOK : BOOLEAN,
                prevStarted : BOOLEAN, prevOK : BOOLEAN]
    /\ status \in Phases \union {"none"}
    /\ {ledger, ran, landed} \subseteq BOOLEAN
    /\ faults \in 0..MaxFaults /\ crashes \in 0..MaxCrashes
    /\ rivals \in 0..MaxRivals /\ txns \in 0..MaxTxns

phasesOf(S) == {j.phase : j \in S}

\* The verdict is what every journal a power loss may leave agrees on.
verdictOf(S) ==
    LET P == phasesOf(S) IN
    IF "none" \in P /\ P \subseteq {"none", "prepared"} THEN "none"
    ELSE IF P \subseteq {"none", "committed"} THEN "new"
    ELSE IF P = {"rollback_failed"} THEN "broken"
    ELSE IF \A p \in P : IsRollbackRestore(p)
                         \/ p \in {"none", "aborted", "rollback_failed"} THEN "old"
    ELSE "open"

AU == INSTANCE AtomicUpgrade WITH verdict <- verdictOf(survivors), bytes <- exe

\* Through failed writes, deaths and takeovers, the upgrade is decided once,
\* the executable holds the decided bytes, and no undecided upgrade is
\* forgotten: Supervisor.Run and Transaction implement AtomicUpgrade.
Atomic == AU!Spec

\* A candidate that ran and was taken back is in the rejected ledger before
\* the journal naming it is gone or its recovery is switched off
\* (RecordRejectedCandidate runs before Disable and Cleanup), and a build this
\* machine never installed is never disqualified.
RejectedBeforeForgotten ==
    /\ journal = NoTxn /\ ran /\ exe = "previous" => ledger
    /\ journal.phase = "rollback_failed" /\ job = "disabled" /\ ran => ledger
    /\ ledger => landed

\* What is done on the word of the journal is done on a phase no power loss can
\* take back: an adopted write whose barrier is open is closed before the phase
\* is read again (reaffirmDurableJournal), and the recovery job is switched off
\* only over a verdict that is durable (DisableRecoveryJob).
PhaseIsDurable ==
    /\ pc = "act" => survivors = {journal}
    /\ job = "disabled" /\ journal # NoTxn =>
          \A p \in phasesOf(survivors) :
              terminalPhase(p) \/ p \in {"none", "rollback_failed"}

\* The executable and the metadata are replaced only while no daemon serves
\* the home: StopConfirmed is the authority, and it still holds when the write
\* happens, unless a start nobody waits for binds in between.
SwapOnlyStopped ==
    [][rivals = 0 /\ (\/ exe' # exe
                      \/ \E e \in 1..Entries :
                            data[e] = "migrated" /\ data'[e] = "old")
       => daemon = NoDaemon]_vars

\* The previous daemon never reads a file the candidate migrated: the restore
\* is complete before startPreviousDaemon, unless it was given up or a rival
\* start came first.
PreviousReadsOldSchema ==
    /\ daemon # NoDaemon /\ daemon.bytes = "previous"
    /\ journal.phase # "rollback_failed" /\ rivals = 0
    => \A e \in 1..Entries : data[e] = "old"

\* The actor is down and its launcher will not start it again by itself.
Abandoned == pc = "none" /\ ~due /\ (Detached \/ starts = StartLimitBurst)

\* An upgrade whose recovery job is armed is decided, and the job is done with
\* it: forgotten, or left on record at a verdict with the job switched off.
\* Only when the launcher gives the actor up may it stay open, until a client's
\* wake or the next boot of a unit.
ArmedEnds ==
    job = "armed" /\ journal # NoTxn
        ~> \/ journal = NoTxn \/ rivals > 0 \/ Abandoned
           \/ job # "armed" /\ verdictOf(survivors) # "open"
=============================================================================
