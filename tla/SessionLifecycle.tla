-------------------------- MODULE SessionLifecycle --------------------------
(***************************************************************************)
(* One local session under every operation that may touch it at the same   *)
(* time: the kill RPC, the archive RPC, the restore RPC (archived and Lost *)
(* routes) and the daemon's poll goroutine (status observation, finishing  *)
(* interrupted kills, automatic restore of Lost sessions, owed row         *)
(* writes), with the agent's pane changing on its own and the daemon       *)
(* crashing between any two steps.                                         *)
(*                                                                         *)
(* The operations meet on the per-session operation lock, the              *)
(* killsInFlight claim, the in-memory instance (SessionTransition) and the *)
(* row on disk.  Every persist is one step: ToInstanceData and the write   *)
(* of the row happen under the repository's start or row lock.             *)
(***************************************************************************)
EXTENDS SessionTransition

CONSTANTS Clients,    \* the RPCs clients make: a subset of kill, archive, restore
          Panes       \* what becomes of an agent: none, busy, idle

ASSUME ClientsAssumption == Clients \subseteq {"kill", "archive", "restore"}
ASSUME PanesAssumption == {"none", "busy"} \subseteq Panes
                          /\ Panes \subseteq {"none", "busy", "idle"}

VARIABLES
    inst,        \* the in-memory instance
    killed,      \* userKilled
    mapped,      \* the instance is in m.instances
    path,        \* the worktree path the instance believes in
    disk,        \* the durable row
    wt,          \* where the worktree really is; gone once a cleanup settled
                 \* (removed, or left behind on purpose and reported)
    pane,        \* the agent: no process, working, or idle at its prompt
    lock,        \* holder of the session's operation lock
    claim,       \* holder of the session's killsInFlight entry
    pc,          \* where each operation is
    fresh,       \* the poll's captured state epoch is still the current one
    seen,        \* what the poll's snapshot concluded
    before,      \* what the poll will compare with to decide on a write
    owed,        \* settleOwed: a settled row write failed and is retried
    unrecorded   \* history: the row was left naming another place than wt

mem   == <<inst, killed, mapped, path>>
world == <<wt, pane>>
locks == <<lock, claim>>
watch == <<seen, before>>
marks == <<fresh, watch, owed>>
notes == <<marks, unrecorded>>
vars  == <<inst, killed, mapped, path, disk, wt, pane, lock, claim, pc,
           fresh, seen, before, owed, unrecorded>>

Places == {"home", "archive"}
Actors == {"kill", "archive", "restore", "poll"}

Labels == [kill    |-> {"idle", "wait", "tombstone", "teardown", "settle", "erase",
                        "unlock", "unclaim"},
           archive |-> {"idle", "wait", "admit", "stop", "move", "adopt", "abort", "save",
                        "undo", "undone", "keep", "unclaim", "unlock"},
           restore |-> {"idle", "waitArchived", "waitLost", "claimArchived",
                        "claimLost", "back", "record", "respawn", "commit",
                        "recover", "save", "unclaim", "unlock", "unfence",
                        "yieldClaim", "yieldLock"},
           poll    |-> {"sweep", "snapshot", "observe", "checkpoint", "persist", "teardown",
                        "settle", "erase", "unlock", "unclaim", "lost", "recover",
                        "save", "free", "flush"}]

Row == [exists : BOOLEAN, lv : Liveness, killed : BOOLEAN, path : Places,
        run : RunMarker, held : BOOLEAN]

Glance == [lv : Liveness, active : BOOLEAN]
Nothing == [lv |-> "Ready", active |-> FALSE]

TypeOK == /\ inst \in Instance
          /\ killed \in BOOLEAN /\ mapped \in BOOLEAN /\ path \in Places
          /\ disk \in Row
          /\ wt \in Places \cup {"gone"}
          /\ pane \in Panes
          /\ lock \in Actors \cup {"free"} /\ claim \in Actors \cup {"free"}
          /\ \A a \in Actors : pc[a] \in Labels[a]
          /\ fresh \in BOOLEAN /\ owed \in BOOLEAN /\ unrecorded \in BOOLEAN
          /\ seen \in {"Running", "Ready", "Lost", "unknown"}
          /\ before \in Glance

-----------------------------------------------------------------------------
(* Building blocks.                                                        *)

\* The instance FromInstanceData builds from a row: the operation axis is not
\* durable, an archived session comes back unstarted.
Loaded(row) ==
    [lv |-> IF row.lv = "Dead" THEN "Lost" ELSE row.lv,
     op |-> "None", started |-> row.lv # "Archived", run |-> row.run,
     held |-> row.held, owes |-> FALSE, awaiting |-> FALSE, replaced |-> FALSE,
     teardown |-> FALSE, barred |-> FALSE, reset |-> 0,
     shelved |-> row.lv = "Archived", settling |-> FALSE, pushed |-> FALSE]

\* A session whose creation finished, its agent working in its own worktree, or one
\* that was archived before this daemon came up.
Live == [exists |-> TRUE, lv |-> "Running", killed |-> FALSE,
         path |-> "home", run |-> "active", held |-> FALSE]
Shelf == [exists |-> TRUE, lv |-> "Archived", killed |-> FALSE,
          path |-> "archive", run |-> "ended", held |-> FALSE]

Init == /\ disk \in {Live, Shelf}
        /\ inst = Loaded(disk)
        /\ killed = FALSE /\ mapped = TRUE /\ path = disk.path
        /\ wt = disk.path /\ pane = IF disk = Live THEN "busy" ELSE "none"
        /\ lock = "free" /\ claim = "free"
        /\ pc = [a \in Actors |-> IF a = "poll" THEN "sweep" ELSE "idle"]
        /\ fresh = FALSE /\ seen = "unknown" /\ before = Nothing
        /\ owed = FALSE /\ unrecorded = FALSE

Goto(a, label) == pc' = [pc EXCEPT ![a] = label]

\* Every write of the axes moves the state epoch (noteStateChangeLocked), so a
\* poll observation that was captured before it is dropped.
SetInst(i) == /\ inst' = i
              /\ fresh' = (fresh /\ ~EpochMoves(inst, i))

\* Mutant: the row takes the place found on disk.
ToInstanceDataAsFound == [exists |-> TRUE, lv |-> inst.lv, killed |-> killed,
                          path |-> wt, run |-> inst.run, held |-> FALSE]

\* persistInstanceData: the row is replaced by the instance as it is now.  It
\* only ever replaces a row that is there.
ToInstanceData == [exists |-> TRUE, lv |-> inst.lv, killed |-> killed,
                   path |-> path, run |-> inst.run,
                   held |-> inst.run = "active" /\ inst.held]
Persist == /\ disk.exists
           /\ disk' = ToInstanceData
           /\ unrecorded' = (unrecorded /\ wt \notin {path, "gone"})
PersistFails == UNCHANGED <<disk, unrecorded>>

\* The record names the place the worktree is in, or there is no worktree.
Recorded == wt = "gone" \/ disk.path = wt

\* AdmitsRuntimeAction: a tombstone refuses every action, then each action has
\* its own precondition on the two axes.
AdmitsRestoreArchived == ~killed /\ inst.lv = "Archived" /\ inst.op = "None"
AdmitsRecoverLost ==
    ~killed /\ inst.lv = "Lost" /\ inst.started /\ inst.op = "None"
AdmitsRecoverFenced ==
    ~killed /\ inst.lv = "Lost" /\ inst.started /\ inst.op = "Restoring"
AdmitsRestoreArchivedFenced ==
    ~killed /\ inst.lv = "Archived" /\ inst.op = "Restoring"

-----------------------------------------------------------------------------
(* The kill RPC, and the tail it shares with the poll's finishUserKill.    *)

\* The claim is taken before the lock, so from here every other operation
\* refuses to start.
KillClaim == /\ "kill" \in Clients /\ pc["kill"] = "idle"
             /\ mapped /\ claim = "free"
             /\ claim' = "kill"
             /\ Goto("kill", "wait")
             /\ UNCHANGED <<mem, disk, world, lock, notes>>

\* lockWithin: the lock, or errKillBusy after the timeout.
KillLock == /\ pc["kill"] = "wait"
            /\ \/ /\ lock = "free"
                  /\ lock' = "kill"
                  /\ Goto("kill", "tombstone")
               \/ /\ lock # "free"
                  /\ Goto("kill", "unclaim")
                  /\ UNCHANGED lock
            /\ UNCHANGED <<mem, disk, world, claim, notes>>

\* Mutant: the row is marked, the instance is not.
KillTombstoneOnDisk ==
    /\ pc["kill"] = "tombstone"
    /\ \/ /\ disk.exists
          /\ disk' = [ToInstanceData EXCEPT !.killed = TRUE]
          /\ Goto("kill", "teardown")
       \/ /\ Goto("kill", "unlock")
          /\ UNCHANGED disk
    /\ UNCHANGED <<mem, world, locks, notes>>

\* MarkUserKilled takes down whatever fence it finds: the kill holds the lock, so
\* nobody can own one.
MarkUserKilled == /\ killed' = TRUE
                  /\ SetInst([inst EXCEPT !.op = "None"])

\* persistKillTombstone writes the row with UserKilled and marks the instance
\* while it holds the start lock; a kill that cannot be recorded does not start.
KillTombstone ==
    /\ pc["kill"] = "tombstone"
    /\ \/ /\ disk.exists
          /\ disk' = [ToInstanceData EXCEPT !.killed = TRUE]
          /\ MarkUserKilled
          /\ Goto("kill", "teardown")
       \/ /\ Goto("kill", "unlock")
          /\ UNCHANGED <<disk, killed, inst, fresh>>
    /\ UNCHANGED <<mapped, path, world, locks, watch, owed, unrecorded>>

\* KillTrustingOwnLifecycleLock, after the VS Code editor is down: teardownTabs
\* closes every pane, and only when none may be live cleans up the worktree at the
\* path the instance knows.  A teardown of unknown outcome keeps the record; it
\* may have been refused before it touched anything, or cut off half way.
TeardownDone(a) ==
    /\ pc[a] = "teardown"
    /\ inst' = [inst EXCEPT !.started = FALSE]
    /\ pane' = "none"
    /\ wt' = IF wt = path THEN "gone" ELSE wt
    /\ Goto(a, "settle")
    /\ UNCHANGED <<killed, mapped, path, disk, locks, notes>>

\* Mutant: an unknown outcome is taken for a settled one.
TeardownUnknownErases(a) ==
    /\ pc[a] = "teardown"
    /\ pane' \in {pane, "none"}
    /\ Goto(a, "settle")
    /\ UNCHANGED <<mem, disk, wt, locks, notes>>

TeardownUnknown(a) ==
    /\ pc[a] = "teardown"
    /\ inst' \in {inst, [inst EXCEPT !.started = FALSE]}
    /\ pane' \in {pane, "none"}
    /\ wt' \in {wt} \cup (IF pane' = "none" /\ wt = path THEN {"gone"} ELSE {})
    /\ Goto(a, "unlock")
    /\ UNCHANGED <<killed, mapped, path, disk, locks, notes>>

\* The settled teardown is made durable before the record may go.
SettleTeardown(a) ==
    /\ pc[a] = "settle"
    /\ Persist
    /\ Goto(a, "erase")
    /\ UNCHANGED <<mem, world, locks, marks>>

SettleFails(a) ==
    /\ pc[a] = "settle"
    /\ Goto(a, "unlock")
    /\ UNCHANGED <<mem, disk, world, locks, notes>>

\* deleteSessionRecord, then the instance leaves the map.
EraseRecord(a) ==
    /\ pc[a] = "erase"
    /\ disk.exists
    /\ disk' = [disk EXCEPT !.exists = FALSE]
    /\ mapped' = FALSE
    /\ Goto(a, "unlock")
    /\ UNCHANGED <<inst, killed, path, world, locks, notes>>

EraseFails(a) ==
    /\ pc[a] = "erase"
    /\ Goto(a, "unlock")
    /\ UNCHANGED <<mem, disk, world, locks, notes>>

\* The deferred releases of a kill: the lock, then the claim.
KillUnlock(a) == /\ pc[a] = "unlock"
                 /\ lock' = "free"
                 /\ Goto(a, "unclaim")
                 /\ UNCHANGED <<mem, disk, world, claim, notes>>

KillUnclaim(a) == /\ pc[a] = "unclaim"
                  /\ claim' = "free"
                  /\ Goto(a, IF a = "poll" THEN "lost" ELSE "idle")
                  /\ UNCHANGED <<mem, disk, world, lock, notes>>

FinishKill(a) == \/ TeardownDone(a) \/ TeardownUnknown(a)
                 \/ SettleTeardown(a) \/ SettleFails(a)
                 \/ EraseRecord(a) \/ EraseFails(a)
                 \/ KillUnlock(a) \/ KillUnclaim(a)

KillStep == KillLock \/ KillTombstone \/ FinishKill("kill")

-----------------------------------------------------------------------------
(* The archive RPC.                                                        *)

\* The checks before the wait: an archived or fenced session is refused.
ArchiveRequest == /\ "archive" \in Clients /\ pc["archive"] = "idle"
                  /\ mapped /\ inst.lv # "Archived" /\ inst.op = "None"
                  /\ Goto("archive", "wait")
                  /\ UNCHANGED <<mem, disk, world, locks, notes>>

\* lockSessionOperationWithin.
ArchiveLock == /\ pc["archive"] = "wait"
               /\ \/ /\ lock = "free"
                     /\ lock' = "archive"
                     /\ Goto("archive", "admit")
                  \/ /\ lock # "free"
                     /\ Goto("archive", "idle")
                     /\ UNCHANGED lock
               /\ UNCHANGED <<mem, disk, world, claim, notes>>

\* What was checked before the wait is checked again under the lock, then the
\* claim is taken and the fence raised.
ArchiveAdmit ==
    /\ pc["archive"] = "admit"
    /\ IF /\ mapped /\ ~killed
          /\ inst.lv # "Archived" /\ inst.op = "None"
          /\ claim = "free"
          /\ ~Rejected(inst, Event("BeginArchive"))
       THEN /\ claim' = "archive"
            /\ SetInst(Transition(inst, Event("BeginArchive")))
            /\ Goto("archive", "stop")
       ELSE /\ Goto("archive", "unlock")
            /\ UNCHANGED <<claim, inst, fresh>>
    /\ UNCHANGED <<killed, mapped, path, disk, world, lock, watch, owed, unrecorded>>

\* Mutant: the worktree is moved without waiting for the panes to close.
ArchiveStopBlind ==
    /\ pc["archive"] = "stop"
    /\ path = wt
    /\ Goto("archive", "move")
    /\ UNCHANGED <<mem, disk, world, locks, notes>>

\* archiveSessionSourceAbsent first adopts what an earlier archive moved and died
\* before it could record.  The refusals in front of the teardown (destination,
\* editor, hooks) cancel the fence; the teardown stops the agent before anything
\* is moved, and one that fails leaves the session Lost.
ArchiveStop ==
    /\ pc["archive"] = "stop"
    /\ path' \in {path} \cup ({wt} \cap {"archive"})
    /\ \/ /\ SetInst(Transition(inst, Event("CancelArchive")))
          /\ Goto("archive", "abort")
          /\ UNCHANGED pane
       \/ /\ path' = wt
          /\ pane' = "none"
          /\ Goto("archive", IF path = wt THEN "move" ELSE "adopt")
          /\ UNCHANGED <<inst, fresh>>
       \/ /\ path' = wt
          /\ SetInst(Transition(inst, Event("AbortArchiveToLost")))
          /\ pane' \in {pane, "none"}
          /\ Goto("archive", "abort")
    /\ UNCHANGED <<killed, mapped, disk, wt, locks, watch, owed, unrecorded>>

\* The relocation.  A failed one may have moved the bytes all the same; the
\* instance then knows where they are and the session goes Lost.
ArchiveMove ==
    /\ pc["archive"] = "move"
    /\ \/ /\ wt' = "archive" /\ path' = "archive"
          /\ SetInst(Transition(inst, Event("CommitArchive")))
          /\ Goto("archive", "save")
       \/ /\ \/ wt' = "archive" /\ path' = "archive"
             \/ UNCHANGED <<wt, path>>
          /\ SetInst(Transition(inst, Event("AbortArchiveToLost")))
          /\ Goto("archive", "abort")
    /\ UNCHANGED <<killed, mapped, disk, pane, locks, watch, owed, unrecorded>>

\* An adopted archive has nothing left to move, and nothing to undo.
ArchiveAdopt ==
    /\ pc["archive"] = "adopt"
    /\ SetInst(Transition(inst, Event("CommitArchive")))
    /\ Goto("archive", "keep")
    /\ UNCHANGED <<killed, mapped, path, disk, world, locks, watch, owed, unrecorded>>

\* A failed write nobody can undo is reported to the caller: the row may then
\* name another place than the one the worktree is in.
SaveOrReport == \/ Persist
                \/ UNCHANGED disk /\ unrecorded' = (unrecorded \/ ~Recorded)

ArchiveAbort == /\ pc["archive"] = "abort"
                /\ SaveOrReport
                /\ Goto("archive", "unclaim")
                /\ UNCHANGED <<mem, world, locks, marks>>

\* archivePersist, after the editor is confirmed down.
ArchiveSave == /\ pc["archive"] = "save"
               /\ \/ Persist /\ Goto("archive", "unclaim")
                  \/ PersistFails /\ Goto("archive", "undo")
               /\ UNCHANGED <<mem, world, locks, marks>>

\* undoCommittedArchive: the worktree goes home and the session goes Lost.  When
\* the move fails the archive stays committed, wherever the bytes ended up.
ArchiveUndo ==
    /\ pc["archive"] = "undo"
    /\ \/ /\ wt' = "home" /\ path' = "home"
          /\ SetInst(Transition(Transition(inst, Event("BeginRestore")),
                                Event("AbortRestoreToLost")))
          /\ Goto("archive", "undone")
       \/ /\ \/ wt' = "home" /\ path' = "home"
             \/ UNCHANGED <<wt, path>>
          /\ Goto("archive", "keep")
          /\ UNCHANGED <<inst, fresh>>
    /\ UNCHANGED <<killed, mapped, disk, pane, locks, watch, owed, unrecorded>>

\* The rolled back row is written best effort: persistInstance.  The poll may have
\* written the committed row in the meantime, so a failure here can leave it.
ArchiveUndone == /\ pc["archive"] = "undone"
                 /\ SaveOrReport
                 /\ Goto("archive", "unclaim")
                 /\ UNCHANGED <<mem, world, locks, marks>>

\* keepUnrollableArchiveCommitted tries the write once more.
ArchiveKeep == /\ pc["archive"] = "keep"
               /\ SaveOrReport
               /\ Goto("archive", "unclaim")
               /\ UNCHANGED <<mem, world, locks, marks>>

\* The deferred releases: the claim, then the lock.
ArchiveUnclaim == /\ pc["archive"] = "unclaim"
                  /\ claim' = "free"
                  /\ Goto("archive", "unlock")
                  /\ UNCHANGED <<mem, disk, world, lock, notes>>

ArchiveUnlock == /\ pc["archive"] = "unlock"
                 /\ lock' = "free"
                 /\ Goto("archive", "idle")
                 /\ UNCHANGED <<mem, disk, world, claim, notes>>

ArchiveStep == \/ ArchiveLock \/ ArchiveAdmit \/ ArchiveStop \/ ArchiveMove
               \/ ArchiveAdopt \/ ArchiveAbort \/ ArchiveSave \/ ArchiveUndo
               \/ ArchiveUndone \/ ArchiveKeep \/ ArchiveUnclaim \/ ArchiveUnlock

-----------------------------------------------------------------------------
(* The restore RPC.  RestoreSession picks the route from the liveness it   *)
(* reads, waits for the lock and only then claims, so that the claim and   *)
(* the fence go up together.                                               *)

RestoreRequest ==
    /\ "restore" \in Clients /\ pc["restore"] = "idle"
    /\ mapped
    /\ \/ AdmitsRestoreArchived /\ Goto("restore", "waitArchived")
       \/ AdmitsRecoverLost /\ Goto("restore", "waitLost")
    /\ UNCHANGED <<mem, disk, world, locks, notes>>

RestoreLock ==
    /\ pc["restore"] \in {"waitArchived", "waitLost"}
    /\ \/ /\ lock = "free"
          /\ lock' = "restore"
          /\ Goto("restore", IF pc["restore"] = "waitLost" THEN "claimLost"
                                                          ELSE "claimArchived")
       \/ /\ lock # "free"
          /\ Goto("restore", "idle")
          /\ UNCHANGED lock
    /\ UNCHANGED <<mem, disk, world, claim, notes>>

\* claimRestoreOperation, the recheck under the lock, and the fence:
\* BeginArchivedRestoreFence or BeginRecoverFence.
RestoreClaim ==
    LET archived == pc["restore"] = "claimArchived"
    IN  /\ pc["restore"] \in {"claimArchived", "claimLost"}
        /\ \/ /\ claim # "free"
              /\ Goto("restore", "yieldLock")
              /\ UNCHANGED <<claim, inst, fresh>>
           \/ /\ claim = "free"
              /\ claim' = "restore"
              /\ IF mapped /\ (IF archived THEN AdmitsRestoreArchived
                                            ELSE AdmitsRecoverLost)
                 THEN /\ SetInst(Transition(inst, Event("MarkRestoring")))
                      /\ Goto("restore", IF archived THEN "back" ELSE "recover")
                 ELSE /\ Goto("restore", "yieldClaim")
                      /\ UNCHANGED <<inst, fresh>>
        /\ UNCHANGED <<killed, mapped, path, disk, world, lock, watch, owed, unrecorded>>

\* moveArchivedWorktreeBack, or the adoption of the checkout an interrupted
\* restore left at the very place this one would choose.
RestoreBack ==
    /\ pc["restore"] = "back"
    /\ \/ /\ wt = path \/ wt = "home"
          /\ wt' = "home" /\ path' = "home"
          /\ Goto("restore", "record")
       \/ /\ Goto("restore", "unclaim")
          /\ UNCHANGED <<wt, path>>
    /\ UNCHANGED <<inst, killed, mapped, disk, pane, locks, notes>>

\* Mutant: the agent is started even when its place could not be written.
RestoreRecordLogged ==
    /\ pc["restore"] = "record"
    /\ SaveOrReport
    /\ Goto("restore", "respawn")
    /\ UNCHANGED <<mem, world, locks, marks>>

\* commitRestore, before the agent is started in the place it names.
RestoreRecord ==
    /\ pc["restore"] = "record"
    /\ \/ Persist /\ Goto("restore", "respawn")
       \/ SaveOrReport /\ disk' = disk /\ Goto("restore", "unclaim")
    /\ UNCHANGED <<mem, world, locks, marks>>

\* Backend.Recover refuses a tombstoned session, needs the worktree at the path
\* on record and re-attaches to an agent that is still there, which counts as
\* replaced too unless it can be proved to be the old one.  A replaced agent
\* interrupts the task run.  Every respawn writes the replaced mark before it is
\* read, so it is not kept in between.
CanRespawn == ~killed /\ wt = path
Verdicts == {TRUE, pane = "none"}
Respawned(i, replaced) ==
    [Transition([i EXCEPT !.replaced = replaced], Event("ConfirmLive"))
        EXCEPT !.replaced = FALSE]

\* RestoreFromArchiveHeldFenced.
RestoreRespawn ==
    LET entered == Transition(inst, Event("BeginRestoreFenced"))
    IN  /\ pc["restore"] = "respawn"
        /\ \/ /\ AdmitsRestoreArchivedFenced /\ CanRespawn
              /\ \E replaced \in Verdicts : SetInst(Respawned(entered, replaced))
              /\ pane' = IF pane = "none" THEN "busy" ELSE pane
           \/ /\ SetInst(IF AdmitsRestoreArchivedFenced
                         THEN Transition(entered, Event("AbortRestoreToLost"))
                         ELSE inst)
              /\ UNCHANGED pane
        /\ Goto("restore", "commit")
        /\ UNCHANGED <<killed, mapped, path, disk, wt, locks, watch, owed, unrecorded>>

\* commitRestore again, with the outcome of the respawn.
RestoreCommit == /\ pc["restore"] = "commit"
                 /\ SaveOrReport
                 /\ Goto("restore", "unclaim")
                 /\ UNCHANGED <<mem, world, locks, marks>>

\* The settled row: a failed write is retried by the poll.
PersistSettlement(row) ==
    \/ /\ disk.exists
       /\ disk' = row
       /\ owed' = FALSE
       /\ unrecorded' = (unrecorded /\ wt \notin {path, "gone"})
    \/ owed' = TRUE /\ UNCHANGED <<disk, unrecorded>>

\* Mutant: a failed automatic recovery returns without lowering its fence.
RecoverLeavesFence(a) ==
    /\ pc[a] = "recover"
    /\ Persist \/ PersistFails
    /\ Goto(a, IF a = "poll" THEN "free" ELSE "unclaim")
    /\ UNCHANGED <<mem, world, locks, marks>>

\* The recovery of a Lost session under its fence.  At the live boundary the
\* predecessor's task run is interrupted and written out, then the agent is
\* confirmed live.  A manual restore checks that its fence is still up, and
\* leaves it to its deferred release when the recovery fails; the automatic one
\* lowers it at once.
Recover(a) ==
    /\ pc[a] = "recover"
    /\ \/ /\ a = "restore" => AdmitsRecoverFenced
          /\ CanRespawn /\ inst.lv = "Lost"
          /\ \E replaced \in Verdicts :
                 LET i == Respawned(inst, replaced)
                 IN  /\ SetInst(i)
                     /\ PersistSettlement([ToInstanceData EXCEPT !.run = i.run,
                                                                !.held = i.held])
          /\ pane' = IF pane = "none" THEN "busy" ELSE pane
          /\ Goto(a, "save")
       \/ /\ SetInst(IF a = "poll" THEN ClearOpIfHeld(inst, "Restoring") ELSE inst)
          /\ Persist \/ PersistFails
          /\ Goto(a, IF a = "poll" THEN "free" ELSE "unclaim")
          /\ UNCHANGED <<pane, owed>>
    /\ UNCHANGED <<killed, mapped, path, wt, locks, watch>>

SaveSettlement(a) ==
    /\ pc[a] = "save"
    /\ PersistSettlement(ToInstanceData)
    /\ Goto(a, IF a = "poll" THEN "free" ELSE "unclaim")
    /\ UNCHANGED <<mem, world, locks, fresh, watch>>

\* The deferred releases: the claim, then the lock, then the fence if this
\* restore raised one and it has not fallen since.
RestoreUnclaim ==
    /\ pc["restore"] \in {"unclaim", "yieldClaim"}
    /\ claim' = "free"
    /\ Goto("restore", IF pc["restore"] = "unclaim" THEN "unlock" ELSE "yieldLock")
    /\ UNCHANGED <<mem, disk, world, lock, notes>>

RestoreUnlock ==
    /\ pc["restore"] \in {"unlock", "yieldLock"}
    /\ lock' = "free"
    /\ Goto("restore", IF pc["restore"] = "unlock" THEN "unfence" ELSE "idle")
    /\ UNCHANGED <<mem, disk, world, claim, notes>>

\* Mutant: the deferred release is missing.
RestoreUnfenceMissing ==
    /\ pc["restore"] = "unfence"
    /\ Goto("restore", "idle")
    /\ UNCHANGED <<mem, disk, world, locks, notes>>

RestoreUnfence ==
    /\ pc["restore"] = "unfence"
    /\ SetInst(ClearOpIfHeld(inst, "Restoring"))
    /\ Goto("restore", "idle")
    /\ UNCHANGED <<killed, mapped, path, disk, world, locks, watch, owed, unrecorded>>

RestoreStep == \/ RestoreLock \/ RestoreClaim \/ RestoreBack
               \/ RestoreRecord \/ RestoreRespawn \/ RestoreCommit
               \/ Recover("restore") \/ SaveSettlement("restore")
               \/ RestoreUnclaim \/ RestoreUnlock \/ RestoreUnfence

-----------------------------------------------------------------------------
(* The poll goroutine: one tick is sweep, lost, flush.                     *)

\* refreshInstanceStatus skips what it may not observe.
Observes == /\ mapped /\ ~killed /\ inst.started
            /\ inst.op = "None" /\ inst.lv # "Archived"

\* finishUserKill: a busy claim or lock, or a retry that is not due, skips it.
PollReap == /\ pc["poll"] = "sweep"
            /\ mapped /\ killed
            /\ claim = "free" /\ lock = "free"
            /\ claim' = "poll" /\ lock' = "poll"
            /\ Goto("poll", "teardown")
            /\ UNCHANGED <<mem, disk, world, notes>>

\* The skips, then what the persist will compare with.
PollAdmit == /\ pc["poll"] = "sweep"
             /\ Observes
             /\ before' = [lv |-> inst.lv, active |-> inst.run = "active"]
             /\ Goto("poll", "snapshot")
             /\ UNCHANGED <<mem, disk, world, locks, fresh, seen, owed, unrecorded>>

PollSkip == /\ pc["poll"] = "sweep"
            /\ ~Observes
            /\ Goto("poll", "lost")
            /\ UNCHANGED <<mem, disk, world, locks, notes>>

\* SnapshotAgent samples the operation axis and the epoch together, later and
\* without looking at the liveness or at started again; the pane is read in the
\* same step, since whatever moved the epoch in between would outdate it anyway.
\* A capture that failed, shows a prompt or is the first one concludes nothing, and
\* the pane of an unstarted session is only probed for being there.
PollSnapshot ==
    /\ pc["poll"] = "snapshot"
    /\ IF inst.op = "None"
       THEN /\ fresh' = TRUE
            /\ seen' \in {"unknown"} \cup (CASE pane = "none" -> {"Lost"}
                                  [] pane = "busy" /\ inst.started -> {"Running"}
                                  [] pane = "idle" /\ inst.started -> {"Ready"}
                                  [] OTHER -> {})
            /\ Goto("poll", "observe")
            /\ UNCHANGED before
       ELSE /\ before' = Nothing
            /\ Goto("poll", "lost")
            /\ UNCHANGED <<fresh, seen>>
    /\ UNCHANGED <<mem, disk, world, locks, owed, unrecorded>>

\* ObserveLiveness(...).AtEpoch: dropped if the epoch moved since the capture.
AtEpoch(i) == IF fresh THEN i ELSE inst

\* A working pane may prove the turn that reopens an interrupted run, then the
\* liveness is settled.  Either end of a run is a checkpoint that must be written.
PollObserve ==
    /\ pc["poll"] = "observe"
    /\ \E resumed \in {inst} \cup (IF seen = "Running"
                                   THEN {AtEpoch(ResumeInterruptedTaskRun(inst))}
                                   ELSE {}) :
          LET i == IF seen = "unknown" \/ ~fresh
                   THEN resumed
                   ELSE Transition(resumed, ObserveLiveness(seen))
          IN  /\ inst' = i
              /\ Goto("poll", IF \/ resumed # inst
                                 \/ before.active /\ i.run # "active" THEN "checkpoint"
                              ELSE IF i.lv # before.lv THEN "persist" ELSE "lost")
    /\ fresh' = FALSE /\ seen' = "unknown" /\ before' = Nothing
    /\ UNCHANGED <<killed, mapped, path, disk, world, locks, owed, unrecorded>>

\* Mutant: a run's end is forgotten when the write is ceded to a fence.
PollPersistForgets ==
    /\ pc["poll"] \in {"persist", "checkpoint"}
    /\ IF inst.op = "None" THEN Persist /\ owed' = FALSE
       ELSE UNCHANGED <<disk, owed, unrecorded>>
    /\ Goto("poll", "lost")
    /\ UNCHANGED <<mem, world, locks, fresh, watch>>

\* persistPollChange: cedes to a fence that went up since, keeps a run's end
\* owed, and otherwise writes the instance as it is now.
PollPersist ==
    LET checkpoint == pc["poll"] = "checkpoint"
    IN  /\ pc["poll"] \in {"persist", "checkpoint"}
        /\ \/ /\ inst.op # "None"
              /\ owed' = (owed \/ checkpoint)
              /\ UNCHANGED <<disk, unrecorded>>
           \/ inst.op = "None" /\ Persist /\ owed' = FALSE
           \/ /\ inst.op = "None"
              /\ PersistFails
              /\ owed' = (owed \/ checkpoint)
        /\ Goto("poll", "lost")
        /\ UNCHANGED <<mem, world, locks, fresh, watch>>

\* restoreLostSession: the lock is only tried, and everything is checked again
\* under it before the fence goes up.
PollRestore ==
    /\ pc["poll"] = "lost"
    /\ mapped /\ AdmitsRecoverLost
    /\ claim = "free" /\ lock = "free"
    /\ lock' = "poll"
    /\ SetInst(Transition(inst, Event("MarkRestoring")))
    /\ Goto("poll", "recover")
    /\ UNCHANGED <<killed, mapped, path, disk, world, claim, watch, owed, unrecorded>>

\* Backed off, given up, or somebody else is at work.
PollPass == /\ pc["poll"] = "lost"
            /\ Goto("poll", "flush")
            /\ UNCHANGED <<mem, disk, world, locks, notes>>

PollFree == /\ pc["poll"] = "free"
            /\ lock' = "free"
            /\ Goto("poll", "flush")
            /\ UNCHANGED <<mem, disk, world, claim, notes>>

\* Mutant: the written row stays in settleOwed.
FlushOwedKeepsEntry ==
    /\ pc["poll"] = "flush"
    /\ owed /\ mapped /\ lock = "free" /\ inst.op = "None"
    /\ Persist
    /\ Goto("poll", "sweep")
    /\ UNCHANGED <<mem, world, locks, marks>>

\* FlushOwedSettlements, one step under the lock it tries: a session that is gone
\* owes nothing, a busy one is left for the next tick.
FlushOwed ==
    /\ pc["poll"] = "flush"
    /\ owed /\ mapped /\ lock = "free" /\ inst.op = "None"
    /\ Persist
    /\ owed' = FALSE
    /\ Goto("poll", "sweep")
    /\ UNCHANGED <<mem, world, locks, fresh, watch>>

FlushLater ==
    /\ pc["poll"] = "flush"
    /\ owed' = (owed /\ mapped)
    /\ Goto("poll", "sweep")
    /\ UNCHANGED <<mem, disk, world, locks, fresh, watch, unrecorded>>

Poll == \/ PollReap \/ PollAdmit \/ PollSkip \/ PollSnapshot \/ PollObserve
        \/ PollPersist \/ PollRestore \/ PollPass \/ PollFree
        \/ FlushOwed \/ FlushLater \/ FinishKill("poll")
        \/ Recover("poll") \/ SaveSettlement("poll")

-----------------------------------------------------------------------------
(* The surroundings.                                                       *)

\* The agent works, comes back to its prompt, or dies.
PaneMoves == /\ pane # "none"
             /\ pane' \in Panes \ {pane}
             /\ UNCHANGED <<mem, disk, wt, locks, pc, notes>>

\* A row that is loaded without Start touching its pane.
LoadsInert(row) == row.killed \/ row.lv \in {"Archived", "Lost", "Dead"}

\* FromInstanceData(Start(false)) re-attaches to a pane that is there, respawns one
\* that is not, and leaves a row whose worktree is not at its path Lost.
LoadKeeps == /\ inst' = Loaded(disk)
             /\ owed' = FALSE
             /\ UNCHANGED <<disk, pane>>

LoadDefers == /\ inst' = [Loaded(disk) EXCEPT !.lv = "Lost"]
              /\ owed' = FALSE
              /\ UNCHANGED <<disk, pane>>

\* persistLoadRuntimeReplacements: the run of the replaced process is interrupted,
\* and the row written or owed.
LoadReplaces ==
    LET i == IF disk.run = "active"
             THEN [Loaded(disk) EXCEPT !.run = "interrupted", !.held = FALSE]
             ELSE Loaded(disk)
    IN  /\ inst' = i
        /\ pane' = IF pane = "none" THEN "busy" ELSE pane
        /\ \/ disk' = [disk EXCEPT !.run = i.run, !.held = i.held] /\ owed' = FALSE
           \/ owed' = TRUE /\ UNCHANGED disk

Load == IF ~disk.exists \/ LoadsInert(disk) THEN LoadKeeps
        ELSE IF pane # "none" THEN LoadKeeps \/ LoadReplaces
        ELSE IF wt = disk.path THEN LoadReplaces
        ELSE LoadDefers

\* Nothing but the rows, the worktree and the panes outlives the daemon.
Forget == /\ mapped' = disk.exists /\ path' = disk.path
          /\ lock' = "free" /\ claim' = "free"
          /\ pc' = [a \in Actors |-> IF a = "poll" THEN "sweep" ELSE "idle"]
          /\ fresh' = FALSE /\ seen' = "unknown" /\ before' = Nothing
          /\ unrecorded' = (unrecorded \/ ~Recorded)
          /\ UNCHANGED wt

\* Mutant: the tombstone is not loaded.
CrashForgetsKill == Load /\ Forget /\ killed' = FALSE

\* The daemon dies and a new one loads the rows; agents live in the terminal
\* multiplexer and survive it.
Crash == Load /\ Forget /\ killed' = disk.killed

Request == KillClaim \/ ArchiveRequest \/ RestoreRequest

Next == \/ Request \/ KillStep \/ ArchiveStep \/ RestoreStep
        \/ Poll \/ PaneMoves \/ Crash

Spec == Init /\ [][Next]_vars

\* A started RPC runs to its end, and the poll ticks for ever.
RunsToEnd == /\ WF_vars(KillStep) /\ WF_vars(ArchiveStep)
             /\ WF_vars(RestoreStep) /\ WF_vars(Poll)

\* What is retried on every tick (finishing a kill, writing an owed row) succeeds
\* in the end.
RetriesSucceed ==
    /\ SF_vars(PollReap) /\ SF_vars(TeardownDone("poll"))
    /\ SF_vars(SettleTeardown("poll")) /\ SF_vars(EraseRecord("poll"))
    /\ SF_vars(FlushOwed)

LiveSpec == Spec /\ RunsToEnd

-----------------------------------------------------------------------------
\* A kill is final.  A session the user killed is never started again, not by a
\* restore that was under way, not by the automatic restore, not by a daemon that
\* loads the row after a crash; and the tombstone persistKillTombstone wrote
\* survives every later write of the row until the record itself goes.
KillIsFinal ==
    [][/\ pane = "none" /\ pane' # "none" => ~killed /\ ~(disk.exists /\ disk.killed)
       /\ disk.exists /\ disk.killed => disk'.killed \/ ~disk'.exists]_vars

\* deleteSessionRecord never drops the only handle on a live agent or on a
\* worktree whose cleanup has not settled.
NoOrphan == disk.exists \/ unrecorded \/ (pane = "none" /\ wt = "gone")

\* Outside an archive or a restore that is still running, the row names the
\* place the worktree is in, unless a failed write was reported or the daemon
\* died inside such an operation.  An archived restore has the place on record
\* before it starts an agent there.
RecordNamesWorktree ==
    /\ disk.exists => Recorded \/ unrecorded \/ lock \in {"archive", "restore"}
    /\ pc["restore"] = "respawn" => Recorded

\* An archive never moves the worktree from under a running agent.
MovesOnlyStopped ==
    [][pc["archive"] = "move" /\ wt' # wt => pane = "none" /\ pane' = "none"]_vars

\* A raised fence always has an operation that will lower it: a stranded one
\* would leave the row busy for good.  And archiveSettled is never left open by
\* MarkUserKilled, which lowers a fence without going through the chokepoint.
FenceHasOwner ==
    /\ inst.settling <=> inst.op = "Archiving"
    /\ inst.op = "Archiving" => pc["archive"] \in {"stop", "move", "adopt"}
    /\ inst.op = "Restoring" =>
           \/ pc["poll"] = "recover"
           \/ pc["restore"] \in {"back", "record", "respawn", "commit", "recover",
                                 "unclaim", "unlock", "unfence"}
    /\ inst.op \in {"None", "Archiving", "Restoring"}

\* The end of a run that the poll saw is on the row, owed to it, or about to be
\* written: ceding the write to a fence does not lose it, so a restart cannot give
\* the finished run its concurrency slot back.  Once durable it is never taken
\* back, not by a stale write of the poll and not by the load of the row.
RunEndKept ==
    /\ [](/\ mapped /\ inst.lv \in {"Running", "Ready"}
          /\ inst.run # "active" /\ disk.run = "active"
          => owed \/ pc["poll"] = "checkpoint")
    /\ [][disk.run = "ended" => disk'.run = "ended"]_vars

-----------------------------------------------------------------------------
Quiet == \A a \in {"kill", "archive", "restore"} : pc[a] = "idle"

\* A kill that was recorded is finished, whatever step of it failed or crashed:
\* once the clients are quiet the poll erases what the tombstone promised to.
KilledIsErased ==
    RetriesSucceed /\ <>[]Quiet => (disk.exists /\ disk.killed ~> ~disk.exists)

\* A fence always falls: no operation leaves the session busy for good.
FenceFalls == inst.op # "None" ~> inst.op = "None"

\* An owed row write is paid once the clients are quiet and the daemon stays up.
OwedIsPaid ==
    RetriesSucceed /\ <>[]Quiet /\ <>[][~Crash]_vars => (owed ~> ~owed)

-----------------------------------------------------------------------------
\* What the comments of FromInstanceData and refreshInstanceStatus say of an archived
\* session: it sits quiescent until an explicit restore, the poll passes it by.  The
\* rollback of the archive itself and a crash that never wrote it do not count.
ArchivedLeftByOwner ==
    [][inst.lv = "Archived" /\ inst'.lv # "Archived"
          => lock \in {"restore", "archive"} \/ Crash]_vars
=============================================================================
