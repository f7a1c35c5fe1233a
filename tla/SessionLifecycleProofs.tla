----------------------- MODULE SessionLifecycleProofs -----------------------
(***************************************************************************)
(* Proofs, for every set of clients, panes and reset times, of the         *)
(* properties MCSessionLifecycle and MCSessionLifecycleRuns check on small *)
(* instances.  Three layers of inductive invariants, each used by the      *)
(* next: CoreInv (types, who is inside the lock, who owns the fence, and   *)
(* the agreement of the instance with its row), PlaceInv (where the        *)
(* worktree and the agent are) and RunInv (the task-run marker).           *)
(***************************************************************************)
EXTENDS SessionLifecycle, SessionTransitionProofs

-----------------------------------------------------------------------------
(* The first layer.                                                        *)

\* TypeOK, which says of pc only what its entries are, with its domain.
PcType == /\ pc \in [Actors -> UNION {Labels[b] : b \in Actors}]
          /\ \A a \in Actors : pc[a] \in Labels[a]
MemType == killed \in BOOLEAN /\ mapped \in BOOLEAN /\ path \in Places
WorldType == wt \in Places \cup {"gone"} /\ pane \in Panes
LockType == lock \in Actors \cup {"free"} /\ claim \in Actors \cup {"free"}
NoteType == /\ fresh \in BOOLEAN /\ owed \in BOOLEAN /\ unrecorded \in BOOLEAN
            /\ seen \in {"Running", "Ready", "Lost", "unknown"}
            /\ before \in Glance

\* The stretches of each operation inside the operation lock.
KillLocked == {"tombstone", "teardown", "settle", "erase", "unlock"}
ArchiveLocked == {"admit", "stop", "move", "adopt", "abort", "save", "undo", "undone",
                  "keep", "unclaim", "unlock"}
RestoreLocked == {"claimArchived", "claimLost", "back", "record", "respawn", "commit",
                  "recover", "save", "unclaim", "unlock", "yieldClaim", "yieldLock"}
PollLocked == {"teardown", "settle", "erase", "unlock", "recover", "save", "free"}

\* Mutual exclusion: the lock names exactly the operation that is inside it.
LockHeld == /\ lock = "kill" <=> pc["kill"] \in KillLocked
            /\ lock = "archive" <=> pc["archive"] \in ArchiveLocked
            /\ lock = "restore" <=> pc["restore"] \in RestoreLocked
            /\ lock = "poll" <=> pc["poll"] \in PollLocked

\* The archive fence is up exactly while the archive may still move the worktree,
\* and a restore fence has an operation that will lower it.
FenceOwned == /\ inst.op = "Archiving" <=> pc["archive"] \in {"stop", "move", "adopt"}
              /\ inst.op = "Restoring" =>
                     \/ pc["poll"] = "recover"
                     \/ pc["restore"] \in {"back", "record", "respawn", "commit",
                                           "recover", "unclaim", "unlock", "unfence"}
              /\ inst.op \in {"None", "Archiving", "Restoring"}

\* The instance and its row agree on the tombstone and on being there, and an
\* archived row has no active run.
Healths == {"Running", "Ready", "Lost", "Archived"}
RowAgrees == /\ killed = disk.killed
             /\ mapped = disk.exists
             /\ inst.lv \in Healths /\ disk.lv \in Healths
             /\ disk.lv = "Archived" => disk.run # "active"

\* A current capture that saw the agent is not one of an archived session.
CaptureCurrent == fresh /\ seen \in {"Running", "Ready"} => inst.lv # "Archived"

CoreInv == /\ Sound(inst) /\ disk \in Row
           /\ PcType /\ MemType /\ WorldType /\ LockType /\ NoteType
           /\ LockHeld /\ FenceOwned /\ RowAgrees /\ CaptureCurrent

\* The first layer implies the type invariant and the ownership of the fences.
LEMMA CoreImplies == CoreInv => TypeOK /\ FenceHasOwner
  BY DEF CoreInv, TypeOK, PcType, MemType, WorldType, LockType, NoteType, Sound, Channel,
     FenceOwned, FenceHasOwner

\* A step of one operation leaves the others where they are.
LEMMA PcStep ==
    ASSUME PcType, NEW a \in Actors, NEW l \in Labels[a], Goto(a, l)
    PROVE  /\ PcType'
           /\ pc'[a] = l
           /\ \A b \in Actors : b # a => pc'[b] = pc[b]
  BY DEF PcType, Goto

\* The row ToInstanceData builds from the instance.
LEMMA RowOfInstance ==
    ASSUME CoreInv
    PROVE  /\ ToInstanceData \in Row
           /\ ToInstanceData.exists = TRUE
           /\ ToInstanceData.lv = inst.lv
           /\ ToInstanceData.killed = killed
           /\ ToInstanceData.path = path
           /\ ToInstanceData.run = inst.run
           /\ inst.lv = "Archived" => inst.run # "active"
  BY DEF CoreInv, MemType, ToInstanceData, Row, Sound, Instance, Inert

-----------------------------------------------------------------------------
(* What the actions that write the instance do to it.                      *)

\* A written instance outdates the capture unless both axes stay.
LEMMA SetInstEffect ==
    ASSUME NEW i, SetInst(i)
    PROVE  /\ inst' = i
           /\ fresh' \in BOOLEAN
           /\ fresh' => fresh /\ i.lv = inst.lv /\ i.op = inst.op
  BY DEF SetInst, EpochMoves

\* Who holds the lock tells which fences cannot be up.
LEMMA FenceOutsideLock ==
    ASSUME CoreInv
    PROVE  /\ lock # "archive" => inst.op \in {"None", "Restoring"}
           /\ pc["kill"] \in KillLocked => lock = "kill"
           /\ pc["archive"] \in ArchiveLocked => lock = "archive"
           /\ pc["restore"] \in RestoreLocked => lock = "restore"
           /\ pc["poll"] \in PollLocked => lock = "poll"
  BY DEF CoreInv, FenceOwned, LockHeld, ArchiveLocked

\* persistKillTombstone marks the row and the instance together, and lowers a fence
\* nobody owns.
LEMMA KillTombstoneEffect ==
    ASSUME CoreInv, KillTombstone
    PROVE  /\ Sound(inst') /\ disk' \in Row
           /\ inst'.lv = inst.lv /\ inst'.run = inst.run
           /\ inst'.op \in {inst.op, "None"} /\ inst.op # "Archiving"
           /\ fresh' \in BOOLEAN /\ (fresh' => fresh)
           /\ \/ /\ pc'["kill"] = "teardown"
                 /\ disk.exists /\ disk'.exists
                 /\ killed' = TRUE /\ disk'.killed = TRUE
                 /\ disk'.lv = inst.lv /\ disk'.run = inst.run /\ disk'.path = path
              \/ /\ pc'["kill"] = "unlock"
                 /\ UNCHANGED <<inst, killed, disk>>
<1>1. inst.op \in {"None", "Restoring"} /\ Sound(inst) /\ fresh \in BOOLEAN
  BY FenceOutsideLock DEF CoreInv, NoteType, KillTombstone, LockHeld, KillLocked
<1>2. CASE /\ disk.exists
           /\ disk' = [ToInstanceData EXCEPT !.killed = TRUE]
           /\ MarkUserKilled
           /\ Goto("kill", "teardown")
  <2>1. pc'["kill"] = "teardown"
    BY <1>2, PcStep DEF CoreInv, Actors, Labels
  <2>2. /\ inst' = [inst EXCEPT !.op = "None"] /\ killed' = TRUE
        /\ fresh' \in BOOLEAN /\ (fresh' => fresh)
    BY <1>2, SetInstEffect DEF MarkUserKilled
  <2>3. /\ Sound(inst') /\ inst'.lv = inst.lv /\ inst'.run = inst.run /\ inst'.op = "None"
    BY <1>1, <2>2 DEF Sound, Inert, Channel, Instance, InFlightOp
  <2>4. /\ disk' \in Row /\ disk'.killed = TRUE /\ disk'.exists = TRUE
        /\ disk'.lv = inst.lv /\ disk'.run = inst.run /\ disk'.path = path
    BY <1>2, RowOfInstance DEF Row
  <2> QED
    BY <1>1, <1>2, <2>1, <2>2, <2>3, <2>4
<1>3. CASE /\ Goto("kill", "unlock")
           /\ UNCHANGED <<disk, killed, inst, fresh>>
  <2>1. pc'["kill"] = "unlock"
    BY <1>3, PcStep DEF CoreInv, Actors, Labels
  <2> QED
    BY <1>1, <1>3, <2>1 DEF CoreInv
<1> QED
  BY <1>2, <1>3 DEF KillTombstone

\* A teardown stops the session and moves neither axis.
LEMMA TeardownEffect ==
    ASSUME CoreInv, NEW a \in {"kill", "poll"}, TeardownDone(a) \/ TeardownUnknown(a)
    PROVE  /\ Sound(inst')
           /\ inst'.lv = inst.lv /\ inst'.run = inst.run /\ inst'.op = inst.op
<1>1. inst' = inst \/ inst' = [inst EXCEPT !.started = FALSE]
  BY DEF TeardownDone, TeardownUnknown
<1> QED
  BY <1>1 DEF CoreInv, Sound, Inert, Channel, Instance

\* The archive raises its fence over an unfenced session, or gives up.
LEMMA ArchiveAdmitEffect ==
    ASSUME CoreInv, ArchiveAdmit
    PROVE  /\ Sound(inst')
           /\ inst'.lv = inst.lv /\ inst'.run = inst.run
           /\ fresh' \in BOOLEAN /\ (fresh' => fresh)
           /\ \/ /\ pc'["archive"] = "stop" /\ mapped
                 /\ inst'.op = "Archiving" /\ inst.op = "None"
              \/ /\ pc'["archive"] = "unlock"
                 /\ inst' = inst
<1>1. Sound(inst) /\ fresh \in BOOLEAN
  BY DEF CoreInv, NoteType
<1>2. CASE /\ mapped /\ inst.lv # "Archived" /\ inst.op = "None"
           /\ ~Rejected(inst, Event("BeginArchive"))
           /\ SetInst(Transition(inst, Event("BeginArchive")))
           /\ Goto("archive", "stop")
  <2>1. pc'["archive"] = "stop"
    BY <1>2, PcStep DEF CoreInv, Actors, Labels
  <2>2. ~inst.barred
    BY <1>2, EventRows, EventType, KindsList DEF Rejected, Allowed, Plain, Edge
  <2> QED
    BY <1>1, <1>2, <2>1, <2>2, SetInstEffect, BeginArchiveEffect
<1>3. CASE Goto("archive", "unlock") /\ UNCHANGED <<inst, fresh>>
  <2>1. pc'["archive"] = "unlock"
    BY <1>3, PcStep DEF CoreInv, Actors, Labels
  <2> QED
    BY <1>1, <1>3, <2>1
<1> QED
  BY <1>2, <1>3 DEF ArchiveAdmit

\* The steps of an archive whose fence is up: it stays up while the agent is
\* stopped, and falls with the commit or with the failure.
LEMMA ArchiveStopEffect ==
    ASSUME CoreInv, ArchiveStop
    PROVE  /\ Sound(inst') /\ inst'.run = inst.run
           /\ fresh' \in BOOLEAN /\ (fresh' => fresh)
           /\ \/ /\ pc'["archive"] \in {"move", "adopt"}
                 /\ inst' = inst /\ pane' = "none"
              \/ /\ pc'["archive"] = "abort"
                 /\ inst'.op = "None" /\ inst'.lv \in {inst.lv, "Lost"}
                 /\ pane' \in {pane, "none"}
<1>1. Sound(inst) /\ fresh \in BOOLEAN /\ inst.op = "Archiving"
  BY DEF CoreInv, NoteType, ArchiveStop, FenceOwned
<1>2. CASE /\ SetInst(Transition(inst, Event("CancelArchive")))
           /\ Goto("archive", "abort")
           /\ UNCHANGED pane
  <2>1. pc'["archive"] = "abort"
    BY <1>2, PcStep DEF CoreInv, Actors, Labels
  <2> QED
    BY <1>1, <1>2, <2>1, SetInstEffect, CancelArchiveEffect
<1>3. CASE /\ pane' = "none"
           /\ Goto("archive", IF path = wt THEN "move" ELSE "adopt")
           /\ UNCHANGED <<inst, fresh>>
  <2>1. pc'["archive"] \in {"move", "adopt"}
    BY <1>3, PcStep DEF CoreInv, Actors, Labels
  <2> QED
    BY <1>1, <1>3, <2>1
<1>4. CASE /\ SetInst(Transition(inst, Event("AbortArchiveToLost")))
           /\ pane' \in {pane, "none"}
           /\ Goto("archive", "abort")
  <2>1. pc'["archive"] = "abort"
    BY <1>4, PcStep DEF CoreInv, Actors, Labels
  <2> QED
    BY <1>1, <1>4, <2>1, SetInstEffect, AbortArchiveToLostEffect
<1> QED
  BY <1>2, <1>3, <1>4 DEF ArchiveStop

\* The relocation commits the archive, or the session goes Lost.
LEMMA ArchiveMoveEffect ==
    ASSUME CoreInv, ArchiveMove
    PROVE  /\ Sound(inst') /\ inst'.op = "None" /\ fresh' = FALSE
           /\ \/ /\ pc'["archive"] = "save"
                 /\ inst'.lv = "Archived" /\ inst'.run # "active"
                 /\ inst.run # "active" => inst'.run = inst.run
              \/ /\ pc'["archive"] = "abort"
                 /\ inst'.lv = "Lost" /\ inst'.run = inst.run
<1>1. Sound(inst) /\ fresh \in BOOLEAN /\ inst.op = "Archiving"
  BY DEF CoreInv, NoteType, ArchiveMove, FenceOwned
<1>2. CASE /\ SetInst(Transition(inst, Event("CommitArchive")))
           /\ Goto("archive", "save")
  <2>1. pc'["archive"] = "save"
    BY <1>2, PcStep DEF CoreInv, Actors, Labels
  <2>2. inst.run # "active" => inst'.run = inst.run
    BY <1>1, <1>2, SetInstEffect, RunNotReopened, EventType, KindsList
  <2> QED
    BY <1>1, <1>2, <2>1, <2>2, SetInstEffect, CommitArchiveEffect
<1>3. CASE /\ SetInst(Transition(inst, Event("AbortArchiveToLost")))
           /\ Goto("archive", "abort")
  <2>1. pc'["archive"] = "abort"
    BY <1>3, PcStep DEF CoreInv, Actors, Labels
  <2> QED
    BY <1>1, <1>3, <2>1, SetInstEffect, AbortArchiveToLostEffect
<1> QED
  BY <1>2, <1>3 DEF ArchiveMove

\* An adopted archive commits.
LEMMA ArchiveAdoptEffect ==
    ASSUME CoreInv, ArchiveAdopt
    PROVE  /\ Sound(inst') /\ inst'.op = "None" /\ fresh' = FALSE
           /\ pc'["archive"] = "keep"
           /\ inst'.lv = "Archived" /\ inst'.run # "active"
           /\ inst.run # "active" => inst'.run = inst.run
<1>1. Sound(inst) /\ fresh \in BOOLEAN /\ inst.op = "Archiving"
  BY DEF CoreInv, NoteType, ArchiveAdopt, FenceOwned
<1>2. pc'["archive"] = "keep"
  BY PcStep DEF ArchiveAdopt, CoreInv, Actors, Labels
<1>3. SetInst(Transition(inst, Event("CommitArchive")))
  BY DEF ArchiveAdopt
<1>4. inst.run # "active" => inst'.run = inst.run
  BY <1>1, <1>3, SetInstEffect, RunNotReopened, EventType, KindsList
<1> QED
  BY <1>1, <1>2, <1>3, <1>4, SetInstEffect, CommitArchiveEffect

\* undoCommittedArchive takes the session out of Archived, or leaves it as it is.
LEMMA ArchiveUndoEffect ==
    ASSUME CoreInv, ArchiveUndo
    PROVE  /\ Sound(inst') /\ inst'.run = inst.run
           /\ inst'.lv \in {inst.lv, "Lost"} /\ inst'.op \in {inst.op, "None"}
           /\ fresh' \in BOOLEAN /\ (fresh' => fresh)
           /\ pc'["archive"] \in {"undone", "keep"}
<1>1. Sound(inst) /\ fresh \in BOOLEAN
  BY DEF CoreInv, NoteType
<1>2. CASE /\ SetInst(Transition(Transition(inst, Event("BeginRestore")),
                                Event("AbortRestoreToLost")))
           /\ Goto("archive", "undone")
  <2>1. pc'["archive"] = "undone"
    BY <1>2, PcStep DEF CoreInv, Actors, Labels
  <2> DEFINE i == Transition(inst, Event("BeginRestore"))
             j == Transition(i, Event("AbortRestoreToLost"))
  <2>2. inst' = j /\ fresh' \in BOOLEAN /\ (fresh' => fresh)
    BY <1>2, SetInstEffect
  <2>3. i = inst \/ /\ inst.op = "None" /\ inst.lv = "Archived"
                    /\ Sound(i) /\ i.lv = "Lost" /\ i.op = "Restoring" /\ i.run = inst.run
    <3>1. CASE inst.op = "None" /\ inst.lv = "Archived"
      BY <1>1, <3>1, BeginRestoreEffect
    <3>2. CASE ~(inst.op = "None" /\ inst.lv = "Archived")
      BY <3>2, EventRows, EventType, KindsList DEF Transition, Allowed, Edge
    <3> QED
      BY <3>1, <3>2
  <2>4. Sound(i)
    BY <1>1, <2>3
  <2> HIDE DEF i
  <2>5. IF i.op = "Restoring" /\ i.lv = "Lost"
        THEN Sound(j) /\ j.lv = "Lost" /\ j.op = "None" /\ j.run = i.run
        ELSE j = i
    <3>1. CASE i.op = "Restoring" /\ i.lv = "Lost"
      BY <2>4, <3>1, AbortRestoreToLostEffect
    <3>2. CASE ~(i.op = "Restoring" /\ i.lv = "Lost")
      BY <3>2, EventRows, EventType, KindsList DEF Transition, Allowed, Plain, Edge
    <3> QED
      BY <3>1, <3>2
  <2> HIDE DEF j
  <2>6. /\ Sound(j) /\ j.run = inst.run
        /\ j.lv \in {inst.lv, "Lost"} /\ j.op \in {inst.op, "None"}
    <3>1. i.run = inst.run /\ i.lv \in {inst.lv, "Lost"}
      BY <2>3
    <3>2. CASE i.op = "Restoring" /\ i.lv = "Lost"
      BY <2>5, <3>1, <3>2
    <3>3. CASE ~(i.op = "Restoring" /\ i.lv = "Lost")
      BY <1>1, <2>3, <2>5, <3>3
    <3> QED
      BY <3>2, <3>3
  <2> QED
    BY <2>1, <2>2, <2>6
<1>3. CASE Goto("archive", "keep") /\ UNCHANGED <<inst, fresh>>
  <2>1. pc'["archive"] = "keep"
    BY <1>3, PcStep DEF CoreInv, Actors, Labels
  <2> QED
    BY <1>1, <1>3, <2>1
<1> QED
  BY <1>2, <1>3 DEF ArchiveUndo

\* A restore raises its fence over an unfenced session, or gives way.
LEMMA RestoreClaimEffect ==
    ASSUME CoreInv, RestoreClaim
    PROVE  /\ Sound(inst')
           /\ inst'.lv = inst.lv /\ inst'.run = inst.run
           /\ fresh' \in BOOLEAN /\ (fresh' => fresh)
           /\ claim' \in {claim, "restore"}
           /\ \/ /\ pc'["restore"] \in {"back", "recover"} /\ mapped
                 /\ inst'.op = "Restoring" /\ inst.op = "None"
              \/ /\ pc'["restore"] \in {"yieldLock", "yieldClaim"}
                 /\ inst' = inst
<1>1. Sound(inst) /\ fresh \in BOOLEAN
  BY DEF CoreInv, NoteType
<1>2. CASE Goto("restore", "yieldLock") /\ UNCHANGED <<claim, inst, fresh>>
  <2>1. pc'["restore"] = "yieldLock"
    BY <1>2, PcStep DEF CoreInv, Actors, Labels
  <2> QED
    BY <1>1, <1>2, <2>1
<1>3. CASE /\ Goto("restore", "yieldClaim") /\ claim' = "restore"
           /\ UNCHANGED <<inst, fresh>>
  <2>1. pc'["restore"] = "yieldClaim"
    BY <1>3, PcStep DEF CoreInv, Actors, Labels
  <2> QED
    BY <1>1, <1>3, <2>1
<1>4. CASE /\ mapped /\ inst.op = "None" /\ claim' = "restore"
           /\ SetInst(Transition(inst, Event("MarkRestoring")))
           /\ Goto("restore", IF pc["restore"] = "claimArchived" THEN "back" ELSE "recover")
  <2>1. pc'["restore"] \in {"back", "recover"}
    BY <1>4, PcStep DEF CoreInv, Actors, Labels
  <2> QED
    BY <1>1, <1>4, <2>1, SetInstEffect, MarkRestoringEffect
<1> QED
  BY <1>2, <1>3, <1>4 DEF RestoreClaim, AdmitsRestoreArchived, AdmitsRecoverLost

\* A respawned instance is live and unfenced, its run kept or interrupted.
LEMMA RespawnedEffect ==
    ASSUME NEW i, Sound(i), i.op \in {"None", "Restoring"}, NEW replaced \in BOOLEAN,
           NEW j, j = Respawned(i, replaced)
    PROVE  /\ Sound(j)
           /\ j.lv \in {"Running", "Lost"}
           /\ j.op = "None"
           /\ j.run \in {i.run, "interrupted"}
           /\ i.run # "active" => j.run = i.run
<1> DEFINE k == [i EXCEPT !.replaced = replaced]
           m == Transition(k, Event("ConfirmLive"))
<1>1. Sound(k) /\ k.op = i.op /\ k.run = i.run
  BY DEF Sound, Inert, Channel, Instance
<1>2. j = [m EXCEPT !.replaced = FALSE]
  BY DEF Respawned
<1> HIDE DEF k
<1>3. /\ Sound(m) /\ m.lv \in {"Running", "Lost"} /\ m.op = "None"
      /\ m.run \in {i.run, "interrupted"} /\ (i.run # "active" => m.run = i.run)
  BY <1>1, ConfirmLiveEffect
<1> HIDE DEF m
<1>4. Sound(j) /\ j.lv = m.lv /\ j.op = m.op /\ j.run = m.run
  BY <1>2, <1>3 DEF Sound, Inert, Channel, Instance
<1> QED
  BY <1>3, <1>4

\* The respawn of an archived session: done, failed to Lost, or refused.
LEMMA RestoreRespawnEffect ==
    ASSUME CoreInv, RestoreRespawn
    PROVE  /\ Sound(inst') /\ pc'["restore"] = "commit"
           /\ inst'.run \in {inst.run, "interrupted"}
           /\ inst.run # "active" => inst'.run = inst.run
           /\ fresh' \in BOOLEAN /\ (fresh' => fresh /\ inst'.lv = inst.lv)
           /\ \/ /\ ~killed /\ wt = path /\ inst.lv = "Archived" /\ inst.op = "Restoring"
                 /\ inst'.lv \in {"Running", "Lost"} /\ inst'.op = "None"
                 /\ pane' = IF pane = "none" THEN "busy" ELSE pane
              \/ /\ inst.lv = "Archived" /\ inst.op = "Restoring"
                 /\ inst'.lv = "Lost" /\ inst'.op = "None"
                 /\ inst'.run = inst.run
                 /\ pane' = pane
              \/ inst' = inst /\ pane' = pane
<1> DEFINE entered == Transition(inst, Event("BeginRestoreFenced"))
<1>1. Sound(inst) /\ fresh \in BOOLEAN /\ pc'["restore"] = "commit"
  BY PcStep DEF RestoreRespawn, CoreInv, NoteType, Actors, Labels
<1>2. AdmitsRestoreArchivedFenced =>
        /\ inst.lv = "Archived" /\ inst.op = "Restoring"
        /\ Sound(entered) /\ entered.lv = "Lost" /\ entered.op = "Restoring"
        /\ entered.run = inst.run
  BY <1>1, BeginRestoreFencedEffect DEF AdmitsRestoreArchivedFenced
<1>3. \/ /\ AdmitsRestoreArchivedFenced /\ CanRespawn
         /\ \E replaced \in Verdicts : SetInst(Respawned(entered, replaced))
         /\ pane' = IF pane = "none" THEN "busy" ELSE pane
      \/ /\ SetInst(IF AdmitsRestoreArchivedFenced
                    THEN Transition(entered, Event("AbortRestoreToLost"))
                    ELSE inst)
         /\ UNCHANGED pane
  BY DEF RestoreRespawn
<1> HIDE DEF entered
<1>4. CASE /\ AdmitsRestoreArchivedFenced /\ CanRespawn
           /\ \E replaced \in Verdicts : SetInst(Respawned(entered, replaced))
           /\ pane' = IF pane = "none" THEN "busy" ELSE pane
  <2>1. PICK replaced \in Verdicts : SetInst(Respawned(entered, replaced))
    BY <1>4
  <2>2. replaced \in BOOLEAN
    BY DEF Verdicts
  <2>3. /\ Sound(inst') /\ inst'.lv \in {"Running", "Lost"} /\ inst'.op = "None"
        /\ inst'.run \in {inst.run, "interrupted"}
        /\ inst.run # "active" => inst'.run = inst.run
        /\ fresh' \in BOOLEAN /\ (fresh' => fresh /\ inst'.lv = inst.lv)
    BY <1>2, <1>4, <2>1, <2>2, RespawnedEffect, SetInstEffect
  <2> QED
    BY <1>1, <1>2, <1>4, <2>3 DEF CanRespawn
<1>5. CASE /\ SetInst(IF AdmitsRestoreArchivedFenced
                      THEN Transition(entered, Event("AbortRestoreToLost"))
                      ELSE inst)
           /\ UNCHANGED pane
  <2>1. CASE AdmitsRestoreArchivedFenced
    BY <1>1, <1>2, <1>5, <2>1, AbortRestoreToLostEffect, SetInstEffect
  <2>2. CASE ~AdmitsRestoreArchivedFenced
    BY <1>1, <1>5, <2>2, SetInstEffect
  <2> QED
    BY <2>1, <2>2
<1> QED
  BY <1>3, <1>4, <1>5

\* A recovery confirms a Lost session live, with its run on the row or owed to it,
\* or fails; the automatic one then lowers its fence.
LEMMA RecoverEffect ==
    ASSUME CoreInv, NEW a \in {"restore", "poll"}, Recover(a)
    PROVE  /\ Sound(inst') /\ disk' \in Row
           /\ inst'.run \in {inst.run, "interrupted"}
           /\ inst.run # "active" => inst'.run = inst.run
           /\ fresh' \in BOOLEAN /\ (fresh' => fresh /\ inst'.lv = inst.lv)
           /\ owed' \in BOOLEAN /\ unrecorded' \in BOOLEAN
           /\ \/ disk' = disk /\ unrecorded' = unrecorded
              \/ /\ disk.exists /\ disk'.exists
                 /\ disk'.killed = killed /\ disk'.path = path
                 /\ disk'.lv = inst.lv /\ disk'.run = inst'.run
                 /\ unrecorded' = (unrecorded /\ wt \notin {path, "gone"})
           /\ \/ /\ pc'[a] = "save" /\ ~killed /\ wt = path /\ inst.lv = "Lost"
                 /\ inst'.lv \in {"Running", "Lost"} /\ inst'.op = "None"
                 /\ pane' = IF pane = "none" THEN "busy" ELSE pane
                 /\ owed' \/ disk'.run = inst'.run
              \/ /\ pc'[a] = IF a = "poll" THEN "free" ELSE "unclaim"
                 /\ inst'.lv = inst.lv /\ inst'.run = inst.run
                 /\ inst'.op = IF a = "poll" /\ inst.op = "Restoring" THEN "None" ELSE inst.op
                 /\ pane' = pane /\ owed' = owed
<1>1. /\ Sound(inst) /\ fresh \in BOOLEAN /\ owed \in BOOLEAN /\ unrecorded \in BOOLEAN
      /\ disk \in Row /\ inst.op \in {"None", "Restoring"}
  BY FenceOutsideLock DEF CoreInv, NoteType, Recover, RestoreLocked, PollLocked
<1>2. CASE /\ CanRespawn /\ inst.lv = "Lost"
           /\ \E replaced \in Verdicts :
                 LET i == Respawned(inst, replaced)
                 IN  /\ SetInst(i)
                     /\ PersistSettlement([ToInstanceData EXCEPT !.run = i.run,
                                                                !.held = i.held])
           /\ pane' = IF pane = "none" THEN "busy" ELSE pane
           /\ Goto(a, "save")
  <2>1. PICK replaced \in Verdicts :
          /\ SetInst(Respawned(inst, replaced))
          /\ PersistSettlement([ToInstanceData EXCEPT !.run = Respawned(inst, replaced).run,
                                                      !.held = Respawned(inst, replaced).held])
    BY <1>2
  <2>2. replaced \in BOOLEAN /\ inst' = Respawned(inst, replaced)
    BY <2>1, SetInstEffect DEF Verdicts
  <2>3. /\ Sound(inst') /\ inst'.lv \in {"Running", "Lost"} /\ inst'.op = "None"
        /\ inst'.run \in {inst.run, "interrupted"}
        /\ inst.run # "active" => inst'.run = inst.run
        /\ fresh' \in BOOLEAN /\ (fresh' => fresh /\ inst'.lv = inst.lv)
    BY <1>1, <2>1, <2>2, RespawnedEffect, SetInstEffect
  <2>4. pc'[a] = "save"
    BY <1>2, PcStep DEF CoreInv, Actors, Labels
  <2> DEFINE row == [ToInstanceData EXCEPT !.run = inst'.run, !.held = inst'.held]
  <2>5. /\ row \in Row /\ row.exists = TRUE /\ row.lv = inst.lv /\ row.killed = killed
        /\ row.path = path /\ row.run = inst'.run
    BY <2>3, RowOfInstance DEF Row, Sound, Instance
  <2>6. PersistSettlement(row)
    BY <2>1, <2>2
  <2> HIDE DEF row
  <2>7. \/ /\ disk.exists /\ disk' = row /\ owed' = FALSE
           /\ unrecorded' = (unrecorded /\ wt \notin {path, "gone"})
        \/ owed' = TRUE /\ disk' = disk /\ unrecorded' = unrecorded
    BY <2>6 DEF PersistSettlement
  <2> QED
    BY <1>1, <1>2, <2>3, <2>4, <2>5, <2>7 DEF CanRespawn
<1>3. CASE /\ SetInst(IF a = "poll" THEN ClearOpIfHeld(inst, "Restoring") ELSE inst)
           /\ Persist \/ PersistFails
           /\ Goto(a, IF a = "poll" THEN "free" ELSE "unclaim")
           /\ UNCHANGED <<pane, owed>>
  <2>1. pc'[a] = IF a = "poll" THEN "free" ELSE "unclaim"
    BY <1>3, PcStep DEF CoreInv, Actors, Labels
  <2>2. /\ Sound(inst') /\ inst'.lv = inst.lv /\ inst'.run = inst.run
        /\ inst'.op = IF a = "poll" /\ inst.op = "Restoring" THEN "None" ELSE inst.op
        /\ fresh' \in BOOLEAN /\ (fresh' => fresh)
    BY <1>1, <1>3, SetInstEffect, ClearOpIfHeldEffect
  <2>3. \/ /\ disk.exists /\ disk' = ToInstanceData
           /\ unrecorded' = (unrecorded /\ wt \notin {path, "gone"})
        \/ disk' = disk /\ unrecorded' = unrecorded
    BY <1>3 DEF Persist, PersistFails
  <2> QED
    BY <1>1, <1>3, <2>1, <2>2, <2>3, RowOfInstance
<1> QED
  BY <1>2, <1>3 DEF Recover

\* The deferred release lowers a restore fence and no other.
LEMMA RestoreUnfenceEffect ==
    ASSUME CoreInv, RestoreUnfence
    PROVE  /\ Sound(inst') /\ pc'["restore"] = "idle"
           /\ inst'.lv = inst.lv /\ inst'.run = inst.run
           /\ inst'.op = IF inst.op = "Restoring" THEN "None" ELSE inst.op
           /\ fresh' \in BOOLEAN /\ (fresh' => fresh)
<1>1. Sound(inst) /\ pc'["restore"] = "idle"
  BY PcStep DEF RestoreUnfence, CoreInv, Actors, Labels
<1>2. SetInst(ClearOpIfHeld(inst, "Restoring"))
  BY DEF RestoreUnfence
<1> QED
  BY <1>1, <1>2, SetInstEffect, ClearOpIfHeldEffect

\* The automatic restore raises its fence over an unfenced Lost session.
LEMMA PollRestoreEffect ==
    ASSUME CoreInv, PollRestore
    PROVE  /\ Sound(inst') /\ pc'["poll"] = "recover"
           /\ inst'.lv = inst.lv /\ inst'.run = inst.run
           /\ inst'.op = "Restoring" /\ inst.op = "None" /\ mapped
           /\ fresh' \in BOOLEAN /\ (fresh' => fresh)
<1>1. Sound(inst) /\ pc'["poll"] = "recover"
  BY PcStep DEF PollRestore, CoreInv, Actors, Labels
<1>2. SetInst(Transition(inst, Event("MarkRestoring"))) /\ inst.op = "None" /\ mapped
  BY DEF PollRestore, AdmitsRecoverLost
<1> QED
  BY <1>1, <1>2, SetInstEffect, MarkRestoringEffect

\* The poll's observation moves the liveness where its current capture says, reopens
\* an interrupted run only on a capture of a working agent, and sends every end of a
\* run it may have seen to the checkpoint.
LEMMA PollObserveEffect ==
    ASSUME CoreInv, PollObserve
    PROVE  /\ Sound(inst') /\ inst'.op = inst.op
           /\ inst'.lv \in {inst.lv, seen, "Lost"} /\ inst'.lv \in Healths
           /\ inst.run = "ended" => inst'.run = "ended"
           /\ inst.run # "active" /\ ~(fresh /\ seen = "Running") => inst'.run = inst.run
           /\ inst'.lv # inst.lv => fresh /\ seen # "unknown"
           /\ pc'["poll"] \in {"checkpoint", "persist", "lost"}
           /\ before.active /\ inst'.run # "active" => pc'["poll"] = "checkpoint"
           /\ inst'.run # inst.run /\ inst.run # "active" => pc'["poll"] = "checkpoint"
<1> DEFINE After(resumed) == IF seen = "unknown" \/ ~fresh
                             THEN resumed
                             ELSE Transition(resumed, ObserveLiveness(seen))
           Target(resumed, i) ==
               IF \/ resumed # inst
                  \/ before.active /\ i.run # "active" THEN "checkpoint"
               ELSE IF i.lv # before.lv THEN "persist" ELSE "lost"
<1>1. /\ Sound(inst) /\ fresh \in BOOLEAN /\ inst.lv \in Healths
      /\ seen \in {"Running", "Ready", "Lost", "unknown"}
      /\ fresh /\ seen = "Running" => inst.lv # "Archived"
  BY DEF CoreInv, NoteType, RowAgrees, CaptureCurrent
<1>2. PICK resumed \in {inst} \cup (IF seen = "Running"
                                    THEN {AtEpoch(ResumeInterruptedTaskRun(inst))}
                                    ELSE {}) :
         inst' = After(resumed) /\ Goto("poll", Target(resumed, After(resumed)))
  BY DEF PollObserve
<1>3. pc'["poll"] = Target(resumed, After(resumed))
  <2>1. Target(resumed, After(resumed)) \in Labels["poll"]
    BY DEF Labels
  <2> QED
    BY <1>2, <2>1, PcStep DEF CoreInv, Actors
<1>4. /\ Sound(resumed) /\ resumed.op = inst.op /\ resumed.lv = inst.lv
      /\ inst.run # "interrupted" => resumed = inst
      /\ ~(fresh /\ seen = "Running") => resumed = inst
      /\ resumed.run # inst.run => resumed.run = "active"
  <2>1. CASE resumed = inst
    BY <1>1, <2>1
  <2>2. CASE resumed # inst
    <3>1. seen = "Running" /\ fresh /\ resumed = ResumeInterruptedTaskRun(inst)
      BY <1>2, <2>2 DEF AtEpoch
    <3> QED
      BY <1>1, <3>1, ResumeEffect
  <2> QED
    BY <2>1, <2>2
<1>5. /\ Sound(inst') /\ inst'.op = resumed.op
      /\ inst'.lv \in {resumed.lv, seen, "Lost"} /\ inst'.lv \in Healths
      /\ inst'.run \in {resumed.run, "ended"}
      /\ resumed.run # "active" => inst'.run = resumed.run
      /\ inst'.lv # resumed.lv => fresh /\ seen # "unknown"
  <2>1. CASE seen = "unknown" \/ ~fresh
    BY <1>1, <1>2, <1>4, <2>1
  <2>2. CASE ~(seen = "unknown" \/ ~fresh)
    <3>1. seen \in Liveness \ {"Archived"} /\ seen \in Healths /\ "Lost" \in Healths
      BY <1>1, <2>2 DEF Liveness, Healths
    <3>2. inst' = Transition(resumed, ObserveLiveness(seen))
      BY <1>2, <2>2
    <3> QED
      BY <1>1, <1>4, <2>2, <3>1, <3>2, ObserveLivenessEffect
  <2> QED
    BY <2>1, <2>2
<1>6. /\ pc'["poll"] \in {"checkpoint", "persist", "lost"}
      /\ before.active /\ inst'.run # "active" => pc'["poll"] = "checkpoint"
      /\ resumed # inst => pc'["poll"] = "checkpoint"
  BY <1>2, <1>3
<1> HIDE DEF After, Target
<1>7. /\ inst.run = "ended" => inst'.run = "ended"
      /\ inst.run # "active" /\ ~(fresh /\ seen = "Running") => inst'.run = inst.run
      /\ inst'.run # inst.run /\ inst.run # "active" => pc'["poll"] = "checkpoint"
  BY <1>4, <1>5, <1>6
<1> QED
  BY <1>4, <1>5, <1>6, <1>7

\* The instance a new daemon builds from the row, and what becomes of the row.
LEMMA LoadEffect ==
    ASSUME CoreInv, Load
    PROVE  /\ Sound(inst') /\ inst'.op = "None" /\ inst'.lv \in Healths
           /\ disk' \in Row /\ disk'.exists = disk.exists /\ disk'.killed = disk.killed
           /\ disk'.lv = disk.lv /\ disk'.path = disk.path
           /\ owed' \in BOOLEAN /\ pane' \in Panes
           /\ disk'.run = inst'.run \/ owed'
           /\ disk'.run \in {disk.run, inst'.run}
           /\ disk.run # "active" => inst'.run = disk.run /\ disk'.run = disk.run
           /\ disk.lv = "Archived" => disk'.run = disk.run
           /\ inst'.run = "active" => disk'.run = "active"
           /\ pane = "none" /\ pane' # "none" => disk.exists /\ ~disk.killed
           /\ pane' = "none" => pane = "none"
<1>1. /\ disk \in Row /\ disk.lv \in Healths /\ pane \in Panes
      /\ disk.lv = "Archived" => disk.run # "active"
  BY DEF CoreInv, RowAgrees, WorldType
<1>2. /\ Loaded(disk).lv = disk.lv /\ Loaded(disk).op = "None"
      /\ Loaded(disk).run = disk.run /\ Loaded(disk).settling = FALSE
      /\ Loaded(disk) \in Instance
  BY <1>1, ResetTimesAssumption DEF Loaded, Row, Instance, InFlightOp, Healths
<1>3. disk.lv = "Archived" => Loaded(disk).started = FALSE /\ Loaded(disk).shelved = TRUE
  BY DEF Loaded
<1>4. Sound(Loaded(disk))
  BY <1>1, <1>2, <1>3 DEF Sound, Inert, Channel
<1>5. CASE LoadKeeps
  BY <1>1, <1>2, <1>4, <1>5 DEF LoadKeeps
<1>6. CASE LoadDefers
  <2>1. /\ Sound(inst') /\ inst'.lv = "Lost" /\ inst'.op = "None" /\ inst'.run = disk.run
    BY <1>2, <1>4, <1>6 DEF LoadDefers, Sound, Inert, Channel, Instance, Liveness
  <2> QED
    BY <1>1, <1>6, <2>1 DEF LoadDefers, Healths
<1>7. CASE LoadReplaces /\ disk.exists /\ ~LoadsInert(disk)
  <2> DEFINE i == IF disk.run = "active"
                  THEN [Loaded(disk) EXCEPT !.run = "interrupted", !.held = FALSE]
                  ELSE Loaded(disk)
  <2>1. /\ Sound(i) /\ i.lv = disk.lv /\ i.op = "None"
        /\ i.run = IF disk.run = "active" THEN "interrupted" ELSE disk.run
        /\ i.run \in RunMarker /\ i.held \in BOOLEAN
    <3>1. CASE disk.run = "active"
      <4>1. disk.lv # "Archived"
        BY <1>1, <3>1
      <4> QED
        BY <1>2, <3>1, <4>1 DEF Sound, Inert, Channel, Instance, RunMarker
    <3>2. CASE disk.run # "active"
      BY <1>2, <1>4, <3>2 DEF Sound, Instance
    <3> QED
      BY <3>1, <3>2
  <2>2. /\ inst' = i
        /\ pane' = IF pane = "none" THEN "busy" ELSE pane
        /\ \/ disk' = [disk EXCEPT !.run = i.run, !.held = i.held] /\ owed' = FALSE
           \/ owed' = TRUE /\ disk' = disk
    BY <1>7 DEF LoadReplaces
  <2> HIDE DEF i
  <2>3. /\ disk' \in Row /\ disk'.exists = disk.exists /\ disk'.killed = disk.killed
        /\ disk'.lv = disk.lv /\ disk'.path = disk.path
        /\ disk'.run = i.run \/ (owed' = TRUE /\ disk' = disk)
        /\ owed' \in BOOLEAN
    BY <1>1, <2>1, <2>2 DEF Row
  <2>4. ~disk.killed /\ pane' \in Panes /\ disk.lv # "Archived"
        /\ (pane' = "none" => pane = "none")
    BY <1>1, <1>7, <2>2, PanesAssumption DEF LoadsInert
  <2> QED
    BY <1>1, <1>7, <2>1, <2>2, <2>3, <2>4
<1> QED
  BY <1>5, <1>6, <1>7 DEF Load

-----------------------------------------------------------------------------
(* The first layer, one lemma per action: those that leave the instance    *)
(* alone, then those that write it.                                        *)

\* KillClaim keeps the first layer.
LEMMA CoreKillClaim ==
    ASSUME CoreInv, KillClaim
    PROVE  CoreInv'
<1> USE DEF CoreInv
<1>1. \E l \in Labels["kill"] : Goto("kill", l)
  BY DEF KillClaim, Labels
<1>2. PcType' /\ \A b \in Actors : b # "kill" => pc'[b] = pc[b]
  BY <1>1, PcStep DEF Actors
<1>3. Sound(inst') /\ disk' \in Row /\ RowAgrees' /\ CaptureCurrent'
  BY DEF KillClaim, mem, watch, marks, notes, RowAgrees, CaptureCurrent
<1>4. MemType' /\ WorldType' /\ LockType' /\ NoteType'
  BY DEF KillClaim, mem, world, watch, marks, notes, MemType, WorldType, LockType, Actors,
     NoteType
<1>5. LockHeld' /\ FenceOwned'
  BY <1>2 DEF KillClaim, mem, Goto, LockHeld, KillLocked, FenceOwned
<1> QED
  BY <1>2, <1>3, <1>4, <1>5

\* KillLock keeps the first layer.
LEMMA CoreKillLock ==
    ASSUME CoreInv, KillLock
    PROVE  CoreInv'
<1> USE DEF CoreInv
<1>1. \E l \in Labels["kill"] : Goto("kill", l)
  BY DEF KillLock, Labels
<1>2. PcType' /\ \A b \in Actors : b # "kill" => pc'[b] = pc[b]
  BY <1>1, PcStep DEF Actors
<1>3. Sound(inst') /\ disk' \in Row /\ RowAgrees' /\ MemType' /\ WorldType' /\ LockType'
   /\ NoteType' /\ LockHeld' /\ FenceOwned' /\ CaptureCurrent'
  BY <1>2 DEF KillLock, mem, world, watch, marks, notes, RowAgrees, Goto, MemType,
     WorldType, LockType, Actors, NoteType, PcType, LockHeld, KillLocked, FenceOwned,
     CaptureCurrent
<1> QED
  BY <1>2, <1>3

\* SettleTeardown keeps the first layer.
LEMMA CoreSettleTeardown ==
    ASSUME CoreInv, NEW a \in {"kill", "poll"}, SettleTeardown(a)
    PROVE  CoreInv'
<1> USE DEF CoreInv
<1>1. \E l \in Labels[a] : Goto(a, l)
  BY DEF SettleTeardown, Labels
<1>2. PcType' /\ \A b \in Actors : b # a => pc'[b] = pc[b]
  BY <1>1, PcStep DEF Actors
<1>3. Sound(inst') /\ disk' \in Row /\ RowAgrees' /\ CaptureCurrent'
  BY RowOfInstance DEF SettleTeardown, mem, watch, marks, Persist, RowAgrees,
     CaptureCurrent
<1>4. MemType' /\ WorldType' /\ LockType' /\ NoteType'
  BY DEF SettleTeardown, mem, world, locks, watch, marks, MemType, WorldType, LockType,
     Persist, NoteType
<1>5. LockHeld' /\ FenceOwned'
  BY <1>2 DEF SettleTeardown, mem, locks, Goto, LockHeld, KillLocked, PollLocked,
     FenceOwned
<1> QED
  BY <1>2, <1>3, <1>4, <1>5

\* SettleFails keeps the first layer.
LEMMA CoreSettleFails ==
    ASSUME CoreInv, NEW a \in {"kill", "poll"}, SettleFails(a)
    PROVE  CoreInv'
<1> USE DEF CoreInv
<1>1. \E l \in Labels[a] : Goto(a, l)
  BY DEF SettleFails, Labels
<1>2. PcType' /\ \A b \in Actors : b # a => pc'[b] = pc[b]
  BY <1>1, PcStep DEF Actors
<1>3. Sound(inst') /\ disk' \in Row /\ RowAgrees' /\ MemType' /\ WorldType' /\ LockType'
   /\ NoteType' /\ LockHeld' /\ FenceOwned' /\ CaptureCurrent'
  BY <1>2 DEF SettleFails, mem, world, locks, watch, marks, notes, RowAgrees, Goto,
     MemType, WorldType, LockType, NoteType, LockHeld, KillLocked, PollLocked, FenceOwned,
     CaptureCurrent
<1> QED
  BY <1>2, <1>3

\* EraseRecord keeps the first layer.
LEMMA CoreEraseRecord ==
    ASSUME CoreInv, NEW a \in {"kill", "poll"}, EraseRecord(a)
    PROVE  CoreInv'
<1> USE DEF CoreInv
<1>1. \E l \in Labels[a] : Goto(a, l)
  BY DEF EraseRecord, Labels
<1>2. PcType' /\ \A b \in Actors : b # a => pc'[b] = pc[b]
  BY <1>1, PcStep DEF Actors
<1>3. Sound(inst') /\ disk' \in Row /\ RowAgrees' /\ CaptureCurrent'
  BY DEF EraseRecord, watch, marks, notes, RowAgrees, Row, CaptureCurrent
<1>4. MemType' /\ WorldType' /\ LockType'
  BY DEF EraseRecord, world, locks, MemType, WorldType, LockType
<1>5. NoteType'
  BY DEF EraseRecord, watch, marks, notes, NoteType
<1>6. LockHeld' /\ FenceOwned'
  BY <1>2 DEF EraseRecord, locks, Goto, LockHeld, KillLocked, PollLocked, FenceOwned
<1> QED
  BY <1>2, <1>3, <1>4, <1>5, <1>6

\* EraseFails keeps the first layer.
LEMMA CoreEraseFails ==
    ASSUME CoreInv, NEW a \in {"kill", "poll"}, EraseFails(a)
    PROVE  CoreInv'
<1> USE DEF CoreInv
<1>1. \E l \in Labels[a] : Goto(a, l)
  BY DEF EraseFails, Labels
<1>2. PcType' /\ \A b \in Actors : b # a => pc'[b] = pc[b]
  BY <1>1, PcStep DEF Actors
<1>3. Sound(inst') /\ disk' \in Row /\ RowAgrees' /\ MemType' /\ WorldType' /\ LockType'
   /\ NoteType' /\ LockHeld' /\ FenceOwned' /\ CaptureCurrent'
  BY <1>2 DEF EraseFails, mem, world, locks, watch, marks, notes, RowAgrees, Goto, MemType,
     WorldType, LockType, NoteType, LockHeld, KillLocked, PollLocked, FenceOwned,
     CaptureCurrent
<1> QED
  BY <1>2, <1>3

\* KillUnlock keeps the first layer.
LEMMA CoreKillUnlock ==
    ASSUME CoreInv, NEW a \in {"kill", "poll"}, KillUnlock(a)
    PROVE  CoreInv'
<1> USE DEF CoreInv
<1>1. \E l \in Labels[a] : Goto(a, l)
  BY DEF KillUnlock, Labels
<1>2. PcType' /\ \A b \in Actors : b # a => pc'[b] = pc[b]
  BY <1>1, PcStep DEF Actors
<1>3. Sound(inst') /\ disk' \in Row /\ RowAgrees' /\ MemType' /\ WorldType' /\ LockType'
   /\ NoteType' /\ LockHeld' /\ FenceOwned' /\ CaptureCurrent'
  BY <1>2 DEF KillUnlock, mem, world, watch, marks, notes, RowAgrees, Goto, MemType,
     WorldType, LockType, NoteType, PcType, LockHeld, KillLocked, PollLocked, FenceOwned,
     CaptureCurrent
<1> QED
  BY <1>2, <1>3

\* KillUnclaim keeps the first layer.
LEMMA CoreKillUnclaim ==
    ASSUME CoreInv, NEW a \in {"kill", "poll"}, KillUnclaim(a)
    PROVE  CoreInv'
<1> USE DEF CoreInv
<1>1. \E l \in Labels[a] : Goto(a, l)
  BY DEF KillUnclaim, Labels
<1>2. PcType' /\ \A b \in Actors : b # a => pc'[b] = pc[b]
  BY <1>1, PcStep DEF Actors
<1>3. Sound(inst') /\ disk' \in Row /\ RowAgrees' /\ MemType' /\ WorldType' /\ LockType'
   /\ NoteType' /\ LockHeld' /\ FenceOwned' /\ CaptureCurrent'
  BY <1>2 DEF KillUnclaim, mem, world, watch, marks, notes, RowAgrees, Goto, MemType,
     WorldType, LockType, NoteType, LockHeld, KillLocked, PollLocked, FenceOwned,
     CaptureCurrent
<1> QED
  BY <1>2, <1>3

\* ArchiveRequest keeps the first layer.
LEMMA CoreArchiveRequest ==
    ASSUME CoreInv, ArchiveRequest
    PROVE  CoreInv'
<1> USE DEF CoreInv
<1>1. \E l \in Labels["archive"] : Goto("archive", l)
  BY DEF ArchiveRequest, Labels
<1>2. PcType' /\ \A b \in Actors : b # "archive" => pc'[b] = pc[b]
  BY <1>1, PcStep DEF Actors
<1>3. Sound(inst') /\ disk' \in Row /\ RowAgrees' /\ CaptureCurrent'
  BY DEF ArchiveRequest, mem, RowAgrees, CaptureCurrent
<1>4. MemType' /\ WorldType' /\ LockType' /\ NoteType'
  BY DEF ArchiveRequest, mem, world, locks, watch, marks, notes, MemType, WorldType,
     LockType, NoteType
<1>5. LockHeld' /\ FenceOwned'
  BY <1>2 DEF ArchiveRequest, mem, locks, Goto, LockHeld, ArchiveLocked, FenceOwned
<1> QED
  BY <1>2, <1>3, <1>4, <1>5

\* ArchiveLock keeps the first layer.
LEMMA CoreArchiveLock ==
    ASSUME CoreInv, ArchiveLock
    PROVE  CoreInv'
<1> USE DEF CoreInv
<1>1. \E l \in Labels["archive"] : Goto("archive", l)
  BY DEF ArchiveLock, Labels
<1>2. PcType' /\ \A b \in Actors : b # "archive" => pc'[b] = pc[b]
  BY <1>1, PcStep DEF Actors
<1>3. Sound(inst') /\ disk' \in Row /\ RowAgrees' /\ MemType' /\ WorldType' /\ LockType'
   /\ NoteType' /\ LockHeld' /\ FenceOwned' /\ CaptureCurrent'
  BY <1>2 DEF ArchiveLock, mem, world, watch, marks, notes, RowAgrees, Goto, MemType,
     WorldType, LockType, Actors, NoteType, PcType, LockHeld, ArchiveLocked, FenceOwned,
     CaptureCurrent
<1> QED
  BY <1>2, <1>3

\* ArchiveAbort keeps the first layer.
LEMMA CoreArchiveAbort ==
    ASSUME CoreInv, ArchiveAbort
    PROVE  CoreInv'
<1> USE DEF CoreInv
<1>1. \E l \in Labels["archive"] : Goto("archive", l)
  BY DEF ArchiveAbort, Labels
<1>2. PcType' /\ \A b \in Actors : b # "archive" => pc'[b] = pc[b]
  BY <1>1, PcStep DEF Actors
<1>3. Sound(inst') /\ disk' \in Row /\ RowAgrees' /\ CaptureCurrent'
  BY RowOfInstance DEF ArchiveAbort, mem, watch, marks, Persist, SaveOrReport, RowAgrees,
     CaptureCurrent
<1>4. MemType' /\ WorldType' /\ LockType'
  BY DEF ArchiveAbort, mem, world, locks, MemType, WorldType, LockType
<1>5. NoteType'
  BY DEF ArchiveAbort, watch, marks, Persist, SaveOrReport, NoteType
<1>6. LockHeld' /\ FenceOwned'
  BY <1>2 DEF ArchiveAbort, mem, locks, Goto, LockHeld, ArchiveLocked, FenceOwned
<1> QED
  BY <1>2, <1>3, <1>4, <1>5, <1>6

\* ArchiveSave keeps the first layer.
LEMMA CoreArchiveSave ==
    ASSUME CoreInv, ArchiveSave
    PROVE  CoreInv'
<1> USE DEF CoreInv
<1>1. \E l \in Labels["archive"] : Goto("archive", l)
  BY DEF ArchiveSave, Labels
<1>2. PcType' /\ \A b \in Actors : b # "archive" => pc'[b] = pc[b]
  BY <1>1, PcStep DEF Actors
<1>3. Sound(inst') /\ disk' \in Row /\ RowAgrees' /\ CaptureCurrent'
  BY RowOfInstance DEF ArchiveSave, mem, watch, marks, Persist, PersistFails, RowAgrees,
     CaptureCurrent
<1>4. MemType' /\ WorldType' /\ LockType'
  BY DEF ArchiveSave, mem, world, locks, MemType, WorldType, LockType
<1>5. NoteType'
  BY DEF ArchiveSave, watch, marks, Persist, PersistFails, NoteType
<1>6. LockHeld' /\ FenceOwned'
  BY <1>2 DEF ArchiveSave, mem, locks, Goto, Actors, PcType, LockHeld, ArchiveLocked,
     FenceOwned
<1> QED
  BY <1>2, <1>3, <1>4, <1>5, <1>6

\* ArchiveUndone keeps the first layer.
LEMMA CoreArchiveUndone ==
    ASSUME CoreInv, ArchiveUndone
    PROVE  CoreInv'
<1> USE DEF CoreInv
<1>1. \E l \in Labels["archive"] : Goto("archive", l)
  BY DEF ArchiveUndone, Labels
<1>2. PcType' /\ \A b \in Actors : b # "archive" => pc'[b] = pc[b]
  BY <1>1, PcStep DEF Actors
<1>3. Sound(inst') /\ disk' \in Row /\ RowAgrees' /\ CaptureCurrent'
  BY RowOfInstance DEF ArchiveUndone, mem, watch, marks, Persist, SaveOrReport, RowAgrees,
     CaptureCurrent
<1>4. MemType' /\ WorldType' /\ LockType'
  BY DEF ArchiveUndone, mem, world, locks, MemType, WorldType, LockType
<1>5. NoteType'
  BY DEF ArchiveUndone, watch, marks, Persist, SaveOrReport, NoteType
<1>6. LockHeld' /\ FenceOwned'
  BY <1>2 DEF ArchiveUndone, mem, locks, Goto, LockHeld, ArchiveLocked, FenceOwned
<1> QED
  BY <1>2, <1>3, <1>4, <1>5, <1>6

\* ArchiveKeep keeps the first layer.
LEMMA CoreArchiveKeep ==
    ASSUME CoreInv, ArchiveKeep
    PROVE  CoreInv'
<1> USE DEF CoreInv
<1>1. \E l \in Labels["archive"] : Goto("archive", l)
  BY DEF ArchiveKeep, Labels
<1>2. PcType' /\ \A b \in Actors : b # "archive" => pc'[b] = pc[b]
  BY <1>1, PcStep DEF Actors
<1>3. Sound(inst') /\ disk' \in Row /\ RowAgrees' /\ CaptureCurrent'
  BY RowOfInstance DEF ArchiveKeep, mem, watch, marks, Persist, SaveOrReport, RowAgrees,
     CaptureCurrent
<1>4. MemType' /\ WorldType' /\ LockType'
  BY DEF ArchiveKeep, mem, world, locks, MemType, WorldType, LockType
<1>5. NoteType'
  BY DEF ArchiveKeep, watch, marks, Persist, SaveOrReport, NoteType
<1>6. LockHeld' /\ FenceOwned'
  BY <1>2 DEF ArchiveKeep, mem, locks, Goto, LockHeld, ArchiveLocked, FenceOwned
<1> QED
  BY <1>2, <1>3, <1>4, <1>5, <1>6

\* ArchiveUnclaim keeps the first layer.
LEMMA CoreArchiveUnclaim ==
    ASSUME CoreInv, ArchiveUnclaim
    PROVE  CoreInv'
<1> USE DEF CoreInv
<1>1. \E l \in Labels["archive"] : Goto("archive", l)
  BY DEF ArchiveUnclaim, Labels
<1>2. PcType' /\ \A b \in Actors : b # "archive" => pc'[b] = pc[b]
  BY <1>1, PcStep DEF Actors
<1>3. Sound(inst') /\ disk' \in Row /\ RowAgrees' /\ MemType' /\ WorldType' /\ LockType'
   /\ NoteType' /\ LockHeld' /\ FenceOwned' /\ CaptureCurrent'
  BY <1>2 DEF ArchiveUnclaim, mem, world, watch, marks, notes, RowAgrees, Goto, MemType,
     WorldType, LockType, NoteType, LockHeld, ArchiveLocked, FenceOwned, CaptureCurrent
<1> QED
  BY <1>2, <1>3

\* ArchiveUnlock keeps the first layer.
LEMMA CoreArchiveUnlock ==
    ASSUME CoreInv, ArchiveUnlock
    PROVE  CoreInv'
<1> USE DEF CoreInv
<1>1. \E l \in Labels["archive"] : Goto("archive", l)
  BY DEF ArchiveUnlock, Labels
<1>2. PcType' /\ \A b \in Actors : b # "archive" => pc'[b] = pc[b]
  BY <1>1, PcStep DEF Actors
<1>3. Sound(inst') /\ disk' \in Row /\ RowAgrees' /\ MemType' /\ WorldType' /\ LockType'
   /\ NoteType' /\ LockHeld' /\ FenceOwned' /\ CaptureCurrent'
  BY <1>2 DEF ArchiveUnlock, mem, world, watch, marks, notes, RowAgrees, Goto, MemType,
     WorldType, LockType, NoteType, PcType, LockHeld, ArchiveLocked, FenceOwned,
     CaptureCurrent
<1> QED
  BY <1>2, <1>3

\* RestoreRequest keeps the first layer.
LEMMA CoreRestoreRequest ==
    ASSUME CoreInv, RestoreRequest
    PROVE  CoreInv'
<1> USE DEF CoreInv
<1>1. \E l \in Labels["restore"] : Goto("restore", l)
  BY DEF RestoreRequest, Labels
<1>2. PcType' /\ \A b \in Actors : b # "restore" => pc'[b] = pc[b]
  BY <1>1, PcStep DEF Actors
<1>3. Sound(inst') /\ disk' \in Row /\ RowAgrees' /\ CaptureCurrent'
  BY DEF RestoreRequest, mem, watch, marks, notes, RowAgrees, CaptureCurrent
<1>4. MemType' /\ WorldType' /\ LockType' /\ NoteType'
  BY DEF RestoreRequest, mem, world, locks, watch, marks, notes, MemType, WorldType,
     LockType, NoteType
<1>5. LockHeld' /\ FenceOwned'
  BY <1>2 DEF RestoreRequest, mem, locks, Goto, Actors, PcType, LockHeld, RestoreLocked,
     FenceOwned
<1> QED
  BY <1>2, <1>3, <1>4, <1>5

\* RestoreLock keeps the first layer.
LEMMA CoreRestoreLock ==
    ASSUME CoreInv, RestoreLock
    PROVE  CoreInv'
<1> USE DEF CoreInv
<1>1. \E l \in Labels["restore"] : Goto("restore", l)
  BY DEF RestoreLock, Labels
<1>2. PcType' /\ \A b \in Actors : b # "restore" => pc'[b] = pc[b]
  BY <1>1, PcStep DEF Actors
<1>3. Sound(inst') /\ disk' \in Row /\ RowAgrees' /\ MemType' /\ WorldType' /\ LockType'
   /\ NoteType' /\ LockHeld' /\ FenceOwned' /\ CaptureCurrent'
  BY <1>2 DEF RestoreLock, mem, world, watch, marks, notes, RowAgrees, Goto, MemType,
     WorldType, LockType, Actors, NoteType, PcType, LockHeld, RestoreLocked, FenceOwned,
     CaptureCurrent
<1> QED
  BY <1>2, <1>3

\* RestoreBack keeps the first layer.
LEMMA CoreRestoreBack ==
    ASSUME CoreInv, RestoreBack
    PROVE  CoreInv'
<1> USE DEF CoreInv
<1>1. \E l \in Labels["restore"] : Goto("restore", l)
  BY DEF RestoreBack, Labels
<1>2. PcType' /\ \A b \in Actors : b # "restore" => pc'[b] = pc[b]
  BY <1>1, PcStep DEF Actors
<1>3. Sound(inst') /\ disk' \in Row /\ RowAgrees' /\ MemType' /\ WorldType' /\ LockType'
   /\ NoteType' /\ LockHeld' /\ FenceOwned' /\ CaptureCurrent'
  BY <1>2 DEF RestoreBack, locks, watch, marks, notes, RowAgrees, Goto, MemType, WorldType,
     LockType, Actors, Places, NoteType, PcType, LockHeld, RestoreLocked, FenceOwned,
     CaptureCurrent
<1> QED
  BY <1>2, <1>3

\* RestoreRecord keeps the first layer.
LEMMA CoreRestoreRecord ==
    ASSUME CoreInv, RestoreRecord
    PROVE  CoreInv'
<1> USE DEF CoreInv
<1>1. \E l \in Labels["restore"] : Goto("restore", l)
  BY DEF RestoreRecord, Labels
<1>2. PcType' /\ \A b \in Actors : b # "restore" => pc'[b] = pc[b]
  BY <1>1, PcStep DEF Actors
<1>3. Sound(inst') /\ disk' \in Row /\ RowAgrees' /\ CaptureCurrent'
  BY RowOfInstance DEF RestoreRecord, mem, watch, marks, Persist, RowAgrees, CaptureCurrent
<1>4. MemType' /\ WorldType' /\ LockType'
  BY DEF RestoreRecord, mem, world, locks, MemType, WorldType, LockType
<1>5. NoteType'
  BY DEF RestoreRecord, watch, marks, Persist, SaveOrReport, NoteType
<1>6. LockHeld' /\ FenceOwned'
  BY <1>2 DEF RestoreRecord, mem, locks, Goto, Actors, PcType, LockHeld, RestoreLocked,
     FenceOwned
<1> QED
  BY <1>2, <1>3, <1>4, <1>5, <1>6

\* RestoreCommit keeps the first layer.
LEMMA CoreRestoreCommit ==
    ASSUME CoreInv, RestoreCommit
    PROVE  CoreInv'
<1> USE DEF CoreInv
<1>1. \E l \in Labels["restore"] : Goto("restore", l)
  BY DEF RestoreCommit, Labels
<1>2. PcType' /\ \A b \in Actors : b # "restore" => pc'[b] = pc[b]
  BY <1>1, PcStep DEF Actors
<1>3. Sound(inst') /\ disk' \in Row /\ RowAgrees' /\ CaptureCurrent'
  BY RowOfInstance DEF RestoreCommit, mem, watch, marks, Persist, SaveOrReport, RowAgrees,
     CaptureCurrent
<1>4. MemType' /\ WorldType' /\ LockType'
  BY DEF RestoreCommit, mem, world, locks, MemType, WorldType, LockType
<1>5. NoteType'
  BY DEF RestoreCommit, watch, marks, Persist, SaveOrReport, NoteType
<1>6. LockHeld' /\ FenceOwned'
  BY <1>2 DEF RestoreCommit, mem, locks, Goto, LockHeld, RestoreLocked, FenceOwned
<1> QED
  BY <1>2, <1>3, <1>4, <1>5, <1>6

\* SaveSettlement keeps the first layer.
LEMMA CoreSaveSettlement ==
    ASSUME CoreInv, NEW a \in {"restore", "poll"}, SaveSettlement(a)
    PROVE  CoreInv'
<1> USE DEF CoreInv
<1>1. \E l \in Labels[a] : Goto(a, l)
  BY DEF SaveSettlement, Labels
<1>2. PcType' /\ \A b \in Actors : b # a => pc'[b] = pc[b]
  BY <1>1, PcStep DEF Actors
<1>3. Sound(inst') /\ disk' \in Row /\ RowAgrees' /\ CaptureCurrent'
  BY RowOfInstance DEF SaveSettlement, mem, watch, PersistSettlement, RowAgrees,
     CaptureCurrent
<1>4. MemType' /\ WorldType' /\ LockType'
  BY DEF SaveSettlement, mem, world, locks, MemType, WorldType, LockType
<1>5. NoteType'
  BY DEF SaveSettlement, watch, PersistSettlement, NoteType
<1>6. LockHeld' /\ FenceOwned'
  BY <1>2 DEF SaveSettlement, mem, locks, Goto, LockHeld, RestoreLocked, PollLocked,
     FenceOwned
<1> QED
  BY <1>2, <1>3, <1>4, <1>5, <1>6

\* RestoreUnclaim keeps the first layer.
LEMMA CoreRestoreUnclaim ==
    ASSUME CoreInv, RestoreUnclaim
    PROVE  CoreInv'
<1> USE DEF CoreInv
<1>1. \E l \in Labels["restore"] : Goto("restore", l)
  BY DEF RestoreUnclaim, Labels
<1>2. PcType' /\ \A b \in Actors : b # "restore" => pc'[b] = pc[b]
  BY <1>1, PcStep DEF Actors
<1>3. Sound(inst') /\ disk' \in Row /\ RowAgrees' /\ MemType' /\ WorldType' /\ LockType'
   /\ NoteType' /\ LockHeld' /\ FenceOwned' /\ CaptureCurrent'
  BY <1>2 DEF RestoreUnclaim, mem, world, watch, marks, notes, RowAgrees, Goto, MemType,
     WorldType, LockType, NoteType, LockHeld, RestoreLocked, FenceOwned, CaptureCurrent
<1> QED
  BY <1>2, <1>3

\* RestoreUnlock keeps the first layer.
LEMMA CoreRestoreUnlock ==
    ASSUME CoreInv, RestoreUnlock
    PROVE  CoreInv'
<1> USE DEF CoreInv
<1>1. \E l \in Labels["restore"] : Goto("restore", l)
  BY DEF RestoreUnlock, Labels
<1>2. PcType' /\ \A b \in Actors : b # "restore" => pc'[b] = pc[b]
  BY <1>1, PcStep DEF Actors
<1>3. Sound(inst') /\ disk' \in Row /\ RowAgrees' /\ MemType' /\ WorldType' /\ LockType'
   /\ NoteType' /\ LockHeld' /\ FenceOwned' /\ CaptureCurrent'
  BY <1>2 DEF RestoreUnlock, mem, world, watch, marks, notes, RowAgrees, Goto, MemType,
     WorldType, LockType, NoteType, PcType, LockHeld, RestoreLocked, FenceOwned,
     CaptureCurrent
<1> QED
  BY <1>2, <1>3

\* PollReap keeps the first layer.
LEMMA CorePollReap ==
    ASSUME CoreInv, PollReap
    PROVE  CoreInv'
<1> USE DEF CoreInv
<1>1. \E l \in Labels["poll"] : Goto("poll", l)
  BY DEF PollReap, Labels
<1>2. PcType' /\ \A b \in Actors : b # "poll" => pc'[b] = pc[b]
  BY <1>1, PcStep DEF Actors
<1>3. Sound(inst') /\ disk' \in Row /\ RowAgrees' /\ MemType' /\ WorldType' /\ LockType'
   /\ NoteType'
  BY DEF PollReap, mem, world, watch, marks, notes, RowAgrees, MemType, WorldType,
     LockType, Actors, NoteType
<1>4. LockHeld' /\ FenceOwned' /\ CaptureCurrent'
  BY <1>2 DEF PollReap, mem, watch, marks, notes, Goto, PcType, LockHeld, PollLocked,
     FenceOwned, CaptureCurrent
<1> QED
  BY <1>2, <1>3, <1>4

\* PollAdmit keeps the first layer.
LEMMA CorePollAdmit ==
    ASSUME CoreInv, PollAdmit
    PROVE  CoreInv'
<1> USE DEF CoreInv
<1>1. \E l \in Labels["poll"] : Goto("poll", l)
  BY DEF PollAdmit, Labels
<1>2. PcType' /\ \A b \in Actors : b # "poll" => pc'[b] = pc[b]
  BY <1>1, PcStep DEF Actors
<1>3. Sound(inst') /\ disk' \in Row /\ RowAgrees' /\ MemType' /\ WorldType' /\ LockType'
   /\ NoteType' /\ LockHeld' /\ FenceOwned' /\ CaptureCurrent'
  BY <1>2 DEF PollAdmit, mem, world, locks, RowAgrees, Goto, MemType, WorldType, LockType,
     NoteType, Glance, Sound, Instance, LockHeld, PollLocked, FenceOwned, CaptureCurrent
<1> QED
  BY <1>2, <1>3

\* PollSkip keeps the first layer.
LEMMA CorePollSkip ==
    ASSUME CoreInv, PollSkip
    PROVE  CoreInv'
<1> USE DEF CoreInv
<1>1. \E l \in Labels["poll"] : Goto("poll", l)
  BY DEF PollSkip, Labels
<1>2. PcType' /\ \A b \in Actors : b # "poll" => pc'[b] = pc[b]
  BY <1>1, PcStep DEF Actors
<1>3. Sound(inst') /\ disk' \in Row /\ RowAgrees' /\ MemType' /\ WorldType' /\ LockType'
   /\ NoteType' /\ LockHeld' /\ FenceOwned' /\ CaptureCurrent'
  BY <1>2 DEF PollSkip, mem, world, locks, watch, marks, notes, RowAgrees, Goto, MemType,
     WorldType, LockType, NoteType, LockHeld, PollLocked, FenceOwned, CaptureCurrent
<1> QED
  BY <1>2, <1>3

\* PollSnapshot keeps the first layer.
LEMMA CorePollSnapshot ==
    ASSUME CoreInv, PollSnapshot
    PROVE  CoreInv'
<1> USE DEF CoreInv
<1>1. \E l \in Labels["poll"] : Goto("poll", l)
  BY DEF PollSnapshot, Labels
<1>2. PcType' /\ \A b \in Actors : b # "poll" => pc'[b] = pc[b]
  BY <1>1, PcStep DEF Actors
<1>3. Sound(inst') /\ disk' \in Row /\ RowAgrees'
  BY DEF PollSnapshot, mem, RowAgrees
<1>4. MemType' /\ WorldType' /\ LockType'
  BY DEF PollSnapshot, mem, world, locks, MemType, WorldType, LockType
<1>5. NoteType'
  <2>1. (CASE pane = "none" -> {"Lost"}
           [] pane = "busy" /\ inst.started -> {"Running"}
           [] pane = "idle" /\ inst.started -> {"Ready"}
           [] OTHER -> {}) \subseteq {"Lost", "Running", "Ready"}
    OBVIOUS
  <2>2. seen' \in {"Running", "Ready", "Lost", "unknown"}
    BY <2>1 DEF PollSnapshot, NoteType
  <2>3. /\ fresh' = TRUE \/ fresh' = fresh
        /\ before' = before \/ before' = Nothing
        /\ owed' = owed /\ unrecorded' = unrecorded
    BY Zenon DEF PollSnapshot
  <2>4. Nothing \in Glance
    BY DEF Nothing, Glance, Liveness
  <2> QED
    BY <2>2, <2>3, <2>4 DEF NoteType
<1>6. LockHeld'
  BY <1>2 DEF PollSnapshot, locks, Goto, Actors, PcType, LockHeld, PollLocked
<1>7. FenceOwned'
  BY <1>2 DEF PollSnapshot, mem, Actors, FenceOwned
<1>8. CaptureCurrent'
  BY DEF PollSnapshot, mem, CaptureCurrent, Sound, Inert
<1> QED
  BY <1>2, <1>3, <1>4, <1>5, <1>6, <1>7, <1>8

\* PollPersist keeps the first layer.
LEMMA CorePollPersist ==
    ASSUME CoreInv, PollPersist
    PROVE  CoreInv'
<1> USE DEF CoreInv
<1>1. \E l \in Labels["poll"] : Goto("poll", l)
  BY DEF PollPersist, Labels
<1>2. PcType' /\ \A b \in Actors : b # "poll" => pc'[b] = pc[b]
  BY <1>1, PcStep DEF Actors
<1>3. Sound(inst') /\ disk' \in Row /\ RowAgrees' /\ CaptureCurrent'
  BY RowOfInstance DEF PollPersist, mem, watch, Persist, PersistFails, RowAgrees,
     CaptureCurrent
<1>4. MemType' /\ WorldType' /\ LockType'
  BY DEF PollPersist, mem, world, locks, MemType, WorldType, LockType
<1>5. NoteType'
  BY DEF PollPersist, watch, Persist, PersistFails, NoteType
<1>6. LockHeld' /\ FenceOwned'
  BY <1>2 DEF PollPersist, mem, locks, Goto, LockHeld, PollLocked, FenceOwned
<1> QED
  BY <1>2, <1>3, <1>4, <1>5, <1>6

\* PollPass keeps the first layer.
LEMMA CorePollPass ==
    ASSUME CoreInv, PollPass
    PROVE  CoreInv'
<1> USE DEF CoreInv
<1>1. \E l \in Labels["poll"] : Goto("poll", l)
  BY DEF PollPass, Labels
<1>2. PcType' /\ \A b \in Actors : b # "poll" => pc'[b] = pc[b]
  BY <1>1, PcStep DEF Actors
<1>3. Sound(inst') /\ disk' \in Row /\ RowAgrees' /\ MemType' /\ WorldType' /\ LockType'
   /\ NoteType' /\ LockHeld' /\ FenceOwned' /\ CaptureCurrent'
  BY <1>2 DEF PollPass, mem, world, locks, watch, marks, notes, RowAgrees, Goto, MemType,
     WorldType, LockType, NoteType, LockHeld, PollLocked, FenceOwned, CaptureCurrent
<1> QED
  BY <1>2, <1>3

\* PollFree keeps the first layer.
LEMMA CorePollFree ==
    ASSUME CoreInv, PollFree
    PROVE  CoreInv'
<1> USE DEF CoreInv
<1>1. \E l \in Labels["poll"] : Goto("poll", l)
  BY DEF PollFree, Labels
<1>2. PcType' /\ \A b \in Actors : b # "poll" => pc'[b] = pc[b]
  BY <1>1, PcStep DEF Actors
<1>3. Sound(inst') /\ disk' \in Row /\ RowAgrees' /\ MemType' /\ WorldType' /\ LockType'
   /\ NoteType' /\ LockHeld' /\ FenceOwned' /\ CaptureCurrent'
  BY <1>2 DEF PollFree, mem, world, watch, marks, notes, RowAgrees, Goto, MemType,
     WorldType, LockType, NoteType, PcType, LockHeld, PollLocked, FenceOwned,
     CaptureCurrent
<1> QED
  BY <1>2, <1>3

\* FlushOwed keeps the first layer.
LEMMA CoreFlushOwed ==
    ASSUME CoreInv, FlushOwed
    PROVE  CoreInv'
<1> USE DEF CoreInv
<1>1. \E l \in Labels["poll"] : Goto("poll", l)
  BY DEF FlushOwed, Labels
<1>2. PcType' /\ \A b \in Actors : b # "poll" => pc'[b] = pc[b]
  BY <1>1, PcStep DEF Actors
<1>3. Sound(inst') /\ disk' \in Row /\ RowAgrees' /\ CaptureCurrent'
  BY RowOfInstance DEF FlushOwed, mem, watch, Persist, RowAgrees, CaptureCurrent
<1>4. MemType' /\ WorldType' /\ LockType' /\ NoteType'
  BY DEF FlushOwed, mem, world, locks, watch, MemType, WorldType, LockType, Persist,
     NoteType
<1>5. LockHeld' /\ FenceOwned'
  BY <1>2 DEF FlushOwed, mem, locks, Goto, LockHeld, PollLocked, FenceOwned
<1> QED
  BY <1>2, <1>3, <1>4, <1>5

\* FlushLater keeps the first layer.
LEMMA CoreFlushLater ==
    ASSUME CoreInv, FlushLater
    PROVE  CoreInv'
<1> USE DEF CoreInv
<1>1. \E l \in Labels["poll"] : Goto("poll", l)
  BY DEF FlushLater, Labels
<1>2. PcType' /\ \A b \in Actors : b # "poll" => pc'[b] = pc[b]
  BY <1>1, PcStep DEF Actors
<1>3. Sound(inst') /\ disk' \in Row /\ RowAgrees' /\ MemType' /\ WorldType' /\ LockType'
   /\ NoteType' /\ LockHeld' /\ FenceOwned' /\ CaptureCurrent'
  BY <1>2 DEF FlushLater, mem, world, locks, watch, RowAgrees, Goto, MemType, WorldType,
     LockType, NoteType, LockHeld, PollLocked, FenceOwned, CaptureCurrent
<1> QED
  BY <1>2, <1>3

\* KillTombstone keeps the first layer.
LEMMA CoreKillTombstone ==
    ASSUME CoreInv, KillTombstone
    PROVE  CoreInv'
<1> USE DEF CoreInv
<1>1. \E l \in Labels["kill"] : Goto("kill", l)
  BY DEF KillTombstone, Labels
<1>2. PcType' /\ \A b \in Actors : b # "kill" => pc'[b] = pc[b]
  BY <1>1, PcStep DEF Actors
<1>3. Sound(inst') /\ disk' \in Row /\ RowAgrees' /\ CaptureCurrent'
  BY KillTombstoneEffect, RowOfInstance DEF KillTombstone, watch, RowAgrees, CaptureCurrent
<1>4. MemType' /\ WorldType' /\ LockType'
  BY KillTombstoneEffect, PanesAssumption DEF KillTombstone, world, locks, MemType,
     WorldType, LockType
<1>5. NoteType'
  BY KillTombstoneEffect DEF KillTombstone, world, locks, watch, NoteType
<1>6. LockHeld' /\ FenceOwned'
  BY <1>2, KillTombstoneEffect, FenceOutsideLock DEF KillTombstone, locks, Actors,
     LockHeld, KillLocked, FenceOwned
<1> QED
  BY <1>2, <1>3, <1>4, <1>5, <1>6

\* TeardownDone keeps the first layer.
LEMMA CoreTeardownDone ==
    ASSUME CoreInv, NEW a \in {"kill", "poll"}, TeardownDone(a)
    PROVE  CoreInv'
<1> USE DEF CoreInv
<1>1. \E l \in Labels[a] : Goto(a, l)
  BY DEF TeardownDone, Labels
<1>2. PcType' /\ \A b \in Actors : b # a => pc'[b] = pc[b]
  BY <1>1, PcStep DEF Actors
<1>3. Sound(inst') /\ disk' \in Row /\ RowAgrees' /\ MemType' /\ WorldType' /\ LockType'
   /\ NoteType'
  BY TeardownEffect, PanesAssumption DEF TeardownDone, locks, watch, marks, notes,
     RowAgrees, MemType, WorldType, LockType, NoteType
<1>4. LockHeld' /\ FenceOwned' /\ CaptureCurrent'
  BY <1>2, TeardownEffect, FenceOutsideLock DEF TeardownDone, locks, watch, marks, notes,
     Goto, LockHeld, KillLocked, PollLocked, FenceOwned, CaptureCurrent
<1> QED
  BY <1>2, <1>3, <1>4

\* TeardownUnknown keeps the first layer.
LEMMA CoreTeardownUnknown ==
    ASSUME CoreInv, NEW a \in {"kill", "poll"}, TeardownUnknown(a)
    PROVE  CoreInv'
<1> USE DEF CoreInv
<1>1. \E l \in Labels[a] : Goto(a, l)
  BY DEF TeardownUnknown, Labels
<1>2. PcType' /\ \A b \in Actors : b # a => pc'[b] = pc[b]
  BY <1>1, PcStep DEF Actors
<1>3. Sound(inst') /\ disk' \in Row /\ RowAgrees' /\ MemType' /\ WorldType' /\ LockType'
   /\ NoteType'
  BY TeardownEffect, PanesAssumption DEF TeardownUnknown, locks, watch, marks, notes,
     RowAgrees, MemType, WorldType, LockType, NoteType
<1>4. LockHeld' /\ FenceOwned' /\ CaptureCurrent'
  BY <1>2, TeardownEffect, FenceOutsideLock DEF TeardownUnknown, locks, watch, marks,
     notes, Goto, Actors, PcType, LockHeld, KillLocked, PollLocked, FenceOwned,
     CaptureCurrent
<1> QED
  BY <1>2, <1>3, <1>4

\* ArchiveAdmit keeps the first layer.
LEMMA CoreArchiveAdmit ==
    ASSUME CoreInv, ArchiveAdmit
    PROVE  CoreInv'
<1> USE DEF CoreInv
<1>1. \E l \in Labels["archive"] : Goto("archive", l)
  BY DEF ArchiveAdmit, Labels
<1>2. PcType' /\ \A b \in Actors : b # "archive" => pc'[b] = pc[b]
  BY <1>1, PcStep DEF Actors
<1>3. Sound(inst') /\ disk' \in Row /\ RowAgrees' /\ MemType' /\ WorldType' /\ LockType'
   /\ NoteType'
  BY ArchiveAdmitEffect, PanesAssumption DEF ArchiveAdmit, world, watch, RowAgrees,
     MemType, WorldType, LockType, Actors, NoteType
<1>4. LockHeld' /\ FenceOwned' /\ CaptureCurrent'
  BY <1>2, ArchiveAdmitEffect, FenceOutsideLock DEF ArchiveAdmit, watch, Actors, LockHeld,
     ArchiveLocked, FenceOwned, CaptureCurrent
<1> QED
  BY <1>2, <1>3, <1>4

\* ArchiveStop keeps the first layer.
LEMMA CoreArchiveStop ==
    ASSUME CoreInv, ArchiveStop
    PROVE  CoreInv'
<1> USE DEF CoreInv
<1>1. \E l \in Labels["archive"] : Goto("archive", l)
  BY DEF ArchiveStop, Labels
<1>2. PcType' /\ \A b \in Actors : b # "archive" => pc'[b] = pc[b]
  BY <1>1, PcStep DEF Actors
<1>3. Sound(inst') /\ disk' \in Row /\ RowAgrees' /\ MemType' /\ WorldType' /\ LockType'
   /\ NoteType'
  BY ArchiveStopEffect, PanesAssumption DEF ArchiveStop, locks, watch, RowAgrees, Healths,
     MemType, WorldType, LockType, NoteType
<1>4. LockHeld' /\ FenceOwned' /\ CaptureCurrent'
  BY <1>2, ArchiveStopEffect, FenceOutsideLock DEF ArchiveStop, locks, watch, Actors,
     LockHeld, ArchiveLocked, FenceOwned, CaptureCurrent
<1> QED
  BY <1>2, <1>3, <1>4

\* ArchiveMove keeps the first layer.
LEMMA CoreArchiveMove ==
    ASSUME CoreInv, ArchiveMove
    PROVE  CoreInv'
<1> USE DEF CoreInv
<1>1. \E l \in Labels["archive"] : Goto("archive", l)
  BY DEF ArchiveMove, Labels
<1>2. PcType' /\ \A b \in Actors : b # "archive" => pc'[b] = pc[b]
  BY <1>1, PcStep DEF Actors
<1>3. Sound(inst') /\ disk' \in Row /\ RowAgrees' /\ CaptureCurrent'
  BY ArchiveMoveEffect DEF ArchiveMove, RowAgrees, Healths, CaptureCurrent
<1>4. MemType' /\ WorldType' /\ LockType'
  BY ArchiveMoveEffect, PanesAssumption DEF ArchiveMove, locks, MemType, WorldType,
     LockType, Places
<1>5. NoteType'
  BY ArchiveMoveEffect DEF ArchiveMove, locks, watch, NoteType
<1>6. LockHeld' /\ FenceOwned'
  BY <1>2, ArchiveMoveEffect, FenceOutsideLock DEF ArchiveMove, locks, Actors, LockHeld,
     ArchiveLocked, FenceOwned
<1> QED
  BY <1>2, <1>3, <1>4, <1>5, <1>6

\* ArchiveAdopt keeps the first layer.
LEMMA CoreArchiveAdopt ==
    ASSUME CoreInv, ArchiveAdopt
    PROVE  CoreInv'
<1> USE DEF CoreInv
<1>1. \E l \in Labels["archive"] : Goto("archive", l)
  BY DEF ArchiveAdopt, Labels
<1>2. PcType' /\ \A b \in Actors : b # "archive" => pc'[b] = pc[b]
  BY <1>1, PcStep DEF Actors
<1>3. Sound(inst') /\ disk' \in Row /\ RowAgrees' /\ CaptureCurrent'
  BY ArchiveAdoptEffect DEF ArchiveAdopt, RowAgrees, Healths, CaptureCurrent
<1>4. MemType' /\ WorldType' /\ LockType'
  BY ArchiveAdoptEffect, PanesAssumption DEF ArchiveAdopt, world, locks, MemType,
     WorldType, LockType
<1>5. NoteType'
  BY ArchiveAdoptEffect DEF ArchiveAdopt, world, locks, watch, NoteType
<1>6. LockHeld' /\ FenceOwned'
  BY <1>2, ArchiveAdoptEffect, FenceOutsideLock DEF ArchiveAdopt, locks, Actors, LockHeld,
     ArchiveLocked, FenceOwned
<1> QED
  BY <1>2, <1>3, <1>4, <1>5, <1>6

\* ArchiveUndo keeps the first layer.
LEMMA CoreArchiveUndo ==
    ASSUME CoreInv, ArchiveUndo
    PROVE  CoreInv'
<1> USE DEF CoreInv
<1>1. \E l \in Labels["archive"] : Goto("archive", l)
  BY DEF ArchiveUndo, Labels
<1>2. PcType' /\ \A b \in Actors : b # "archive" => pc'[b] = pc[b]
  BY <1>1, PcStep DEF Actors
<1>3. Sound(inst') /\ disk' \in Row /\ RowAgrees' /\ MemType' /\ WorldType' /\ LockType'
   /\ NoteType'
  BY ArchiveUndoEffect, PanesAssumption DEF ArchiveUndo, locks, watch, RowAgrees, Healths,
     MemType, WorldType, LockType, Places, NoteType
<1>4. LockHeld' /\ FenceOwned' /\ CaptureCurrent'
  BY <1>2, ArchiveUndoEffect, FenceOutsideLock DEF ArchiveUndo, locks, watch, Actors,
     LockHeld, ArchiveLocked, FenceOwned, CaptureCurrent
<1> QED
  BY <1>2, <1>3, <1>4

\* RestoreClaim keeps the first layer.
LEMMA CoreRestoreClaim ==
    ASSUME CoreInv, RestoreClaim
    PROVE  CoreInv'
<1> USE DEF CoreInv
<1>1. \E l \in Labels["restore"] : Goto("restore", l)
  BY DEF RestoreClaim, Labels
<1>2. PcType' /\ \A b \in Actors : b # "restore" => pc'[b] = pc[b]
  BY <1>1, PcStep DEF Actors
<1>3. Sound(inst') /\ disk' \in Row /\ RowAgrees' /\ MemType' /\ WorldType' /\ LockType'
   /\ NoteType'
  BY RestoreClaimEffect, PanesAssumption DEF RestoreClaim, world, watch, RowAgrees,
     MemType, WorldType, LockType, Actors, NoteType
<1>4. LockHeld' /\ FenceOwned' /\ CaptureCurrent'
  BY <1>2, RestoreClaimEffect, FenceOutsideLock DEF RestoreClaim, watch, Actors, LockHeld,
     RestoreLocked, FenceOwned, CaptureCurrent
<1> QED
  BY <1>2, <1>3, <1>4

\* RestoreRespawn keeps the first layer.
LEMMA CoreRestoreRespawn ==
    ASSUME CoreInv, RestoreRespawn
    PROVE  CoreInv'
<1> USE DEF CoreInv
<1>1. \E l \in Labels["restore"] : Goto("restore", l)
  BY DEF RestoreRespawn, Labels
<1>2. PcType' /\ \A b \in Actors : b # "restore" => pc'[b] = pc[b]
  BY <1>1, PcStep DEF Actors
<1>3. Sound(inst') /\ disk' \in Row /\ RowAgrees' /\ MemType' /\ WorldType' /\ LockType'
   /\ NoteType'
  BY RestoreRespawnEffect, PanesAssumption DEF RestoreRespawn, locks, watch, RowAgrees,
     Healths, MemType, WorldType, LockType, NoteType
<1>4. LockHeld' /\ FenceOwned' /\ CaptureCurrent'
  BY <1>2, RestoreRespawnEffect, FenceOutsideLock DEF RestoreRespawn, locks, watch, Actors,
     LockHeld, RestoreLocked, FenceOwned, CaptureCurrent
<1> QED
  BY <1>2, <1>3, <1>4

\* Recover keeps the first layer.
LEMMA CoreRecover ==
    ASSUME CoreInv, NEW a \in {"restore", "poll"}, Recover(a)
    PROVE  CoreInv'
<1> USE DEF CoreInv
<1>1. \E l \in Labels[a] : Goto(a, l)
  <2>1. Goto(a, "save") \/ Goto(a, IF a = "poll" THEN "free" ELSE "unclaim")
    BY Zenon DEF Recover
  <2> QED
    BY <2>1 DEF Labels
<1>2. PcType' /\ \A b \in Actors : b # a => pc'[b] = pc[b]
  BY <1>1, PcStep DEF Actors
<1>3. Sound(inst') /\ disk' \in Row /\ RowAgrees'
  BY RecoverEffect, RowOfInstance DEF Recover, RowAgrees, Healths
<1>4. MemType' /\ WorldType' /\ LockType'
  BY RecoverEffect, PanesAssumption DEF Recover, locks, MemType, WorldType, LockType
<1>5. NoteType'
  BY RecoverEffect DEF Recover, locks, watch, NoteType
<1>6. LockHeld'
  BY <1>2, RecoverEffect DEF Recover, locks, Actors, LockHeld, RestoreLocked, PollLocked
<1>7. FenceOwned'
  BY <1>2, RecoverEffect, FenceOutsideLock DEF Recover, Actors, FenceOwned, RestoreLocked,
     PollLocked
<1>8. CaptureCurrent'
  BY RecoverEffect DEF Recover, locks, watch, CaptureCurrent
<1> QED
  BY <1>2, <1>3, <1>4, <1>5, <1>6, <1>7, <1>8

\* RestoreUnfence keeps the first layer.
LEMMA CoreRestoreUnfence ==
    ASSUME CoreInv, RestoreUnfence
    PROVE  CoreInv'
<1> USE DEF CoreInv
<1>1. \E l \in Labels["restore"] : Goto("restore", l)
  BY DEF RestoreUnfence, Labels
<1>2. PcType' /\ \A b \in Actors : b # "restore" => pc'[b] = pc[b]
  BY <1>1, PcStep DEF Actors
<1>3. Sound(inst') /\ disk' \in Row /\ RowAgrees' /\ MemType' /\ WorldType' /\ LockType'
   /\ NoteType'
  BY RestoreUnfenceEffect, PanesAssumption DEF RestoreUnfence, world, locks, watch,
     RowAgrees, MemType, WorldType, LockType, NoteType
<1>4. LockHeld' /\ FenceOwned' /\ CaptureCurrent'
  BY <1>2, RestoreUnfenceEffect, FenceOutsideLock DEF RestoreUnfence, locks, watch, Actors,
     LockHeld, RestoreLocked, FenceOwned, CaptureCurrent
<1> QED
  BY <1>2, <1>3, <1>4

\* PollObserve keeps the first layer.
LEMMA CorePollObserve ==
    ASSUME CoreInv, PollObserve
    PROVE  CoreInv'
<1> USE DEF CoreInv
<1>1. \E l \in Labels["poll"] : Goto("poll", l)
  BY DEF PollObserve, Labels
<1>2. PcType' /\ \A b \in Actors : b # "poll" => pc'[b] = pc[b]
  BY <1>1, PcStep DEF Actors
<1>3. Sound(inst') /\ disk' \in Row /\ RowAgrees' /\ CaptureCurrent'
  BY PollObserveEffect DEF PollObserve, RowAgrees, CaptureCurrent
<1>4. MemType' /\ WorldType' /\ LockType'
  BY PollObserveEffect, PanesAssumption DEF PollObserve, world, locks, MemType, WorldType,
     LockType
<1>5. NoteType'
  BY PollObserveEffect DEF PollObserve, NoteType, Nothing, Glance, Liveness
<1>6. LockHeld' /\ FenceOwned'
  BY <1>2, PollObserveEffect, FenceOutsideLock DEF PollObserve, locks, Actors, LockHeld,
     PollLocked, FenceOwned
<1> QED
  BY <1>2, <1>3, <1>4, <1>5, <1>6

\* PollRestore keeps the first layer.
LEMMA CorePollRestore ==
    ASSUME CoreInv, PollRestore
    PROVE  CoreInv'
<1> USE DEF CoreInv
<1>1. \E l \in Labels["poll"] : Goto("poll", l)
  BY DEF PollRestore, Labels
<1>2. PcType' /\ \A b \in Actors : b # "poll" => pc'[b] = pc[b]
  BY <1>1, PcStep DEF Actors
<1>3. Sound(inst') /\ disk' \in Row /\ RowAgrees' /\ CaptureCurrent'
  BY PollRestoreEffect DEF PollRestore, watch, RowAgrees, CaptureCurrent
<1>4. MemType' /\ WorldType' /\ LockType' /\ NoteType'
  BY PollRestoreEffect, PanesAssumption DEF PollRestore, world, watch, MemType, WorldType,
     LockType, Actors, NoteType
<1>5. LockHeld' /\ FenceOwned'
  BY <1>2, PollRestoreEffect, FenceOutsideLock DEF PollRestore, Actors, LockHeld,
     PollLocked, FenceOwned
<1> QED
  BY <1>2, <1>3, <1>4, <1>5

\* A new daemon starts from the row with nobody at work.
LEMMA CoreCrash ==
    ASSUME CoreInv, Crash
    PROVE  CoreInv'
<1> USE DEF CoreInv
<1>1. Load /\ Forget /\ killed' = disk.killed
  BY DEF Crash
<1>2. pc' = [a \in Actors |-> IF a = "poll" THEN "sweep" ELSE "idle"]
  BY <1>1 DEF Forget
<1>3. PcType'
  BY <1>2 DEF PcType, Actors, Labels
<1>4. /\ pc'["kill"] = "idle" /\ pc'["archive"] = "idle"
      /\ pc'["restore"] = "idle" /\ pc'["poll"] = "sweep"
  BY <1>2 DEF Actors
<1>5. Sound(inst') /\ disk' \in Row /\ RowAgrees'
  BY <1>1, LoadEffect DEF Forget, RowAgrees
<1>6. MemType' /\ WorldType' /\ LockType'
  BY <1>1, LoadEffect DEF Forget, MemType, WorldType, LockType, Row
<1>7. NoteType'
  BY <1>1, LoadEffect DEF Forget, NoteType, Nothing, Glance, Liveness
<1>8. LockHeld' /\ FenceOwned' /\ CaptureCurrent'
  BY <1>1, <1>4, LoadEffect DEF Forget, LockHeld, FenceOwned, CaptureCurrent, KillLocked,
     ArchiveLocked, RestoreLocked, PollLocked
<1> QED
  BY <1>3, <1>5, <1>6, <1>7, <1>8

\* The agent's own moves touch nothing the first layer is about.
LEMMA CorePaneMoves ==
    ASSUME CoreInv, PaneMoves
    PROVE  CoreInv'
  BY DEF PaneMoves, CoreInv, PcType, MemType, WorldType, LockType, NoteType, LockHeld,
     FenceOwned, RowAgrees, CaptureCurrent, mem, locks, notes, marks, watch

\* The initial states satisfy the first layer.
LEMMA CoreInit == Init => CoreInv
<1> SUFFICES ASSUME Init PROVE CoreInv
  OBVIOUS
<1> USE DEF Init
<1>1. /\ disk \in Row /\ disk.lv \in {"Running", "Archived"} /\ disk.killed = FALSE
      /\ disk.exists = TRUE /\ disk.path \in Places
      /\ disk.lv = "Archived" => disk.run = "ended"
  <2>1. CASE disk = Live
    BY <2>1 DEF Live, Row, Liveness, RunMarker, Places
  <2>2. CASE disk = Shelf
    BY <2>2 DEF Shelf, Row, Liveness, RunMarker, Places
  <2> QED
    BY <2>1, <2>2
<1>2. /\ inst.lv = disk.lv /\ inst.op = "None" /\ inst.run = disk.run
      /\ inst.started = (disk.lv # "Archived") /\ inst.shelved = (disk.lv = "Archived")
      /\ inst.settling = FALSE
      /\ inst \in Instance
  BY <1>1, ResetTimesAssumption DEF Loaded, Row, Instance, InFlightOp, Liveness
<1>3. Sound(inst)
  BY <1>1, <1>2 DEF Sound, Inert, Channel
<1>4. PcType
  BY DEF PcType, Actors, Labels
<1>5. /\ pc["kill"] = "idle" /\ pc["archive"] = "idle"
      /\ pc["restore"] = "idle" /\ pc["poll"] = "sweep"
  BY DEF Actors
<1>6. MemType /\ LockType /\ WorldType
  BY <1>1, PanesAssumption DEF MemType, LockType, WorldType
<1>7. NoteType
  BY DEF NoteType, Nothing, Glance, Liveness
<1>8. LockHeld /\ FenceOwned /\ RowAgrees /\ CaptureCurrent
  BY <1>1, <1>2, <1>5 DEF LockHeld, FenceOwned, RowAgrees, CaptureCurrent, Healths,
     KillLocked, ArchiveLocked, RestoreLocked, PollLocked
<1> QED
  BY <1>1, <1>3, <1>4, <1>6, <1>7, <1>8 DEF CoreInv

\* Every step keeps the first layer.
LEMMA CoreStep == CoreInv /\ [Next]_vars => CoreInv'
<1> SUFFICES ASSUME CoreInv, [Next]_vars PROVE CoreInv'
  OBVIOUS
<1>1. CASE UNCHANGED vars
  BY <1>1 DEF vars, CoreInv, PcType, MemType, WorldType, LockType, NoteType, LockHeld,
     FenceOwned, RowAgrees, CaptureCurrent
<1>2. ASSUME NEW a \in {"kill", "poll"}, FinishKill(a) PROVE CoreInv'
  BY <1>2, CoreTeardownDone, CoreTeardownUnknown, CoreSettleTeardown, CoreSettleFails,
     CoreEraseRecord, CoreEraseFails, CoreKillUnlock, CoreKillUnclaim DEF FinishKill
<1>3. CASE Request
  BY <1>3, CoreKillClaim, CoreArchiveRequest, CoreRestoreRequest DEF Request
<1>4. CASE KillStep
  BY <1>2, <1>4, CoreKillLock, CoreKillTombstone DEF KillStep
<1>5. CASE ArchiveStep
  BY <1>5, CoreArchiveLock, CoreArchiveAdmit, CoreArchiveStop, CoreArchiveMove,
     CoreArchiveAdopt, CoreArchiveAbort, CoreArchiveSave, CoreArchiveUndo,
     CoreArchiveUndone, CoreArchiveKeep, CoreArchiveUnclaim, CoreArchiveUnlock DEF
     ArchiveStep
<1>6. CASE RestoreStep
  BY <1>6, CoreRestoreLock, CoreRestoreClaim, CoreRestoreBack, CoreRestoreRecord,
     CoreRestoreRespawn, CoreRestoreCommit, CoreRecover, CoreSaveSettlement,
     CoreRestoreUnclaim, CoreRestoreUnlock, CoreRestoreUnfence DEF RestoreStep
<1>7. CASE Poll
  BY <1>2, <1>7, CorePollReap, CorePollAdmit, CorePollSkip, CorePollSnapshot,
     CorePollObserve, CorePollPersist, CorePollRestore, CorePollPass, CorePollFree,
     CoreFlushOwed, CoreFlushLater, CoreRecover, CoreSaveSettlement DEF Poll
<1> QED
  BY <1>1, <1>3, <1>4, <1>5, <1>6, <1>7, CorePaneMoves, CoreCrash DEF Next

\* The first layer holds of every reachable state.
THEOREM CoreInvariant == Spec => []CoreInv
  BY CoreInit, CoreStep, PTL DEF Spec

\* Every variable keeps its type: TypeOK.
THEOREM LifecycleTypeCorrect == Spec => []TypeOK
  BY CoreInvariant, CoreImplies, PTL

\* FenceHasOwner: a raised fence always has an operation that will lower it.
THEOREM FenceNeverStranded == Spec => []FenceHasOwner
  BY CoreInvariant, CoreImplies, PTL

-----------------------------------------------------------------------------
(* The second layer: where the worktree and the agent are.                 *)

\* An operation that may move the worktree, start the agent or write the row works on
\* a session whose record is there.
WorkingMapped ==
    /\ pc["archive"] \in ArchiveLocked \ {"admit", "unlock"} => mapped
    /\ pc["restore"] \in {"back", "record", "respawn", "commit", "recover", "save",
                          "unclaim"} => mapped
    /\ pc["poll"] = "recover" => mapped

\* The instance knows where the worktree is, unless that was reported.
PathKnown == wt \in {path, "gone"} \/ unrecorded

\* After a settled teardown there is no agent, and no worktree at the known path.
TornDown == pc["kill"] \in {"settle", "erase"} \/ pc["poll"] \in {"settle", "erase"}
               => pane = "none" /\ wt # path

\* The row names the worktree's place except inside the stretch of an archive or a
\* restore that moves it, and again before a restore starts the agent there.
Traceable == disk.exists => Recorded \/ unrecorded
PlaceTraced ==
    /\ pc["archive"] \notin ArchiveLocked \ {"admit", "unclaim", "unlock"}
          /\ pc["restore"] # "record" => Traceable
    /\ pc["restore"] = "record" => wt = path
    /\ pc["restore"] = "respawn" => wt = path /\ disk.path = path

\* The archive has stopped the agent before it moves or adopts anything.
StoppedFirst == pc["archive"] \in {"move", "adopt"} => pane = "none"

PlaceInv == /\ WorkingMapped /\ PathKnown /\ TornDown
            /\ PlaceTraced /\ StoppedFirst /\ NoOrphan

\* The second layer implies that the row names the worktree's place.
LEMMA PlaceImplies == CoreInv /\ PlaceInv => NoOrphan /\ RecordNamesWorktree
  BY DEF CoreInv, LockHeld, RestoreLocked, PlaceInv, PlaceTraced, Traceable, Recorded,
     RecordNamesWorktree

\* KillClaim keeps the second layer.
LEMMA PlaceKillClaim ==
    ASSUME CoreInv, PlaceInv, KillClaim
    PROVE  PlaceInv'
  BY DEF PlaceInv, KillClaim, mem, world, notes, Goto, WorkingMapped, PathKnown, TornDown,
     StoppedFirst, PlaceTraced, Traceable, Recorded, NoOrphan

\* KillLock keeps the second layer.
LEMMA PlaceKillLock ==
    ASSUME CoreInv, PlaceInv, KillLock
    PROVE  PlaceInv'
  BY DEF CoreInv, PlaceInv, KillLock, mem, world, notes, Goto, Actors, PcType,
     WorkingMapped, PathKnown, TornDown, StoppedFirst, PlaceTraced, Traceable, Recorded,
     NoOrphan

\* SettleTeardown keeps the second layer.
LEMMA PlaceSettleTeardown ==
    ASSUME CoreInv, PlaceInv, NEW a \in {"kill", "poll"}, SettleTeardown(a)
    PROVE  PlaceInv'
  BY RowOfInstance DEF CoreInv, PlaceInv, SettleTeardown, mem, world, Goto, Persist,
     Actors, PcType, WorkingMapped, PathKnown, TornDown, StoppedFirst, PlaceTraced,
     Traceable, Recorded, NoOrphan

\* SettleFails keeps the second layer.
LEMMA PlaceSettleFails ==
    ASSUME CoreInv, PlaceInv, NEW a \in {"kill", "poll"}, SettleFails(a)
    PROVE  PlaceInv'
  BY DEF PlaceInv, SettleFails, mem, world, notes, Goto, WorkingMapped, PathKnown,
     TornDown, StoppedFirst, PlaceTraced, Traceable, Recorded, NoOrphan

\* EraseRecord keeps the second layer.
LEMMA PlaceEraseRecord ==
    ASSUME CoreInv, PlaceInv, NEW a \in {"kill", "poll"}, EraseRecord(a)
    PROVE  PlaceInv'
  BY DEF CoreInv, PlaceInv, EraseRecord, world, notes, Goto, WorkingMapped, LockHeld,
     KillLocked, RestoreLocked, PollLocked, PathKnown, TornDown, StoppedFirst, PlaceTraced,
     Traceable, NoOrphan

\* EraseFails keeps the second layer.
LEMMA PlaceEraseFails ==
    ASSUME CoreInv, PlaceInv, NEW a \in {"kill", "poll"}, EraseFails(a)
    PROVE  PlaceInv'
  BY DEF PlaceInv, EraseFails, mem, world, notes, Goto, WorkingMapped, PathKnown, TornDown,
     StoppedFirst, PlaceTraced, Traceable, Recorded, NoOrphan

\* KillUnlock keeps the second layer.
LEMMA PlaceKillUnlock ==
    ASSUME CoreInv, PlaceInv, NEW a \in {"kill", "poll"}, KillUnlock(a)
    PROVE  PlaceInv'
  BY DEF PlaceInv, KillUnlock, mem, world, notes, Goto, WorkingMapped, PathKnown, TornDown,
     StoppedFirst, PlaceTraced, Traceable, Recorded, NoOrphan

\* KillUnclaim keeps the second layer.
LEMMA PlaceKillUnclaim ==
    ASSUME CoreInv, PlaceInv, NEW a \in {"kill", "poll"}, KillUnclaim(a)
    PROVE  PlaceInv'
  BY DEF PlaceInv, KillUnclaim, mem, world, notes, Goto, WorkingMapped, PathKnown,
     TornDown, StoppedFirst, PlaceTraced, Traceable, Recorded, NoOrphan

\* ArchiveRequest keeps the second layer.
LEMMA PlaceArchiveRequest ==
    ASSUME CoreInv, PlaceInv, ArchiveRequest
    PROVE  PlaceInv'
  BY DEF PlaceInv, ArchiveRequest, mem, world, notes, Goto, WorkingMapped, ArchiveLocked,
     PathKnown, TornDown, StoppedFirst, PlaceTraced, Traceable, Recorded, NoOrphan

\* ArchiveLock keeps the second layer.
LEMMA PlaceArchiveLock ==
    ASSUME CoreInv, PlaceInv, ArchiveLock
    PROVE  PlaceInv'
  BY DEF CoreInv, PlaceInv, ArchiveLock, mem, world, notes, Goto, Actors, PcType,
     WorkingMapped, ArchiveLocked, PathKnown, TornDown, StoppedFirst, PlaceTraced,
     Traceable, Recorded, NoOrphan

\* ArchiveAbort keeps the second layer.
LEMMA PlaceArchiveAbort ==
    ASSUME CoreInv, PlaceInv, ArchiveAbort
    PROVE  PlaceInv'
  BY RowOfInstance DEF CoreInv, PlaceInv, ArchiveAbort, mem, world, Goto, Persist,
     SaveOrReport, Actors, PcType, WorkingMapped, ArchiveLocked, PathKnown, TornDown,
     StoppedFirst, PlaceTraced, Traceable, Recorded, NoOrphan

\* ArchiveSave keeps the second layer.
LEMMA PlaceArchiveSave ==
    ASSUME CoreInv, PlaceInv, ArchiveSave
    PROVE  PlaceInv'
  BY RowOfInstance DEF CoreInv, PlaceInv, ArchiveSave, mem, world, Goto, Persist,
     PersistFails, Actors, PcType, WorkingMapped, ArchiveLocked, PathKnown, TornDown,
     StoppedFirst, PlaceTraced, Traceable, Recorded, NoOrphan

\* ArchiveUndone keeps the second layer.
LEMMA PlaceArchiveUndone ==
    ASSUME CoreInv, PlaceInv, ArchiveUndone
    PROVE  PlaceInv'
  BY RowOfInstance DEF CoreInv, PlaceInv, ArchiveUndone, mem, world, Goto, Persist,
     SaveOrReport, Actors, PcType, WorkingMapped, ArchiveLocked, PathKnown, TornDown,
     StoppedFirst, PlaceTraced, Traceable, Recorded, NoOrphan

\* ArchiveKeep keeps the second layer.
LEMMA PlaceArchiveKeep ==
    ASSUME CoreInv, PlaceInv, ArchiveKeep
    PROVE  PlaceInv'
  BY RowOfInstance DEF CoreInv, PlaceInv, ArchiveKeep, mem, world, Goto, Persist,
     SaveOrReport, Actors, PcType, WorkingMapped, ArchiveLocked, PathKnown, TornDown,
     StoppedFirst, PlaceTraced, Traceable, Recorded, NoOrphan

\* ArchiveUnclaim keeps the second layer.
LEMMA PlaceArchiveUnclaim ==
    ASSUME CoreInv, PlaceInv, ArchiveUnclaim
    PROVE  PlaceInv'
  BY DEF PlaceInv, ArchiveUnclaim, mem, world, notes, Goto, WorkingMapped, PathKnown,
     TornDown, StoppedFirst, PlaceTraced, Traceable, Recorded, NoOrphan

\* ArchiveUnlock keeps the second layer.
LEMMA PlaceArchiveUnlock ==
    ASSUME CoreInv, PlaceInv, ArchiveUnlock
    PROVE  PlaceInv'
  BY DEF PlaceInv, ArchiveUnlock, mem, world, notes, Goto, WorkingMapped, ArchiveLocked,
     PathKnown, TornDown, StoppedFirst, PlaceTraced, Traceable, Recorded, NoOrphan

\* RestoreRequest keeps the second layer.
LEMMA PlaceRestoreRequest ==
    ASSUME CoreInv, PlaceInv, RestoreRequest
    PROVE  PlaceInv'
  BY DEF CoreInv, PlaceInv, RestoreRequest, mem, world, notes, Goto, Actors, PcType,
     WorkingMapped, PathKnown, TornDown, StoppedFirst, PlaceTraced, Traceable, Recorded,
     NoOrphan

\* RestoreLock keeps the second layer.
LEMMA PlaceRestoreLock ==
    ASSUME CoreInv, PlaceInv, RestoreLock
    PROVE  PlaceInv'
  BY DEF CoreInv, PlaceInv, RestoreLock, mem, world, notes, Goto, Actors, PcType,
     WorkingMapped, PathKnown, TornDown, StoppedFirst, PlaceTraced, Traceable, Recorded,
     NoOrphan

\* RestoreBack keeps the second layer.
LEMMA PlaceRestoreBack ==
    ASSUME CoreInv, PlaceInv, RestoreBack
    PROVE  PlaceInv'
  BY DEF CoreInv, PlaceInv, RestoreBack, notes, Goto, Actors, PcType, WorkingMapped,
     LockHeld, KillLocked, RestoreLocked, PollLocked, PathKnown, MemType, Places, TornDown,
     StoppedFirst, PlaceTraced, Traceable, Recorded, NoOrphan

\* RestoreRecord keeps the second layer.
LEMMA PlaceRestoreRecord ==
    ASSUME CoreInv, PlaceInv, RestoreRecord
    PROVE  PlaceInv'
  BY RowOfInstance DEF CoreInv, PlaceInv, RestoreRecord, mem, world, Goto, Persist,
     SaveOrReport, Actors, PcType, WorkingMapped, PathKnown, TornDown, StoppedFirst,
     PlaceTraced, Traceable, Recorded, NoOrphan

\* RestoreCommit keeps the second layer.
LEMMA PlaceRestoreCommit ==
    ASSUME CoreInv, PlaceInv, RestoreCommit
    PROVE  PlaceInv'
  BY RowOfInstance DEF CoreInv, PlaceInv, RestoreCommit, mem, world, Goto, Persist,
     SaveOrReport, Actors, PcType, WorkingMapped, PathKnown, TornDown, StoppedFirst,
     PlaceTraced, Traceable, Recorded, NoOrphan

\* SaveSettlement keeps the second layer.
LEMMA PlaceSaveSettlement ==
    ASSUME CoreInv, PlaceInv, NEW a \in {"restore", "poll"}, SaveSettlement(a)
    PROVE  PlaceInv'
  BY RowOfInstance DEF CoreInv, PlaceInv, SaveSettlement, mem, world, Goto,
     PersistSettlement, Actors, PcType, WorkingMapped, RestoreLocked, PollLocked,
     PathKnown, TornDown, StoppedFirst, PlaceTraced, Traceable, Recorded, NoOrphan

\* RestoreUnclaim keeps the second layer.
LEMMA PlaceRestoreUnclaim ==
    ASSUME CoreInv, PlaceInv, RestoreUnclaim
    PROVE  PlaceInv'
  BY DEF PlaceInv, RestoreUnclaim, mem, world, notes, Goto, WorkingMapped, PathKnown,
     TornDown, StoppedFirst, PlaceTraced, Traceable, Recorded, NoOrphan

\* RestoreUnlock keeps the second layer.
LEMMA PlaceRestoreUnlock ==
    ASSUME CoreInv, PlaceInv, RestoreUnlock
    PROVE  PlaceInv'
  BY DEF PlaceInv, RestoreUnlock, mem, world, notes, Goto, WorkingMapped, PathKnown,
     TornDown, StoppedFirst, PlaceTraced, Traceable, Recorded, NoOrphan

\* PollReap keeps the second layer.
LEMMA PlacePollReap ==
    ASSUME CoreInv, PlaceInv, PollReap
    PROVE  PlaceInv'
  BY DEF PlaceInv, PollReap, mem, world, notes, Goto, WorkingMapped, PathKnown, TornDown,
     StoppedFirst, PlaceTraced, Traceable, Recorded, NoOrphan

\* PollAdmit keeps the second layer.
LEMMA PlacePollAdmit ==
    ASSUME CoreInv, PlaceInv, PollAdmit
    PROVE  PlaceInv'
  BY DEF PlaceInv, PollAdmit, mem, world, Goto, WorkingMapped, PathKnown, TornDown,
     StoppedFirst, PlaceTraced, Traceable, Recorded, NoOrphan

\* PollSkip keeps the second layer.
LEMMA PlacePollSkip ==
    ASSUME CoreInv, PlaceInv, PollSkip
    PROVE  PlaceInv'
  BY DEF PlaceInv, PollSkip, mem, world, notes, Goto, WorkingMapped, PathKnown, TornDown,
     StoppedFirst, PlaceTraced, Traceable, Recorded, NoOrphan

\* PollSnapshot keeps the second layer.
LEMMA PlacePollSnapshot ==
    ASSUME CoreInv, PlaceInv, PollSnapshot
    PROVE  PlaceInv'
  BY DEF CoreInv, PlaceInv, PollSnapshot, mem, world, Goto, Actors, PcType, WorkingMapped,
     PathKnown, TornDown, StoppedFirst, PlaceTraced, Traceable, Recorded, NoOrphan

\* PollPersist keeps the second layer.
LEMMA PlacePollPersist ==
    ASSUME CoreInv, PlaceInv, PollPersist
    PROVE  PlaceInv'
<1> USE DEF CoreInv, PlaceInv
<1> DEFINE wrote == \/ disk' = disk /\ unrecorded' = unrecorded
                    \/ Persist
<1>0. wrote /\ UNCHANGED <<killed, mapped, path, wt, pane>>
  BY DEF PollPersist, PersistFails, mem, world
<1>1. WorkingMapped'
  BY RowOfInstance DEF PollPersist, mem, Goto, WorkingMapped
<1>2. PathKnown'
  BY <1>0, RowOfInstance DEF Persist, PathKnown, MemType, Places
<1>3. TornDown' /\ StoppedFirst'
  BY RowOfInstance DEF PollPersist, mem, world, Goto, TornDown, StoppedFirst
<1>4. PlaceTraced'
  BY <1>0, RowOfInstance DEF Persist, Actors, PcType, PlaceTraced, Traceable, Recorded,
     PathKnown, PollPersist, Goto
<1>5. NoOrphan'
  BY <1>0, RowOfInstance DEF Persist, NoOrphan
<1> QED
  BY <1>1, <1>2, <1>3, <1>4, <1>5

\* PollPass keeps the second layer.
LEMMA PlacePollPass ==
    ASSUME CoreInv, PlaceInv, PollPass
    PROVE  PlaceInv'
  BY DEF PlaceInv, PollPass, mem, world, notes, Goto, WorkingMapped, PathKnown, TornDown,
     StoppedFirst, PlaceTraced, Traceable, Recorded, NoOrphan

\* PollFree keeps the second layer.
LEMMA PlacePollFree ==
    ASSUME CoreInv, PlaceInv, PollFree
    PROVE  PlaceInv'
  BY DEF PlaceInv, PollFree, mem, world, notes, Goto, WorkingMapped, PathKnown, TornDown,
     StoppedFirst, PlaceTraced, Traceable, Recorded, NoOrphan

\* FlushOwed keeps the second layer.
LEMMA PlaceFlushOwed ==
    ASSUME CoreInv, PlaceInv, FlushOwed
    PROVE  PlaceInv'
  BY RowOfInstance DEF CoreInv, PlaceInv, FlushOwed, mem, world, Goto, Persist, Actors,
     PcType, WorkingMapped, PathKnown, TornDown, StoppedFirst, PlaceTraced, Traceable,
     Recorded, NoOrphan

\* FlushLater keeps the second layer.
LEMMA PlaceFlushLater ==
    ASSUME CoreInv, PlaceInv, FlushLater
    PROVE  PlaceInv'
  BY DEF PlaceInv, FlushLater, mem, world, Goto, WorkingMapped, PathKnown, TornDown,
     StoppedFirst, PlaceTraced, Traceable, Recorded, NoOrphan

\* KillTombstone keeps the second layer.
LEMMA PlaceKillTombstone ==
    ASSUME CoreInv, PlaceInv, KillTombstone
    PROVE  PlaceInv'
  BY KillTombstoneEffect DEF CoreInv, PlaceInv, KillTombstone, world, Goto, Actors, PcType,
     WorkingMapped, PathKnown, TornDown, StoppedFirst, PlaceTraced, Traceable, Recorded,
     NoOrphan

\* TeardownDone keeps the second layer.
LEMMA PlaceTeardownDone ==
    ASSUME CoreInv, PlaceInv, NEW a \in {"kill", "poll"}, TeardownDone(a)
    PROVE  PlaceInv'
  BY TeardownEffect DEF CoreInv, PlaceInv, TeardownDone, notes, Goto, WorkingMapped,
     LockHeld, KillLocked, RestoreLocked, PollLocked, PathKnown, MemType, Places, TornDown,
     StoppedFirst, PlaceTraced, Traceable, Recorded, NoOrphan

\* TeardownUnknown keeps the second layer.
LEMMA PlaceTeardownUnknown ==
    ASSUME CoreInv, PlaceInv, NEW a \in {"kill", "poll"}, TeardownUnknown(a)
    PROVE  PlaceInv'
  BY TeardownEffect DEF CoreInv, PlaceInv, TeardownUnknown, notes, Goto, WorkingMapped,
     LockHeld, KillLocked, RestoreLocked, PollLocked, PathKnown, TornDown, StoppedFirst,
     PlaceTraced, Traceable, Recorded, NoOrphan

\* ArchiveAdmit keeps the second layer.
LEMMA PlaceArchiveAdmit ==
    ASSUME CoreInv, PlaceInv, ArchiveAdmit
    PROVE  PlaceInv'
  BY ArchiveAdmitEffect DEF CoreInv, PlaceInv, ArchiveAdmit, world, Goto, Actors, PcType,
     WorkingMapped, PathKnown, TornDown, StoppedFirst, PlaceTraced, Traceable, Recorded,
     NoOrphan

\* ArchiveStop keeps the second layer.
LEMMA PlaceArchiveStop ==
    ASSUME CoreInv, PlaceInv, ArchiveStop
    PROVE  PlaceInv'
  BY ArchiveStopEffect DEF CoreInv, PlaceInv, ArchiveStop, Goto, Actors, PcType,
     WorkingMapped, ArchiveLocked, PathKnown, TornDown, StoppedFirst, PlaceTraced, NoOrphan

\* ArchiveMove keeps the second layer.
LEMMA PlaceArchiveMove ==
    ASSUME CoreInv, PlaceInv, ArchiveMove
    PROVE  PlaceInv'
  BY ArchiveMoveEffect DEF CoreInv, PlaceInv, ArchiveMove, Goto, Actors, PcType,
     WorkingMapped, LockHeld, KillLocked, ArchiveLocked, RestoreLocked, PollLocked,
     PathKnown, TornDown, StoppedFirst, PlaceTraced, RowAgrees, NoOrphan

\* ArchiveAdopt keeps the second layer.
LEMMA PlaceArchiveAdopt ==
    ASSUME CoreInv, PlaceInv, ArchiveAdopt
    PROVE  PlaceInv'
  BY ArchiveAdoptEffect DEF PlaceInv, ArchiveAdopt, world, Goto, WorkingMapped,
     ArchiveLocked, PathKnown, TornDown, StoppedFirst, PlaceTraced, NoOrphan

\* ArchiveUndo keeps the second layer.
LEMMA PlaceArchiveUndo ==
    ASSUME CoreInv, PlaceInv, ArchiveUndo
    PROVE  PlaceInv'
  BY ArchiveUndoEffect DEF CoreInv, PlaceInv, ArchiveUndo, Goto, Actors, PcType,
     WorkingMapped, LockHeld, KillLocked, ArchiveLocked, RestoreLocked, PollLocked,
     PathKnown, TornDown, StoppedFirst, PlaceTraced, RowAgrees, NoOrphan

\* RestoreClaim keeps the second layer.
LEMMA PlaceRestoreClaim ==
    ASSUME CoreInv, PlaceInv, RestoreClaim
    PROVE  PlaceInv'
  BY RestoreClaimEffect DEF CoreInv, PlaceInv, RestoreClaim, world, Goto, Actors, PcType,
     WorkingMapped, PathKnown, TornDown, StoppedFirst, PlaceTraced, Traceable, Recorded,
     NoOrphan

\* RestoreRespawn keeps the second layer.
LEMMA PlaceRestoreRespawn ==
    ASSUME CoreInv, PlaceInv, RestoreRespawn
    PROVE  PlaceInv'
  BY RestoreRespawnEffect DEF CoreInv, PlaceInv, RestoreRespawn, Goto, WorkingMapped,
     LockHeld, ArchiveLocked, RestoreLocked, PathKnown, MemType, Places, TornDown,
     StoppedFirst, PlaceTraced, Traceable, Recorded, NoOrphan

\* Recover keeps the second layer.
LEMMA PlaceRecover ==
    ASSUME CoreInv, PlaceInv, NEW a \in {"restore", "poll"}, Recover(a)
    PROVE  PlaceInv'
  BY RecoverEffect, ZenonT(60) DEF CoreInv, PlaceInv, Recover, Goto, Actors, PcType,
     WorkingMapped,
     LockHeld, KillLocked, ArchiveLocked, RestoreLocked, PollLocked, PathKnown, Places,
     TornDown, StoppedFirst, PlaceTraced, Traceable, Recorded, RowAgrees, NoOrphan

\* RestoreUnfence keeps the second layer.
LEMMA PlaceRestoreUnfence ==
    ASSUME CoreInv, PlaceInv, RestoreUnfence
    PROVE  PlaceInv'
  BY RestoreUnfenceEffect DEF PlaceInv, RestoreUnfence, world, Goto, WorkingMapped,
     PathKnown, TornDown, StoppedFirst, PlaceTraced, Traceable, Recorded, NoOrphan

\* PollObserve keeps the second layer.
LEMMA PlacePollObserve ==
    ASSUME CoreInv, PlaceInv, PollObserve
    PROVE  PlaceInv'
  BY PollObserveEffect DEF PlaceInv, PollObserve, world, Goto, WorkingMapped, PathKnown,
     TornDown, StoppedFirst, PlaceTraced, Traceable, Recorded, NoOrphan

\* PollRestore keeps the second layer.
LEMMA PlacePollRestore ==
    ASSUME CoreInv, PlaceInv, PollRestore
    PROVE  PlaceInv'
  BY PollRestoreEffect DEF PlaceInv, PollRestore, world, Goto, WorkingMapped, PathKnown,
     TornDown, StoppedFirst, PlaceTraced, Traceable, Recorded, NoOrphan

\* Crash keeps the second layer.
LEMMA PlaceCrash ==
    ASSUME CoreInv, PlaceInv, Crash
    PROVE  PlaceInv'
<1> USE DEF CoreInv, PlaceInv
<1>1. Load /\ Forget /\ killed' = disk.killed
  BY DEF Crash
<1>2. /\ pc'["kill"] = "idle" /\ pc'["archive"] = "idle"
      /\ pc'["restore"] = "idle" /\ pc'["poll"] = "sweep"
  BY <1>1 DEF Forget, Actors
<1>3. /\ disk'.exists = disk.exists /\ disk'.path = disk.path
      /\ pane = "none" /\ pane' # "none" => disk.exists
      /\ pane' = "none" => pane = "none"
      /\ path' = disk.path /\ wt' = wt /\ unrecorded' = (unrecorded \/ ~Recorded)
  BY <1>1, LoadEffect DEF Forget
<1>4. WorkingMapped' /\ TornDown' /\ StoppedFirst'
  BY <1>2 DEF WorkingMapped, TornDown, StoppedFirst, ArchiveLocked
<1>5. PathKnown' /\ PlaceTraced'
  BY <1>2, <1>3 DEF PathKnown, PlaceTraced, Traceable, Recorded, ArchiveLocked
<1>6. NoOrphan'
  BY <1>3 DEF NoOrphan
<1> QED
  BY <1>4, <1>5, <1>6

\* PaneMoves keeps the second layer.
LEMMA PlacePaneMoves ==
    ASSUME CoreInv, PlaceInv, PaneMoves
    PROVE  PlaceInv'
<1> USE DEF PlaceInv
<1>1. /\ UNCHANGED <<mapped, path, disk, wt, pc, unrecorded>>
      /\ pane # "none"
  BY DEF PaneMoves, mem, notes
<1>2. WorkingMapped' /\ TornDown' /\ StoppedFirst'
  BY <1>1 DEF WorkingMapped, TornDown, StoppedFirst
<1>3. PathKnown' /\ PlaceTraced' /\ NoOrphan'
  BY <1>1 DEF PathKnown, PlaceTraced, Traceable, Recorded, NoOrphan
<1> QED
  BY <1>2, <1>3

\* The initial states satisfy the second layer.
LEMMA PlaceInit == Init => PlaceInv
<1> SUFFICES ASSUME Init PROVE PlaceInv
  OBVIOUS
<1>1. /\ pc["kill"] = "idle" /\ pc["archive"] = "idle"
      /\ pc["restore"] = "idle" /\ pc["poll"] = "sweep"
  BY DEF Init, Actors
<1>2. disk.exists = TRUE /\ wt = disk.path /\ path = disk.path
  BY DEF Init, Live, Shelf
<1> QED
  BY <1>1, <1>2 DEF PlaceInv, WorkingMapped, PathKnown, TornDown, PlaceTraced, Traceable,
     Recorded, StoppedFirst, NoOrphan, ArchiveLocked

\* Every step keeps the second layer.
LEMMA PlaceStep == CoreInv /\ PlaceInv /\ [Next]_vars => PlaceInv'
<1> SUFFICES ASSUME CoreInv, PlaceInv, [Next]_vars PROVE PlaceInv'
  OBVIOUS
<1>1. CASE UNCHANGED vars
  BY <1>1 DEF vars, PlaceInv, WorkingMapped, PathKnown, TornDown, PlaceTraced, Traceable,
     Recorded, StoppedFirst, NoOrphan
<1>2. ASSUME NEW a \in {"kill", "poll"}, FinishKill(a) PROVE PlaceInv'
  BY <1>2, PlaceTeardownDone, PlaceTeardownUnknown, PlaceSettleTeardown, PlaceSettleFails,
     PlaceEraseRecord, PlaceEraseFails, PlaceKillUnlock, PlaceKillUnclaim DEF FinishKill
<1>3. CASE Request
  BY <1>3, PlaceKillClaim, PlaceArchiveRequest, PlaceRestoreRequest DEF Request
<1>4. CASE KillStep
  BY <1>2, <1>4, PlaceKillLock, PlaceKillTombstone DEF KillStep
<1>5. CASE ArchiveStep
  BY <1>5, PlaceArchiveLock, PlaceArchiveAdmit, PlaceArchiveStop, PlaceArchiveMove,
     PlaceArchiveAdopt, PlaceArchiveAbort, PlaceArchiveSave, PlaceArchiveUndo,
     PlaceArchiveUndone, PlaceArchiveKeep, PlaceArchiveUnclaim, PlaceArchiveUnlock DEF
     ArchiveStep
<1>6. CASE RestoreStep
  BY <1>6, PlaceRestoreLock, PlaceRestoreClaim, PlaceRestoreBack, PlaceRestoreRecord,
     PlaceRestoreRespawn, PlaceRestoreCommit, PlaceRecover, PlaceSaveSettlement,
     PlaceRestoreUnclaim, PlaceRestoreUnlock, PlaceRestoreUnfence DEF RestoreStep
<1>7. CASE Poll
  BY <1>2, <1>7, PlacePollReap, PlacePollAdmit, PlacePollSkip, PlacePollSnapshot,
     PlacePollObserve, PlacePollPersist, PlacePollRestore, PlacePollPass, PlacePollFree,
     PlaceFlushOwed, PlaceFlushLater, PlaceRecover, PlaceSaveSettlement DEF Poll
<1> QED
  BY <1>1, <1>3, <1>4, <1>5, <1>6, <1>7, PlacePaneMoves, PlaceCrash DEF Next

\* The layers up to the second hold of every reachable state.
THEOREM PlaceInvariant == Spec => [](CoreInv /\ PlaceInv)
<1>1. Init => CoreInv /\ PlaceInv
  BY CoreInit, PlaceInit
<1>2. CoreInv /\ PlaceInv /\ [Next]_vars => CoreInv' /\ PlaceInv'
  BY CoreStep, PlaceStep
<1> QED
  BY <1>1, <1>2, PTL DEF Spec

\* NoOrphan: the record is never erased while it is the only handle on a live agent
\* or on a worktree whose cleanup has not settled.
THEOREM RecordOutlivesSession == Spec => []NoOrphan
  BY PlaceInvariant, PlaceImplies, PTL

\* RecordNamesWorktree: outside a running archive or restore the row names the place
\* of the worktree, and a restore has it on record before it starts the agent.
THEOREM RowNamesThePlace == Spec => []RecordNamesWorktree
  BY PlaceInvariant, PlaceImplies, PTL

\* A tombstone is never lifted, and only a session without one gets an agent.
LEMMA TombstoneStays ==
    ASSUME CoreInv, [Next]_vars
    PROVE  /\ killed => killed'
           /\ pane = "none" /\ pane' # "none" => ~killed
<1> DEFINE Goal == /\ killed => killed'
                   /\ pane = "none" /\ pane' # "none" => ~killed
<1>1. CASE UNCHANGED vars
  BY <1>1 DEF vars
<1>2. ASSUME NEW a \in {"kill", "poll"}, FinishKill(a) PROVE Goal
  BY <1>2 DEF FinishKill, TeardownDone, TeardownUnknown, SettleTeardown, SettleFails,
     EraseRecord, EraseFails, KillUnlock, KillUnclaim, mem, world
<1>3. ASSUME NEW a \in {"restore", "poll"}, Recover(a) \/ SaveSettlement(a) PROVE Goal
  <2>1. CASE Recover(a)
    <3>1. killed' = killed
      BY <2>1, Zenon DEF Recover
    <3> QED
      BY <2>1, <3>1, RecoverEffect
  <2>2. CASE SaveSettlement(a)
    BY <2>2 DEF SaveSettlement, mem, world
  <2> QED
    BY <1>3, <2>1, <2>2
<1>4. CASE Request
  BY <1>4 DEF Request, KillClaim, ArchiveRequest, RestoreRequest, mem, world
<1>5. CASE KillStep
  <2>1. CASE KillLock
    BY <2>1 DEF KillLock, mem, world
  <2>2. CASE KillTombstone
    <3>1. pane' = pane
      BY <2>2, Zenon DEF KillTombstone, world
    <3>2. killed' = TRUE \/ killed' = killed
      BY <2>2, KillTombstoneEffect
    <3> QED
      BY <3>1, <3>2
  <2> QED
    BY <1>2, <1>5, <2>1, <2>2 DEF KillStep
<1>6. CASE ArchiveStep
  BY <1>6 DEF ArchiveStep, ArchiveLock, ArchiveAdmit, ArchiveStop, ArchiveMove,
     ArchiveAdopt, ArchiveAbort, ArchiveSave, ArchiveUndo, ArchiveUndone, ArchiveKeep,
     ArchiveUnclaim, ArchiveUnlock, mem, world
<1>7. CASE RestoreStep
  <2>1. CASE RestoreRespawn
    BY <2>1, RestoreRespawnEffect DEF RestoreRespawn
  <2>2. CASE RestoreStep /\ ~RestoreRespawn
    BY <1>3, <2>2 DEF RestoreStep, RestoreLock, RestoreClaim, RestoreBack, RestoreRecord,
       RestoreCommit, RestoreUnclaim, RestoreUnlock, RestoreUnfence, mem, world
  <2> QED
    BY <1>7, <2>1, <2>2
<1>8. CASE Poll
  BY <1>2, <1>3, <1>8 DEF Poll, PollReap, PollAdmit, PollSkip, PollSnapshot, PollObserve,
     PollPersist, PollRestore, PollPass, PollFree, FlushOwed, FlushLater, mem, world
<1>9. CASE PaneMoves
  BY <1>9 DEF PaneMoves, mem
<1>10. CASE Crash
  BY <1>10, LoadEffect DEF Crash, CoreInv, RowAgrees
<1> QED
  BY <1>1, <1>4, <1>5, <1>6, <1>7, <1>8, <1>9, <1>10 DEF Next

\* KillIsFinal: a killed session never gets an agent again, and the tombstone on the
\* row stays until the record goes.
THEOREM KilledStaysKilled == Spec => KillIsFinal
<1>1. CoreInv /\ CoreInv' /\ [Next]_vars =>
        [/\ pane = "none" /\ pane' # "none" => ~killed /\ ~(disk.exists /\ disk.killed)
         /\ disk.exists /\ disk.killed => disk'.killed \/ ~disk'.exists]_vars
  BY TombstoneStays DEF CoreInv, RowAgrees
<1> QED
  BY <1>1, CoreInvariant, PTL DEF Spec, KillIsFinal

\* While an archive is about to move the worktree, nobody else does.
LEMMA OnlyTheArchiveMoves ==
    ASSUME CoreInv, [Next]_vars, pc["archive"] = "move", wt' # wt
    PROVE  pane' = pane
<1>1. lock = "archive" /\ pc["restore"] \notin RestoreLocked
      /\ pc["kill"] \notin KillLocked /\ pc["poll"] \notin PollLocked
  BY DEF CoreInv, LockHeld, ArchiveLocked
<1>2. ASSUME NEW a \in {"kill", "poll"} PROVE ~FinishKill(a)
  BY <1>1 DEF FinishKill, TeardownDone, TeardownUnknown, SettleTeardown, SettleFails,
     EraseRecord, EraseFails, KillUnlock, KillUnclaim, world, KillLocked, PollLocked
<1>3. ~Request
  BY DEF Request, KillClaim, ArchiveRequest, RestoreRequest, world
<1>4. ~KillStep
  BY <1>2 DEF KillStep, KillLock, KillTombstone, world
<1>5. ASSUME NEW a \in {"restore", "poll"} PROVE ~Recover(a) /\ ~SaveSettlement(a)
  BY DEF Recover, SaveSettlement, world
<1>6. ~RestoreStep
  BY <1>1, <1>5 DEF RestoreStep, RestoreLock, RestoreClaim, RestoreBack, RestoreRecord,
     RestoreRespawn, RestoreCommit, RestoreUnclaim, RestoreUnlock, RestoreUnfence, world,
     RestoreLocked
<1>7. ~Poll
  BY <1>2, <1>5 DEF Poll, PollReap, PollAdmit, PollSkip, PollSnapshot, PollObserve,
     PollPersist, PollRestore, PollPass, PollFree, FlushOwed, FlushLater, world
<1>8. ~PaneMoves /\ ~Crash /\ ~UNCHANGED vars
  BY DEF PaneMoves, Crash, Forget, vars
<1>9. ArchiveStep
  BY <1>3, <1>4, <1>6, <1>7, <1>8 DEF Next
<1> QED
  BY <1>9 DEF ArchiveStep, ArchiveLock, ArchiveAdmit, ArchiveStop, ArchiveMove,
     ArchiveAdopt, ArchiveAbort, ArchiveSave, ArchiveUndo, ArchiveUndone, ArchiveKeep,
     ArchiveUnclaim, ArchiveUnlock

\* MovesOnlyStopped: an archive never moves the worktree from under a running agent.
THEOREM MovesUnderNoAgent == Spec => MovesOnlyStopped
<1>1. CoreInv /\ PlaceInv /\ [Next]_vars =>
        [pc["archive"] = "move" /\ wt' # wt => pane = "none" /\ pane' = "none"]_vars
  BY OnlyTheArchiveMoves DEF PlaceInv, StoppedFirst
<1> QED
  BY <1>1, PlaceInvariant, PTL DEF Spec, MovesOnlyStopped

-----------------------------------------------------------------------------
(* The third layer: the task-run marker of the instance and of its row.    *)

\* What the poll compares with is no older than the run it saw: nobody else reopens
\* one in between.
BeforeKnown == pc["poll"] \in {"snapshot", "observe"} /\ inst.run = "active"
                  => before.active

\* A run the row calls ended is over for the instance too.
EndIsKnown == disk.run = "ended" => inst.run = "ended"

\* The row still counts a run that is over, and nothing is on its way to say so.
Slipped == /\ mapped /\ inst.run # "active" /\ disk.run = "active"
           /\ ~owed /\ pc["poll"] # "checkpoint"

\* That happens only after an archive that could not be written: there is no agent
\* then, and no current capture of one.
SlipsOnlyStopped ==
    Slipped => /\ inst.lv \in {"Lost", "Archived"}
               /\ pane = "none"
               /\ ~(fresh /\ seen \in {"Running", "Ready"})

\* The row of an archived session about to be respawned counts no run.
RespawnRecorded ==
    pc["restore"] = "respawn" /\ inst.lv = "Archived" => disk.run # "active"

RunInv == BeforeKnown /\ EndIsKnown /\ SlipsOnlyStopped /\ RespawnRecorded

\* KillClaim keeps the third layer.
LEMMA RunKillClaim ==
    ASSUME CoreInv, PlaceInv, RunInv, KillClaim
    PROVE  RunInv'
  BY DEF RunInv, KillClaim, mem, world, watch, marks, notes, Goto, BeforeKnown, EndIsKnown,
     Slipped, SlipsOnlyStopped, RespawnRecorded

\* KillLock keeps the third layer.
LEMMA RunKillLock ==
    ASSUME CoreInv, PlaceInv, RunInv, KillLock
    PROVE  RunInv'
  BY DEF CoreInv, RunInv, KillLock, mem, world, watch, marks, notes, Goto, Actors, PcType,
     BeforeKnown, EndIsKnown, Slipped, SlipsOnlyStopped, RespawnRecorded

\* SettleTeardown keeps the third layer.
LEMMA RunSettleTeardown ==
    ASSUME CoreInv, PlaceInv, RunInv, NEW a \in {"kill", "poll"}, SettleTeardown(a)
    PROVE  RunInv'
  BY RowOfInstance DEF RunInv, SettleTeardown, mem, watch, marks, Goto, Persist,
     BeforeKnown, EndIsKnown, Slipped, SlipsOnlyStopped, RespawnRecorded

\* SettleFails keeps the third layer.
LEMMA RunSettleFails ==
    ASSUME CoreInv, PlaceInv, RunInv, NEW a \in {"kill", "poll"}, SettleFails(a)
    PROVE  RunInv'
  BY DEF RunInv, SettleFails, mem, world, watch, marks, notes, Goto, BeforeKnown,
     EndIsKnown, Slipped, SlipsOnlyStopped, RespawnRecorded

\* EraseRecord keeps the third layer.
LEMMA RunEraseRecord ==
    ASSUME CoreInv, PlaceInv, RunInv, NEW a \in {"kill", "poll"}, EraseRecord(a)
    PROVE  RunInv'
  BY DEF RunInv, EraseRecord, watch, marks, notes, Goto, BeforeKnown, EndIsKnown, Slipped,
     SlipsOnlyStopped, RespawnRecorded

\* EraseFails keeps the third layer.
LEMMA RunEraseFails ==
    ASSUME CoreInv, PlaceInv, RunInv, NEW a \in {"kill", "poll"}, EraseFails(a)
    PROVE  RunInv'
  BY DEF RunInv, EraseFails, mem, world, watch, marks, notes, Goto, BeforeKnown,
     EndIsKnown, Slipped, SlipsOnlyStopped, RespawnRecorded

\* KillUnlock keeps the third layer.
LEMMA RunKillUnlock ==
    ASSUME CoreInv, PlaceInv, RunInv, NEW a \in {"kill", "poll"}, KillUnlock(a)
    PROVE  RunInv'
  BY DEF RunInv, KillUnlock, mem, world, watch, marks, notes, Goto, BeforeKnown,
     EndIsKnown, Slipped, SlipsOnlyStopped, RespawnRecorded

\* KillUnclaim keeps the third layer.
LEMMA RunKillUnclaim ==
    ASSUME CoreInv, PlaceInv, RunInv, NEW a \in {"kill", "poll"}, KillUnclaim(a)
    PROVE  RunInv'
  BY DEF RunInv, KillUnclaim, mem, world, watch, marks, notes, Goto, BeforeKnown,
     EndIsKnown, Slipped, SlipsOnlyStopped, RespawnRecorded

\* ArchiveRequest keeps the third layer.
LEMMA RunArchiveRequest ==
    ASSUME CoreInv, PlaceInv, RunInv, ArchiveRequest
    PROVE  RunInv'
  BY DEF RunInv, ArchiveRequest, mem, world, watch, marks, notes, Goto, BeforeKnown,
     EndIsKnown, Slipped, SlipsOnlyStopped, RespawnRecorded

\* ArchiveLock keeps the third layer.
LEMMA RunArchiveLock ==
    ASSUME CoreInv, PlaceInv, RunInv, ArchiveLock
    PROVE  RunInv'
  BY DEF CoreInv, RunInv, ArchiveLock, mem, world, watch, marks, notes, Goto, Actors,
     PcType, BeforeKnown, EndIsKnown, Slipped, SlipsOnlyStopped, RespawnRecorded

\* ArchiveAbort keeps the third layer.
LEMMA RunArchiveAbort ==
    ASSUME CoreInv, PlaceInv, RunInv, ArchiveAbort
    PROVE  RunInv'
  BY RowOfInstance DEF RunInv, ArchiveAbort, mem, world, watch, marks, Goto, Persist,
     SaveOrReport, BeforeKnown, EndIsKnown, Slipped, SlipsOnlyStopped, RespawnRecorded

\* ArchiveSave keeps the third layer.
LEMMA RunArchiveSave ==
    ASSUME CoreInv, PlaceInv, RunInv, ArchiveSave
    PROVE  RunInv'
<1> USE DEF CoreInv, PlaceInv, RunInv
<1>1. BeforeKnown'
  BY RowOfInstance DEF ArchiveSave, mem, watch, marks, Goto, Actors, PcType, BeforeKnown
<1>2. EndIsKnown'
  BY RowOfInstance DEF ArchiveSave, mem, Persist, PersistFails, EndIsKnown
<1>3. SlipsOnlyStopped'
  BY RowOfInstance DEF ArchiveSave, mem, world, watch, marks, Goto, Persist, PersistFails,
     Actors, PcType, Slipped, SlipsOnlyStopped
<1>4. RespawnRecorded'
  BY RowOfInstance DEF ArchiveSave, mem, Goto, Persist, PersistFails, Actors, PcType,
     RespawnRecorded
<1> QED
  BY <1>1, <1>2, <1>3, <1>4

\* ArchiveUndone keeps the third layer.
LEMMA RunArchiveUndone ==
    ASSUME CoreInv, PlaceInv, RunInv, ArchiveUndone
    PROVE  RunInv'
  BY RowOfInstance DEF RunInv, ArchiveUndone, mem, world, watch, marks, Goto, Persist,
     SaveOrReport, BeforeKnown, EndIsKnown, Slipped, SlipsOnlyStopped, RespawnRecorded

\* ArchiveKeep keeps the third layer.
LEMMA RunArchiveKeep ==
    ASSUME CoreInv, PlaceInv, RunInv, ArchiveKeep
    PROVE  RunInv'
  BY RowOfInstance DEF RunInv, ArchiveKeep, mem, world, watch, marks, Goto, Persist,
     SaveOrReport, BeforeKnown, EndIsKnown, Slipped, SlipsOnlyStopped, RespawnRecorded

\* ArchiveUnclaim keeps the third layer.
LEMMA RunArchiveUnclaim ==
    ASSUME CoreInv, PlaceInv, RunInv, ArchiveUnclaim
    PROVE  RunInv'
  BY DEF RunInv, ArchiveUnclaim, mem, world, watch, marks, notes, Goto, BeforeKnown,
     EndIsKnown, Slipped, SlipsOnlyStopped, RespawnRecorded

\* ArchiveUnlock keeps the third layer.
LEMMA RunArchiveUnlock ==
    ASSUME CoreInv, PlaceInv, RunInv, ArchiveUnlock
    PROVE  RunInv'
  BY DEF RunInv, ArchiveUnlock, mem, world, watch, marks, notes, Goto, BeforeKnown,
     EndIsKnown, Slipped, SlipsOnlyStopped, RespawnRecorded

\* RestoreRequest keeps the third layer.
LEMMA RunRestoreRequest ==
    ASSUME CoreInv, PlaceInv, RunInv, RestoreRequest
    PROVE  RunInv'
  BY DEF CoreInv, RunInv, RestoreRequest, mem, world, watch, marks, notes, Goto, Actors,
     PcType, BeforeKnown, EndIsKnown, Slipped, SlipsOnlyStopped, RespawnRecorded

\* RestoreLock keeps the third layer.
LEMMA RunRestoreLock ==
    ASSUME CoreInv, PlaceInv, RunInv, RestoreLock
    PROVE  RunInv'
  BY DEF CoreInv, RunInv, RestoreLock, mem, world, watch, marks, notes, Goto, Actors,
     PcType, BeforeKnown, EndIsKnown, Slipped, SlipsOnlyStopped, RespawnRecorded

\* RestoreBack keeps the third layer.
LEMMA RunRestoreBack ==
    ASSUME CoreInv, PlaceInv, RunInv, RestoreBack
    PROVE  RunInv'
  BY DEF CoreInv, RunInv, RestoreBack, watch, marks, notes, Goto, Actors, PcType,
     BeforeKnown, EndIsKnown, Slipped, SlipsOnlyStopped, RespawnRecorded

\* RestoreRecord keeps the third layer.
LEMMA RunRestoreRecord ==
    ASSUME CoreInv, PlaceInv, RunInv, RestoreRecord
    PROVE  RunInv'
<1> USE DEF CoreInv, PlaceInv, RunInv
<1>1. BeforeKnown'
  BY RowOfInstance DEF RestoreRecord, mem, watch, marks, Goto, Actors, PcType, BeforeKnown
<1>2. EndIsKnown'
  BY RowOfInstance DEF RestoreRecord, mem, Persist, EndIsKnown
<1>3. SlipsOnlyStopped'
  BY RowOfInstance DEF RestoreRecord, mem, world, watch, marks, Goto, Persist, Actors,
     PcType, Slipped, SlipsOnlyStopped
<1>4. RespawnRecorded'
  BY RowOfInstance DEF RestoreRecord, mem, Goto, Persist, PcType, RespawnRecorded
<1> QED
  BY <1>1, <1>2, <1>3, <1>4

\* RestoreCommit keeps the third layer.
LEMMA RunRestoreCommit ==
    ASSUME CoreInv, PlaceInv, RunInv, RestoreCommit
    PROVE  RunInv'
  BY RowOfInstance DEF RunInv, RestoreCommit, mem, world, watch, marks, Goto, Persist,
     SaveOrReport, BeforeKnown, EndIsKnown, Slipped, SlipsOnlyStopped, RespawnRecorded

\* SaveSettlement keeps the third layer.
LEMMA RunSaveSettlement ==
    ASSUME CoreInv, PlaceInv, RunInv, NEW a \in {"restore", "poll"}, SaveSettlement(a)
    PROVE  RunInv'
  BY RowOfInstance DEF RunInv, SaveSettlement, mem, watch, Goto, PersistSettlement,
     BeforeKnown, EndIsKnown, Slipped, SlipsOnlyStopped, RespawnRecorded, RestoreLocked,
     PollLocked

\* RestoreUnclaim keeps the third layer.
LEMMA RunRestoreUnclaim ==
    ASSUME CoreInv, PlaceInv, RunInv, RestoreUnclaim
    PROVE  RunInv'
  BY DEF RunInv, RestoreUnclaim, mem, world, watch, marks, notes, Goto, BeforeKnown,
     EndIsKnown, Slipped, SlipsOnlyStopped, RespawnRecorded

\* RestoreUnlock keeps the third layer.
LEMMA RunRestoreUnlock ==
    ASSUME CoreInv, PlaceInv, RunInv, RestoreUnlock
    PROVE  RunInv'
  BY DEF RunInv, RestoreUnlock, mem, world, watch, marks, notes, Goto, BeforeKnown,
     EndIsKnown, Slipped, SlipsOnlyStopped, RespawnRecorded

\* PollReap keeps the third layer.
LEMMA RunPollReap ==
    ASSUME CoreInv, PlaceInv, RunInv, PollReap
    PROVE  RunInv'
  BY DEF RunInv, PollReap, mem, world, watch, marks, notes, Goto, BeforeKnown, EndIsKnown,
     Slipped, SlipsOnlyStopped, RespawnRecorded

\* PollAdmit keeps the third layer.
LEMMA RunPollAdmit ==
    ASSUME CoreInv, PlaceInv, RunInv, PollAdmit
    PROVE  RunInv'
  BY DEF CoreInv, RunInv, PollAdmit, mem, world, Goto, Actors, PcType, BeforeKnown,
     EndIsKnown, Slipped, SlipsOnlyStopped, RespawnRecorded

\* PollSkip keeps the third layer.
LEMMA RunPollSkip ==
    ASSUME CoreInv, PlaceInv, RunInv, PollSkip
    PROVE  RunInv'
  BY DEF RunInv, PollSkip, mem, world, watch, marks, notes, Goto, BeforeKnown, EndIsKnown,
     Slipped, SlipsOnlyStopped, RespawnRecorded

\* PollSnapshot keeps the third layer.
LEMMA RunPollSnapshot ==
    ASSUME CoreInv, PlaceInv, RunInv, PollSnapshot
    PROVE  RunInv'
  BY DEF CoreInv, RunInv, PollSnapshot, mem, world, Goto, Actors, PcType, BeforeKnown,
     EndIsKnown, Slipped, SlipsOnlyStopped, RespawnRecorded

\* PollPersist keeps the third layer.
LEMMA RunPollPersist ==
    ASSUME CoreInv, PlaceInv, RunInv, PollPersist
    PROVE  RunInv'
<1> USE DEF CoreInv, PlaceInv, RunInv
<1>1. BeforeKnown'
  BY RowOfInstance DEF PollPersist, Goto, BeforeKnown
<1>2. EndIsKnown'
  BY RowOfInstance DEF PollPersist, mem, Persist, PersistFails, EndIsKnown
<1>3. SlipsOnlyStopped'
  BY RowOfInstance DEF PollPersist, mem, world, watch, Persist, PersistFails, Slipped,
     SlipsOnlyStopped
<1>4. RespawnRecorded'
  BY RowOfInstance DEF PollPersist, mem, Goto, Persist, PersistFails, RespawnRecorded,
     RestoreLocked
<1> QED
  BY <1>1, <1>2, <1>3, <1>4

\* PollPass keeps the third layer.
LEMMA RunPollPass ==
    ASSUME CoreInv, PlaceInv, RunInv, PollPass
    PROVE  RunInv'
  BY DEF RunInv, PollPass, mem, world, watch, marks, notes, Goto, BeforeKnown, EndIsKnown,
     Slipped, SlipsOnlyStopped, RespawnRecorded

\* PollFree keeps the third layer.
LEMMA RunPollFree ==
    ASSUME CoreInv, PlaceInv, RunInv, PollFree
    PROVE  RunInv'
  BY DEF RunInv, PollFree, mem, world, watch, marks, notes, Goto, BeforeKnown, EndIsKnown,
     Slipped, SlipsOnlyStopped, RespawnRecorded

\* FlushOwed keeps the third layer.
LEMMA RunFlushOwed ==
    ASSUME CoreInv, PlaceInv, RunInv, FlushOwed
    PROVE  RunInv'
  BY RowOfInstance DEF RunInv, FlushOwed, mem, Goto, Persist, BeforeKnown, EndIsKnown,
     Slipped, SlipsOnlyStopped, RespawnRecorded

\* FlushLater keeps the third layer.
LEMMA RunFlushLater ==
    ASSUME CoreInv, PlaceInv, RunInv, FlushLater
    PROVE  RunInv'
  BY DEF CoreInv, RunInv, FlushLater, mem, world, watch, Goto, Actors, PcType, BeforeKnown,
     EndIsKnown, Slipped, SlipsOnlyStopped, RespawnRecorded

\* KillTombstone keeps the third layer.
LEMMA RunKillTombstone ==
    ASSUME CoreInv, PlaceInv, RunInv, KillTombstone
    PROVE  RunInv'
  BY KillTombstoneEffect DEF CoreInv, RunInv, KillTombstone, world, watch, Goto, Actors,
     PcType, BeforeKnown, EndIsKnown, Slipped, SlipsOnlyStopped, RespawnRecorded, Sound,
     Inert, KillLocked, RestoreLocked, PollLocked

\* TeardownDone keeps the third layer.
LEMMA RunTeardownDone ==
    ASSUME CoreInv, PlaceInv, RunInv, NEW a \in {"kill", "poll"}, TeardownDone(a)
    PROVE  RunInv'
  BY TeardownEffect DEF RunInv, TeardownDone, watch, marks, notes, Goto, BeforeKnown,
     EndIsKnown, Slipped, SlipsOnlyStopped, RespawnRecorded

\* TeardownUnknown keeps the third layer.
LEMMA RunTeardownUnknown ==
    ASSUME CoreInv, PlaceInv, RunInv, NEW a \in {"kill", "poll"}, TeardownUnknown(a)
    PROVE  RunInv'
  BY TeardownEffect DEF CoreInv, RunInv, TeardownUnknown, watch, marks, notes, Goto,
     Actors, PcType, BeforeKnown, EndIsKnown, Slipped, SlipsOnlyStopped, RespawnRecorded,
     PollLocked

\* ArchiveAdmit keeps the third layer.
LEMMA RunArchiveAdmit ==
    ASSUME CoreInv, PlaceInv, RunInv, ArchiveAdmit
    PROVE  RunInv'
  BY ArchiveAdmitEffect DEF CoreInv, RunInv, ArchiveAdmit, world, watch, Goto, Actors,
     PcType, BeforeKnown, EndIsKnown, Slipped, SlipsOnlyStopped, RespawnRecorded

\* ArchiveStop keeps the third layer.
LEMMA RunArchiveStop ==
    ASSUME CoreInv, PlaceInv, RunInv, ArchiveStop
    PROVE  RunInv'
  BY ArchiveStopEffect DEF CoreInv, RunInv, ArchiveStop, watch, Goto, Actors, PcType,
     BeforeKnown, EndIsKnown, Slipped, SlipsOnlyStopped, RespawnRecorded

\* ArchiveMove keeps the third layer.
LEMMA RunArchiveMove ==
    ASSUME CoreInv, PlaceInv, RunInv, ArchiveMove
    PROVE  RunInv'
  BY ArchiveMoveEffect DEF CoreInv, PlaceInv, RunInv, ArchiveMove, watch, Goto, Actors,
     PcType, BeforeKnown, EndIsKnown, SlipsOnlyStopped, StoppedFirst, RespawnRecorded,
     LockHeld, ArchiveLocked, RestoreLocked

\* ArchiveAdopt keeps the third layer.
LEMMA RunArchiveAdopt ==
    ASSUME CoreInv, PlaceInv, RunInv, ArchiveAdopt
    PROVE  RunInv'
  BY ArchiveAdoptEffect DEF CoreInv, PlaceInv, RunInv, ArchiveAdopt, world, Goto, Actors,
     PcType, BeforeKnown, EndIsKnown, SlipsOnlyStopped, StoppedFirst, RespawnRecorded,
     LockHeld, ArchiveLocked, RestoreLocked

\* ArchiveUndo keeps the third layer.
LEMMA RunArchiveUndo ==
    ASSUME CoreInv, PlaceInv, RunInv, ArchiveUndo
    PROVE  RunInv'
  BY ArchiveUndoEffect DEF CoreInv, RunInv, ArchiveUndo, watch, Goto, Actors, PcType,
     BeforeKnown, EndIsKnown, Slipped, SlipsOnlyStopped, RespawnRecorded

\* RestoreClaim keeps the third layer.
LEMMA RunRestoreClaim ==
    ASSUME CoreInv, PlaceInv, RunInv, RestoreClaim
    PROVE  RunInv'
  BY RestoreClaimEffect DEF CoreInv, RunInv, RestoreClaim, world, watch, Goto, Actors,
     PcType, BeforeKnown, EndIsKnown, Slipped, SlipsOnlyStopped, RespawnRecorded

\* RestoreRespawn keeps the third layer.
LEMMA RunRestoreRespawn ==
    ASSUME CoreInv, PlaceInv, RunInv, RestoreRespawn
    PROVE  RunInv'
  BY RestoreRespawnEffect DEF RunInv, RestoreRespawn, watch, Goto, BeforeKnown, EndIsKnown,
     Slipped, SlipsOnlyStopped, RespawnRecorded

\* Recover keeps the third layer.
LEMMA RunRecover ==
    ASSUME CoreInv, PlaceInv, RunInv, NEW a \in {"restore", "poll"}, Recover(a)
    PROVE  RunInv'
  BY RecoverEffect DEF CoreInv, RunInv, Recover, watch, Goto, Actors, PcType, BeforeKnown,
     EndIsKnown, Slipped, SlipsOnlyStopped, RespawnRecorded, Sound, Inert, KillLocked,
     RestoreLocked, PollLocked

\* RestoreUnfence keeps the third layer.
LEMMA RunRestoreUnfence ==
    ASSUME CoreInv, PlaceInv, RunInv, RestoreUnfence
    PROVE  RunInv'
  BY RestoreUnfenceEffect DEF RunInv, RestoreUnfence, world, watch, Goto, BeforeKnown,
     EndIsKnown, Slipped, SlipsOnlyStopped, RespawnRecorded

\* PollObserve keeps the third layer.
LEMMA RunPollObserve ==
    ASSUME CoreInv, PlaceInv, RunInv, PollObserve
    PROVE  RunInv'
<1> USE DEF CoreInv, PlaceInv, RunInv
<1>1. BeforeKnown'
  BY PollObserveEffect DEF BeforeKnown
<1>2. EndIsKnown'
  BY PollObserveEffect DEF PollObserve, world, locks, Goto, EndIsKnown
<1>3. /\ pc["poll"] = "observe" /\ UNCHANGED <<mapped, disk, pane, owed>> /\ fresh' = FALSE
      /\ pc'["restore"] = pc["restore"]
      /\ seen \in {"Running", "Ready", "Lost", "unknown"}
  <2>1. PICK l : Goto("poll", l)
    BY DEF PollObserve
  <2> QED
    BY <2>1 DEF PollObserve, Goto, NoteType, world
<1>4. SlipsOnlyStopped'
  <2> SUFFICES ASSUME Slipped'
               PROVE  inst'.lv \in {"Lost", "Archived"} /\ pane' = "none" /\ ~fresh'
    BY DEF SlipsOnlyStopped
  <2>1. inst.run # "active"
    BY <1>3, PollObserveEffect DEF Slipped, BeforeKnown
  <2>2. Slipped
    BY <1>3, <2>1, PollObserveEffect DEF Slipped
  <2> QED
    BY <1>3, <2>2, PollObserveEffect DEF SlipsOnlyStopped
<1>5. RespawnRecorded'
  BY <1>3, PollObserveEffect DEF RespawnRecorded
<1> QED
  BY <1>1, <1>2, <1>4, <1>5

\* PollRestore keeps the third layer.
LEMMA RunPollRestore ==
    ASSUME CoreInv, PlaceInv, RunInv, PollRestore
    PROVE  RunInv'
  BY PollRestoreEffect DEF RunInv, PollRestore, world, watch, Goto, BeforeKnown,
     EndIsKnown, Slipped, SlipsOnlyStopped, RespawnRecorded

\* Crash keeps the third layer.
LEMMA RunCrash ==
    ASSUME CoreInv, PlaceInv, RunInv, Crash
    PROVE  RunInv'
<1> USE DEF RunInv
<1>1. Load /\ Forget
  BY DEF Crash
<1>2. pc'["restore"] = "idle" /\ pc'["poll"] = "sweep" /\ fresh' = FALSE
  BY <1>1 DEF Forget, Actors
<1>3. BeforeKnown' /\ RespawnRecorded'
  BY <1>2 DEF BeforeKnown, RespawnRecorded
<1>4. EndIsKnown'
  BY <1>1, LoadEffect DEF EndIsKnown
<1>5. SlipsOnlyStopped'
  BY <1>1, <1>2, LoadEffect DEF SlipsOnlyStopped, Slipped
<1> QED
  BY <1>3, <1>4, <1>5

\* PaneMoves keeps the third layer.
LEMMA RunPaneMoves ==
    ASSUME CoreInv, PlaceInv, RunInv, PaneMoves
    PROVE  RunInv'
<1>1. /\ UNCHANGED <<inst, mapped, disk, pc, fresh, seen, before, owed>>
      /\ pane # "none"
  BY DEF PaneMoves, mem, notes, marks, watch
<1> QED
  BY <1>1 DEF RunInv, BeforeKnown, EndIsKnown, Slipped, SlipsOnlyStopped, RespawnRecorded

\* The initial states satisfy the third layer.
LEMMA RunInit == Init => RunInv
<1> SUFFICES ASSUME Init PROVE RunInv
  OBVIOUS
<1>1. pc["restore"] = "idle" /\ pc["poll"] = "sweep"
  BY DEF Init, Actors
<1>2. inst.run = disk.run
  BY DEF Init, Loaded
<1> QED
  BY <1>1, <1>2 DEF RunInv, BeforeKnown, EndIsKnown, Slipped, SlipsOnlyStopped,
     RespawnRecorded

\* Every step keeps the third layer.
LEMMA RunStep == CoreInv /\ PlaceInv /\ RunInv /\ [Next]_vars => RunInv'
<1> SUFFICES ASSUME CoreInv, PlaceInv, RunInv, [Next]_vars PROVE RunInv'
  OBVIOUS
<1>1. CASE UNCHANGED vars
  BY <1>1 DEF vars, RunInv, BeforeKnown, EndIsKnown, Slipped, SlipsOnlyStopped,
     RespawnRecorded
<1>2. ASSUME NEW a \in {"kill", "poll"}, FinishKill(a) PROVE RunInv'
  BY <1>2, RunTeardownDone, RunTeardownUnknown, RunSettleTeardown, RunSettleFails,
     RunEraseRecord, RunEraseFails, RunKillUnlock, RunKillUnclaim DEF FinishKill
<1>3. CASE Request
  BY <1>3, RunKillClaim, RunArchiveRequest, RunRestoreRequest DEF Request
<1>4. CASE KillStep
  BY <1>2, <1>4, RunKillLock, RunKillTombstone DEF KillStep
<1>5. CASE ArchiveStep
  BY <1>5, RunArchiveLock, RunArchiveAdmit, RunArchiveStop, RunArchiveMove,
     RunArchiveAdopt, RunArchiveAbort, RunArchiveSave, RunArchiveUndo, RunArchiveUndone,
     RunArchiveKeep, RunArchiveUnclaim, RunArchiveUnlock DEF ArchiveStep
<1>6. CASE RestoreStep
  BY <1>6, RunRestoreLock, RunRestoreClaim, RunRestoreBack, RunRestoreRecord,
     RunRestoreRespawn, RunRestoreCommit, RunRecover, RunSaveSettlement, RunRestoreUnclaim,
     RunRestoreUnlock, RunRestoreUnfence DEF RestoreStep
<1>7. CASE Poll
  BY <1>2, <1>7, RunPollReap, RunPollAdmit, RunPollSkip, RunPollSnapshot, RunPollObserve,
     RunPollPersist, RunPollRestore, RunPollPass, RunPollFree, RunFlushOwed, RunFlushLater,
     RunRecover, RunSaveSettlement DEF Poll
<1> QED
  BY <1>1, <1>3, <1>4, <1>5, <1>6, <1>7, RunPaneMoves, RunCrash DEF Next

\* The layers up to the third hold of every reachable state.
THEOREM RunInvariant == Spec => [](CoreInv /\ PlaceInv /\ RunInv)
<1>1. Init => CoreInv /\ PlaceInv /\ RunInv
  BY CoreInit, PlaceInit, RunInit
<1>2. CoreInv /\ PlaceInv /\ RunInv /\ [Next]_vars => CoreInv' /\ PlaceInv' /\ RunInv'
  BY CoreStep, PlaceStep, RunStep
<1> QED
  BY <1>1, <1>2, PTL DEF Spec

\* Every write of the row takes its run from the instance, which knows of the end.
LEMMA EndStaysOnRow ==
    ASSUME CoreInv, RunInv, [Next]_vars, disk.run = "ended"
    PROVE  disk'.run = "ended"
<1> USE DEF Persist, PersistFails, SaveOrReport, PersistSettlement
<1>1. inst.run = "ended" /\ ToInstanceData.run = "ended" /\ disk \in Row
  BY RowOfInstance DEF RunInv, EndIsKnown, CoreInv
<1>2. CASE UNCHANGED vars
  BY <1>2 DEF vars
<1>3. ASSUME NEW a \in {"kill", "poll"}, FinishKill(a) PROVE disk'.run = "ended"
  <2>1. CASE EraseRecord(a)
    BY <1>1, <2>1 DEF EraseRecord, Row
  <2> QED
    BY <1>1, <1>3, <2>1 DEF FinishKill, TeardownDone, TeardownUnknown, SettleTeardown,
       SettleFails, EraseFails, KillUnlock, KillUnclaim
<1>4. ASSUME NEW a \in {"restore", "poll"}, Recover(a) \/ SaveSettlement(a)
      PROVE  disk'.run = "ended"
  <2>1. CASE Recover(a)
    BY <1>1, <2>1, RecoverEffect
  <2>2. CASE SaveSettlement(a)
    BY <1>1, <2>2 DEF SaveSettlement
  <2> QED
    BY <1>4, <2>1, <2>2
<1>5. CASE Request
  BY <1>1, <1>5 DEF Request, KillClaim, ArchiveRequest, RestoreRequest
<1>6. CASE KillStep
  <2>1. CASE KillLock
    BY <1>1, <2>1 DEF KillLock
  <2>2. CASE KillTombstone
    BY <1>1, <2>2, KillTombstoneEffect
  <2> QED
    BY <1>3, <1>6, <2>1, <2>2 DEF KillStep
<1>7. CASE ArchiveStep
  BY <1>1, <1>7 DEF ArchiveStep, ArchiveLock, ArchiveAdmit, ArchiveStop, ArchiveMove,
     ArchiveAdopt, ArchiveAbort, ArchiveSave, ArchiveUndo, ArchiveUndone, ArchiveKeep,
     ArchiveUnclaim, ArchiveUnlock
<1>8. CASE RestoreStep
  BY <1>1, <1>4, <1>8 DEF RestoreStep, RestoreLock, RestoreClaim, RestoreBack,
     RestoreRecord, RestoreRespawn, RestoreCommit, RestoreUnclaim, RestoreUnlock,
     RestoreUnfence
<1>9. CASE Poll
  <2>1. CASE PollPersist
    BY <1>1, <2>1 DEF PollPersist
  <2> QED
    BY <1>1, <1>3, <1>4, <1>9, <2>1 DEF Poll, PollReap, PollAdmit, PollSkip, PollSnapshot,
       PollObserve, PollRestore, PollPass, PollFree, FlushOwed, FlushLater
<1>10. CASE PaneMoves
  BY <1>1, <1>10 DEF PaneMoves
<1>11. CASE Crash
  BY <1>1, <1>11, LoadEffect DEF Crash
<1> QED
  BY <1>2, <1>5, <1>6, <1>7, <1>8, <1>9, <1>10, <1>11 DEF Next

\* RunEndKept: the end of a run is on the row, owed to it or about to be written while
\* the session is live, and a durable end is never taken back.
THEOREM RunEndIsKept == Spec => RunEndKept
<1>1. RunInv => (/\ mapped /\ inst.lv \in {"Running", "Ready"}
                 /\ inst.run # "active" /\ disk.run = "active"
                 => owed \/ pc["poll"] = "checkpoint")
  BY DEF RunInv, SlipsOnlyStopped, Slipped
<1>2. CoreInv /\ RunInv /\ RunInv' /\ [Next]_vars =>
        [disk.run = "ended" => disk'.run = "ended"]_vars
  BY EndStaysOnRow
<1> QED
  BY <1>1, <1>2, RunInvariant, PTL DEF Spec, RunEndKept
=============================================================================
