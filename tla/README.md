# A verification project for Agent Factory

Agent Factory runs coding agents in tmux sessions, each in its own git worktree,
under a daemon that owns every session's record. The hard part of the program is
the *lifecycle of a session*: a kill, an archive, a restore, a limit resume, a
hand-off and the daemon's own poll all act on one session at a time of their own
choosing, each in many steps that can fail, while the agent dies on its own and the
daemon may be killed between any two of those steps. Beside it stand four protocols
of their own: the *durable queue of watch events*, whose files must survive the same
crashes and every failure of the disk; the *upgrade transaction*, in which a daemon has
itself replaced by a new binary that may not start; the *budget of automatic
restores*, which keeps a session that will not stay up from being started for ever; and
the *delivery of a takeover brief*, which the agent a session is handed to must get, if
possible once. This project models them in TLA+, checks them with TLC and proves with
TLAPS the safety of all of them, for every value of the constants.

Line numbers below are of the repository at the commit this project was written for.

## 1. Inventory

| Component | State it keeps | Operations | What makes it correct |
|---|---|---|---|
| Transition chokepoint (`session/transition.go`) | liveness, in-flight operation, started, task-run marker, reset time, archive stamp and channel of an instance | 19 events through one table, plus the limit and resume writers beside it | only fenced archives reach Archived; runs do not reopen; a waiter on an archive is always woken |
| State epoch and observers (`session/state_epoch.go`, `agent_observation.go`) | `stateEpoch` | sample with the operation axis, apply scoped to it | a conclusion drawn before an operation never lands on it |
| Kill (`daemon/manager_sessions.go`, `rootkill.go`, `session/teardown.go`) | `killsInFlight`, tombstone on the row, operation lock | claim, lock, tombstone, teardown, settle, erase; finished by the poll after a crash | no orphan, no resurrection, always finished |
| Archive, archived restore (`daemon/archive*.go`, `session/git/worktree_archive.go`) | place of the worktree, row, fence | stop, move, commit, save, undo; move back, record, respawn, commit | the row names the place, nothing moves under a running agent |
| Lost restore (`daemon/restore.go`, `settlement.go`) | fence, owed writes | manual and automatic recovery, settlement write and its retry | fences fall, owed writes are paid |
| Restore budget (`daemon/lostrestore*.go`) | per session in memory: failures, deadline misses, push failures, back-off, awaited observations, flap window; on the row: verdict and environmental wait | count, back off, confirm, give up, reset by an operator | automatic respawns are bounded, the verdict is durable, every Lost session ends restored or given up |
| Upgrade transaction (`internal/upgradetxn`, `daemon/upgrade_*.go`) | `active.json` (phase and rollback progress), executable, metadata snapshot, approval and status files, recovery job, rejected ledger | prepare, arm, hand-shake, stop, swap, start, validate, commit, roll back, clean up, hand off | decided once, the bytes follow the verdict, no crash leaves an upgrade nobody finishes |
| Status poll (`daemon/poll_loop.go`, `manager_status.go`, `limit_poll_persist.go`) | captured epoch and pane, compared snapshot | skip, snapshot, observe, persist, restore, flush | cedes to operations, loses no run's end |
| Load (`daemon/manager.go`, `load_runtime_settlement.go`, `session/instance_data.go`) | rows on disk | rebuild instances, reattach or respawn panes | never resurrects what was killed or archived |
| Event queue, watch pipeline (`daemon/eventqueue*.go`, `watcher*.go`) | durable FIFO, cursor, drops, parked marker | append, drain, compact, discard | at least once, in order, across crashes |
| Hand-off delivery (`daemon/handoff*.go`, `session/handoff_pending.go`) | pending mission with its verdict, replacement fence, stored prompt, startup-unknown flag | swap, checkpoint, wait, mark, submit, settle; operator's retry and confirmation; recovery by the poll | no brief repeated by the daemon itself, none lost, none without a way out |
| Limit scheduling (`daemon/limit*.go`), hand-off policy (`handoff`), binary staging (`internal/autoupdate`), PTY broker (`session/tmux`, `terminal`), tasks and schedules (`task`, `schedule`), accounts and quota | see sections 7 and 8 | | |
| API, clients, configuration, diagnostics, plugins | none that is authoritative | marshalling, views, reports | not modelled |

How they interact: clients call the daemon over a socket; each call runs on a
goroutine of its own. Operations on a session meet on four things: the per-session
*operation lock* (tried with a timeout by RPCs, only tried by the poll), the
`killsInFlight` *claim* (fails fast), the *fence* (the operation axis of the
instance, which makes the poll and other operations step aside) and the *row* in
`instances.json`, written whole under the repository's row lock by whoever has
something to say. The poll is one goroutine that visits every session each tick and
takes none of the locks to observe. Agents live in tmux and survive the daemon.

The behaviours that are hard: conclusions drawn from a pane captured earlier; writes
of the whole row by actors that do not hold the operation lock; deferred releases
whose order decides who sees what; failures between moving a worktree and recording
it; crashes between any two steps; retries that compete with fresh requests. Each is
listed under `hazards` in `PROJECT.json` with the property that watches it.

The upgrade is apart from sessions too. The old daemon, the recovery actor (a process of
the preserved binary), the service manager that restarts the actor and every daemon that
starts meanwhile share no memory: they meet on the files of the transaction, the recovery
lock, the home's lock and the socket, and the machine may lose power at any step.

The watch pipeline is apart from sessions: per watch task one goroutine reads the lines
of a command and one replays the backlog. They meet on the mutex of the queue (`q.mu`),
which neither holds while it delivers, and on three files: the records, the cursor and
the marker that says a usage limit parked the backlog. Each file is written on its own.

## 2. Modules

| Module | Models |
|---|---|
| `SessionTransition` | definitions only: `transitionTable`, `transitionLocked` as a function from an instance and an event to an instance, and the writers that bypass the table |
| `SessionChokepoint` | one instance driven by any event in any order and by a set of observers with captured epochs |
| `SessionTransitionProofs` | lemmas: the rows of the table, and what each event does to an instance |
| `SessionChokepointProofs` | the theorems about `SessionChokepoint` |
| `SessionLifecycle` | the daemon's operations on one local session, step by step, with crashes and failures |
| `SessionLifecycleProofs` | the theorems about it |
| `EventLog` | definitions only: the queue file as its readers see it |
| `EventLogProofs` | lemmas about the queue file: lines, the events that wait in it, what grows or cuts it |
| `EventQueue` | the event queue of one watch task, its reader, its drainer, disk faults, stops and crashes |
| `EventQueueProofs` | the theorems about it |
| `RestoreBudget` | the retry state of one Lost session, the poll and an operator's restore |
| `RestoreBudgetProofs` | the theorems about it |
| `AtomicUpgrade` | abstract: what an upgrade promises, in two variables |
| `UpgradeTransaction` | the upgrade protocol of four parties; refines `AtomicUpgrade` |
| `UpgradeTransactionProofs` | the theorems about it, and the refinement |
| `HandoffDelivery` | the hand-offs of one session, their three submitters, the poll and the operator |
| `HandoffDeliveryProofs` | the theorems about it |
| `MCSessionChokepoint`, `MCSessionLifecycle`, `MCEventQueue`, `MCRestoreBudget`, `MCUpgradeTransaction`, `MCHandoffDelivery` | the instances TLC checks |

### SessionTransition

An `Instance` is the record of the fields `transitionLocked` reads or writes.
A row of the table is data: the states the event is legal from, the target of each
axis, and its effects on started, the run marker and the reset time. `Transition`
composes one small operator per field (`LivenessAfter`, `TargetOp`, `RunAfter`, ...),
each taken from the corresponding part of `transitionLocked`. Merged or abstracted:
the two idle-edge holds into `held`; sealing for shutdown and a pending account swap,
the two refusals an archive meets, into `barred`; the taskrun gate's evidence
(prompt attempts, churn, quiet windows) into `awaiting`; the reset time's evidence and
banner anchor into the time. Left out: attention requests, model-change diagnostics,
the prune nonce.

### SessionChokepoint

`Fire`, `Park`, `ObserveUnscoped` are the events; `Capture`, `Settle`,
`SettleLimit`, `Resume` are an observer that reads the operation axis and the epoch in
one critical section and later applies a conclusion scoped to it; `ReparkLimit`,
`PutBack`, `EndLimit`, `LowerFence`, `Launch` are the writers beside the table;
`Surroundings` lets other components change the facts the chokepoint only reads.
Callers are not constrained: whatever order the daemon uses is among those explored.

### SessionLifecycle

| Variable | Code |
|---|---|
| `inst`, `killed`, `mapped`, `path` | the `Instance`, `userKilled`, membership in `m.instances`, the path of its `GitWorktree` |
| `disk` | its row: exists, liveness, tombstone, worktree path, run marker, held edge |
| `wt`, `pane` | where the worktree is; what its agent is doing |
| `lock`, `claim` | operation lock, `killsInFlight` |
| `pc` | the step each of kill, archive, restore and poll is at |
| `fresh`, `seen`, `before` | whether the poll's captured epoch is current, what the pane showed, what it compares with before it writes |
| `owed` | `settleOwed` |
| `unrecorded` | history: a caller was told that the row could not be written, or the daemon died inside an operation that had moved the worktree |

Actions are the critical sections and the calls with an outcome of their own; the
table of `PROJECT.json` (`map`) names the lines of each. Every write can fail, every
teardown can be refused, cut off or of unknown outcome, a move can fail with or
without having moved the bytes, a lock can time out, and `Crash` is enabled in every
state. `Crash` includes what loading the rows does: `Loaded`, then re-attach, respawn
or Lost, then the settlement of a replaced runtime.

Abstracted in this module:
- one session; interference between sessions is through locks that only delay;
- the pane read is taken in the step that samples the epoch: what could happen
  between the two moves the epoch and makes the reading irrelevant;
- `before` is sampled with the early checks of the poll;
- a lock timeout is possible whenever the lock is held;
- VS Code and hook failures are folded into the refusals next to them;
- `wt = "gone"` means the cleanup settled: removed, or left on purpose and reported;
- left out: creation, hand-off, account swap, usage limits, remote sandboxes, pruning,
  attempt budgets, the rebuild of a deleted worktree, rows of unknown start, ghost
  rows, the orderly shutdown. Liveness `Dead` is not reached by any modelled writer.

### EventLog and EventQueue

A file is a sequence of *cells*: a record is its body and its newline, a short write
leaves one cell, a whole body without its newline or a fragment of one. Offsets, sizes
and byte caps count cells, so an offset may fall inside a line and two records may merge
into one that does not decode, as bytes do. `LoadOffset`, `Lines`, `Scanned` and
`EventAt` are what the load, the count, the torn-tail scan and the reader make of it; all
of them look for `Ends`, the newlines behind an offset.

| Variable | Code |
|---|---|
| `jsonl`, `cursor`, `marker` | the three files of a task; an empty and an absent record file are the same |
| `q` | `eventQueue`: offset, size, pending, `limitParked`, `limitParkedErr`, `loadErr` |
| `reader` | the step of `consumeLines`, `handleEvent` and `enqueue`, and what a refused event takes back |
| `drainer`, `leaving` | the step of `drainLoop`, the head it peeked; a drainer between `stopDraining` and its look back |
| `stopping`, `emitted` | `stopCh`, the lines read so far |
| `kept`, `shielded`, `delivered`, `dropped`, `unclosed` | history: retained, retained beside the marker, delivered, evicted or expired; a torn record was left in the file |

Every operation on a file is a step; `QueueFree` is the mutex, which the steps of an
enqueue after its start and of an advance keep. `Faults` names the operations that may
fail: append (nothing or a part written), truncate, the newline that closes a torn
record, the cursor's write or read, removals, the compaction's rename, the marker, reads
of the head and the load. `Crash` is a new daemon's load at any step; `Stop` and `Reload`
are the orderly restart, which waits for both goroutines. Whether an event is old, its
target at its limit, or a delivery accepted, is an open choice.

Abstracted: a crash is the death of the process, so completed writes stay (power loss and
`fsync` order are left out); one drainer between its two last steps stands for several;
the parked-status sequence of the head, the throttle of load retries, the rate window
(a choice to drop a live line), the alarm and the status of a failing target, and the
supervision of the command are left out. While the state of the queue is unknown the
reader is held, as `limitBackpressureState` holds it, so no line is routed past a backlog
that could not be counted.

### RestoreBudget

| Variable | Code |
|---|---|
| `st`, `orphan`, `confs` | the entry of `lostRestoreStates`; an entry the poll still points to after the RPC deleted it; `lostRestoreConfirmations` inside the window |
| `facts`, `disk`, `owed` | `LostRestoreFailure` and `LostRestoreWait` of the instance, the same on its row, `settleOwed` |
| `remote`, `up`, `lost` | kind of the session, whether its agent runs, its liveness |
| `poll`, `rpc`, `force` | where the poll and the restore RPC are; `--force-reap` |
| `spawns`, `voided` | history: respawns of this episode, a forced replacement that failed after its sandbox was retired |

The poll observes, sweeps, enters `restoreLostSession`, tries the lock, probes, pushes and
respawns; the RPC probes, pushes, respawns and, in a second step after its fence is down,
arms the confirmation. Each failure is of a class: structural (spends the budget), a
resource limit (waits without spending), no answer (waits, up to a limit of its own).
Counters stop at their limits, since only comparisons with the limit are made, so the
state space is finite without any bound on steps. A back-off is running or over; the
window forgets one confirmation at a time. Left out: `totalAttempts` (shown to the user),
the environmental streak (only lengthens a back-off), the root session, a kill, and the
archived restore that also closes the episode.

### AtomicUpgrade and UpgradeTransaction

`AtomicUpgrade` has two variables: the verdict (none, open, new, old, broken) and the
bytes of the executable. The verdict is decided once, for the bytes that are installed;
from then on they stay; only a decided upgrade is forgotten.

| Variable | Code |
|---|---|
| `journal`, `survivors` | `active.json` as a reader sees it; what it may be after a power loss |
| `exe`, `exeSurvivors`, `data` | the executable, likewise; the metadata files the candidate migrates |
| `daemon`, `dying`, `boot` | who holds the home, is it exiting, processes that have not bound yet |
| `trigger`, `proof`, `approved` | `triggerUpgradeActivation`, the actor its proof named, `activation.json` |
| `job`, `due`, `starts` | the recovery job, a pending start of its actor, how many starts its launcher has granted |
| `pc`, `unconfirmed`, `run`, `status` | `Supervisor.Run`, an adopted phase whose barrier is open, its local flags, `recovery.json` |
| `ledger`, `ran`, `landed` | the rejected ledger; history: the candidate served, its bytes landed |

Every journal write ends durable, lost, or visible with its directory barrier open
(`persistJournalLocked` adopts the last); `PowerLoss` picks any survivor. The refinement
mapping reads the verdict off *all* survivors (`verdictOf`), so `Atomic` says that no
power loss can take a decision back. An arm of `Supervisor.Run` is split where it writes,
starts or stops something.

Three launchers start the actor. A systemd unit restarts one that fails or dies, and
starts again at boot, under a start limit (`StartLimitIntervalSec=300`,
`StartLimitBurst=3`, `recovery_job.go:388`); a launchd job restarts it without a limit; a
detached actor is started by the upgrade or by a client's wake and by nobody else
(`Detached`). The model has no clock: a start beyond `StartLimitBurst` may be refused or,
the interval being over, granted, and which of the two is open at every failure
(`Restart`). A launchd job does what a unit does whose limit is never met.

Abstracted: the bytes of a process tell its version (`SameVersion = TRUE` is the harder
case, in which versions cannot); a start that outlives its grace period is `Dawdle`; the
ordinary daemon a unit or client starts is `RivalStart`, the client that wakes a stale
recovery is `Wake`; a stop that cannot be confirmed is a fault. `Prepare` of a second
upgrade waits for the actor of the first, which could only stand down. Power loss keeps
metadata that was written. Left out: journal validation, the lock around the install,
unit files, installs the daemon does not own, the download ahead of `Prepare`.

### HandoffDelivery

| Variable | Code |
|---|---|
| `mem`, `disk` | the `Instance` and its row: program, `PendingHandoffMission` and its verdict, `Prompt`, liveness, startup-unknown, operation (memory only) |
| `owed` | `settleOwed` |
| `pane` | what the agent's pane shows: busy, idle, a usage limit, nothing |
| `tick` | the pass the poll goroutine runs next, in the order of `startInstancePollLoop` |
| `job` | the attempt that holds the target and operation locks: by whom, at which step, what it read at admission, what the wait or the send said |
| `landed`, `excused` | history: briefs that reached an agent or were attested; briefs whose repetition somebody else answers for (an operator's retry, a settlement reported as not written) |

`HandoffSession`, `SwapAgent` and `Checkpoint` are the hand-off up to its delivery;
`WaitForReady`, `beginHandoffMissionDelivery`, `SubmitMission` and the three `Settle`
actions are shared by the hand-off, the recovery pass and the operator's retry, as
`waitAndSubmitHandoffMission` is. The poll's passes are one step each, except that an
attempt of the recovery pass occupies the goroutine until it is settled. Every write can
fail, the agent moves on its own, and `Restart` is a crash at any step with the load of
the row, which raises the fence again where a mission with a certain verdict is owed.

Abstracted: one local session; brief and incoming agent are the number of the hand-off;
the two verdicts that the code reads as one are one; an automatic resume and a restore are
one step each with any outcome (their own steps are in the other modules); what storage
projects for a previous release is the identity for a current reader; a retry delay is
the choice between `PollRetry` and `PollSkip`. Left out: kill and archive during a
hand-off, account swaps (and so the load that keeps an account-scoped row inert after a
failed start, `session/instance_data.go:967`), remote runtimes, and what the brief says.

## 3. Runs

| Run | Bounds | Shows |
|---|---|---|
| `chokepoint` | two observers, reset times {0, 1}, epoch up to 4 | the invariants and action properties of SessionChokepoint |
| `lifecycle` | kill, archive and restore clients; agents work or die | records, tombstones, fences and moves under full interference (3.1 million states) |
| `lifecycle_runs` | archive and restore clients; agents also go idle | the end of a task run is kept (2.1 million states) |
| `lifecycle_live` | kill and restore clients; agents work or die; fair | kills are finished, owed writes are paid, fences fall |
| `queue` | 3 lines, caps of 2 events and 5 cells, compaction after 1 cell, all faults | no retained event is lost, the counts are those of the file, deliveries keep their order, parked events stay (2.3 million states) |
| `queue_live` | the same without faults | every retained event is settled |
| `upgrade` | two upgrades of two metadata files, two failed operations, two deaths, one rival | the protocol refines `AtomicUpgrade`; what was tried and taken back is disqualified before it is forgotten; files change only under a stopped daemon; an armed recovery ends unless its launcher gives the actor up (0.9 million states) |
| `restore_budget` | limits of 2, nothing else bounded | respawns and flaps are bounded, the verdict is durable or owed and its row consistent, the loop settles (0.3 million states) |
| `handoff` | two hand-offs, one restart, nothing else bounded | the daemon repeats no brief by itself, loses none, strands none, and works at every fence it raised (1.4 million states) |
| `archived`, `queue_crash`, `handoff_lost` | as above; `handoff_lost` one hand-off, one restart | violated as section 6 explains |

Why the bounds suffice. Two observers are enough for one to be outdated by the
other; an epoch bound of 4 leaves room for a fence to go up, come down and go up again
around a held epoch, and the theorems hold for every bound. In SessionLifecycle every
client may repeat its operation for ever and crash any number of times: the state space
is complete without a bound on steps. One client per kind is enough because two
requests of one kind exclude each other on the same lock and claim as two of different
kinds. Leaving idle agents out of `lifecycle` and kills out of `lifecycle_runs` keeps
each run within minutes; the task-run marker is the only state idleness adds, and a kill
does not touch it.

In the queue, three lines are one more than the cap, so that an append evicts while the
drainer holds the head; the byte cap of 5 cells is met by two records and a torn one;
compaction after one cell happens on the first advance that leaves a backlog. Once a
torn record was neither cut off nor closed, which `unclosed` remembers, the size in memory
is behind the file; `RetainedIsSettled`, `CountMatchesLines`, `ShieldedStay` and
`OrderKept` speak of the behaviours before that, and section 6 says what may happen after it.

In the upgrade, two faults are enough for a write whose barrier stays open and the failure
of what then tries to close it; two deaths for an actor that dies and the successor that
dies while taking over; two metadata files for a restore that stops between them; two
upgrades for what the first leaves behind (ledger, job, stale approval) to meet the
second. `SwapOnlyStopped` and `PreviousReadsOldSchema` speak of behaviours without a
rival, `ArmedEnds` excuses a home with one: section 6 says what a rival can do. It also
excuses an actor that is down and that its launcher no longer starts (`Abandoned`). The
job of the run is a unit with a start limit of 2, one less than the code's 3, so that the
first failure is always followed by a start and the second meets the limit, both within
the run's faults and deaths. The proofs hold for every limit, detached or not; the
liveness of a detached actor says nothing beyond its first run and is not checked.

In the restore budget a limit of 2 lets every counter pass below, at and beyond it; the
theorems hold for all limits.

In the hand-off, one attempt that fails, is retried and is retried again needs no second
hand-off; the second shows what the first leaves in the row, the prompt and the verdict to
the next. One restart meets every step of both; what it rebuilds in memory depends on the
row alone, and every row, owed or not, that operations can leave is met by it.

Two initial states for SessionLifecycle: a running session and one archived by an earlier daemon.

Fairness. `RunsToEnd` is weak fairness of each operation as a whole: a goroutine that
was started is scheduled, and its waits are bounded by timeouts; the poll loops for
ever. Requests, agents and crashes are not fair. `RetriesSucceed` is strong fairness
of the successful outcome of what the poll repeats on every tick; it says that a
retried write or teardown does not fail every time. Both are in `LiveSpec`, which
`lifecycle_live` checks. `KilledIsErased` and `OwedIsPaid` assume that clients go quiet in
the end, since a client that keeps the session's lock taken can always outrun a poll that
only tries it; `OwedIsPaid` also assumes the daemon stays up, since a load that cannot
write owes its row again. `FenceFalls` needs neither. `FairSpec` of EventQueue is weak fairness of the two goroutines
and of the reload that a stop is part of, and strong fairness of a delivery: the drain
loop tries the head again for ever, and a target that never recovers keeps its backlog
until it expires. What the command prints, stops and crashes are not fair;
`BacklogDrains` assumes that stops and crashes cease.

`FairSpec` of UpgradeTransaction is weak fairness of the actor, of the service manager
(a start that was granted happens; whether the start after a failure is granted is
`Restart`'s choice, not fairness), of daemon processes and of a trigger
that has begun; faults, deaths and rivals are finite by their bounds, requests not fair.
`FairSpec` of RestoreBudget is weak fairness of the poll (it ticks for ever), of a started
restore and of time (a back-off runs out). `Settles` assumes that the operator stays away,
the daemon lives, probes answer and no resource limit holds every attempt back: each of
those may prolong an episode without end, and is meant to.
`FairSpec` of HandoffDelivery is weak fairness of the poll and of an attempt (its waits and
its send have deadlines) and strong fairness of `PollRetry`: the delay between two
recovery attempts is thirty seconds, so a row that stays eligible is taken in the end.

## 4. Proofs

Everything below holds for every value of the constants that satisfies the named
assumption of the module: any number of observers and reset times, of metadata files,
faults, deaths, rivals, hand-offs and restarts, of events, with any caps and any set of
operations that may fail, any positive limit. The assumptions say
only that bounds and limits are natural numbers and that sets name what they should. No
invariant a run checks is inductive by itself; what each needed was checked by TLC, as an
invariant of the run, before it was proved. The layers of a proof are used in order, each
by the next, so that the later ones may rely on types and mutual exclusion.

| Property of a run | Theorem | From |
|---|---|---|
| `chokepoint`: all five | `SessionChokepointProofs` | `IInv` |
| `lifecycle`: `TypeOK`, `FenceHasOwner` | `LifecycleTypeCorrect`, `FenceNeverStranded` | `CoreInv` |
| `lifecycle`: `NoOrphan`, `RecordNamesWorktree`, `MovesOnlyStopped` | `RecordOutlivesSession`, `RowNamesThePlace`, `MovesUnderNoAgent` | and `PlaceInv` |
| `lifecycle`: `KillIsFinal` | `KilledStaysKilled` | `CoreInv` |
| `lifecycle_runs`: `RunEndKept` | `RunEndIsKept` | and `RunInv` |
| `queue`: `TypeOK`, `CountMatchesLines` | `EventQueueType`, `CountIsRight` | `TypeInv`, `FileInv` |
| `queue`: `RetainedIsSettled`, `ShieldedStay`, `OrderKept` | `RetainedEventsSettle`, `ShieldsHold`, `DeliveryInOrder` | and `OrderInv`, `MarkerInv`, `Retained` |
| `restore_budget`: all but `Settles` | `RestoreBudgetProofs` | `RowInv`, `FlapInv`, `BudgetInv`, `VerdictIsSpent` |
| `upgrade`: `TypeOK`, `Atomic` | `UpgradeTypeCorrect`, `UpgradeIsAtomic` | `CoreInv` |
| `upgrade`: `RejectedBeforeForgotten`, `PhaseIsDurable` | `RejectedIsRecorded`, `ActsOnDurablePhase` | and `LedgerInv` |
| `upgrade`: `PreviousReadsOldSchema`, `SwapOnlyStopped` | `PreviousReadsItsSchema`, `SwapsOnlyWhenStopped` | and `QuietInv` |
| `handoff`: `TypeOK`, `NoSilentResend`, `BriefKept`, `HasExit` | `HandoffTypeCorrect`, `BriefNeverSilentlyResent`, `BriefNeverLost`, `MissionHasExit` | `IInv` |

**The transition table** (`SessionTransitionProofs`). `TableRows` and `EventRows` compute,
row by row, what matters of the table: only CommitArchive targets Archived, out of the
archive fence and stopping the session; only BeginArchive raises that fence; which fence
each event asks for and leaves. From these `TransitionSound` derives what
any event preserves, and one lemma per event (`BeginArchiveEffect`, ...) says all that the
daemon's operations rely on: the proofs about `SessionLifecycle` never open the table.

**The chokepoint.** `IInv` adds to the types that no observer holds an epoch ahead of the
instance's (`EpochsHeld`), without which a new epoch could equal one already held, and
`Sound(inst)`: archived implies inert, and the channel is open exactly under the archive
fence. `WritePreserves` shows once that any sound write preserves it, and each action is an
instance of it; `TransitionMoves` says how an event may change the run
marker and the liveness. `ObserversRespectFences`, `RunsStayOver` and `OnlyTheFenceArchives` are
action properties from the same invariant.

**The lifecycle.** `CoreInv` is the lock discipline: the lock names exactly the operation
that is inside it (`LockHeld`), a fence belongs to the operation at a step that will lower
it (`FenceOwned`), the tombstone and the presence of a row agree in memory and on disk at
every step (`RowAgrees`, which makes `KillIsFinal` an action property of the pair), and a
capture that is still current did not see the agent of an archived session
(`CaptureCurrent`). `PlaceInv` follows the worktree: where the row may be behind it
(`PlaceTraced`), that a settled teardown left nothing at the known path (`TornDown`), that
an archive that moves has stopped its agent (`StoppedFirst`). Without `TornDown`, `NoOrphan`
is not inductive: the erasure comes two steps after the teardown, with restores and polls
between them. `RunInv` follows the run marker: what the poll compares with is no older than
the run it saw (`BeforeKnown`), and the only way an end can miss the row is a failed
archive write, after which nothing is left that could see the agent (`SlipsOnlyStopped`).

**The queue.** `EventLogProofs` first says what the file's operators do on every file:
behind the end of a line the number of lines is one less (`EndsSplit`, `NthLine`), the
event read at a boundary is the first of those that wait (`WaitingHead`), and what an
append, a truncate, a compaction and a torn tail make of lines and of waiting events
(`RecordFacts`, `CutFacts`, `TailFacts`, `GrowFacts`). One lemma per operation that writes a
file (`AppendShape`, `LoadFromShape`, `UnlinkShape`, ...) then says all that the proofs use
of it. `QueueInv` has five layers:
- `TypeInv`: types, the mutex (`Locks`) and that a truncate never reaches past the end of
  the file (`SizeFits`).
- `OrderInv`: the bodies in the file ascend and none is newer than the newest line handed
  out, so that an append goes behind everything that waits.
- `MarkerInv`: the queue knows whether the marker is on disk, and an undo of it is owed
  only within the enqueue that wrote it.
- `FileInv`: size and count are those of the file, and both cursors are at the end of a
  line (`InStep`, `CursorGood`). The count is needed for no loss: the file is removed when
  the count says nothing is left.
- `Retained`: what was retained and is not settled waits behind both cursors (`Found`) and
  behind all that was delivered (`InTurn`), and the marker stands as long as a shielded
  event is among it (`Shields`).
`ShieldsHold` and `DeliveryInOrder` turned out to need `~unclosed`: no bound of the run
reaches the behaviours in which they fail (section 6).

**The restore budget.** In the order in which they are proved:
- `RowInv`: types, `WaitOrVerdict` and `VerdictOwed` together. They are inductive as one,
  because every writer of the row is `settle`, `checkpoint` or nothing, and a lemma for
  each says what it keeps.
- `FlapInv`: `FlapBounded` and `RoomToCount`: while an automatic respawn awaits its
  observations, the window has room for one more. Without it the count could pass the
  limit, since the gate that compares and the step that counts are far apart.
- `BudgetInv`: `Covered` (the respawns of an episode are covered by the failures charged,
  plus the one that is pending), `SpentIsVerdict` (a spent budget has put the verdict on
  the row, or a step that will do so is next) and `Placed` (what either goroutine may rely
  on at each of its steps).
- `VerdictIsSpent`, for `NoDeadPromise`: where a verdict stands and was not voided, an
  entry that exists has spent its budget, so no failure charged to it books a retry.

**The upgrade.** `CoreInv` says of *every* journal a power loss may leave, not only of the
visible one, that what it claims about the executable is true (`JournalOK`), at which
program points the actor's copy may be ahead of the disk (`DurableOK`), and which phase
each point is at (`PhaseOK`). From it the refinement follows step by step: one lemma per
action that writes a journal or the executable (`...Atomic`) shows a step of `AtomicUpgrade`
or a stutter under the mapping, most of them through `AtomicPhase`, which does it for any
write of a phase that reopens no verdict; `AtomicFrame` covers the rest. `LedgerInv` adds
that as long as a candidate runs or has run undisqualified, every surviving journal still
names it as installed. `QuietInv` adds, for behaviours without a rival, which bytes the
processes run and which files are restored under each surviving journal, and that nobody
serves at the steps that write them.

**The hand-off.** `IInv` says of the instance and of its row alike that a mission is that of
the agent on record and a certain verdict tells the truth (`RecordOK`), what an attempt
knows at each of its steps (`JobOK`), that a row still owing what memory does not is owed a
write (`OwesRow`), and that neither a load nor the recovery pass would submit what has
landed (`FreshMission`, `FreshRow`). The two are needed together: `NoSilentResend` across a
restart rests on the row, and the row on what memory said when it was written.

Only model-checked: liveness (`KilledIsErased`, `OwedIsPaid`, `FenceFalls`,
`BacklogDrains`, `ArmedEnds`, `Settles`, `FenceIsWorked`), which needs fairness and ENABLED
and is out of the prover's reach.

## 5. Mutants

Every property of a passing run is paired with a change to the modelled code that a
plausible mistake would make (`PROJECT.json`, `mutants`; the operators are next to the
definition they replace) and is violated by it.

## 6. Where code and comments disagree

With a run:
- `archived`: an archived session is said to be passed by by the poll
  (`session/instance_data.go:905`, `daemon/manager_status.go:625`). A poll that made its
  checks before the archive and samples the epoch after it turns the session Lost while
  it stays unstarted, so that neither restore route admits it until the daemon restarts.
- `queue_crash`: "a daemon crash mid-replay redelivers at most one event"
  (`daemon/eventqueue.go:33`, `docs/tasks.md:219`). Compaction writes cursor 0 before it
  renames the shorter file, on purpose; a crash in between replays the whole delivered
  prefix.
- `handoff_lost`: a row whose start the loader puts off is loaded Lost and started, so that
  "lostSessionWantsRestore admits it", since "the daemon's lost-restore loop owns the
  rebuild-then-respawn path" (`session/instance_data.go:978`).
  When the row also owes a brief, the load raises the fence, which keeps that loop away;
  the recovery pass takes the fence for its authority, makes an exception for unbound
  remote rows only (`daemon/handoff_recovery.go:250`), waits for a pane that is not there
  and marks the row startup-unknown. It is then Lost and startup-unknown, which no
  restore, retry or confirmation admits.

Seen while modelling, without a run of their own:
- A manual restore is said to carry the failure count until a poll sees the runtime alive
  (`daemon/restore.go:578`). The fence falls before the confirmation is armed; the poll's
  sweep in between deletes the entry, and the count starts at zero.
- With the hand-off after a commit the candidate is said not to stay parked in probation
  (`daemon/upgrade_forward.go:102`). The journal is removed before the hand-off, whose only
  trace is then in the actor's memory; an actor that dies in between is restarted, finds no
  transaction and stands down.
- An operator's retry of a brief on a startup-unknown row whose pane dies during the wait
  can end Lost and startup-unknown as well, if the poll marks it Lost in between.
- A retry whose send certainly failed hands the brief to the recovery pass, although an
  earlier, ambiguous submission of the same brief may have landed. `NoSilentResend`
  counts it to the operator who retried.
- A hand-off that swapped the agent and dies before its checkpoint is written leaves the
  outgoing agent on the row, while the incoming one runs unbriefed in the pane.
- The release of a restore's fence "never disturbs an op some other owner raised"
  (`session/instance_backend.go:916`, `daemon/restore.go:306`). It is deferred before the
  lock, so it runs after the lock is free, and compares only the value: an automatic
  restore that started in between loses its fence. It then runs unfenced, still under the
  operation lock.
- After a failed archive write the row is said to be "still the pre-archive one"
  (`daemon/archive.go:560`). The poll may have written the committed row in between; if
  the rollback's own write fails too, the row names the archive while the worktree is
  home. `RecordNamesWorktree` holds because that failure is counted as reported.
- After a short append that could neither be truncated nor closed with a newline, "only
  the following event" is said to be lost (`daemon/eventqueue.go:597`). The torn bytes
  stay uncounted in `q.size`, and a later truncate to that size cuts the end off a
  complete, retained record. It may also leave the cursor past the end of the file, so that
  the next daemon replays from 0: what the caps had passed comes back, out of order and
  without its shield. `unclosed` marks those behaviours.
- The task-run marker is said to go only from active to ended
  (`session/transition.go:410`, `:663`), while `ResumeInterruptedTaskRunAtEpoch`
  (`session/idle_reason.go:567`) reopens an interrupted run. `RunReopensOnlyInTurn`
  states, and `RunsStayOver` proves, what does hold.
- An automatic respawn may follow the verdict: a pass of the poll that is past its entry
  gate when manual failures spend the budget checks Lost again under the lock, not the
  verdict (`overtaken`). A forced replacement that fails after the old sandbox is gone
  resets the budget and leaves the verdict, so it books a retry that the gate will refuse
  (`voided`). The seeding of the count from the persisted verdict in
  `restoreLostSession` cannot be reached, since the gate before it returns on a verdict.
- `ErrUpgradeAborted` "reports that activation stopped before the previous daemon exited"
  (`internal/upgradetxn/supervisor.go:14`); an actor that dies between the approval and
  `daemon_stopping` is followed by one that aborts while the daemon is on its way out, and
  the upgrade ends aborted with no daemon until one is asked for.
- A rival ordinary daemon that holds the home while the journal is `committed` keeps the
  candidate from binding, and the committed arm has no way back; the actor retries until
  the rival is gone. A candidate that binds after `StopConfirmed` said nobody serves is
  past the gate, which is asked once at its entry.
- `Prepare` reports a journal that is visible and perhaps not durable as a failure and the
  trigger then does not withdraw it: `prepared` stays until the next start meets it. A
  power loss between disabling the recovery job and the cleanup leaves a decided journal
  with the job off, until a client's `EnsureDaemon` wakes it.
- A recovery actor that fails or dies is not always started again. systemd refuses the
  fourth start within five minutes (`internal/upgradetxn/recovery_job.go:388`), and a
  detached actor (`:58`, `:108`) is neither restarted nor started at boot. The upgrade then
  stays armed and undecided, perhaps with no daemon, until a client's `EnsureDaemon` wakes
  the job or, for a unit, the next boot; yet an actor that cannot switch its job off "must
  fail so the manager retries the latter instead of silently abandoning an enabled
  recovery job" (`internal/upgradetxn/supervisor.go:47`). `Abandoned` marks those states.
- Two branches never fire in any behaviour of the model: the reaffirmation at the head of
  the loop after the first iteration, and the arm of `AwaitActivation` that discards an
  approval addressed to another actor.

## 7. Plan

1. Done: `SessionTransition`, `SessionChokepoint` with proofs, `SessionLifecycle` with its
   liveness. Left: usage limits and creation as operations of `SessionLifecycle`.
2. Done: `EventLog`, `EventQueue` with the reader and the drainer, with proofs. Left: an abstract
   at-least-once FIFO that it refines, and the removal of a task with its files.
3. Done: `RestoreBudget` with proofs. Left: `LimitResume`, the scheduling of resumes
   against a user's own.
4. Done: `AtomicUpgrade`, `UpgradeTransaction` and the refinement, with proofs.
5. Done: `HandoffDelivery` with proofs. Left: kill and archive during a hand-off, account
   hand-offs.
6. `PtyBroker`: subscribers, eviction, replacement of the pane.
7. Done: proofs about `SessionLifecycle`. Left: an abstract record of a session that it
   refines.

## 8. Not modelled

- Binary staging: download, checksum and lock; enters the upgrade as the candidate.
- Usage-limit scheduling (when a resume is due), PTY broker, account swap: within reach,
  see the plan. The resume itself is a step of `HandoffDelivery`.
- Hand-off policy: decides when and to whom to hand off; enters as the request.
- Worktree management: plumbing around git whose outcomes (moved, refused, unknown) are
  the inputs of `SessionLifecycle`.
- Tasks and schedules: cron evaluation is a pure function of strings and the calendar, out
  of TLC's reach at any size that would say something; the durable part is the queue.
- Accounts and quota: parsing of provider output into tables of observations.
- API, clients, configuration, diagnostics, plugins: marshalling, views and reports, with
  no authoritative state; by lines they are most of the repository.
