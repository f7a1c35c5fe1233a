----------------------------- MODULE EventQueue -----------------------------
(***************************************************************************)
(* The durable event queue of one watch task and the two goroutines that    *)
(* use it (daemon/eventqueue.go, eventqueue_limit.go, watcher_events.go,    *)
(* watcher_drain.go).                                                       *)
(*                                                                          *)
(* The reader takes the lines of the watch command one at a time, delivers  *)
(* a line while the backlog is empty and appends it otherwise.  The drainer *)
(* replays the backlog: it peeks, delivers without the queue's mutex, and   *)
(* advances the cursor.  Every disk operation is a step of its own and may  *)
(* fail as Faults allows; the daemon may die between any two steps.         *)
(***************************************************************************)
EXTENDS EventLog

CONSTANTS
    MaxEvents,      \* bound: the lines the watch command prints
    QueueMaxEvents, \* watcherQueueMaxEvents
    QueueMaxBytes,  \* watcherQueueMaxBytes, in cells
    CompactBytes,   \* watcherQueueCompactBytes, in cells
    Faults          \* the operations of the file system that may fail

AllFaults == {"append", "truncate", "realign", "cursor", "remove", "rename",
              "marker", "read", "load"}

ASSUME QueueAssumption ==
    /\ MaxEvents \in Nat \ {0} /\ QueueMaxEvents \in Nat \ {0}
    /\ QueueMaxBytes \in Nat \ {0} /\ CompactBytes \in Nat
    /\ Faults \subseteq AllFaults

Events == 1 .. MaxEvents

VARIABLES
    jsonl,     \* <task>.jsonl; an absent file is an empty one
    cursor,    \* <task>.cursor
    marker,    \* <task>.limit-parked exists
    q,         \* the eventQueue in memory
    reader,    \* the stdout reader: the step it is at
    drainer,   \* the drain goroutine: the step it is at and the head it peeked
    leaving,   \* a drainer that gave up its flag and has not looked back yet
    stopping,  \* stopCh is closed
    emitted,   \* the number of lines taken from the watch command
    kept,      \* history: events the queue reported retained
    shielded,  \* history: events retained while the marker was on disk
    delivered, \* history: events that reached their target
    dropped,   \* history: events evicted by the caps or expired
    unclosed   \* history: a torn record was neither cut off nor closed

disk    == <<jsonl, cursor, marker>>
settled == <<kept, shielded, delivered, dropped>>
history == <<settled, unclosed>>
world   == <<stopping, emitted>>
vars    == <<disk, q, reader, drainer, leaving, world, history>>

Queue == [offset : Nat, size : Nat, pending : Nat,
          parked : BOOLEAN, parkErr : BOOLEAN, unknown : BOOLEAN]

Empty == [offset |-> 0, size |-> 0, pending |-> 0,
          parked |-> FALSE, parkErr |-> FALSE, unknown |-> FALSE]

\* The steps taken with q.mu held.
ReaderHolds  == {"reset", "append", "torn", "caps"}
DrainerHolds == {"skip", "persist", "compact", "rename", "reclaim", "unlink"}

QueueFree == reader.pc \notin ReaderHolds /\ drainer.pc \notin DrainerHolds

Idle == [pc |-> "idle", park |-> FALSE, undo |-> "nothing"]
Off  == [pc |-> "off", event |-> NoEvent, at |-> 0]
Peek == [Off EXCEPT !.pc = "peek"]

MayFail(op) == op \in Faults

Init ==
    /\ jsonl = <<>> /\ cursor = NoCursor /\ marker = FALSE
    /\ q = Empty /\ reader = Idle /\ drainer = Off
    /\ leaving = FALSE /\ stopping = FALSE /\ emitted = 0
    /\ kept = {} /\ shielded = {} /\ delivered = {} /\ dropped = {}
    /\ unclosed = FALSE

-----------------------------------------------------------------------------
\* limitProtectedLocked: whether caps and age may take events away.
Protected(m) == m.parked \/ (m.parkErr /\ m.pending > 0)

OverCaps(m) == m.pending > QueueMaxEvents \/ m.size - m.offset > QueueMaxBytes

\* limitBackpressureState: the reader takes no line.
Blocked(m) ==
    \/ m.unknown
    \/ m.parkErr /\ m.pending > 0
    \/ /\ m.parked
       /\ m.pending >= QueueMaxEvents \/ m.size - m.offset >= QueueMaxBytes

Marked(m)   == [m EXCEPT !.parked = TRUE, !.parkErr = FALSE]
Unmarked(m) == [m EXCEPT !.parked = FALSE, !.parkErr = FALSE]

\* markLimitParked and persistLimitParkedLocked.
MarkLimitParked ==
    \/ /\ q.parked
       /\ UNCHANGED <<marker, q>>
    \/ /\ ~q.parked
       /\ marker' = TRUE
       /\ q' = Marked(q)
    \/ /\ ~q.parked /\ MayFail("marker")
       /\ q' = [q EXCEPT !.parkErr = TRUE]
       /\ UNCHANGED marker

-----------------------------------------------------------------------------
\* load: what a daemon recovers from the files.  A torn tail is cut off, or
\* closed with a newline and counted when it cannot be cut off.
LoadFrom(off) ==
    LET end  == Scanned(jsonl, off)
        torn == end < Len(jsonl)
        found(f, n) == [Empty EXCEPT !.offset = off, !.size = Len(f), !.pending = n,
                                     !.parked = marker /\ n > 0]
        loads(f, n) == /\ jsonl' = f
                       /\ q' = found(f, n)
                       /\ marker' = (marker /\ n > 0)
    IN  \/ /\ ~torn
           /\ loads(jsonl, Lines(jsonl, off))
           /\ UNCHANGED unclosed
        \/ /\ torn
           /\ loads(SubSeq(jsonl, 1, end), Lines(jsonl, off))
           /\ UNCHANGED unclosed
        \/ /\ torn /\ MayFail("truncate")
           /\ loads(Append(jsonl, Newline), Lines(jsonl, off) + 1)
           /\ UNCHANGED unclosed
        \/ /\ torn /\ MayFail("truncate") /\ MayFail("realign")
           /\ loads(jsonl, Lines(jsonl, off))
           /\ unclosed' = TRUE

\* A cursor that cannot be read counts as one that cannot be trusted.
Load ==
    /\ \/ LoadFrom(LoadOffset(jsonl, cursor))
       \/ MayFail("cursor") /\ LoadFrom(0)
       \/ /\ MayFail("load")
          /\ q' = [Empty EXCEPT !.unknown = TRUE]
          /\ UNCHANGED <<jsonl, marker, unclosed>>
    /\ UNCHANGED cursor

\* newTaskWatcher and the start of run.
Arm ==
    /\ Load
    /\ reader' = Idle
    /\ drainer' = IF q'.pending > 0 \/ q'.unknown
                  THEN Peek ELSE Off
    /\ leaving' = FALSE /\ stopping' = FALSE
    /\ UNCHANGED <<emitted, settled>>

\* The daemon dies and another one starts.
Crash == Arm

Stop ==
    /\ ~stopping
    /\ stopping' = TRUE
    /\ UNCHANGED <<disk, q, reader, drainer, leaving, emitted, history>>

\* stop joins both goroutines before a reload arms the next watcher.
Reload ==
    /\ stopping /\ reader.pc = "idle" /\ drainer.pc = "off" /\ ~leaving
    /\ Arm

\* retryLoadLocked, by whoever looks at a queue of unknown state.
RetryLoad ==
    /\ QueueFree /\ q.unknown
    /\ Load
    /\ UNCHANGED <<reader, drainer, leaving, world, settled>>

\* retryLimitMarkerLocked, by the blocked reader.
RetryMarker ==
    /\ QueueFree /\ reader.pc = "idle"
    /\ ~q.unknown /\ q.parkErr /\ q.pending > 0
    /\ marker' = TRUE
    /\ q' = Marked(q)
    /\ UNCHANGED <<jsonl, cursor, reader, drainer, leaving, world, history>>

-----------------------------------------------------------------------------
At(pc) == reader' = [reader EXCEPT !.pc = pc]

\* consumeLines.
ReadLine ==
    /\ QueueFree /\ reader.pc = "idle" /\ ~stopping
    /\ emitted < MaxEvents /\ ~Blocked(q)
    /\ emitted' = emitted + 1
    /\ q' = [q EXCEPT !.parkErr = @ /\ q.pending > 0]
    /\ At("route")
    /\ UNCHANGED <<disk, drainer, leaving, stopping, history>>

\* persistRemainingLimitEvents: after a stop the lines left in the pipe of a
\* parked target go to the queue; while its state is unknown they are lost.
ReadLeftover ==
    /\ QueueFree /\ reader.pc = "idle" /\ stopping
    /\ emitted < MaxEvents
    /\ emitted' = emitted + 1
    /\ reader' = IF q.unknown THEN Idle
                 ELSE [Idle EXCEPT !.pc = "enqueue", !.park = TRUE]
    /\ UNCHANGED <<disk, q, drainer, leaving, stopping, history>>

\* Mutant: the route does not look at the backlog.
RouteUngated ==
    /\ reader.pc = "route"
    /\ delivered' = delivered \cup {emitted}
    /\ reader' = Idle
    /\ UNCHANGED <<disk, q, drainer, leaving, world, kept, shielded, dropped,
                   unclosed>>

\* handleEvent, the backlog being empty: the line reaches its target.
RouteDirect ==
    /\ QueueFree /\ reader.pc = "route" /\ q.pending = 0
    /\ delivered' = delivered \cup {emitted}
    /\ reader' = Idle
    /\ UNCHANGED <<disk, q, drainer, leaving, world, kept, shielded, dropped,
                   unclosed>>

\* ... or is over the rate limit, which drops it.
RouteDropped ==
    /\ QueueFree /\ reader.pc = "route" /\ q.pending = 0
    /\ reader' = Idle
    /\ UNCHANGED <<disk, q, drainer, leaving, world, history>>

\* ... or could not be delivered, or has to wait behind a backlog.  park says
\* that the target was seen at its usage limit.
RouteQueued ==
    /\ QueueFree /\ reader.pc = "route"
    /\ \E park \in BOOLEAN :
          reader' = [Idle EXCEPT !.pc = "enqueue", !.park = park]
    /\ UNCHANGED <<disk, q, drainer, leaving, world, history>>

-----------------------------------------------------------------------------
\* An event that is not retained takes back what protectParkedEnqueueLocked
\* changed for it.
Refuse(m) ==
    /\ reader' = Idle
    /\ \/ /\ reader.undo # "marker"
          /\ q' = [m EXCEPT !.parkErr = @ /\ reader.undo # "error"]
          /\ UNCHANGED marker
       \/ /\ reader.undo = "marker"
          /\ marker' = FALSE
          /\ q' = Unmarked(m)
       \/ /\ reader.undo = "marker" /\ MayFail("marker")
          /\ q' = m
          /\ UNCHANGED marker

\* The start of enqueueWithParkedStatus: an ordinary event takes over no stale
\* protection, a parked one is protected before it is written.
EnqueueProtect ==
    /\ QueueFree /\ reader.pc = "enqueue"
    /\ \/ /\ ~reader.park /\ q.pending > 0
          /\ At("reset")
          /\ UNCHANGED <<marker, q>>
       \/ /\ ~reader.park /\ q.pending = 0
          /\ marker' = (marker /\ ~q.parked)
          /\ q' = Unmarked(q)
          /\ At("reset")
       \/ /\ ~reader.park /\ q.pending = 0 /\ q.parked /\ MayFail("marker")
          /\ reader' = Idle
          /\ UNCHANGED <<marker, q>>
       \/ /\ reader.park
          /\ MarkLimitParked
          /\ reader' = [reader EXCEPT
                !.pc = "reset",
                !.undo = IF marker' # marker /\ ~Protected(q) THEN "marker"
                         ELSE IF q'.parkErr /\ ~q.parkErr THEN "error"
                         ELSE "nothing"]
    /\ UNCHANGED <<jsonl, cursor, drainer, leaving, world, history>>

\* resetCursorBeforeFreshAppendLocked.
EnqueueReset ==
    /\ reader.pc = "reset"
    /\ LET fresh == q.pending = 0 /\ q.offset = 0 /\ q.size = 0
       IN  \/ /\ ~fresh
              /\ At("append")
              /\ UNCHANGED <<cursor, marker, q>>
           \/ /\ fresh
              /\ cursor' = NoCursor
              /\ At("append")
              /\ UNCHANGED <<marker, q>>
           \/ /\ fresh /\ cursor # NoCursor /\ MayFail("remove")
              /\ cursor' = 0
              /\ At("append")
              /\ UNCHANGED <<marker, q>>
           \/ /\ fresh /\ cursor # NoCursor /\ {"remove", "cursor"} \subseteq Faults
              /\ Refuse(q)
              /\ UNCHANGED cursor
    /\ UNCHANGED <<jsonl, drainer, leaving, world, history>>

\* appendRecord writes the whole record; a failing close changes nothing here.
EnqueueAppend ==
    /\ reader.pc = "append"
    /\ jsonl' = jsonl \o <<Body(emitted), Newline>>
    /\ q' = [q EXCEPT !.size = @ + 2, !.pending = @ + 1]
    /\ kept' = kept \cup {emitted}
    /\ shielded' = IF marker THEN shielded \cup {emitted} ELSE shielded
    /\ reader' = [Idle EXCEPT !.pc = "caps"]
    /\ UNCHANGED <<cursor, marker, drainer, leaving, world, delivered, dropped,
                   unclosed>>

\* ... or nothing ...
EnqueueAppendFails ==
    /\ reader.pc = "append" /\ MayFail("append")
    /\ Refuse(q)
    /\ UNCHANGED <<jsonl, cursor, drainer, leaving, world, history>>

\* ... or a part of it.
EnqueueAppendTorn ==
    /\ reader.pc = "append" /\ MayFail("append")
    /\ \E part \in {Body(emitted), Fragment(emitted)} :
          jsonl' = Append(jsonl, part)
    /\ At("torn")
    /\ UNCHANGED <<cursor, marker, q, drainer, leaving, world, history>>

EnqueueTruncate ==
    /\ reader.pc = "torn"
    /\ jsonl' = SubSeq(jsonl, 1, q.size)
    /\ Refuse(q)
    /\ UNCHANGED <<cursor, drainer, leaving, world, history>>

\* Mutant: the realigned fragment is not counted.
RealignUncounted ==
    /\ reader.pc = "torn" /\ MayFail("truncate")
    /\ jsonl' = Append(jsonl, Newline)
    /\ Refuse([q EXCEPT !.size = @ + 2])
    /\ UNCHANGED <<cursor, drainer, leaving, world, history>>

\* recoverTornRecordLocked.
EnqueueRealign ==
    /\ reader.pc = "torn" /\ MayFail("truncate")
    /\ jsonl' = Append(jsonl, Newline)
    /\ Refuse([q EXCEPT !.size = @ + 2, !.pending = @ + 1])
    /\ UNCHANGED <<cursor, drainer, leaving, world, history>>

EnqueueAbandon ==
    /\ reader.pc = "torn" /\ MayFail("truncate") /\ MayFail("realign")
    /\ Refuse(q)
    /\ unclosed' = TRUE
    /\ UNCHANGED <<jsonl, cursor, drainer, leaving, world, settled>>

-----------------------------------------------------------------------------
\* The queue without its n oldest lines.
Without(m, n) ==
    [m EXCEPT !.offset = After(jsonl, @, n), !.pending = @ - n]

\* Drops n events and then persists the cursor, or fails to.
DropOldest(n) ==
    /\ n > 0
    /\ q' = Without(q, n)
    /\ dropped' = dropped \cup
                    (Waiting(jsonl, q.offset) \ Waiting(jsonl, q'.offset))
    /\ \/ cursor' = q'.offset
       \/ MayFail("cursor") /\ UNCHANGED cursor

\* dropOldestOverCapsLocked stops when the rest fits, at the newest event, or,
\* without a write of the cursor, at a line it cannot read.
DropOldestOverCaps ==
    LET fits(n)  == ~OverCaps(Without(q, n)) \/ q.pending - n <= 1
        bad(n)   == EventAt(jsonl, After(jsonl, q.offset, n)) = NoEvent
        upto     == Min({n \in 0 .. q.pending : fits(n) \/ bad(n)})
    IN  \/ /\ fits(upto)
           /\ \/ DropOldest(upto)
              \/ upto = 0 /\ UNCHANGED <<cursor, q, dropped>>
        \/ \E n \in 0 .. upto :
              /\ ~fits(n)
              /\ bad(n) \/ MayFail("read")
              /\ q' = Without(q, n)
              /\ dropped' = dropped \cup
                    (Waiting(jsonl, q.offset) \ Waiting(jsonl, q'.offset))
              /\ UNCHANGED cursor

\* Mutant: the caps do not look at the protection.
CapsUnguarded ==
    /\ reader.pc = "caps"
    /\ DropOldestOverCaps
    /\ At("wake")
    /\ UNCHANGED <<jsonl, marker, drainer, leaving, world, kept, shielded, delivered,
                   unclosed>>

\* enforceCapsLocked.
EnqueueCaps ==
    /\ reader.pc = "caps"
    /\ \/ Protected(q) /\ UNCHANGED <<cursor, q, dropped>>
       \/ ~Protected(q) /\ DropOldestOverCaps
    /\ At("wake")
    /\ UNCHANGED <<jsonl, marker, drainer, leaving, world, kept, shielded, delivered,
                   unclosed>>

\* ensureDrainer.
EnsureDrainer ==
    drainer' = IF drainer.pc = "off" /\ ~stopping
               THEN Peek ELSE drainer

EnqueueWake ==
    /\ reader.pc = "wake"
    /\ EnsureDrainer
    /\ reader' = Idle
    /\ UNCHANGED <<disk, q, leaving, world, history>>

Reader ==
    \/ ReadLine \/ ReadLeftover
    \/ RouteDirect \/ RouteDropped \/ RouteQueued
    \/ EnqueueProtect \/ EnqueueReset
    \/ EnqueueAppend \/ EnqueueAppendFails \/ EnqueueAppendTorn
    \/ EnqueueTruncate \/ EnqueueRealign \/ EnqueueAbandon
    \/ EnqueueCaps \/ EnqueueWake

-----------------------------------------------------------------------------
\* The drainer peeked nothing: where removeDrainedFilesLocked and
\* persistCursorLocked return to depends on who called them.
Skipping == drainer.event = NoEvent

Go(pc) == drainer' = [drainer EXCEPT !.pc = pc]

\* Every return of drainLoop but the one on an empty queue: stopDraining and
\* no look back.
Park == drainer' = Off

\* The top of drainLoop, and the check for a stop before a delivery.
DrainStops ==
    /\ stopping /\ drainer.pc \in {"peek", "deliver"}
    /\ Park
    /\ UNCHANGED <<disk, q, reader, leaving, world, history>>

\* peek has q.mu, or takes it.
Peeking ==
    /\ ~q.unknown
    /\ \/ drainer.pc = "peek" /\ QueueFree /\ ~stopping
       \/ drainer.pc = "skip"

PeekHead ==
    /\ Peeking /\ q.pending > 0
    /\ EventAt(jsonl, q.offset) # NoEvent
    /\ drainer' = [pc |-> "decide", event |-> EventAt(jsonl, q.offset), at |-> q.offset]
    /\ UNCHANGED <<disk, q, reader, leaving, world, history>>

\* A line that does not decode is dropped and skipped.
PeekSkip ==
    /\ Peeking /\ q.pending > 0
    /\ EventAt(jsonl, q.offset) = NoEvent /\ LineEnd(jsonl, q.offset) > 0
    /\ q' = Without(q, 1)
    /\ drainer' = [Off EXCEPT !.pc = IF q'.pending = 0 THEN "reclaim" ELSE "persist"]
    /\ UNCHANGED <<disk, reader, leaving, world, history>>

\* A line without an end, or a read that fails, parks the replay.
PeekParks ==
    /\ Peeking /\ q.pending > 0
    /\ LineEnd(jsonl, q.offset) = 0 \/ MayFail("read")
    /\ Park
    /\ UNCHANGED <<disk, q, reader, leaving, world, history>>

PeekEmpty ==
    /\ Peeking /\ q.pending = 0
    /\ Go("leave")
    /\ UNCHANGED <<disk, q, reader, leaving, world, history>>

\* Mutant: the drainer that left does not look back.
LeaveForGood ==
    /\ drainer.pc = "leave"
    /\ Park
    /\ UNCHANGED <<disk, q, reader, leaving, world, history>>

\* stopDraining ...  One goroutine between the two steps stands for several:
\* a second one would look back at the same queue.
Leave ==
    /\ drainer.pc = "leave" /\ ~leaving
    /\ Park
    /\ leaving' = TRUE
    /\ UNCHANGED <<disk, q, reader, world, history>>

\* ... and the look back that closes the wake-up race.
LookBack ==
    /\ leaving /\ QueueFree
    /\ leaving' = FALSE
    /\ IF q.pending > 0 THEN EnsureDrainer ELSE UNCHANGED drainer
    /\ UNCHANGED <<disk, q, reader, world, history>>

-----------------------------------------------------------------------------
\* The head is old: it expires unless the backlog is protected.
DecideExpire ==
    /\ drainer.pc = "decide" /\ QueueFree /\ ~Protected(q)
    /\ Go("expire")
    /\ UNCHANGED <<disk, q, reader, leaving, world, history>>

\* The head is old and its target is seen at its limit: protect, then deliver.
DecideProtect ==
    /\ drainer.pc = "decide" /\ QueueFree /\ ~Protected(q)
    /\ MarkLimitParked
    /\ Go("deliver")
    /\ UNCHANGED <<jsonl, cursor, reader, leaving, world, history>>

DecideDeliver ==
    /\ drainer.pc = "decide" /\ QueueFree
    /\ Go("deliver")
    /\ UNCHANGED <<disk, q, reader, leaving, world, history>>

\* The delivery lands, whatever error it may report afterwards.
Deliver ==
    /\ drainer.pc = "deliver" /\ ~stopping
    /\ delivered' = delivered \cup {drainer.event}
    /\ Go("advance")
    /\ UNCHANGED <<disk, q, reader, leaving, world, kept, shielded, dropped,
                   unclosed>>

\* The target is busy, at a cap or out of reach.
DeliverFails ==
    /\ drainer.pc = "deliver" /\ ~stopping
    /\ drainer' = Peek
    /\ UNCHANGED <<disk, q, reader, leaving, world, history>>

\* deliverQueuedEventPublishingLimit: the target is at its usage limit.
DeliverParks ==
    /\ drainer.pc = "deliver" /\ ~stopping /\ QueueFree
    /\ MarkLimitParked
    /\ drainer' = Peek
    /\ UNCHANGED <<jsonl, cursor, reader, leaving, world, history>>

-----------------------------------------------------------------------------
\* The record the drainer peeked is still the head.
Current ==
    /\ q.pending > 0
    /\ drainer.at = q.offset
    /\ drainer.event = EventAt(jsonl, q.offset)

\* The step after the head is consumed.
Consumed(m) ==
    IF m.pending = 0 THEN "reclaim"
    ELSE IF m.offset > CompactBytes THEN "compact" ELSE "persist"

Advance ==
    /\ drainer.pc \in {"advance", "expire"} /\ QueueFree /\ Current
    /\ q' = Without(q, 1)
    /\ dropped' = IF drainer.pc = "expire" THEN dropped \cup {drainer.event} ELSE dropped
    /\ Go(Consumed(q'))
    /\ UNCHANGED <<disk, reader, leaving, world, kept, shielded, delivered,
                   unclosed>>

\* The caps took the head meanwhile: peek again.
AdvanceStale ==
    /\ drainer.pc \in {"advance", "expire"} /\ QueueFree /\ ~Current
    /\ drainer' = Peek
    /\ UNCHANGED <<disk, q, reader, leaving, world, history>>

AdvanceParks ==
    /\ drainer.pc \in {"advance", "expire"} /\ QueueFree /\ MayFail("read")
    /\ Park
    /\ UNCHANGED <<disk, q, reader, leaving, world, history>>

\* Mutant: the file shrinks before the cursor does.
CompactInPlace ==
    /\ drainer.pc = "compact"
    /\ jsonl' = SubSeq(jsonl, q.offset + 1, Len(jsonl))
    /\ q' = [q EXCEPT !.offset = 0, !.size = Len(jsonl')]
    /\ Go("persist")
    /\ UNCHANGED <<cursor, marker, reader, leaving, world, history>>

\* compactLocked fences cursor 0 before the shorter file takes the name of the
\* longer one; every failure falls through to the write of the cursor.
CompactCursor ==
    /\ drainer.pc = "compact"
    /\ \/ cursor' = 0 /\ Go("rename")
       \/ /\ MayFail("cursor")
          /\ Go("persist")
          /\ UNCHANGED cursor
    /\ UNCHANGED <<jsonl, marker, q, reader, leaving, world, history>>

CompactRename ==
    /\ drainer.pc = "rename"
    /\ \/ /\ jsonl' = SubSeq(jsonl, q.offset + 1, Len(jsonl))
          /\ q' = [q EXCEPT !.offset = 0, !.size = Len(jsonl')]
       \/ /\ MayFail("rename")
          /\ UNCHANGED <<jsonl, q>>
    /\ Go("persist")
    /\ UNCHANGED <<cursor, marker, reader, leaving, world, history>>

PersistCursor ==
    /\ drainer.pc = "persist"
    /\ \/ /\ cursor' = q.offset
          /\ IF Skipping THEN Go("skip") ELSE drainer' = Peek
       \/ /\ MayFail("cursor")
          /\ Park
          /\ UNCHANGED cursor
    /\ UNCHANGED <<jsonl, marker, q, reader, leaving, world, history>>

\* removeDrainedFilesLocked: first the file ...
Reclaim ==
    /\ drainer.pc = "reclaim"
    /\ \/ jsonl' = <<>> /\ Go("unlink")
       \/ /\ MayFail("remove")
          /\ Park
          /\ UNCHANGED jsonl
    /\ UNCHANGED <<cursor, marker, q, reader, leaving, world, history>>

\* ... then the cursor and the marker.
Unlink ==
    LET bare(m) == [m EXCEPT !.offset = 0, !.size = 0]
        next    == IF Skipping THEN Go("leave") ELSE drainer' = Peek
    IN  /\ drainer.pc = "unlink"
        /\ \/ /\ cursor' \in {NoCursor} \cup (IF MayFail("remove") THEN {0} ELSE {})
              /\ \/ marker' = FALSE /\ q' = bare(Unmarked(q))
                 \/ MayFail("marker") /\ q' = bare(q) /\ UNCHANGED marker
              /\ next
           \/ /\ {"remove", "cursor"} \subseteq Faults
              /\ q' = bare(q)
              /\ Park
              /\ UNCHANGED <<cursor, marker>>
        /\ UNCHANGED <<jsonl, reader, leaving, world, history>>

Drainer ==
    \/ DrainStops
    \/ PeekHead \/ PeekSkip \/ PeekParks \/ PeekEmpty
    \/ Leave \/ LookBack
    \/ DecideExpire \/ DecideProtect \/ DecideDeliver
    \/ Deliver \/ DeliverFails \/ DeliverParks
    \/ Advance \/ AdvanceStale \/ AdvanceParks
    \/ CompactCursor \/ CompactRename \/ PersistCursor
    \/ Reclaim \/ Unlink

Next == Reader \/ Drainer \/ RetryLoad \/ RetryMarker \/ Stop \/ Reload \/ Crash

Spec == Init /\ [][Next]_vars

-----------------------------------------------------------------------------
TypeOK ==
    /\ jsonl \in Seq(-MaxEvents .. MaxEvents)
    /\ cursor \in Nat \cup {NoCursor}
    /\ marker \in BOOLEAN
    /\ q \in Queue
    /\ reader \in [pc : {"idle", "route", "enqueue", "wake"} \cup ReaderHolds,
                   park : BOOLEAN, undo : {"nothing", "marker", "error"}]
    /\ drainer \in [pc : {"off", "peek", "leave", "decide", "deliver", "advance",
                          "expire"} \cup DrainerHolds,
                    event : Events \cup {NoEvent}, at : Nat]
    /\ leaving \in BOOLEAN /\ stopping \in BOOLEAN
    /\ emitted \in 0 .. MaxEvents
    /\ kept \subseteq Events /\ shielded \subseteq kept
    /\ delivered \subseteq Events /\ dropped \subseteq Events
    /\ unclosed \in BOOLEAN

\* An event the queue reported retained is readable where a daemon started now
\* would begin to read, and where this one reads on, until it was delivered,
\* evicted or expired: whatever fails, whenever the daemon dies.  Only a torn
\* record that was left in the file takes others with it.
RetainedIsSettled ==
    unclosed \/ \A e \in kept \ (delivered \cup dropped) :
        /\ e \in Waiting(jsonl, LoadOffset(jsonl, cursor))
        /\ q.unknown \/ e \in Waiting(jsonl, q.offset)

\* The count and the size in memory are those of the file.  A count too low
\* lets a skipped line pass for the last one and the file be deleted with
\* events in it; a size too low makes a truncate cut a complete record.
CountMatchesLines ==
    QueueFree /\ ~q.unknown /\ ~unclosed =>
        q.size = Len(jsonl) /\ q.pending = Lines(jsonl, q.offset)

\* An event retained beside a usage-limit marker on disk is neither evicted nor
\* expired before it was delivered, across restarts too.  A torn record left in
\* the file may move the cursor and bring back what the caps once passed.
ShieldedStay == unclosed \/ shielded \cap dropped \subseteq delivered

\* A retained event that was not given up is delivered before every later one,
\* queued or live, until a torn record is left in the file.
OrderKept ==
    [][unclosed \/ \A e \in (delivered' \ delivered) \cap (kept \ dropped) :
                      \A f \in delivered : f < e]_vars

-----------------------------------------------------------------------------
\* Goroutines that can step do; what the watch command prints is up to it.  A
\* delivery that is tried over and over lands one day; a stop is followed by the
\* reload that asked for it.
ReaderSteps ==
    \/ RouteDirect \/ RouteDropped \/ RouteQueued
    \/ EnqueueProtect \/ EnqueueReset \/ EnqueueAppend \/ EnqueueCaps \/ EnqueueWake

FairSpec ==
    /\ Spec
    /\ WF_vars(ReaderSteps) /\ WF_vars(Drainer)
    /\ SF_vars(Deliver) /\ WF_vars(Reload)

\* Once the daemon stays up, every event the queue retained is delivered,
\* evicted or expired: no wake-up of the drainer is lost.
BacklogDrains ==
    <>[]~stopping /\ <>[][~Crash]_vars =>
        \A e \in Events : e \in kept ~> e \in delivered \cup dropped

-----------------------------------------------------------------------------
\* What the head of eventqueue.go and docs/tasks.md say of a crash during a
\* replay: it redelivers at most one event.
RedeliversAtMostOne ==
    Cardinality(Waiting(jsonl, q.offset) \cap delivered) <= 1
=============================================================================
