-------------------------- MODULE EventQueueProofs --------------------------
(***************************************************************************)
(* Proofs about the durable event queue: for every number of lines, every   *)
(* cap and every set of failing operations.                                 *)
(***************************************************************************)
EXTENDS EventQueue, EventLogProofs

\* The drainer carries a record.
Peeked == drainer.pc \in {"decide", "deliver", "advance", "expire"}

\* q.mu is held by one goroutine, and a queue that did not load is left alone.
Locks ==
    /\ reader.pc \in ReaderHolds => drainer.pc \notin DrainerHolds
    /\ q.unknown => /\ reader.pc = "idle" /\ drainer.pc \in {"off", "peek"}
                    /\ q.offset = 0 /\ q.size = 0 /\ q.pending = 0
    /\ Peeked => drainer.event # NoEvent

\* A truncate never reaches past the end of the file.
SizeFits ==
    IF drainer.pc = "unlink" THEN jsonl = <<>>
    ELSE IF reader.pc = "torn" THEN q.size + 1 <= Len(jsonl)
    ELSE q.size <= Len(jsonl)

TypeInv ==
    /\ TypeOK /\ Locks /\ SizeFits
    /\ reader.pc # "idle" => emitted >= 1

-----------------------------------------------------------------------------
\* A sequence over a set is one over a larger set.
LEMMA SeqWider ==
    ASSUME NEW S, NEW T, S \subseteq T, NEW s \in Seq(S)
    PROVE  /\ s \in Seq(T) /\ Len(s) \in Nat
           /\ \A i \in 1 .. Len(s) : s[i] \in S
<1>1. Len(s) \in Nat /\ \A i \in 1 .. Len(s) : s[i] \in S
  OBVIOUS
<1>2. s \in Seq(T)
  OBVIOUS
<1> QED
  BY <1>1, <1>2

\* The file is one the lemmas about files speak of.
LEMMA FileOf ==
    ASSUME TypeOK
    PROVE  /\ jsonl \in File /\ Len(jsonl) \in Nat
           /\ \A i \in 1 .. Len(jsonl) : jsonl[i] \in Int /\ jsonl[i] <= MaxEvents
           /\ cursor \in Nat \cup {NoCursor}
           /\ q \in Queue /\ q.offset \in Nat /\ q.size \in Nat /\ q.pending \in Nat
           /\ q.parked \in BOOLEAN /\ q.parkErr \in BOOLEAN /\ q.unknown \in BOOLEAN
<1>1. -MaxEvents .. MaxEvents \subseteq Int /\ \A x \in -MaxEvents .. MaxEvents : x <= MaxEvents
  BY QueueAssumption
<1>2. jsonl \in Seq(-MaxEvents .. MaxEvents)
  BY DEF TypeOK
<1>3. jsonl \in Seq(Int) /\ Len(jsonl) \in Nat
  BY <1>1, <1>2, SeqWider
<1>4. \A i \in 1 .. Len(jsonl) : jsonl[i] \in -MaxEvents .. MaxEvents
  <2> DEFINE S == -MaxEvents .. MaxEvents
  <2>1. jsonl \in Seq(S)
    BY <1>2
  <2> HIDE DEF S
  <2>2. \A i \in 1 .. Len(jsonl) : jsonl[i] \in S
    BY <2>1
  <2> QED
    BY <2>2 DEF S
<1>5. q \in Queue /\ cursor \in Nat \cup {NoCursor}
  BY DEF TypeOK
<1> QED
  BY <1>1, <1>3, <1>4, <1>5 DEF Queue, File

\* What a file holds are lines of the watch command.
LEMMA WaitingEvents ==
    ASSUME TypeOK, NEW off \in Nat
    PROVE  Waiting(jsonl, off) \subseteq Events
<1>1. SUFFICES ASSUME NEW e \in Waiting(jsonl, off) PROVE e \in Events
  OBVIOUS
<1>2. PICK k \in Nat : k + 1 \in 1 .. Len(jsonl) /\ e = jsonl[k + 1] /\ jsonl[k + 1] \in Nat \ {0}
  BY FileOf, WaitingCell
<1>3. jsonl[k + 1] <= MaxEvents
  BY <1>2, FileOf
<1> QED
  BY <1>2, <1>3, QueueAssumption DEF Events

\* Skipping lines leaves a queue.
LEMMA WithoutType ==
    ASSUME TypeOK, NEW n \in 0 .. q.pending
    PROVE  /\ Without(q, n) \in Queue
           /\ Without(q, n).offset = After(jsonl, q.offset, n)
           /\ Without(q, n).size = q.size
           /\ Without(q, n).pending = q.pending - n
           /\ Without(q, n).parked = q.parked
           /\ Without(q, n).parkErr = q.parkErr
           /\ Without(q, n).unknown = q.unknown
           /\ n = 0 => Without(q, n) = q
<1>0. n \in Nat /\ q.pending \in Nat /\ q.offset \in Nat /\ jsonl \in File /\ n <= q.pending
  BY FileOf
<1>1. After(jsonl, q.offset, n) \in Nat
  BY <1>0, AfterFacts
<1>2. n = 0 => After(jsonl, q.offset, n) = q.offset
  BY DEF After
<1> QED
  <2>1. Without(q, n) = [q EXCEPT !.offset = After(jsonl, q.offset, n), !.pending = q.pending - n]
    BY DEF Without
  <2> DEFINE a == After(jsonl, q.offset, n)
  <2> HIDE DEF a
  <2>2. q.pending - n \in Nat /\ (n = 0 => q.pending - n = q.pending)
    BY <1>0
  <2>3. q \in Queue
    BY FileOf
  <2>4. Without(q, n) = [q EXCEPT !.offset = a, !.pending = q.pending - n]
    BY <2>1 DEF a
  <2>5. a \in Nat /\ (n = 0 => a = q.offset)
    BY <1>1, <1>2 DEF a
  <2>6. a = After(jsonl, q.offset, n)
    BY DEF a
  <2> QED
    BY <1>0, <2>2, <2>3, <2>4, <2>5, <2>6 DEF Queue

\* Whatever dropOldestOverCapsLocked meets, it drops the oldest lines.
LEMMA DropShape ==
    ASSUME TypeOK, DropOldestOverCaps
    PROVE  \E n \in 0 .. q.pending :
              /\ q' = Without(q, n)
              /\ dropped' = dropped \cup
                    (Waiting(jsonl, q.offset) \ Waiting(jsonl, q'.offset))
              /\ cursor' = cursor \/ cursor' = q'.offset
<1> DEFINE fits(n)  == ~OverCaps(Without(q, n)) \/ q.pending - n <= 1
           bad(n)   == EventAt(jsonl, After(jsonl, q.offset, n)) = NoEvent
           S        == {n \in 0 .. q.pending : fits(n) \/ bad(n)}
           upto     == Min(S)
<1>1. q.pending \in Nat
  BY FileOf
<1>2. upto \in 0 .. q.pending
  <2>1. q.pending \in S
    BY <1>1
  <2>2. S \in SUBSET Nat /\ S # {}
    BY <1>1, <2>1
  <2> QED
    BY <2>2, LeastOf
<1>3. \/ /\ fits(upto)
         /\ \/ DropOldest(upto)
            \/ upto = 0 /\ UNCHANGED <<cursor, q, dropped>>
      \/ \E n \in 0 .. upto :
              /\ ~fits(n)
              /\ bad(n) \/ MayFail("read")
              /\ q' = Without(q, n)
              /\ dropped' = dropped \cup
                    (Waiting(jsonl, q.offset) \ Waiting(jsonl, q'.offset))
              /\ UNCHANGED cursor
  BY DEF DropOldestOverCaps
<1> HIDE DEF upto, S, fits, bad
<1>4. CASE DropOldest(upto)
  BY <1>2, <1>4 DEF DropOldest
<1>5. CASE upto = 0 /\ UNCHANGED <<cursor, q, dropped>>
  <2>1. 0 \in 0 .. q.pending /\ q' = Without(q, 0) /\ q'.offset = q.offset
    BY <1>1, <1>5, WithoutType
  <2> QED
    BY <2>1, <1>5
<1>6. CASE \E n \in 0 .. upto :
              /\ q' = Without(q, n)
              /\ dropped' = dropped \cup
                    (Waiting(jsonl, q.offset) \ Waiting(jsonl, q'.offset))
              /\ UNCHANGED cursor
  BY <1>1, <1>2, <1>6
<1> QED
  BY <1>3, <1>4, <1>5, <1>6

\* A refused event changes the protection and nothing else.
LEMMA RefuseShape ==
    ASSUME TypeOK, NEW m \in Queue, Refuse(m)
    PROVE  /\ reader' = Idle /\ q' \in Queue /\ marker' \in BOOLEAN
           /\ q'.offset = m.offset /\ q'.size = m.size /\ q'.pending = m.pending
           /\ q'.unknown = m.unknown
           /\ reader.undo # "marker" => marker' = marker /\ q'.parked = m.parked
           /\ reader.undo = "marker" => \/ ~marker' /\ ~q'.parked
                                        \/ marker' = marker /\ q'.parked = m.parked
BY ZenonT(60) DEF Refuse, Unmarked, Queue, TypeOK

\* What the steps do to the file keeps it a file.
LEMMA SeqOps ==
    ASSUME NEW S, NEW s \in Seq(S)
    PROVE  /\ <<>> \in Seq(S)
           /\ \A x \in S : Append(s, x) \in Seq(S)
           /\ \A x \in S, y \in S : s \o <<x, y>> \in Seq(S)
           /\ \A n \in 0 .. Len(s) : SubSeq(s, 1, n) \in Seq(S)
           /\ \A n \in Nat : SubSeq(s, n + 1, Len(s)) \in Seq(S)
<1>1. \A x \in S, y \in S : <<x, y>> \in Seq(S)
  OBVIOUS
<1>2. \A x \in S, y \in S : s \o <<x, y>> \in Seq(S)
  BY <1>1
<1>3. \A n \in 0 .. Len(s) : SubSeq(s, 1, n) \in Seq(S)
  OBVIOUS
<1>4. \A n \in Nat : SubSeq(s, n + 1, Len(s)) \in Seq(S)
  <2> SUFFICES ASSUME NEW n \in Nat PROVE SubSeq(s, n + 1, Len(s)) \in Seq(S)
    OBVIOUS
  <2>1. CASE n <= Len(s)
    BY <2>1
  <2>2. CASE ~(n <= Len(s))
    <3>1. 1 .. (1 + Len(s) - (n + 1)) = {}
      BY <2>2
    <3>2. SubSeq(s, n + 1, Len(s)) = <<>>
      BY <3>1
    <3> QED
      BY <3>2
  <2> QED
    BY <2>1, <2>2
<1> QED
  BY <1>2, <1>3, <1>4

\* The cells a file may hold.
Cells == -MaxEvents .. MaxEvents

\* Every mark of a record is such a cell.
LEMMA CellsFacts ==
    /\ Newline \in Cells
    /\ \A e \in Events : Body(e) \in Cells /\ Fragment(e) \in Cells
    /\ Cells \subseteq Int
BY QueueAssumption DEF Cells, Newline, Body, Fragment, Events

\* A load keeps what is behind a boundary, and its count is that of the file
\* unless a torn record stays in it.
LEMMA LoadFromShape ==
    ASSUME TypeOK, NEW off \in Nat, off <= Len(jsonl), LoadFrom(off)
    PROVE  /\ jsonl' \in Seq(Cells) /\ jsonl' \in File
           /\ \A i \in 1 .. Len(jsonl') : \/ jsonl'[i] = 0
                                          \/ i <= Len(jsonl) /\ jsonl'[i] = jsonl[i]
           /\ q' \in Queue /\ q'.offset = off /\ off <= q'.size /\ q'.size = Len(jsonl')
           /\ ~q'.unknown /\ ~q'.parkErr /\ q'.parked = marker'
           /\ marker' = (marker /\ q'.pending > 0)
           /\ unclosed' \in BOOLEAN /\ (unclosed => unclosed')
           /\ \A k \in Nat : Boundary(jsonl, k) =>
                 Boundary(jsonl', k) /\ Waiting(jsonl, k) \subseteq Waiting(jsonl', k)
           /\ q'.pending = Lines(jsonl', off)
           /\ ~unclosed' /\ Boundary(jsonl, off) => Boundary(jsonl', Len(jsonl'))
<1> DEFINE end == Scanned(jsonl, off)
<1>1. /\ jsonl \in File /\ jsonl \in Seq(Cells) /\ Len(jsonl) \in Nat
      /\ Lines(jsonl, off) \in Nat /\ marker \in BOOLEAN /\ unclosed \in BOOLEAN
  BY FileOf, FileFacts DEF TypeOK, Cells
<1>2. /\ end \in off .. Len(jsonl) /\ Ends(jsonl, end, Len(jsonl)) = {}
      /\ Boundary(jsonl, off) => Boundary(jsonl, end)
  BY <1>1, ScannedFacts
<1> HIDE DEF end
<1>3. \A k \in Nat : Boundary(jsonl, k) => k <= end /\ k <= Len(jsonl)
  BY <1>1, <1>2 DEF Boundary, Ends
<1> DEFINE loads(f, n) ==
              /\ jsonl' = f
              /\ q' = [Empty EXCEPT !.offset = off, !.size = Len(f), !.pending = n,
                                    !.parked = marker /\ n > 0]
              /\ marker' = (marker /\ n > 0)
<1>8. \/ loads(jsonl, Lines(jsonl, off)) /\ unclosed' = unclosed /\ end = Len(jsonl)
      \/ loads(SubSeq(jsonl, 1, end), Lines(jsonl, off)) /\ unclosed' = unclosed
      \/ loads(Append(jsonl, Newline), Lines(jsonl, off) + 1) /\ unclosed' = unclosed
      \/ loads(jsonl, Lines(jsonl, off)) /\ unclosed' = TRUE
  <2>1. ~(end < Len(jsonl)) => end = Len(jsonl)
    BY <1>1, <1>2
  <2> QED
    BY <2>1, Zenon DEF LoadFrom, end
<1>4. PICK f, n :
        /\ loads(f, n)
        /\ \/ f = jsonl /\ n = Lines(jsonl, off) /\ unclosed' = unclosed /\ end = Len(jsonl)
           \/ f = SubSeq(jsonl, 1, end) /\ n = Lines(jsonl, off) /\ unclosed' = unclosed
           \/ f = Append(jsonl, Newline) /\ n = Lines(jsonl, off) + 1 /\ unclosed' = unclosed
           \/ f = jsonl /\ n = Lines(jsonl, off) /\ unclosed' = TRUE
  <2> HIDE DEF loads
  <2> QED
    BY <1>8, Zenon
<1>5. /\ f \in Seq(Cells) /\ f \in File /\ off <= Len(f) /\ n = Lines(f, off) /\ n \in Nat
      /\ \A i \in 1 .. Len(f) : f[i] = 0 \/ (i <= Len(jsonl) /\ f[i] = jsonl[i])
      /\ \A k \in Nat : Boundary(jsonl, k) =>
                 Boundary(f, k) /\ Waiting(jsonl, k) \subseteq Waiting(f, k)
      /\ unclosed' \in BOOLEAN /\ (unclosed => unclosed')
      /\ ~unclosed' /\ Boundary(jsonl, off) => Boundary(f, Len(f))
  <2>1. CASE f = jsonl /\ n = Lines(jsonl, off) /\ unclosed' = unclosed /\ end = Len(jsonl)
    BY <2>1, <1>1, <1>2
  <2>2. CASE f = SubSeq(jsonl, 1, end) /\ n = Lines(jsonl, off) /\ unclosed' = unclosed
    <3>1. /\ f \in File /\ Len(f) = end
          /\ \A i \in 1 .. end : f[i] = jsonl[i]
          /\ \A k \in 0 .. end : /\ Lines(f, k) = Lines(jsonl, k)
                                 /\ Waiting(jsonl, k) \subseteq Waiting(f, k)
                                 /\ Boundary(jsonl, k) => Boundary(f, k)
      BY <2>2, <1>1, <1>2, CutFacts
    <3>2. f \in Seq(Cells)
      BY <2>2, <1>1, <1>2, SeqOps
    <3> QED
      BY <2>2, <3>1, <3>2, <1>1, <1>2, <1>3
  <2>3. CASE f = Append(jsonl, Newline) /\ n = Lines(jsonl, off) + 1 /\ unclosed' = unclosed
    <3>1. Newline \in Cells /\ Newline \in Int /\ Newline = 0
      BY CellsFacts DEF Newline
    <3>2. /\ f \in File /\ Len(f) = Len(jsonl) + 1 /\ f[Len(jsonl) + 1] = Newline
          /\ \A i \in 1 .. Len(jsonl) : f[i] = jsonl[i]
          /\ Lines(f, off) = Lines(jsonl, off) + 1
          /\ Boundary(f, Len(f))
      BY <2>3, <3>1, <1>1, GrowFacts
    <3>3. ASSUME NEW k \in Nat, Boundary(jsonl, k)
          PROVE  Boundary(f, k) /\ Waiting(jsonl, k) \subseteq Waiting(f, k)
      <4>1. k <= Len(jsonl)
        BY <1>3, <3>3
      <4> QED
        BY <2>3, <3>1, <3>3, <4>1, <1>1, GrowFacts
    <3>4. f \in Seq(Cells)
      BY <2>3, <3>1, <1>1, SeqOps
    <3> QED
      BY <2>3, <3>1, <3>2, <3>3, <3>4, <1>1
  <2>4. CASE f = jsonl /\ n = Lines(jsonl, off) /\ unclosed' = TRUE
    BY <2>4, <1>1
  <2> QED
    BY <1>4, <2>1, <2>2, <2>3, <2>4
<1>6. Len(f) \in Nat
  BY <1>5, FileFacts
<1>7. /\ q' \in Queue /\ q'.offset = off /\ q'.size = Len(f) /\ q'.pending = n
      /\ ~q'.unknown /\ ~q'.parkErr /\ q'.parked = (marker /\ n > 0)
  BY <1>1, <1>4, <1>5, <1>6 DEF Queue, Empty
<1> QED
  BY <1>1, <1>4, <1>5, <1>7

\* A load that fails leaves the files alone.
LEMMA LoadShape ==
    ASSUME TypeOK, Load
    PROVE  /\ cursor' = cursor
           /\ \/ \E off \in Nat : /\ off <= Len(jsonl) /\ LoadFrom(off)
                                  /\ off = 0 \/ off = LoadOffset(jsonl, cursor)
              \/ /\ UNCHANGED <<jsonl, marker, unclosed>>
                 /\ q' \in Queue /\ q' = [Empty EXCEPT !.unknown = TRUE]
                 /\ q'.unknown /\ q'.offset = 0 /\ q'.size = 0 /\ q'.pending = 0
<1>1. /\ LoadOffset(jsonl, cursor) \in Nat /\ LoadOffset(jsonl, cursor) <= Len(jsonl)
      /\ 0 \in Nat /\ 0 <= Len(jsonl)
  <2>1. jsonl \in File /\ Len(jsonl) \in Nat /\ cursor \in Nat \cup {NoCursor}
    BY FileOf
  <2>2. LoadOffset(jsonl, cursor) \in 0 .. Len(jsonl)
    BY <2>1, LoadOffsetFacts
  <2> QED
    BY <2>1, <2>2
<1> DEFINE u == [Empty EXCEPT !.unknown = TRUE]
<1>2. u \in Queue /\ u.unknown /\ u.offset = 0 /\ u.size = 0 /\ u.pending = 0
  BY DEF Empty, Queue
<1> QED
  BY <1>1, <1>2 DEF Load

\* A record that is written is one line and two cells more.
LEMMA AppendShape ==
    ASSUME q \in Queue, EnqueueAppend
    PROVE  /\ q' \in Queue /\ q'.size = q.size + 2 /\ q'.pending = q.pending + 1
           /\ q'.offset = q.offset /\ q'.unknown = q.unknown
           /\ q'.parked = q.parked /\ q'.parkErr = q.parkErr
<1> DEFINE a == q.size + 2
           b == q.pending + 1
<1>1. q' = [q EXCEPT !.size = a, !.pending = b] /\ a \in Nat /\ b \in Nat
  BY DEF EnqueueAppend, Queue
<1>2. a = q.size + 2 /\ b = q.pending + 1
  OBVIOUS
<1> HIDE DEF a, b
<1>3. /\ q' \in Queue /\ q'.size = a /\ q'.pending = b
      /\ q'.offset = q.offset /\ q'.unknown = q.unknown
      /\ q'.parked = q.parked /\ q'.parkErr = q.parkErr
  BY <1>1 DEF Queue
<1> QED
  BY <1>2, <1>3

\* The retry behind a torn record adds a line of two cells and leaves the cursor.
LEMMA RealignShape ==
    ASSUME TypeOK, EnqueueRealign
    PROVE  /\ reader' = Idle /\ q' \in Queue /\ marker' \in BOOLEAN
           /\ q'.offset = q.offset /\ q'.size = q.size + 2 /\ q'.pending = q.pending + 1
           /\ q'.unknown = q.unknown
           /\ reader.undo # "marker" => marker' = marker /\ q'.parked = q.parked
           /\ reader.undo = "marker" => \/ ~marker' /\ ~q'.parked
                                        \/ marker' = marker /\ q'.parked = q.parked
<1> DEFINE m == [q EXCEPT !.size = @ + 2, !.pending = @ + 1]
<1>1. Refuse(m)
  BY DEF EnqueueRealign
<1>2. /\ m \in Queue /\ m.size = q.size + 2 /\ m.pending = q.pending + 1
      /\ m.offset = q.offset /\ m.unknown = q.unknown
      /\ m.parked = q.parked /\ m.parkErr = q.parkErr
  <2> DEFINE a == q.size + 2
             b == q.pending + 1
  <2>1. m = [q EXCEPT !.size = a, !.pending = b] /\ a \in Nat /\ b \in Nat /\ q \in Queue
    BY FileOf DEF Queue
  <2>2. a = q.size + 2 /\ b = q.pending + 1
    OBVIOUS
  <2> HIDE DEF a, b, m
  <2>3. /\ m \in Queue /\ m.size = a /\ m.pending = b
        /\ m.offset = q.offset /\ m.unknown = q.unknown
        /\ m.parked = q.parked /\ m.parkErr = q.parkErr
    BY <2>1 DEF Queue
  <2> QED
    BY <2>2, <2>3
<1> HIDE DEF m
<1> QED
  BY <1>1, <1>2, RefuseShape

\* A compacted file has its size, and an emptied one none.
LEMMA RenameShape ==
    ASSUME q \in Queue, NEW l \in Nat, q' = [q EXCEPT !.offset = 0, !.size = l]
    PROVE  /\ q' \in Queue /\ q'.offset = 0 /\ q'.size = l /\ q'.pending = q.pending
           /\ q'.unknown = q.unknown /\ q'.parked = q.parked /\ q'.parkErr = q.parkErr
BY DEF Queue

\* Removing the files leaves an empty queue, and a marker the queue knows of.
LEMMA UnlinkShape ==
    ASSUME TypeOK, Unlink
    PROVE  /\ q' \in Queue /\ q'.offset = 0 /\ q'.size = 0 /\ q'.pending = q.pending
           /\ q'.unknown = q.unknown
           /\ \/ ~marker' /\ ~q'.parked
              \/ marker' = marker /\ q'.parked = q.parked
<1>1. q \in Queue
  BY DEF TypeOK
<1>2. CASE q' = [q EXCEPT !.offset = 0, !.size = 0] /\ marker' = marker
  BY <1>1, <1>2 DEF Queue
<1>3. CASE q' = [Unmarked(q) EXCEPT !.offset = 0, !.size = 0] /\ marker' = FALSE
  BY <1>1, <1>3 DEF Queue, Unmarked
<1> QED
  BY <1>2, <1>3 DEF Unlink

\* A marker that is put down is on disk and known, or neither.
LEMMA MarkShape ==
    ASSUME TypeOK, MarkLimitParked
    PROVE  /\ q' \in Queue /\ marker' \in BOOLEAN
           /\ q'.offset = q.offset /\ q'.size = q.size /\ q'.pending = q.pending
           /\ q'.unknown = q.unknown
           /\ marker => marker'
           /\ (marker = q.parked) => (marker' = q'.parked)
<1>1. q \in Queue /\ marker \in BOOLEAN
  BY DEF TypeOK
<1>2. CASE q.parked /\ UNCHANGED <<marker, q>>
  BY <1>1, <1>2
<1>3. CASE ~q.parked /\ marker' = TRUE /\ q' = Marked(q)
  BY <1>1, <1>3 DEF Marked, Queue
<1>4. CASE q' = [q EXCEPT !.parkErr = TRUE] /\ UNCHANGED marker
  BY <1>1, <1>4 DEF Queue
<1> QED
  BY <1>2, <1>3, <1>4 DEF MarkLimitParked

-----------------------------------------------------------------------------
\* The queue starts well formed.
LEMMA TypeInit == Init => TypeInv
<1> SUFFICES ASSUME Init PROVE TypeInv
  OBVIOUS
<1>1. jsonl \in Seq(-MaxEvents .. MaxEvents) /\ Len(jsonl) = 0
  BY DEF Init
<1>2. emitted \in 0 .. MaxEvents
  BY QueueAssumption DEF Init
<1>3. q \in Queue /\ q.size = 0 /\ ~q.unknown
  BY DEF Init, Empty, Queue
<1>4. /\ reader.pc = "idle" /\ drainer.pc = "off"
      /\ reader \in [pc : {"idle"}, park : BOOLEAN, undo : {"nothing"}]
      /\ drainer \in [pc : {"off"}, event : {NoEvent}, at : Nat]
  BY DEF Init, Idle, Off
<1>5. TypeOK
  BY <1>1, <1>2, <1>3, <1>4 DEF Init, TypeOK, ReaderHolds, DrainerHolds
<1> QED
  BY <1>1, <1>3, <1>4, <1>5 DEF TypeInv, Locks, SizeFits, Peeked, ReaderHolds, DrainerHolds

\* A load leaves the queue well formed, whoever asks for it.
LEMMA TypeLoad ==
    ASSUME TypeInv, Load
    PROVE  /\ jsonl' \in Seq(-MaxEvents .. MaxEvents) /\ Len(jsonl') \in Nat
           /\ cursor' \in Nat \cup {NoCursor} /\ marker' \in BOOLEAN
           /\ unclosed' \in BOOLEAN
           /\ q' \in Queue /\ q'.size <= Len(jsonl')
           /\ q'.unknown => q'.offset = 0 /\ q'.size = 0 /\ q'.pending = 0
<1>1. TypeOK
  BY DEF TypeInv
<1>2. CASE \E off \in Nat : off <= Len(jsonl) /\ LoadFrom(off)
  <2>1. PICK off \in Nat : off <= Len(jsonl) /\ LoadFrom(off)
    BY <1>2
  <2>2. /\ jsonl' \in Seq(Cells) /\ jsonl' \in File /\ q' \in Queue /\ q'.size = Len(jsonl')
        /\ ~q'.unknown /\ q'.parked = marker' /\ unclosed' \in BOOLEAN
        /\ marker' = (marker /\ q'.pending > 0)
    BY <1>1, <2>1, LoadFromShape
  <2>3. Len(jsonl') \in Nat
    BY <2>2, FileFacts
  <2> QED
    BY <1>1, <2>2, <2>3, LoadShape DEF Cells, TypeOK, Queue
<1>3. CASE /\ UNCHANGED <<jsonl, marker, unclosed>>
           /\ q' \in Queue
           /\ q'.unknown /\ q'.offset = 0 /\ q'.size = 0 /\ q'.pending = 0
  BY <1>1, <1>3, LoadShape, FileOf DEF TypeOK
<1> QED
  BY <1>1, <1>2, <1>3, LoadShape

\* Every step keeps the queue well formed.
LEMMA TypeNext == TypeInv /\ [Next]_vars => TypeInv'
<1> SUFFICES ASSUME TypeInv, [Next]_vars PROVE TypeInv'
  OBVIOUS
<1> USE DEF TypeInv, TypeOK, Locks, SizeFits, Peeked, ReaderHolds, DrainerHolds, Idle, Off, Peek,
            NoEvent
<1>0. TypeInv /\ TypeOK
  OBVIOUS
<1>q. /\ q \in Queue /\ q.offset \in Nat /\ q.size \in Nat /\ q.pending \in Nat
      /\ Len(jsonl) \in Nat
  BY <1>0, FileOf
<1>m. emitted \in 0 .. MaxEvents /\ MaxEvents \in Nat
  BY <1>0, QueueAssumption
<1>a. CASE UNCHANGED vars
  BY <1>0, <1>a DEF vars, disk, settled, history, world
<1>b. CASE Reader
  <2>1. CASE ReadLine
    <3>1. q' \in Queue /\ q'.offset = q.offset /\ q'.size = q.size /\ q'.pending = q.pending
          /\ ~q'.unknown /\ ~q.unknown
      BY <1>0, <2>1, FileOf DEF ReadLine, Queue, Blocked
    <3>2. emitted' \in 0 .. MaxEvents /\ emitted' >= 1
      BY <1>m, <2>1 DEF ReadLine
    <3>3. reader' = [reader EXCEPT !.pc = "route"] /\ reader.pc = "idle"
          /\ UNCHANGED <<jsonl, cursor, marker, drainer, leaving, stopping, settled, unclosed>>
      BY <2>1 DEF ReadLine, At, disk, history
    <3> QED
      BY <1>0, <3>1, <3>2, <3>3 DEF settled
  <2>2. CASE ReadLeftover
    <3>1. emitted' \in 0 .. MaxEvents /\ emitted' >= 1
      BY <1>m, <2>2 DEF ReadLeftover
    <3>2. reader' \in [pc : {"idle", "enqueue"}, park : BOOLEAN, undo : {"nothing"}]
          /\ (q.unknown => reader'.pc = "idle")
      BY <2>2 DEF ReadLeftover
    <3>3. reader.pc = "idle"
          /\ UNCHANGED <<jsonl, cursor, marker, q, drainer, leaving, stopping, settled, unclosed>>
      BY <2>2 DEF ReadLeftover, disk, history
    <3> QED
      BY <1>0, <3>1, <3>2, <3>3 DEF settled
  <2>3. CASE RouteDirect
    BY <1>0, <2>3, FileOf DEF RouteDirect, QueueFree, disk, world, Events
  <2>4. CASE RouteDropped
    BY <1>0, <2>4, FileOf DEF RouteDropped, QueueFree, disk, world, history, settled
  <2>5. CASE RouteQueued
    BY <1>0, <2>5, FileOf, ZenonT(60) DEF RouteQueued, QueueFree, disk, world, history,
       settled
  <2>6. CASE EnqueueProtect
    <3>1. q' \in Queue /\ marker' \in BOOLEAN
          /\ q'.offset = q.offset /\ q'.size = q.size /\ q'.pending = q.pending
          /\ q'.unknown = q.unknown
      <4>1. CASE MarkLimitParked
        BY <1>0, <4>1, MarkShape
      <4>2. CASE UNCHANGED <<marker, q>>
        BY <1>0, <4>2, FileOf
      <4>3. CASE marker' = (marker /\ ~q.parked) /\ q' = Unmarked(q)
        BY <1>0, <4>3, FileOf DEF Unmarked, Queue
      <4> QED
        BY <2>6, <4>1, <4>2, <4>3 DEF EnqueueProtect
    <3>2. reader' \in [pc : {"idle", "reset"}, park : BOOLEAN, undo : {"nothing", "marker", "error"}]
      <4>1. CASE At("reset")
        BY <1>0, <4>1 DEF At
      <4>2. CASE reader' = Idle
        BY <4>2
      <4>3. CASE reader' = [reader EXCEPT
                !.pc = "reset",
                !.undo = IF marker' # marker /\ ~Protected(q) THEN "marker"
                         ELSE IF q'.parkErr /\ ~q.parkErr THEN "error"
                         ELSE "nothing"]
        <5> DEFINE u == IF marker' # marker /\ ~Protected(q) THEN "marker"
                        ELSE IF q'.parkErr /\ ~q.parkErr THEN "error"
                        ELSE "nothing"
        <5>1. u \in {"nothing", "marker", "error"}
          OBVIOUS
        <5>2. reader' = [reader EXCEPT !.pc = "reset", !.undo = u]
          BY <4>3
        <5> HIDE DEF u
        <5> QED
          BY <1>0, <5>1, <5>2
      <4> QED
        BY <2>6, <4>1, <4>2, <4>3 DEF EnqueueProtect
    <3>3. reader.pc = "enqueue" /\ QueueFree
          /\ UNCHANGED <<jsonl, cursor, drainer, leaving, stopping, emitted, settled, unclosed>>
      BY <2>6 DEF EnqueueProtect, world, history
    <3> QED
      BY <1>0, <3>1, <3>2, <3>3 DEF settled, QueueFree
  <2>7. CASE EnqueueReset
    <3>1. reader.pc = "reset"
          /\ UNCHANGED <<jsonl, drainer, leaving, stopping, emitted, settled, unclosed>>
      BY <2>7 DEF EnqueueReset, world, history
    <3>2. cursor' \in Nat \cup {NoCursor}
      BY <1>0, <2>7 DEF EnqueueReset, NoCursor
    <3>3. \/ reader' = [reader EXCEPT !.pc = "append"] /\ UNCHANGED <<marker, q>>
          \/ Refuse(q)
      BY <2>7 DEF EnqueueReset, At
    <3>4. CASE reader' = [reader EXCEPT !.pc = "append"] /\ UNCHANGED <<marker, q>>
      BY <1>0, <3>1, <3>2, <3>4 DEF settled
    <3>5. CASE Refuse(q)
      <4>1. /\ reader' = Idle /\ q' \in Queue /\ marker' \in BOOLEAN
            /\ q'.offset = q.offset /\ q'.size = q.size /\ q'.pending = q.pending
            /\ q'.unknown = q.unknown
        BY <1>0, <3>5, FileOf, RefuseShape
      <4> QED
        BY <1>0, <3>1, <3>2, <4>1 DEF settled
    <3> QED
      BY <3>3, <3>4, <3>5
  <2>8. CASE EnqueueAppend
    <3>1. emitted \in Events /\ reader.pc = "append"
      BY <1>0, <2>8, QueueAssumption DEF EnqueueAppend, Events
    <3>2. jsonl' \in Seq(Cells) /\ Len(jsonl') = Len(jsonl) + 2 /\ Len(jsonl) \in Nat
      <4>1. jsonl \in Seq(Cells) /\ Body(emitted) \in Cells /\ Newline \in Cells
        BY <1>0, <3>1, CellsFacts DEF Cells
      <4> QED
        BY <2>8, <4>1, SeqOps, SeqWider DEF EnqueueAppend
    <3>3. q' \in Queue /\ q'.size = q.size + 2 /\ q'.unknown = q.unknown
      BY <1>q, <2>8, AppendShape
    <3>4. kept' \subseteq Events /\ shielded' \subseteq kept'
      BY <1>0, <2>8, <3>1 DEF EnqueueAppend
    <3>5. reader' = [Idle EXCEPT !.pc = "caps"]
          /\ UNCHANGED <<cursor, marker, drainer, leaving, stopping, emitted, delivered, dropped, unclosed>>
      BY <2>8 DEF EnqueueAppend, world
    <3>6. drainer.pc # "unlink" /\ q.size <= Len(jsonl) /\ q.size \in Nat /\ Len(jsonl) \in Nat
      BY <1>0, <1>q, <3>1
    <3>7. TypeOK'
      BY <1>0, <3>2, <3>3, <3>4, <3>5, ZenonT(60) DEF Cells
    <3>8. SizeFits'
      BY <3>2, <3>3, <3>5, <3>6
    <3>9. reader'.pc = "caps" /\ reader'.pc # "idle" /\ emitted' >= 1
      BY <1>0, <3>1, <3>5
    <3>10. Locks'
      BY <1>0, <3>1, <3>3, <3>5, <3>9
    <3> QED
      BY <3>7, <3>8, <3>9, <3>10
  <2>9. CASE EnqueueAppendFails
    <3>1. /\ reader' = Idle /\ q' \in Queue /\ marker' \in BOOLEAN
          /\ q'.offset = q.offset /\ q'.size = q.size /\ q'.pending = q.pending
          /\ q'.unknown = q.unknown
      BY <1>0, <2>9, FileOf, RefuseShape DEF EnqueueAppendFails
    <3>2. reader.pc = "append"
          /\ UNCHANGED <<jsonl, cursor, drainer, leaving, stopping, emitted, settled, unclosed>>
      BY <2>9 DEF EnqueueAppendFails, world, history
    <3> QED
      BY <1>0, <3>1, <3>2 DEF settled
  <2>10. CASE EnqueueAppendTorn
    <3>1. emitted \in Events /\ reader.pc = "append"
      BY <1>0, <2>10, QueueAssumption DEF EnqueueAppendTorn, Events
    <3>2. jsonl' \in Seq(Cells) /\ Len(jsonl') = Len(jsonl) + 1 /\ Len(jsonl) \in Nat
      <4>1. jsonl \in Seq(Cells) /\ Body(emitted) \in Cells /\ Fragment(emitted) \in Cells
        BY <1>0, <3>1, CellsFacts DEF Cells
      <4> QED
        BY <2>10, <4>1, SeqOps, SeqWider DEF EnqueueAppendTorn
    <3>3. reader' = [reader EXCEPT !.pc = "torn"]
          /\ UNCHANGED <<cursor, marker, q, drainer, leaving, stopping, emitted, settled, unclosed>>
      BY <2>10 DEF EnqueueAppendTorn, At, world, history
    <3>4. q.size \in Nat
      BY FileOf
    <3> QED
      BY <1>0, <3>1, <3>2, <3>3, <3>4 DEF Cells, settled
  <2>11. CASE EnqueueTruncate
    <3>1. /\ reader' = Idle /\ q' \in Queue /\ marker' \in BOOLEAN
          /\ q'.offset = q.offset /\ q'.size = q.size /\ q'.pending = q.pending
          /\ q'.unknown = q.unknown
      BY <1>0, <2>11, FileOf, RefuseShape DEF EnqueueTruncate
    <3>2. reader.pc = "torn" /\ drainer.pc # "unlink" /\ q.size \in 0 .. Len(jsonl)
      BY <1>0, <2>11, FileOf DEF EnqueueTruncate
    <3>3. jsonl' \in Seq(Cells) /\ Len(jsonl') = q.size
      <4>1. jsonl \in Seq(Cells) /\ jsonl' = SubSeq(jsonl, 1, q.size)
        BY <1>0, <2>11 DEF EnqueueTruncate, Cells
      <4> QED
        BY <3>2, <4>1, SeqOps
    <3>4. UNCHANGED <<cursor, drainer, leaving, stopping, emitted, settled, unclosed>>
      BY <2>11 DEF EnqueueTruncate, world, history
    <3> QED
      BY <1>0, <3>1, <3>2, <3>3, <3>4 DEF settled, Cells
  <2>12. CASE EnqueueRealign
    <3>2. reader.pc = "torn" /\ jsonl' = Append(jsonl, Newline)
          /\ UNCHANGED <<cursor, drainer, leaving, stopping, emitted, settled, unclosed>>
      BY <2>12 DEF EnqueueRealign, world, history
    <3>3. /\ reader' = Idle /\ q' \in Queue /\ marker' \in BOOLEAN
          /\ q'.size = q.size + 2 /\ q'.unknown = q.unknown
      BY <1>0, <2>12, RealignShape
    <3>4. jsonl' \in Seq(Cells) /\ Len(jsonl') = Len(jsonl) + 1 /\ Len(jsonl) \in Nat /\ q.size \in Nat
      BY <1>0, <3>2, FileOf, SeqOps, CellsFacts DEF Cells
    <3> QED
      BY <1>0, <3>2, <3>3, <3>4 DEF settled, Cells
  <2>13. CASE EnqueueAbandon
    <3>1. /\ reader' = Idle /\ q' \in Queue /\ marker' \in BOOLEAN
          /\ q'.offset = q.offset /\ q'.size = q.size /\ q'.pending = q.pending
          /\ q'.unknown = q.unknown
      BY <1>0, <2>13, FileOf, RefuseShape DEF EnqueueAbandon
    <3>2. reader.pc = "torn" /\ unclosed' = TRUE
          /\ UNCHANGED <<jsonl, cursor, drainer, leaving, stopping, emitted, settled>>
      BY <2>13 DEF EnqueueAbandon, world
    <3>3. q.size \in Nat /\ Len(jsonl) \in Nat
      BY FileOf
    <3> QED
      BY <1>0, <3>1, <3>2, <3>3 DEF settled
  <2>14. CASE EnqueueCaps
    <3>1. reader.pc = "caps" /\ reader' = [reader EXCEPT !.pc = "wake"]
          /\ UNCHANGED <<jsonl, marker, drainer, leaving, stopping, emitted, kept, shielded, delivered,
                         unclosed>>
      BY <2>14 DEF EnqueueCaps, At, world
    <3>2. q' \in Queue /\ q'.size = q.size /\ q'.unknown = q.unknown
          /\ cursor' \in Nat \cup {NoCursor} /\ dropped' \subseteq Events
      <4>1. CASE UNCHANGED <<cursor, q, dropped>>
        BY <1>0, <4>1, FileOf
      <4>2. CASE DropOldestOverCaps
        <5>1. PICK n \in 0 .. q.pending :
                /\ q' = Without(q, n)
                /\ dropped' = dropped \cup
                      (Waiting(jsonl, q.offset) \ Waiting(jsonl, q'.offset))
                /\ cursor' = cursor \/ cursor' = q'.offset
          BY <1>0, <4>2, DropShape
        <5>2. q' \in Queue /\ q'.size = q.size /\ q'.unknown = q.unknown
          BY <1>0, <5>1, WithoutType
        <5>3. q.offset \in Nat /\ q'.offset \in Nat
          BY <5>2, FileOf DEF Queue
        <5>4. Waiting(jsonl, q.offset) \subseteq Events
          BY <1>0, <5>3, WaitingEvents
        <5> QED
          BY <1>0, <5>1, <5>2, <5>3, <5>4
      <4> QED
        BY <2>14, <4>1, <4>2 DEF EnqueueCaps
    <3> QED
      BY <1>0, <3>1, <3>2
  <2>15. CASE EnqueueWake
    BY <1>0, <2>15, FileOf DEF EnqueueWake, EnsureDrainer, disk, world, history, settled
  <2> QED
    BY <1>b, <2>1, <2>2, <2>3, <2>4, <2>5, <2>6, <2>7, <2>8, <2>9, <2>10, <2>11, <2>12, <2>13, <2>14,
       <2>15 DEF Reader
<1>c. CASE Drainer
  <2>1. CASE DrainStops
    BY <1>0, <2>1, FileOf DEF DrainStops, Park, disk, world, history, settled
  <2>2. CASE PeekHead
    <3>1. EventAt(jsonl, q.offset) \in Events
      <4>1. jsonl \in File /\ EventAt(jsonl, q.offset) # NoEvent
        BY <1>0, <2>2, FileOf DEF PeekHead
      <4>2. EventAt(jsonl, q.offset) \in Waiting(jsonl, q.offset)
        BY <4>1 DEF Waiting
      <4> QED
        BY <1>0, <1>q, <4>2, WaitingEvents
    <3>2. drainer' = [pc |-> "decide", event |-> EventAt(jsonl, q.offset), at |-> q.offset]
          /\ ~q.unknown /\ drainer.pc \in {"peek", "skip"} /\ drainer.pc # "unlink"
          /\ UNCHANGED <<disk, q, reader, leaving, world, history>>
      BY <2>2 DEF PeekHead, Peeking
    <3>3. EventAt(jsonl, q.offset) # 0
      BY <2>2 DEF PeekHead
    <3> QED
      BY <1>0, <1>q, <3>1, <3>2, <3>3 DEF disk, world, history, settled
  <2>3. CASE PeekSkip
    BY <1>0, <2>3, FileOf, WithoutType DEF PeekSkip, Peeking, QueueFree, disk, world, history, settled
  <2>4. CASE PeekParks
    BY <1>0, <2>4, FileOf DEF PeekParks, Peeking, Park, QueueFree, disk, world, history, settled
  <2>5. CASE PeekEmpty
    BY <1>0, <2>5, FileOf DEF PeekEmpty, Peeking, Go, QueueFree, disk, world, history, settled
  <2>6. CASE Leave
    BY <1>0, <2>6, FileOf DEF Leave, Park, disk, world, history, settled
  <2>7. CASE LookBack
    <3>1. drainer' = drainer \/ (drainer.pc = "off" /\ drainer' = Peek)
      <4>1. EnsureDrainer \/ drainer' = drainer
        BY <2>7, Zenon DEF LookBack
      <4> HIDE DEF Peek
      <4> QED
        BY <4>1, Zenon DEF EnsureDrainer
    <3>2. leaving' = FALSE /\ UNCHANGED <<disk, q, reader, world, history>>
      BY <2>7 DEF LookBack
    <3>3. /\ leaving' = FALSE
          /\ UNCHANGED <<jsonl, cursor, marker, q, reader, stopping, emitted, kept, shielded,
                         delivered, dropped, unclosed>>
      BY <3>2 DEF disk, world, history, settled
    <3>4. /\ drainer' \in [pc : {"off", "peek", "leave", "decide", "deliver", "advance",
                                "expire"} \cup DrainerHolds,
                           event : Events \cup {NoEvent}, at : Nat]
          /\ drainer'.pc \in DrainerHolds \cup {"decide", "deliver", "advance", "expire"} =>
                drainer' = drainer
          /\ drainer.pc \in DrainerHolds => drainer' = drainer
      BY <1>0, <3>1
    <3>5. q.unknown => drainer'.pc \in {"off", "peek"}
      BY <1>0, <3>1
    <3>6. TypeOK'
      <4> HIDE DEF Idle, Off, Peek, Locks, SizeFits, Peeked, TypeInv
      <4> QED
        BY <1>0, <3>3, <3>4, ZenonT(60)
    <3>7. Locks'
      <4> HIDE DEF Idle, Off, Peek, TypeOK, SizeFits, TypeInv
      <4>1. Locks
        BY <1>0 DEF TypeInv
      <4> QED
        BY <4>1, <3>3, <3>4, <3>5
    <3>8. SizeFits'
      <4> HIDE DEF Idle, Off, Peek, TypeOK, Locks, Peeked, TypeInv
      <4>1. SizeFits
        BY <1>0 DEF TypeInv
      <4> QED
        BY <4>1, <3>3, <3>4
    <3> QED
      BY <1>0, <3>3, <3>6, <3>7, <3>8
  <2>8. CASE DecideExpire
    BY <1>0, <2>8, FileOf DEF DecideExpire, Go, QueueFree, disk, world, history, settled
  <2>9. CASE DecideProtect
    <3>1. /\ q' \in Queue /\ marker' \in BOOLEAN
          /\ q'.offset = q.offset /\ q'.size = q.size /\ q'.pending = q.pending
          /\ q'.unknown = q.unknown
      BY <1>0, <2>9, MarkShape DEF DecideProtect
    <3>2. drainer.pc = "decide" /\ drainer' = [drainer EXCEPT !.pc = "deliver"]
          /\ UNCHANGED <<jsonl, cursor, reader, leaving, world, history>>
      BY <2>9 DEF DecideProtect, Go
    <3> QED
      BY <1>0, <3>1, <3>2 DEF world, history, settled
  <2>10. CASE DecideDeliver
    BY <1>0, <2>10, FileOf DEF DecideDeliver, Go, QueueFree, disk, world, history, settled
  <2>11. CASE Deliver
    BY <1>0, <2>11, FileOf DEF Deliver, Go, disk, world, history, settled
  <2>12. CASE DeliverFails
    BY <1>0, <2>12, FileOf DEF DeliverFails, disk, world, history, settled
  <2>13. CASE DeliverParks
    <3>1. /\ q' \in Queue /\ marker' \in BOOLEAN
          /\ q'.offset = q.offset /\ q'.size = q.size /\ q'.pending = q.pending
          /\ q'.unknown = q.unknown
      BY <1>0, <2>13, MarkShape DEF DeliverParks
    <3>2. drainer.pc = "deliver" /\ drainer' = Peek
          /\ UNCHANGED <<jsonl, cursor, reader, leaving, world, history>>
      BY <2>13 DEF DeliverParks
    <3> QED
      BY <1>0, <3>1, <3>2 DEF world, history, settled
  <2>14. CASE Advance
    <3>1. /\ drainer.pc \in {"advance", "expire"} /\ QueueFree /\ q' = Without(q, 1)
          /\ q.pending > 0 /\ drainer' = [drainer EXCEPT !.pc = Consumed(q')]
          /\ dropped' = IF drainer.pc = "expire" THEN dropped \cup {drainer.event} ELSE dropped
          /\ UNCHANGED <<disk, reader, leaving, world, kept, shielded, delivered, unclosed>>
      BY <2>14 DEF Advance, Current, Go
    <3>2. Consumed(q') \in {"reclaim", "compact", "persist"}
      BY DEF Consumed
    <3>3. q' \in Queue /\ q'.size = q.size /\ q'.unknown = q.unknown
      BY <1>0, <3>1, FileOf, WithoutType
    <3> QED
      BY <1>0, <3>1, <3>2, <3>3 DEF QueueFree, disk, world
  <2>15. CASE AdvanceStale
    BY <1>0, <2>15, FileOf DEF AdvanceStale, QueueFree, disk, world, history, settled
  <2>16. CASE AdvanceParks
    BY <1>0, <2>16, FileOf DEF AdvanceParks, Park, QueueFree, disk, world, history, settled
  <2>17. CASE CompactCursor
    <3>1. cursor' \in Nat \cup {NoCursor} /\ drainer.pc = "compact"
      BY <1>0, <2>17, FileOf DEF CompactCursor
    <3>2. \/ drainer' = [drainer EXCEPT !.pc = "rename"]
          \/ drainer' = [drainer EXCEPT !.pc = "persist"]
      BY <2>17 DEF CompactCursor, Go
    <3> QED
      BY <1>0, <2>17, <3>1, <3>2 DEF CompactCursor, world, history, settled
  <2>18. CASE CompactRename
    <3>1. /\ drainer.pc = "compact" \/ drainer.pc = "rename"
          /\ drainer' = [drainer EXCEPT !.pc = "persist"]
          /\ UNCHANGED <<cursor, marker, reader, leaving, world, history>>
      BY <2>18 DEF CompactRename, Go
    <3>2. jsonl' \in Seq(Cells) /\ q' \in Queue /\ q'.size <= Len(jsonl') /\ q'.unknown = q.unknown
      <4>1. CASE UNCHANGED <<jsonl, q>>
        BY <1>0, <3>1, <4>1, FileOf DEF Cells
      <4>2. CASE /\ jsonl' = SubSeq(jsonl, q.offset + 1, Len(jsonl))
                 /\ q' = [q EXCEPT !.offset = 0, !.size = Len(jsonl')]
        <5>1. jsonl \in Seq(Cells) /\ q.offset \in Nat /\ q \in Queue
          BY <1>0, FileOf DEF Cells
        <5>2. jsonl' \in Seq(Cells)
          BY <4>2, <5>1, SeqOps
        <5>3. Len(jsonl') \in Nat
          BY <5>2, CellsFacts, SeqWider
        <5>4. q' \in Queue /\ q'.size = Len(jsonl') /\ q'.unknown = q.unknown
          BY <1>q, <4>2, <5>3, RenameShape
        <5> QED
          BY <5>2, <5>3, <5>4
      <4> QED
        BY <2>18, <4>1, <4>2 DEF CompactRename
    <3> QED
      BY <1>0, <3>1, <3>2 DEF world, history, settled, Cells
  <2>19. CASE PersistCursor
    BY <1>0, <2>19, FileOf DEF PersistCursor, Go, Park, Skipping, disk, world, history, settled
  <2>20. CASE Reclaim
    <3>1. jsonl' \in Seq(Cells) /\ (jsonl' = jsonl \/ jsonl' = <<>>)
      BY <1>0, <2>20, SeqOps, ZenonT(60) DEF Reclaim, Cells
    <3>2. /\ drainer.pc = "reclaim"
          /\ \/ jsonl' = <<>> /\ drainer' = [drainer EXCEPT !.pc = "unlink"]
             \/ jsonl' = jsonl /\ drainer' = Off
          /\ UNCHANGED <<cursor, marker, q, reader, leaving, world, history>>
      BY <2>20 DEF Reclaim, Go, Park
    <3> QED
      BY <1>0, <3>1, <3>2 DEF world, history, settled, Cells
  <2>21. CASE Unlink
    <3>1. /\ drainer.pc = "unlink"
          /\ UNCHANGED <<jsonl, reader, leaving, world, history>>
      BY <2>21 DEF Unlink
    <3>2. drainer' \in {[drainer EXCEPT !.pc = "leave"], Peek, Off}
      BY <2>21 DEF Unlink, Go, Park
    <3>3. cursor' \in Nat \cup {NoCursor} /\ marker' \in BOOLEAN
      BY <1>0, <2>21, FileOf DEF Unlink
    <3>5. q' \in Queue /\ q'.size = 0 /\ q'.unknown = q.unknown
      BY <1>0, <2>21, UnlinkShape
    <3>6. Len(jsonl) \in Nat
      BY <1>0, FileOf
    <3> QED
      BY <1>0, <3>1, <3>2, <3>3, <3>5, <3>6 DEF world, history, settled
  <2> QED
    BY <1>c, <2>1, <2>2, <2>3, <2>4, <2>5, <2>6, <2>7, <2>8, <2>9, <2>10, <2>11, <2>12, <2>13, <2>14,
       <2>15, <2>16, <2>17, <2>18, <2>19, <2>20, <2>21 DEF Drainer
<1>d. ASSUME Arm PROVE TypeInv'
  BY <1>0, <1>d, TypeLoad DEF Arm, settled
<1>e. CASE RetryLoad
  BY <1>0, <1>e, TypeLoad DEF RetryLoad, QueueFree, settled, world
<1>f. CASE RetryMarker
  BY <1>0, <1>f, FileOf, ZenonT(60) DEF RetryMarker, QueueFree, Marked, Queue, history,
     settled, world
<1>g. CASE Stop
  BY <1>0, <1>g DEF Stop, disk, history, settled
<1> QED
  BY <1>a, <1>b, <1>c, <1>d, <1>e, <1>f, <1>g DEF Next, Reload, Crash

\* The queue's files, its memory and its two goroutines keep their shape.
THEOREM EventQueueType == Spec => []TypeOK
<1>1. Spec => []TypeInv
  BY TypeInit, TypeNext, PTL DEF Spec
<1>2. TypeInv => TypeOK
  BY DEF TypeInv
<1> QED
  BY <1>1, <1>2, PTL

-----------------------------------------------------------------------------
\* The steps that touch neither the files nor what became of an event.
Quiet ==
    \/ Stop \/ RetryMarker
    \/ ReadLine \/ ReadLeftover \/ RouteDropped \/ RouteQueued \/ EnqueueWake
    \/ DrainStops \/ PeekParks \/ PeekEmpty \/ Leave \/ LookBack
    \/ DecideProtect \/ DecideDeliver
    \/ DeliverFails \/ DeliverParks \/ AdvanceStale \/ AdvanceParks

SameQueue == /\ q'.offset = q.offset /\ q'.size = q.size /\ q'.pending = q.pending
             /\ q'.unknown = q.unknown

\* Such a step may raise the marker, never lower it, and the queue knows of it.
LEMMA QuietShape ==
    ASSUME TypeInv, Quiet
    PROVE  /\ UNCHANGED <<jsonl, cursor, kept, shielded, delivered, dropped, unclosed>>
           /\ SameQueue
           /\ marker => marker'
           /\ ~q.unknown /\ marker = q.parked => marker' = q'.parked
           /\ reader.pc \in ReaderHolds => reader' = reader
           /\ reader'.pc \in ReaderHolds => reader' = reader
           /\ drainer.pc \in {"rename", "reclaim", "unlink"} => drainer' = drainer
           /\ drainer'.pc \in {"advance", "expire"} \cup DrainerHolds => drainer' = drainer
           /\ drainer'.event = drainer.event \/ drainer'.event = NoEvent
           /\ Peeked' => Peeked /\ drainer'.event = drainer.event
<1> USE DEF ReaderHolds, DrainerHolds, Peeked, Peek, Off, NoEvent
<1>t. /\ TypeOK /\ q \in Queue /\ marker \in BOOLEAN
      /\ reader.pc \in ReaderHolds => drainer.pc \notin DrainerHolds
      /\ drainer \in [pc : {"off", "peek", "leave", "decide", "deliver", "advance",
                            "expire"} \cup DrainerHolds,
                      event : Events \cup {NoEvent}, at : Nat]
      /\ reader \in [pc : {"idle", "route", "enqueue", "wake"} \cup ReaderHolds,
                     park : BOOLEAN, undo : {"nothing", "marker", "error"}]
  BY DEF TypeInv, TypeOK, Locks
<1>s. UNCHANGED q => SameQueue
  BY DEF SameQueue
<1>1. CASE Stop
  BY <1>t, <1>s, <1>1 DEF Stop, disk, history, settled
<1>2. CASE RetryMarker
  BY <1>t, <1>2 DEF RetryMarker, history, settled, Marked, Queue, SameQueue
<1>3. CASE ReadLine
  <2>1. q' = [q EXCEPT !.parkErr = @ /\ q.pending > 0]
    BY <1>3 DEF ReadLine
  <2>2. SameQueue /\ q'.parked = q.parked
    BY <1>t, <2>1 DEF Queue, SameQueue
  <2> QED
    BY <1>t, <1>3, <2>2 DEF ReadLine, At, disk, history, settled
<1>4. CASE ReadLeftover
  BY <1>t, <1>s, <1>4 DEF ReadLeftover, disk, history, settled, Idle
<1>5. CASE RouteDropped
  BY <1>t, <1>s, <1>5 DEF RouteDropped, disk, history, settled, Idle
<1>6. CASE RouteQueued
  BY <1>t, <1>s, <1>6 DEF RouteQueued, disk, history, settled, Idle
<1>7. CASE EnqueueWake
  BY <1>t, <1>s, <1>7 DEF EnqueueWake, EnsureDrainer, disk, history, settled, Idle
<1>8. CASE DrainStops
  BY <1>t, <1>s, <1>8 DEF DrainStops, Park, disk, history, settled
<1>9. CASE PeekParks
  BY <1>t, <1>s, <1>9 DEF PeekParks, Peeking, Park, disk, history, settled
<1>10. CASE PeekEmpty
  BY <1>t, <1>s, <1>10 DEF PeekEmpty, Peeking, Go, disk, history, settled
<1>11. CASE Leave
  BY <1>t, <1>s, <1>11 DEF Leave, Park, disk, history, settled
<1>12. CASE LookBack
  <2>1. drainer' = drainer \/ (drainer.pc = "off" /\ drainer' = Peek)
    <3>1. EnsureDrainer \/ drainer' = drainer
      BY <1>12, Zenon DEF LookBack
    <3> HIDE DEF Peek
    <3> QED
      BY <3>1, Zenon DEF EnsureDrainer
  <2> QED
    BY <1>t, <1>s, <1>12, <2>1 DEF LookBack, disk, history, settled
<1>13. CASE DecideProtect
  <2>1. MarkLimitParked
    BY <1>13 DEF DecideProtect
  <2>2. SameQueue /\ (marker => marker') /\ (marker = q.parked => marker' = q'.parked)
    BY <1>t, <2>1, MarkShape DEF SameQueue
  <2> QED
    BY <1>t, <1>13, <2>2 DEF DecideProtect, Go, history, settled
<1>14. CASE DecideDeliver
  BY <1>t, <1>s, <1>14 DEF DecideDeliver, Go, disk, history, settled
<1>15. CASE DeliverFails
  BY <1>t, <1>s, <1>15 DEF DeliverFails, disk, history, settled
<1>16. CASE DeliverParks
  <2>1. MarkLimitParked
    BY <1>16 DEF DeliverParks
  <2>2. SameQueue /\ (marker => marker') /\ (marker = q.parked => marker' = q'.parked)
    BY <1>t, <2>1, MarkShape DEF SameQueue
  <2> QED
    BY <1>t, <1>16, <2>2 DEF DeliverParks, history, settled
<1>17. CASE AdvanceStale
  BY <1>t, <1>s, <1>17 DEF AdvanceStale, disk, history, settled
<1>18. CASE AdvanceParks
  BY <1>t, <1>s, <1>18 DEF AdvanceParks, Park, disk, history, settled
<1> QED
  BY <1>1, <1>2, <1>3, <1>4, <1>5, <1>6, <1>7, <1>8, <1>9, <1>10, <1>11, <1>12, <1>13, <1>14,
     <1>15, <1>16, <1>17, <1>18 DEF Quiet

-----------------------------------------------------------------------------
\* The line the reader has in hand is newer than all the queue and the target
\* know of.
InHand == reader.pc \in {"route", "enqueue", "reset", "append"}
Newest == IF InHand THEN emitted - 1 ELSE emitted

\* The bodies in the file are in the order in which the lines came.
CellsInOrder ==
    /\ \A i \in 1 .. Len(jsonl) : jsonl[i] <= Newest
    /\ \A i, j \in 1 .. Len(jsonl) :
          i < j /\ jsonl[i] > 0 /\ jsonl[j] > 0 => jsonl[i] < jsonl[j]

OrderInv ==
    /\ CellsInOrder
    /\ \A e \in kept \cup delivered \cup dropped : e <= Newest
    /\ drainer.event <= Newest

\* Lines are handed out one by one.
LEMMA NewestGrows ==
    ASSUME TypeInv, TypeInv', [Next]_vars
    PROVE  Newest \in Nat /\ Newest' \in Nat /\ Newest <= Newest'
<1>1. /\ emitted \in Nat /\ emitted' \in Nat /\ MaxEvents \in Nat
      /\ reader.pc # "idle" => emitted >= 1
      /\ reader'.pc # "idle" => emitted' >= 1
  BY QueueAssumption DEF TypeInv, TypeOK
<1>2. \/ emitted' = emitted /\ (InHand' => InHand)
      \/ emitted' = emitted + 1 /\ ~InHand
  <2> USE DEF InHand, Idle
  <2>0. TypeOK
    BY DEF TypeInv
  <2>1. CASE UNCHANGED vars
    BY <2>1 DEF vars, world
  <2>2. CASE Drainer
    BY <2>2 DEF Drainer, DrainStops, PeekHead, PeekSkip, PeekParks, PeekEmpty, Leave, LookBack,
         DecideExpire, DecideProtect, DecideDeliver, Deliver, DeliverFails, DeliverParks, Advance,
         AdvanceStale, AdvanceParks, CompactCursor, CompactRename, PersistCursor, Reclaim, Unlink,
         world
  <2>3. CASE Reader
    <3>1. CASE ReadLine \/ ReadLeftover
      BY <3>1 DEF ReadLine, ReadLeftover
    <3>2. CASE RouteDirect \/ RouteDropped \/ RouteQueued
      BY <3>2 DEF RouteDirect, RouteDropped, RouteQueued, world
    <3>3. CASE EnqueueProtect
      BY <3>3 DEF EnqueueProtect, world
    <3>4. CASE EnqueueReset
      BY <3>4 DEF EnqueueReset, world
    <3>5. CASE EnqueueAppend \/ EnqueueCaps \/ EnqueueWake
      <4>1. reader' = Idle \/ reader' = [Idle EXCEPT !.pc = "caps"]
            \/ reader' = [reader EXCEPT !.pc = "wake"]
        BY <3>5 DEF EnqueueAppend, EnqueueCaps, EnqueueWake, At
      <4>2. reader'.pc \in {"idle", "caps", "wake"}
        BY <2>0, <4>1 DEF TypeOK
      <4> QED
        BY <3>5, <4>2 DEF EnqueueAppend, EnqueueCaps, EnqueueWake, world
    <3>6. CASE EnqueueAppendFails \/ EnqueueTruncate \/ EnqueueRealign \/ EnqueueAbandon
      BY <3>6 DEF EnqueueAppendFails, EnqueueTruncate, EnqueueRealign, EnqueueAbandon, Refuse, world
    <3>7. CASE EnqueueAppendTorn
      BY <2>0, <3>7 DEF EnqueueAppendTorn, At, world, TypeOK
    <3> QED
      BY <2>3, <3>1, <3>2, <3>3, <3>4, <3>5, <3>6, <3>7 DEF Reader
  <2>4. CASE RetryLoad \/ RetryMarker \/ Stop \/ Reload \/ Crash
    BY <2>4 DEF RetryLoad, RetryMarker, Stop, Reload, Crash, Arm, world
  <2> QED
    BY <2>1, <2>2, <2>3, <2>4 DEF Next
<1>3. (InHand => emitted >= 1) /\ (InHand' => emitted' >= 1)
  BY <1>1 DEF InHand
<1>4. emitted \in Nat /\ emitted' \in Nat
  BY <1>1
<1>5. CASE InHand
  <2>1. Newest = emitted - 1
    BY <1>5 DEF Newest
  <2>2. CASE InHand'
    <3>1. Newest' = emitted' - 1
      BY <2>2 DEF Newest
    <3>2. emitted >= 1 /\ emitted' = emitted
      BY <1>2, <1>3, <1>5, <2>2
    <3> QED
      BY <1>4, <2>1, <3>1, <3>2
  <2>3. CASE ~InHand'
    <3>1. Newest' = emitted'
      BY <2>3 DEF Newest
    <3>2. emitted >= 1 /\ emitted' = emitted
      BY <1>2, <1>3, <1>5
    <3> QED
      BY <1>4, <2>1, <3>1, <3>2
  <2> QED
    BY <2>2, <2>3
<1>6. CASE ~InHand
  <2>1. Newest = emitted
    BY <1>6 DEF Newest
  <2>2. CASE InHand'
    <3>1. Newest' = emitted' - 1
      BY <2>2 DEF Newest
    <3>2. emitted' = emitted + 1
      BY <1>2, <1>6, <2>2
    <3> QED
      BY <1>4, <2>1, <3>1, <3>2
  <2>3. CASE ~InHand'
    <3>1. Newest' = emitted'
      BY <2>3 DEF Newest
    <3>2. emitted' = emitted \/ emitted' = emitted + 1
      BY <1>2
    <3> QED
      BY <1>4, <2>1, <3>1, <3>2
  <2> QED
    BY <2>2, <2>3
<1> QED
  BY <1>5, <1>6

\* A file that lost cells at either end, or got newlines, is in order.
LEMMA ShiftKeeps ==
    ASSUME TypeInv, TypeInv', CellsInOrder, Newest \in Nat, Newest' \in Nat, Newest <= Newest',
           NEW d \in Nat,
           \A i \in 1 .. Len(jsonl') : \/ jsonl'[i] = 0
                                       \/ i + d <= Len(jsonl) /\ jsonl'[i] = jsonl[i + d]
    PROVE  CellsInOrder'
<1>1. /\ Len(jsonl) \in Nat /\ \A i \in 1 .. Len(jsonl) : jsonl[i] \in Int
      /\ Len(jsonl') \in Nat /\ \A i \in 1 .. Len(jsonl') : jsonl'[i] \in Int
  <2>1. TypeOK /\ TypeOK'
    BY DEF TypeInv
  <2>2. jsonl \in Seq(Cells) /\ jsonl' \in Seq(Cells)
    BY <2>1 DEF TypeOK, Cells
  <2> QED
    BY <2>2, CellsFacts, SeqWider
<1>2. ASSUME NEW i \in 1 .. Len(jsonl')
      PROVE  jsonl'[i] <= Newest'
  <2>1. CASE jsonl'[i] = 0
    BY <2>1
  <2>2. CASE i + d <= Len(jsonl) /\ jsonl'[i] = jsonl[i + d]
    <3>1. i + d \in 1 .. Len(jsonl)
      BY <2>2, <1>1
    <3> QED
      BY <2>2, <3>1, <1>1 DEF CellsInOrder
  <2> QED
    BY <2>1, <2>2
<1>3. ASSUME NEW i \in 1 .. Len(jsonl'), NEW j \in 1 .. Len(jsonl'),
             i < j, jsonl'[i] > 0, jsonl'[j] > 0
      PROVE  jsonl'[i] < jsonl'[j]
  <2>1. /\ i + d \in 1 .. Len(jsonl) /\ jsonl'[i] = jsonl[i + d]
        /\ j + d \in 1 .. Len(jsonl) /\ jsonl'[j] = jsonl[j + d]
        /\ i + d < j + d
    BY <1>1, <1>3
  <2> QED
    BY <2>1, <1>3 DEF CellsInOrder
<1> QED
  BY <1>2, <1>3 DEF CellsInOrder

\* What the reader appends is newer than what is there.
LEMMA AppendKeeps ==
    ASSUME TypeInv, TypeInv', CellsInOrder, reader.pc = "append", emitted' = emitted,
           reader'.pc \in {"torn", "caps"},
           Len(jsonl') > Len(jsonl),
           \A i \in 1 .. Len(jsonl) : jsonl'[i] = jsonl[i],
           jsonl'[Len(jsonl) + 1] \in {emitted, -emitted},
           \A i \in 1 .. Len(jsonl') : i > Len(jsonl) + 1 => jsonl'[i] = 0
    PROVE  CellsInOrder'
<1>1. /\ Len(jsonl) \in Nat /\ \A i \in 1 .. Len(jsonl) : jsonl[i] \in Int
      /\ Len(jsonl') \in Nat /\ \A i \in 1 .. Len(jsonl') : jsonl'[i] \in Int
  <2>1. TypeOK /\ TypeOK'
    BY DEF TypeInv
  <2>2. jsonl \in Seq(Cells) /\ jsonl' \in Seq(Cells)
    BY <2>1 DEF TypeOK, Cells
  <2> QED
    BY <2>2, CellsFacts, SeqWider
<1>2. emitted \in Nat /\ emitted >= 1 /\ Newest = emitted - 1 /\ Newest' = emitted
  BY QueueAssumption, SMTT(30) DEF TypeInv, TypeOK, Newest, InHand
<1>3. \A i \in 1 .. Len(jsonl) : jsonl'[i] <= emitted - 1
  BY <1>1, <1>2 DEF CellsInOrder
<1>4. \A i \in 1 .. Len(jsonl') : jsonl'[i] <= emitted
  <2> SUFFICES ASSUME NEW i \in 1 .. Len(jsonl') PROVE jsonl'[i] <= emitted
    OBVIOUS
  <2>1. CASE i <= Len(jsonl)
    BY <2>1, <1>1, <1>2, <1>3
  <2>2. CASE i = Len(jsonl) + 1
    BY <2>2, <1>1, <1>2
  <2>3. CASE i > Len(jsonl) + 1
    BY <2>3, <1>1, <1>2
  <2> QED
    BY <2>1, <2>2, <2>3, <1>1
<1>5. ASSUME NEW i \in 1 .. Len(jsonl'), NEW j \in 1 .. Len(jsonl'),
             i < j, jsonl'[i] > 0, jsonl'[j] > 0
      PROVE  jsonl'[i] < jsonl'[j]
  <2>1. i <= Len(jsonl) + 1 /\ j <= Len(jsonl) + 1
    BY <1>1, <1>5
  <2>2. i \in 1 .. Len(jsonl) /\ jsonl'[i] = jsonl[i]
    BY <2>1, <1>1, <1>5
  <2>3. CASE j <= Len(jsonl)
    <3>1. j \in 1 .. Len(jsonl) /\ jsonl'[j] = jsonl[j]
      BY <2>3, <1>1
    <3> QED
      BY <2>2, <3>1, <1>5 DEF CellsInOrder
  <2>4. CASE j = Len(jsonl) + 1
    BY <2>4, <2>2, <1>1, <1>2, <1>3, <1>5
  <2> QED
    BY <2>1, <2>3, <2>4, <1>1
<1> QED
  BY <1>2, <1>4, <1>5 DEF CellsInOrder

\* The queue starts in order.
LEMMA OrderInit == Init => OrderInv
<1> SUFFICES ASSUME Init PROVE OrderInv
  OBVIOUS
<1>1. Newest = 0
  BY DEF Init, Newest, InHand, Idle
<1>2. /\ Len(jsonl) = 0 /\ kept = {} /\ delivered = {} /\ dropped = {} /\ drainer.event = 0
  BY DEF Init, Off, NoEvent
<1> QED
  BY <1>1, <1>2 DEF OrderInv, CellsInOrder

\* No step puts an older line behind a newer one.
LEMMA OrderNext ==
    ASSUME TypeInv, TypeInv', OrderInv, [Next]_vars
    PROVE  OrderInv'
<1>n. Newest \in Nat /\ Newest' \in Nat /\ Newest <= Newest'
  BY NewestGrows
<1>t. /\ TypeOK /\ TypeOK' /\ jsonl \in File /\ Len(jsonl) \in Nat /\ q.offset \in Nat
      /\ q.size \in Nat /\ jsonl' \in File /\ Len(jsonl') \in Nat
      /\ \A i \in 1 .. Len(jsonl) : jsonl[i] \in Int
      /\ kept \subseteq Nat /\ delivered \subseteq Nat /\ dropped \subseteq Nat
      /\ drainer.event \in Nat
  <2>1. TypeOK /\ TypeOK'
    BY DEF TypeInv
  <2>2. jsonl' \in Seq(Cells)
    BY <2>1 DEF TypeOK, Cells
  <2>3. jsonl' \in File /\ Len(jsonl') \in Nat
    BY <2>2, CellsFacts, SeqWider DEF File
  <2>4. Events \subseteq Nat
    BY DEF Events
  <2>5. kept \subseteq Nat /\ delivered \subseteq Nat /\ dropped \subseteq Nat
    BY <2>1, <2>4 DEF TypeOK
  <2>6. drainer.event \in Events \cup {NoEvent}
    BY <2>1 DEF TypeOK
  <2>7. NoEvent \in Nat
    BY DEF NoEvent
  <2>8. drainer.event \in Nat
    BY <2>4, <2>6, <2>7
  <2> QED
    BY <2>1, <2>3, <2>5, <2>8, FileOf
<1>c. CellsInOrder /\ (\A e \in kept \cup delivered \cup dropped : e <= Newest) /\ drainer.event <= Newest
  BY DEF OrderInv
<1>u. ASSUME UNCHANGED jsonl PROVE CellsInOrder'
  <2>1. 0 \in Nat /\ \A i \in 1 .. Len(jsonl') : i + 0 <= Len(jsonl) /\ jsonl'[i] = jsonl[i + 0]
    BY <1>t, <1>u
  <2> QED
    BY <2>1, <1>c, <1>n, ShiftKeeps
\* What a step has to leave alone for the rest.
<1>h. ASSUME kept' \cup delivered' \cup dropped'
                \subseteq kept \cup delivered \cup dropped \cup {drainer.event},
             drainer'.event \in {drainer.event, 0}, CellsInOrder'
      PROVE  OrderInv'
  <2>1. ASSUME NEW e \in kept' \cup delivered' \cup dropped'
        PROVE  e <= Newest'
    <3>1. e \in Nat /\ e <= Newest
      BY <2>1, <1>h, <1>c, <1>t
    <3> QED
      BY <3>1, <1>n
  <2>2. drainer'.event <= Newest'
    BY <1>h, <1>c, <1>n, <1>t
  <2> QED
    BY <1>h, <2>1, <2>2 DEF OrderInv
<1>1. CASE UNCHANGED vars
  BY <1>1, <1>h, <1>u DEF vars, disk, history, settled
<1>2. CASE Quiet
  <2>1. UNCHANGED <<jsonl, kept, delivered, dropped>> /\ drainer'.event \in {drainer.event, 0}
    BY <1>2, QuietShape DEF NoEvent
  <2> QED
    BY <2>1, <1>h, <1>u
<1>3. CASE RouteDirect
  <2>1. /\ delivered' = delivered \cup {emitted} /\ reader' = Idle
        /\ UNCHANGED <<jsonl, drainer, kept, dropped, emitted>>
    BY <1>3 DEF RouteDirect, disk, world
  <2>2. Newest' = emitted /\ emitted \in Nat
    BY <2>1, <1>t DEF Newest, InHand, Idle, TypeOK
  <2>3. \A e \in kept' \cup delivered' \cup dropped' : e <= Newest'
    BY <2>1, <2>2, <1>c, <1>n, <1>t
  <2> QED
    BY <2>1, <2>3, <1>u, <1>c, <1>n, <1>t DEF OrderInv
<1>4. CASE EnqueueAppend
  <2>1. /\ jsonl' = jsonl \o <<Body(emitted), Newline>> /\ kept' = kept \cup {emitted}
        /\ reader'.pc = "caps" /\ reader.pc = "append"
        /\ UNCHANGED <<drainer, delivered, dropped, emitted>>
    BY <1>4 DEF EnqueueAppend, world, Idle
  <2>2. Newest' = emitted /\ emitted \in Nat
    BY <2>1, <1>t DEF Newest, InHand, TypeOK
  <2>3. CellsInOrder'
    <3>1. /\ Len(jsonl') = Len(jsonl) + 2
          /\ \A i \in 1 .. Len(jsonl) : jsonl'[i] = jsonl[i]
          /\ jsonl'[Len(jsonl) + 1] = emitted /\ jsonl'[Len(jsonl) + 2] = 0
      BY <2>1, <2>2, <1>t DEF File, Body, Newline
    <3>2. \A i \in 1 .. Len(jsonl') : i > Len(jsonl) + 1 => jsonl'[i] = 0
      BY <3>1, <1>t
    <3> QED
      BY <2>1, <3>1, <3>2, <1>c, <1>t, AppendKeeps
  <2>4. \A e \in kept' \cup delivered' \cup dropped' : e <= Newest'
    BY <2>1, <2>2, <1>c, <1>n, <1>t
  <2> QED
    BY <2>1, <2>3, <2>4, <1>c, <1>n, <1>t DEF OrderInv
<1>5. CASE EnqueueAppendTorn
  <2>1. PICK part \in {Body(emitted), Fragment(emitted)} : jsonl' = Append(jsonl, part)
    BY <1>5 DEF EnqueueAppendTorn
  <2>2. /\ reader'.pc = "torn" /\ reader.pc = "append"
        /\ UNCHANGED <<drainer, kept, delivered, dropped, emitted>>
    BY <1>5, <1>t DEF EnqueueAppendTorn, At, world, history, settled, TypeOK
  <2>3. part \in {emitted, -emitted} /\ part \in Int
    BY <2>1, <1>t DEF Body, Fragment, TypeOK
  <2>4. CellsInOrder'
    <3>1. /\ Len(jsonl') = Len(jsonl) + 1
          /\ \A i \in 1 .. Len(jsonl) : jsonl'[i] = jsonl[i]
          /\ jsonl'[Len(jsonl) + 1] = part
      BY <2>1, <2>3, <1>t, GrowFacts
    <3>2. \A i \in 1 .. Len(jsonl') : i > Len(jsonl) + 1 => jsonl'[i] = 0
      BY <3>1, <1>t
    <3> QED
      BY <2>2, <2>3, <3>1, <3>2, <1>c, <1>t, AppendKeeps
  <2> QED
    BY <2>2, <2>4, <1>h
<1>6. CASE \/ EnqueueProtect \/ EnqueueReset \/ EnqueueAppendFails \/ EnqueueAbandon
           \/ PeekSkip \/ DecideExpire
           \/ CompactCursor \/ PersistCursor \/ Unlink
  <2>1. UNCHANGED <<jsonl, kept, delivered, dropped>>
    BY <1>6 DEF EnqueueProtect, EnqueueReset, EnqueueAppendFails, EnqueueAbandon,
         PeekSkip, DecideExpire, CompactCursor, PersistCursor, Unlink, disk, settled,
         history
  <2>2. drainer'.event \in {drainer.event, 0}
    BY <1>6, <1>t DEF EnqueueProtect, EnqueueReset, EnqueueAppendFails, EnqueueAbandon,
         PeekSkip, DecideExpire, CompactCursor, PersistCursor, Unlink, Go, Park, Off, Peek,
         TypeOK, NoEvent
  <2> QED
    BY <2>1, <2>2, <1>h, <1>u
<1>7. CASE EnqueueTruncate
  <2>1. /\ jsonl' = SubSeq(jsonl, 1, q.size) /\ q.size <= Len(jsonl)
        /\ UNCHANGED <<drainer, kept, delivered, dropped>>
    BY <1>7, <1>t DEF EnqueueTruncate, history, settled, TypeInv, SizeFits, Locks, ReaderHolds, DrainerHolds
  <2>2. 0 \in Nat /\ \A i \in 1 .. Len(jsonl') : i + 0 <= Len(jsonl) /\ jsonl'[i] = jsonl[i + 0]
    BY <2>1, <1>t DEF File
  <2> QED
    BY <2>1, <2>2, <1>c, <1>n, <1>h, ShiftKeeps
<1>8. CASE EnqueueRealign
  <2>1. /\ jsonl' = Append(jsonl, Newline) /\ UNCHANGED <<drainer, kept, delivered, dropped>>
    BY <1>8 DEF EnqueueRealign, history, settled
  <2>2. /\ Len(jsonl') = Len(jsonl) + 1 /\ jsonl'[Len(jsonl) + 1] = 0
        /\ \A i \in 1 .. Len(jsonl) : jsonl'[i] = jsonl[i]
    BY <2>1, <1>t, GrowFacts DEF Newline
  <2>3. 0 \in Nat /\ \A i \in 1 .. Len(jsonl') :
            jsonl'[i] = 0 \/ (i + 0 <= Len(jsonl) /\ jsonl'[i] = jsonl[i + 0])
    BY <2>2, <1>t
  <2> QED
    BY <2>1, <2>3, <1>c, <1>n, <1>h, ShiftKeeps
<1>9. CASE CompactRename
  <2>1. UNCHANGED <<kept, delivered, dropped>> /\ drainer'.event = drainer.event
    BY <1>9, <1>t DEF CompactRename, Go, history, settled, TypeOK
  <2>2. CASE UNCHANGED jsonl
    BY <2>1, <2>2, <1>h, <1>u
  <2>3. CASE jsonl' = SubSeq(jsonl, q.offset + 1, Len(jsonl))
    <3>1. \A i \in 1 .. Len(jsonl') : i + q.offset <= Len(jsonl) /\ jsonl'[i] = jsonl[i + q.offset]
      <4>1. CASE q.offset <= Len(jsonl)
        <5>1. /\ Len(jsonl') = Len(jsonl) - q.offset
              /\ \A i \in 1 .. Len(jsonl') : jsonl'[i] = jsonl[i + q.offset]
          BY <2>3, <4>1, <1>t, TailFacts, ZenonT(60)
        <5> QED
          BY <5>1, <1>t
      <4>2. CASE q.offset > Len(jsonl)
        BY <2>3, <4>2, <1>t DEF File
      <4> QED
        BY <4>1, <4>2, <1>t
    <3> QED
      BY <2>1, <3>1, <1>t, <1>c, <1>n, <1>h, ShiftKeeps
  <2> QED
    BY <1>9, <2>2, <2>3 DEF CompactRename
<1>10. CASE Reclaim
  <2>1. /\ UNCHANGED <<kept, delivered, dropped>> /\ drainer'.event \in {drainer.event, 0}
        /\ jsonl' = jsonl \/ jsonl' = <<>>
    BY <1>10, <1>t DEF Reclaim, Go, Park, Off, NoEvent, history, settled, TypeOK
  <2>2. CASE jsonl' = <<>>
    <3>1. 0 \in Nat /\ \A i \in 1 .. Len(jsonl') : jsonl'[i] = 0
      BY <2>2
    <3> QED
      BY <2>1, <3>1, <1>c, <1>n, <1>h, ShiftKeeps
  <2> QED
    BY <2>1, <2>2, <1>h, <1>u
<1>11. CASE PeekHead
  <2>1. /\ UNCHANGED <<jsonl, kept, delivered, dropped>> /\ EventAt(jsonl, q.offset) # NoEvent
        /\ drainer'.event = EventAt(jsonl, q.offset)
    BY <1>11 DEF PeekHead, disk, history, settled
  <2>2. EventAt(jsonl, q.offset) <= Newest
    <3>1. /\ EventAt(jsonl, q.offset) = jsonl[q.offset + 1]
          /\ q.offset + 1 \in 1 .. Len(jsonl)
      BY <2>1, <1>t, EventAtFacts
    <3> QED
      BY <3>1, <1>c DEF CellsInOrder
  <2>3. drainer'.event \in Nat
    BY <2>1, <1>t, EventAtFacts
  <2>4. drainer'.event <= Newest'
    BY <2>1, <2>2, <2>3, <1>n
  <2> QED
    BY <2>1, <2>4, <1>u, <1>c, <1>n, <1>t DEF OrderInv
<1>12. CASE Deliver
  <2>1. /\ UNCHANGED <<jsonl, kept, dropped>> /\ delivered' = delivered \cup {drainer.event}
        /\ drainer'.event = drainer.event
    BY <1>12, <1>t DEF Deliver, Go, disk, TypeOK
  <2> QED
    BY <2>1, <1>h, <1>u
<1>13. ASSUME Load, UNCHANGED <<kept, delivered, dropped>>, drainer'.event \in {drainer.event, 0}
       PROVE  OrderInv'
  <2>1. CASE \E off \in Nat : off <= Len(jsonl) /\ LoadFrom(off)
    <3>1. \A i \in 1 .. Len(jsonl') : \/ jsonl'[i] = 0
                                      \/ i <= Len(jsonl) /\ jsonl'[i] = jsonl[i]
      BY <2>1, <1>t, LoadFromShape
    <3>2. 0 \in Nat /\ \A i \in 1 .. Len(jsonl') :
              jsonl'[i] = 0 \/ (i + 0 <= Len(jsonl) /\ jsonl'[i] = jsonl[i + 0])
      BY <3>1, <1>t
    <3> QED
      BY <1>13, <3>2, <1>c, <1>n, <1>h, ShiftKeeps
  <2>2. CASE UNCHANGED jsonl
    BY <1>13, <2>2, <1>h, <1>u
  <2> QED
    BY <1>13, <1>t, <2>1, <2>2, LoadShape
<1>16. CASE EnqueueCaps
  <2>1. /\ UNCHANGED <<jsonl, kept, delivered, drainer>>
        /\ dropped' = dropped \/ DropOldestOverCaps
    BY <1>16 DEF EnqueueCaps
  <2>2. dropped' \subseteq dropped \cup Waiting(jsonl, q.offset)
    BY <2>1, <1>t, DropShape
  <2>3. ASSUME NEW e \in Waiting(jsonl, q.offset) PROVE e \in Nat /\ e <= Newest
    <3>1. PICK k \in Nat : k + 1 \in 1 .. Len(jsonl) /\ e = jsonl[k + 1] /\ jsonl[k + 1] \in Nat \ {0}
      BY <2>3, <1>t, WaitingCell
    <3> QED
      BY <3>1, <1>c DEF CellsInOrder
  <2>4. ASSUME NEW e \in kept' \cup delivered' \cup dropped' PROVE e <= Newest'
    <3>1. e \in Nat /\ e <= Newest
      BY <2>1, <2>2, <2>3, <2>4, <1>c, <1>t
    <3> QED
      BY <3>1, <1>n
  <2> QED
    BY <2>1, <2>4, <1>u, <1>c, <1>n, <1>t DEF OrderInv
<1>17. CASE Advance
  <2>1. /\ UNCHANGED <<jsonl, kept, delivered>> /\ drainer'.event = drainer.event
        /\ dropped' \subseteq dropped \cup {drainer.event}
    BY <1>17, <1>t DEF Advance, Go, disk, TypeOK
  <2> QED
    BY <2>1, <1>h, <1>u
<1>14. CASE RetryLoad
  BY <1>13, <1>14 DEF RetryLoad, settled
<1>15. CASE Reload \/ Crash
  <2>1. Arm
    BY <1>15 DEF Reload, Crash
  <2> QED
    BY <2>1, <1>13 DEF Arm, settled, Off, Peek, NoEvent
<1> QED
  BY <1>1, <1>2, <1>3, <1>4, <1>5, <1>6, <1>7, <1>8, <1>9, <1>10, <1>11, <1>12, <1>14, <1>15, <1>16, <1>17
     DEF Next, Reader, Drainer, Quiet

-----------------------------------------------------------------------------
\* What the queue knows of its marker is what is on disk; an append that marked
\* it can still take that back.
MarkerInv ==
    /\ ~q.unknown => marker = q.parked
    /\ reader.undo = "nothing" \/ reader.pc \in {"reset", "append", "torn"}

\* The marker starts absent and known.
LEMMA MarkerInit == Init => MarkerInv
<1> SUFFICES ASSUME Init PROVE MarkerInv
  OBVIOUS
<1>1. marker = FALSE /\ q.parked = FALSE
  BY DEF Init, Empty
<1>2. reader.undo = "nothing"
  BY DEF Init, Idle
<1> QED
  BY <1>1, <1>2 DEF MarkerInv

\* The marker on disk and the flag in memory change together.
LEMMA MarkerNext ==
    ASSUME TypeInv, MarkerInv, [Next]_vars
    PROVE  MarkerInv'
<1>t. /\ TypeOK /\ q \in Queue /\ marker \in BOOLEAN
      /\ q.parked \in BOOLEAN /\ q.unknown \in BOOLEAN
      /\ reader \in [pc : {"idle", "route", "enqueue", "wake"} \cup ReaderHolds,
                     park : BOOLEAN, undo : {"nothing", "marker", "error"}]
  BY FileOf DEF TypeInv, TypeOK
<1>m. ~q.unknown => marker = q.parked
  BY DEF MarkerInv
<1>l. q.unknown => reader.pc = "idle"
  BY DEF TypeInv, Locks
\* The reader's undo.
<1>u. reader'.undo = "nothing" \/ reader'.pc \in {"reset", "append", "torn"}
  <2>1. reader.undo = "nothing" \/ reader.pc \in {"reset", "append", "torn"}
    BY DEF MarkerInv
  <2>2. CASE UNCHANGED reader
    BY <2>1, <2>2
  <2>3. CASE reader' = Idle
    BY <2>3 DEF Idle
  <2>4. CASE Reader
    <3>1. CASE ReadLine
      BY <3>1, <2>1, <1>t DEF ReadLine, At
    <3>2. CASE ReadLeftover
      BY <3>2, <2>3 DEF ReadLeftover, Idle
    <3>3. CASE RouteDirect \/ RouteDropped \/ EnqueueWake
      BY <3>3, <2>3 DEF RouteDirect, RouteDropped, EnqueueWake
    <3>4. CASE RouteQueued
      BY <3>4 DEF RouteQueued, Idle
    <3>5. CASE EnqueueProtect
      BY <3>5, <2>3, <1>t DEF EnqueueProtect, At
    <3>6. CASE EnqueueReset
      BY <3>6, <2>3, <1>t DEF EnqueueReset, At, Refuse
    <3>7. CASE EnqueueAppend
      BY <3>7 DEF EnqueueAppend, Idle
    <3>8. CASE EnqueueAppendFails \/ EnqueueTruncate \/ EnqueueRealign \/ EnqueueAbandon
      BY <3>8, <2>3 DEF EnqueueAppendFails, EnqueueTruncate, EnqueueRealign, EnqueueAbandon, Refuse
    <3>9. CASE EnqueueAppendTorn
      BY <3>9, <1>t DEF EnqueueAppendTorn, At
    <3>10. CASE EnqueueCaps
      BY <3>10, <2>1, <1>t DEF EnqueueCaps, At
    <3> QED
      BY <2>4, <3>1, <3>2, <3>3, <3>4, <3>5, <3>6, <3>7, <3>8, <3>9, <3>10 DEF Reader
  <2>5. CASE Drainer
    BY <2>5, <2>2 DEF Drainer, DrainStops, PeekHead, PeekSkip, PeekParks, PeekEmpty, Leave, LookBack,
         DecideExpire, DecideProtect, DecideDeliver, Deliver, DeliverFails, DeliverParks, Advance,
         AdvanceStale, AdvanceParks, CompactCursor, CompactRename, PersistCursor, Reclaim, Unlink
  <2>6. CASE RetryLoad \/ RetryMarker \/ Stop \/ Reload \/ Crash
    BY <2>6, <2>2, <2>3 DEF RetryLoad, RetryMarker, Stop, Reload, Crash, Arm
  <2> QED
    BY <2>2, <2>4, <2>5, <2>6 DEF Next, vars
\* The marker.
<1>h. ASSUME ~q'.unknown => marker' = q'.parked PROVE MarkerInv'
  BY <1>h, <1>u DEF MarkerInv
<1>s. ASSUME UNCHANGED <<marker, q>> PROVE MarkerInv'
  BY <1>h, <1>s, <1>m
<1>r. ASSUME NEW m \in Queue, Refuse(m), m.parked = q.parked, m.unknown = q.unknown
      PROVE  MarkerInv'
  <2>1. /\ q'.unknown = m.unknown /\ q'.parked \in BOOLEAN /\ marker' \in BOOLEAN
        /\ \/ ~marker' /\ ~q'.parked
           \/ marker' = marker /\ q'.parked = m.parked
    BY <1>r, <1>t, RefuseShape DEF Queue
  <2> QED
    BY <2>1, <1>r, <1>m, <1>h
<1>w. ASSUME UNCHANGED marker, NEW n \in 0 .. q.pending, q' = Without(q, n)
      PROVE  MarkerInv'
  BY <1>w, <1>t, <1>m, <1>h, WithoutType
<1>k. ASSUME MarkLimitParked PROVE MarkerInv'
  BY <1>k, <1>t, <1>m, <1>h, MarkShape
<1>1. CASE UNCHANGED vars
  BY <1>1, <1>s DEF vars, disk
<1>2. CASE Quiet
  BY <1>2, <1>t, <1>m, <1>h, QuietShape DEF SameQueue
<1>3. CASE \/ RouteDirect \/ EnqueueAppendTorn \/ PeekHead \/ DecideExpire \/ Deliver
           \/ CompactCursor \/ PersistCursor \/ Reclaim
  BY <1>3, <1>s DEF RouteDirect, EnqueueAppendTorn, PeekHead, DecideExpire, Deliver,
       CompactCursor, PersistCursor, Reclaim, disk
<1>4. CASE EnqueueProtect
  <2>1. ~q.unknown
    BY <1>4, <1>l DEF EnqueueProtect
  <2>2. CASE marker' = (marker /\ ~q.parked) /\ q' = Unmarked(q)
    <3>1. marker' = FALSE /\ q'.parked = FALSE
      BY <2>1, <2>2, <1>t, <1>m DEF Unmarked, Queue
    <3> QED
      BY <3>1, <1>h
  <2> QED
    BY <1>4, <2>2, <1>s, <1>k DEF EnqueueProtect
<1>5. CASE EnqueueReset
  BY <1>5, <1>s, <1>r, <1>t DEF EnqueueReset
<1>6. CASE EnqueueAppend
  <2>1. q'.parked = q.parked /\ q'.unknown = q.unknown /\ marker' = marker
    BY <1>6, <1>t, AppendShape DEF EnqueueAppend
  <2> QED
    BY <2>1, <1>m, <1>h
<1>7. CASE EnqueueAppendFails \/ EnqueueTruncate \/ EnqueueAbandon
  BY <1>7, <1>r, <1>t DEF EnqueueAppendFails, EnqueueTruncate, EnqueueAbandon
<1>8. CASE EnqueueRealign
  <2>1. /\ q'.unknown = q.unknown /\ q'.parked \in BOOLEAN /\ marker' \in BOOLEAN
        /\ \/ ~marker' /\ ~q'.parked
           \/ marker' = marker /\ q'.parked = q.parked
    BY <1>8, <1>t, RealignShape DEF Queue
  <2> QED
    BY <2>1, <1>m, <1>h
<1>9. CASE EnqueueCaps
  <2>1. CASE UNCHANGED <<marker, q>>
    BY <2>1, <1>s
  <2>2. CASE UNCHANGED marker /\ DropOldestOverCaps
    <3>1. PICK n \in 0 .. q.pending : q' = Without(q, n)
      BY <2>2, <1>t, DropShape
    <3> QED
      BY <2>2, <3>1, <1>w
  <2> QED
    BY <1>9, <2>1, <2>2 DEF EnqueueCaps
<1>10. CASE PeekSkip \/ Advance
  <2>1. q' = Without(q, 1) /\ q.pending > 0 /\ UNCHANGED marker
    BY <1>10 DEF PeekSkip, Advance, Current, disk
  <2>2. 1 \in 0 .. q.pending
    BY <2>1, <1>t, FileOf
  <2> QED
    BY <2>1, <2>2, <1>w
<1>11. CASE CompactRename
  <2>1. CASE q' = q
    BY <1>11, <2>1, <1>s DEF CompactRename
  <2>2. CASE q' = [q EXCEPT !.offset = 0, !.size = Len(jsonl')]
    <3>0. PICK l : q' = [q EXCEPT !.offset = 0, !.size = l]
      BY <2>2
    <3>1. q \in Queue
      BY <1>t
    <3>2. q'.parked = q.parked /\ q'.unknown = q.unknown
      BY <3>0, <3>1 DEF Queue
    <3> QED
      BY <1>11, <3>2, <1>m, <1>h DEF CompactRename
  <2> QED
    BY <1>11, <2>1, <2>2 DEF CompactRename
<1>12. CASE Unlink
  <2>1. /\ q' \in Queue /\ q'.unknown = q.unknown
        /\ \/ ~marker' /\ ~q'.parked
           \/ marker' = marker /\ q'.parked = q.parked
    BY <1>12, <1>t, UnlinkShape
  <2>2. marker' \in BOOLEAN
    BY <1>12, <1>t DEF Unlink
  <2>3. q'.parked \in BOOLEAN
    BY <2>1 DEF Queue
  <2> QED
    BY <2>1, <2>2, <2>3, <1>m, <1>h
<1>13. ASSUME Load PROVE MarkerInv'
  <2>1. CASE \E off \in Nat : off <= Len(jsonl) /\ LoadFrom(off)
    BY <2>1, <1>t, <1>h, LoadFromShape
  <2>2. CASE q'.unknown
    BY <2>2, <1>h
  <2> QED
    BY <1>13, <1>t, <2>1, <2>2, LoadShape
<1>14. CASE RetryLoad \/ Reload \/ Crash
  BY <1>13, <1>14 DEF RetryLoad, Reload, Crash, Arm
<1> QED
  BY <1>1, <1>2, <1>3, <1>4, <1>5, <1>6, <1>7, <1>8, <1>9, <1>10, <1>11, <1>12, <1>14
     DEF Next, Reader, Drainer, Quiet
-----------------------------------------------------------------------------
\* The count and the offsets in memory are those of the file; a torn record is
\* the one cell behind them.
InStep ==
    /\ q.pending = Lines(jsonl, q.offset)
    /\ Boundary(jsonl, q.offset) /\ q.offset <= q.size
    /\ IF reader.pc = "torn"
       THEN /\ Len(jsonl) = q.size + 1 /\ jsonl[Len(jsonl)] # Newline
            /\ Boundary(jsonl, q.size)
       ELSE Len(jsonl) = q.size /\ Boundary(jsonl, Len(jsonl))

\* While the drained file is removed memory is ahead of the disk.
Counted ==
    ~unclosed /\ ~q.unknown =>
        /\ drainer.pc \in {"reclaim", "unlink"} => q.pending = 0
        /\ drainer.pc # "unlink" => InStep

\* A cursor on disk is at the end of a line, unless the file is gone.  Before a
\* record is written to a file that is gone the cursor is taken back.
CursorGood ==
    ~unclosed =>
        /\ \/ cursor = NoCursor
           \/ Boundary(jsonl, cursor)
           \/ jsonl = <<>> /\ reader.pc # "append"
        /\ drainer.pc = "rename" => cursor = 0

FileInv == Counted /\ CursorGood

\* A torn record that was left in the file is not forgotten.
LEMMA UnclosedStays ==
    ASSUME TypeInv, [Next]_vars
    PROVE  /\ unclosed => unclosed'
           /\ unclosed \in BOOLEAN /\ unclosed' \in BOOLEAN
<1>t. TypeOK /\ unclosed \in BOOLEAN
  BY DEF TypeInv, TypeOK
<1>1. CASE UNCHANGED unclosed
  BY <1>1, <1>t
<1>2. CASE UNCHANGED vars
  BY <1>1, <1>2 DEF vars, history
<1>3. CASE Load
  BY <1>1, <1>3, <1>t, LoadShape, LoadFromShape
<1>4. CASE EnqueueAbandon
  BY <1>4, <1>t DEF EnqueueAbandon
<1>5. CASE Quiet
  BY <1>1, <1>5, QuietShape
<1>6. CASE \/ RouteDirect \/ EnqueueProtect \/ EnqueueReset \/ EnqueueAppend \/ EnqueueAppendFails
           \/ EnqueueAppendTorn \/ EnqueueTruncate \/ EnqueueRealign \/ EnqueueCaps
           \/ PeekHead \/ PeekSkip \/ DecideExpire \/ Deliver \/ Advance
           \/ CompactCursor \/ CompactRename \/ PersistCursor \/ Reclaim \/ Unlink
  BY <1>1, <1>6 DEF RouteDirect, EnqueueProtect, EnqueueReset, EnqueueAppend, EnqueueAppendFails,
     EnqueueAppendTorn, EnqueueTruncate, EnqueueRealign, EnqueueCaps, PeekHead, PeekSkip,
     DecideExpire, Deliver, Advance, CompactCursor, CompactRename, PersistCursor, Reclaim,
     Unlink, history
<1>7. CASE RetryLoad \/ Reload \/ Crash
  BY <1>3, <1>7 DEF RetryLoad, Reload, Crash, Arm
<1> QED
  BY <1>2, <1>4, <1>5, <1>6, <1>7 DEF Next, Reader, Drainer, Quiet

\* An empty file has no line and a boundary.
LEMMA NoFile ==
    /\ <<>> \in File /\ Lines(<<>>, 0) = 0
    /\ \A f \in File : Boundary(f, 0) /\ (Len(f) = 0 => f = <<>>)
<1>1. <<>> \in File /\ Len(<<>>) = 0
  BY DEF File
<1>2. Ends(<<>>, 0, 0) = {}
  BY DEF Ends
<1>3. Lines(<<>>, 0) = 0
  BY <1>1, <1>2, FS_EmptySet DEF Lines
<1> QED
  BY <1>1, <1>3 DEF File, Boundary

\* A load of an empty file finds nothing to cut off.
LEMMA LoadEmpty ==
    ASSUME TypeOK, jsonl = <<>>, LoadFrom(0)
    PROVE  jsonl' = <<>>
<1>1. Ends(jsonl, 0, 0) = {} /\ Len(jsonl) = 0 /\ jsonl \in File
  BY NoFile DEF Ends
<1>2. Scanned(jsonl, 0) \in 0 .. 0
  BY <1>1, ScannedFacts
<1>3. ~(Scanned(jsonl, 0) < Len(jsonl))
  BY <1>1, <1>2
<1> QED
  BY <1>3 DEF LoadFrom

\* The count starts right.
LEMMA FileInit == Init => FileInv
<1> SUFFICES ASSUME Init PROVE FileInv
  OBVIOUS
<1>1. /\ jsonl = <<>> /\ cursor = NoCursor /\ reader.pc = "idle" /\ drainer.pc = "off"
      /\ q.offset = 0 /\ q.size = 0 /\ q.pending = 0
  BY DEF Init, Idle, Off, Empty
<1>2. Len(jsonl) = 0 /\ Boundary(jsonl, 0) /\ Lines(jsonl, 0) = 0
  BY <1>1, NoFile
<1> QED
  BY <1>1, <1>2 DEF FileInv, Counted, InStep, CursorGood
\* Every step keeps the count, the offsets and the cursor right, until a torn
\* record is left in the file.
LEMMA FileNext ==
    ASSUME TypeInv, TypeInv', FileInv, [Next]_vars
    PROVE  FileInv'
<1> SUFFICES ASSUME ~unclosed' PROVE FileInv'
  BY DEF FileInv, Counted, CursorGood
<1>z. ~unclosed
  BY UnclosedStays
<1>t. /\ TypeOK /\ jsonl \in File /\ Len(jsonl) \in Nat /\ q \in Queue
      /\ q.offset \in Nat /\ q.size \in Nat /\ q.pending \in Nat
      /\ cursor \in Nat \cup {NoCursor}
      /\ \A k \in Nat : Lines(jsonl, k) \in Nat
  BY FileOf, FileFacts DEF TypeInv
<1>n. Len(jsonl) \in Nat /\ q.offset \in Nat /\ q.size \in Nat /\ q.pending \in Nat
  BY <1>t
<1>r. /\ reader \in [pc : {"idle", "route", "enqueue", "wake"} \cup ReaderHolds,
                     park : BOOLEAN, undo : {"nothing", "marker", "error"}]
      /\ drainer \in [pc : {"off", "peek", "leave", "decide", "deliver", "advance",
                            "expire"} \cup DrainerHolds,
                      event : Events \cup {NoEvent}, at : Nat]
  BY <1>t DEF TypeOK
<1>l. /\ reader.pc \in ReaderHolds => drainer.pc \notin DrainerHolds
      /\ q.unknown => reader.pc = "idle" /\ drainer.pc \in {"off", "peek"}
  BY DEF TypeInv, Locks
<1>c. /\ ~q.unknown /\ drainer.pc \in {"reclaim", "unlink"} => q.pending = 0
      /\ ~q.unknown /\ drainer.pc # "unlink" => InStep
  BY <1>z DEF FileInv, Counted
<1>g. /\ \/ cursor = NoCursor
         \/ Boundary(jsonl, cursor)
         \/ jsonl = <<>> /\ reader.pc # "append"
      /\ drainer.pc = "rename" => cursor = 0
  BY <1>z DEF FileInv, CursorGood
\* What a step has to establish.
<1>h. ASSUME q'.unknown \/ InStep', drainer'.pc # "unlink",
             drainer'.pc = "reclaim" => q'.unknown \/ q'.pending = 0,
             \/ cursor' = NoCursor
             \/ Boundary(jsonl', cursor')
             \/ jsonl' = <<>> /\ reader'.pc # "append",
             drainer'.pc = "rename" => cursor' = 0
      PROVE  FileInv'
  BY <1>h DEF FileInv, Counted, CursorGood
\* A step that leaves the files and the queue's counters alone.
<1>i. ASSUME UNCHANGED jsonl, SameQueue, ~q.unknown, drainer.pc # "unlink",
             reader'.pc = "torn" <=> reader.pc = "torn"
      PROVE  ~q'.unknown /\ InStep'
  BY <1>i, <1>c DEF InStep, SameQueue
<1>j. ASSUME UNCHANGED <<jsonl, cursor>>, SameQueue,
             drainer.pc # "unlink", drainer'.pc \notin {"unlink", "reclaim", "rename"},
             reader'.pc = "torn" <=> reader.pc = "torn",
             reader'.pc = "append" => reader.pc = "append"
      PROVE  FileInv'
  <2>1. q'.unknown \/ InStep'
    BY <1>i, <1>j DEF SameQueue
  <2> QED
    BY <1>h, <1>j, <1>g, <2>1
<1>1. CASE UNCHANGED vars
  <2>1. UNCHANGED <<jsonl, cursor, q, reader, drainer, unclosed>>
    BY <1>1 DEF vars, disk, history
  <2> QED
    BY <2>1, <1>c, <1>g DEF FileInv, Counted, CursorGood, InStep
<1>2. CASE Quiet
  <2>1. /\ UNCHANGED <<jsonl, cursor, unclosed>> /\ SameQueue
        /\ reader.pc \in ReaderHolds => reader' = reader
        /\ reader'.pc \in ReaderHolds => reader' = reader
        /\ drainer.pc \in {"rename", "reclaim", "unlink"} => drainer' = drainer
        /\ drainer'.pc \in {"advance", "expire"} \cup DrainerHolds => drainer' = drainer
    BY <1>2, QuietShape
  <2>2. /\ reader'.pc = "torn" <=> reader.pc = "torn"
        /\ reader'.pc = "append" <=> reader.pc = "append"
        /\ drainer'.pc = "unlink" <=> drainer.pc = "unlink"
        /\ drainer'.pc = "reclaim" <=> drainer.pc = "reclaim"
        /\ drainer'.pc = "rename" <=> drainer.pc = "rename"
    BY <2>1 DEF ReaderHolds, DrainerHolds
  <2> QED
    BY <2>1, <2>2, <1>c, <1>g DEF FileInv, Counted, CursorGood, InStep, SameQueue
<1>3. CASE RouteDirect \/ PeekHead \/ DecideExpire \/ Deliver
  <2>1. UNCHANGED <<jsonl, cursor, q>>
    BY <1>3 DEF RouteDirect, PeekHead, DecideExpire, Deliver, disk
  <2>2. /\ drainer.pc # "unlink" /\ drainer'.pc \notin {"unlink", "reclaim", "rename"}
        /\ reader.pc = "torn" <=> reader'.pc = "torn"
        /\ reader'.pc = "append" => reader.pc = "append"
    BY <1>3, <1>r DEF RouteDirect, PeekHead, DecideExpire, Deliver, Peeking, Go, QueueFree,
       ReaderHolds, DrainerHolds, Idle
  <2> QED
    BY <2>1, <2>2, <1>j DEF SameQueue
<1>4. CASE EnqueueProtect
  <2>0. /\ UNCHANGED <<jsonl, cursor, drainer>> /\ reader.pc = "enqueue"
        /\ drainer.pc \notin DrainerHolds
        /\ \/ reader' = Idle
           \/ At("reset")
           \/ \E u : reader' = [reader EXCEPT !.pc = "reset", !.undo = u]
    BY <1>4 DEF EnqueueProtect, QueueFree
  <2>1. /\ UNCHANGED <<jsonl, cursor, drainer>> /\ reader.pc = "enqueue"
        /\ drainer.pc \notin DrainerHolds
        /\ reader'.pc \in {"idle", "reset"}
    <3>1. CASE reader' = Idle
      BY <2>0, <3>1 DEF Idle
    <3>2. CASE At("reset")
      BY <2>0, <3>2, <1>r DEF At
    <3>3. CASE \E u : reader' = [reader EXCEPT !.pc = "reset", !.undo = u]
      BY <2>0, <3>3, <1>r
    <3> QED
      BY <2>0, <3>1, <3>2, <3>3
  <2>2. SameQueue
    <3>1. CASE q' = Unmarked(q)
      BY <3>1, <1>t DEF Unmarked, Queue, SameQueue
    <3>2. CASE MarkLimitParked
      BY <3>2, <1>t, MarkShape DEF SameQueue
    <3>3. CASE q' = q
      BY <3>3 DEF SameQueue
    <3> QED
      BY <1>4, <3>1, <3>2, <3>3 DEF EnqueueProtect
  <2> QED
    BY <2>1, <2>2, <1>j DEF DrainerHolds
<1>5. CASE EnqueueAppendFails
  <2>1. /\ UNCHANGED <<jsonl, cursor, drainer>> /\ reader.pc = "append" /\ Refuse(q)
    BY <1>5 DEF EnqueueAppendFails
  <2>2. SameQueue /\ reader'.pc = "idle"
    BY <2>1, <1>t, RefuseShape DEF SameQueue, Idle
  <2> QED
    BY <2>1, <2>2, <1>j, <1>l DEF ReaderHolds, DrainerHolds
<1>6. CASE EnqueueReset
  <2>0. /\ reader.pc = "reset" /\ UNCHANGED <<jsonl, drainer>> /\ ~q.unknown
        /\ drainer.pc \notin DrainerHolds
    BY <1>6, <1>l DEF EnqueueReset, ReaderHolds
  <2>1. SameQueue /\ reader'.pc \in {"idle", "append"}
    <3>1. CASE Refuse(q)
      BY <3>1, <1>t, RefuseShape DEF SameQueue, Idle
    <3>2. CASE q' = q /\ At("append")
      BY <3>2, <1>r DEF SameQueue, At
    <3> QED
      BY <1>6, <3>1, <3>2 DEF EnqueueReset
  <2>2. ~q'.unknown /\ InStep'
    BY <2>0, <2>1, <1>i DEF DrainerHolds
  <2>3. InStep
    BY <2>0, <1>c DEF DrainerHolds
  <2>4. \/ cursor' = NoCursor
        \/ Boundary(jsonl', cursor')
        \/ jsonl' = <<>> /\ reader'.pc # "append"
    <3>1. CASE cursor' \in {0, NoCursor}
      BY <3>1, <2>0, <1>t, NoFile
    <3>2. CASE UNCHANGED cursor /\ Refuse(q)
      BY <3>2, <2>0, <1>g, RefuseShape, <1>t DEF Idle
    <3>3. CASE UNCHANGED cursor /\ ~(q.pending = 0 /\ q.offset = 0 /\ q.size = 0)
      <4>1. jsonl # <<>>
        <5>1. SUFFICES ASSUME jsonl = <<>> PROVE FALSE
          OBVIOUS
        <5>2. Len(jsonl) = 0 /\ Lines(jsonl, 0) = 0
          BY <5>1, NoFile
        <5>3. q.size = 0
          BY <5>2, <2>0, <2>3 DEF InStep
        <5>4. q.offset = 0
          BY <5>3, <2>3, <1>t, SMTT(30) DEF InStep
        <5> QED
          BY <3>3, <5>2, <5>3, <5>4, <2>3 DEF InStep
      <4> QED
        BY <3>3, <4>1, <2>0, <1>g
    <3> QED
      BY <1>6, <3>1, <3>2, <3>3 DEF EnqueueReset
  <2> QED
    BY <2>0, <2>2, <2>4, <1>h DEF DrainerHolds
<1>7. CASE EnqueueAppend
  <2>1. /\ reader.pc = "append" /\ jsonl' = jsonl \o <<Body(emitted), Newline>>
        /\ UNCHANGED <<cursor, drainer>> /\ reader'.pc = "caps"
        /\ drainer.pc \notin DrainerHolds /\ ~q.unknown
    BY <1>7, <1>l DEF EnqueueAppend, Idle, ReaderHolds
  <2>2. /\ q'.size = q.size + 2 /\ q'.pending = q.pending + 1 /\ q'.offset = q.offset
        /\ q'.unknown = q.unknown
    BY <1>7, <1>t, AppendShape
  <2>3. emitted \in Nat \ {0} /\ Body(emitted) = emitted
    BY <2>1, <1>t, QueueAssumption DEF TypeInv, TypeOK, Body
  <2>4. /\ q.pending = Lines(jsonl, q.offset) /\ Boundary(jsonl, q.offset) /\ q.offset <= q.size
        /\ Len(jsonl) = q.size /\ Boundary(jsonl, Len(jsonl))
    BY <2>1, <1>c DEF InStep, DrainerHolds
  <2>5. /\ Lines(jsonl', q.offset) = Lines(jsonl, q.offset) + 1
        /\ \A k \in Nat : Boundary(jsonl, k) => Boundary(jsonl', k)
        /\ Boundary(jsonl', Len(jsonl'))
    BY <2>1, <2>3, <2>4, <1>t, RecordFacts, ZenonT(60)
  <2>6. Len(jsonl') = Len(jsonl) + 2
    BY <2>1, <1>t DEF File
  <2>7. InStep'
    <3>1. q'.pending = Lines(jsonl', q'.offset)
      BY <2>2, <2>4, <2>5
    <3>2. Boundary(jsonl', q'.offset)
      BY <2>2, <2>4, <2>5, <1>n
    <3>3. q'.offset <= q'.size /\ Len(jsonl') = q'.size
      BY <2>2, <2>4, <2>6, <1>n
    <3>4. reader'.pc # "torn"
      BY <2>1
    <3> QED
      BY <3>1, <3>2, <3>3, <3>4, <2>5 DEF InStep
  <2>8. cursor' = NoCursor \/ Boundary(jsonl', cursor')
    BY <2>1, <2>5, <1>g, <1>t
  <2> QED
    BY <2>1, <2>7, <2>8, <1>h DEF DrainerHolds
<1>8. CASE EnqueueAppendTorn
  <2>1. PICK part \in {Body(emitted), Fragment(emitted)} : jsonl' = Append(jsonl, part)
    BY <1>8 DEF EnqueueAppendTorn
  <2>2. /\ reader.pc = "append" /\ UNCHANGED <<cursor, drainer, q>> /\ reader'.pc = "torn"
        /\ drainer.pc \notin DrainerHolds /\ ~q.unknown
    BY <1>8, <1>l, <1>r DEF EnqueueAppendTorn, At, ReaderHolds
  <2>3. emitted \in Nat \ {0}
    BY <2>2, <1>t, QueueAssumption DEF TypeInv, TypeOK
  <2>4. part \in Int /\ part # Newline
    BY <2>1, <2>3 DEF Body, Fragment, Newline
  <2>5. /\ q.pending = Lines(jsonl, q.offset) /\ Boundary(jsonl, q.offset) /\ q.offset <= q.size
        /\ Len(jsonl) = q.size /\ Boundary(jsonl, Len(jsonl))
    BY <2>2, <1>c DEF InStep, DrainerHolds
  <2>6. /\ Len(jsonl') = Len(jsonl) + 1 /\ jsonl'[Len(jsonl) + 1] = part
        /\ Lines(jsonl', q.offset) = Lines(jsonl, q.offset)
        /\ \A k \in Nat : Boundary(jsonl, k) => Boundary(jsonl', k)
    <3>1. q.offset <= Len(jsonl)
      BY <2>5
    <3>2. Lines(jsonl, q.offset) \in Nat /\ q.offset \in Nat /\ jsonl \in File
      BY <1>t
    <3>3. /\ Len(jsonl') = Len(jsonl) + 1 /\ jsonl'[Len(jsonl) + 1] = part
          /\ Lines(jsonl', q.offset) = Lines(jsonl, q.offset) + 0
          /\ \A k \in Nat : Boundary(jsonl, k) => Boundary(jsonl', k)
      BY <2>1, <2>4, <3>1, <3>2, GrowFacts
    <3> QED
      BY <3>2, <3>3
  <2>7. InStep'
    BY <2>2, <2>4, <2>5, <2>6, <1>t DEF InStep
  <2>8. cursor' = NoCursor \/ Boundary(jsonl', cursor')
    BY <2>2, <2>6, <1>g, <1>t
  <2> QED
    BY <2>2, <2>7, <2>8, <1>h DEF DrainerHolds
<1>9. CASE EnqueueTruncate
  <2>1. /\ reader.pc = "torn" /\ jsonl' = SubSeq(jsonl, 1, q.size) /\ Refuse(q)
        /\ UNCHANGED <<cursor, drainer>>
        /\ drainer.pc \notin DrainerHolds /\ ~q.unknown
    BY <1>9, <1>l DEF EnqueueTruncate, ReaderHolds
  <2>2. SameQueue /\ reader'.pc = "idle"
    BY <2>1, <1>t, RefuseShape DEF SameQueue, Idle
  <2>3. /\ q.pending = Lines(jsonl, q.offset) /\ Boundary(jsonl, q.offset) /\ q.offset <= q.size
        /\ Len(jsonl) = q.size + 1 /\ jsonl[Len(jsonl)] # Newline /\ Boundary(jsonl, q.size)
    BY <2>1, <1>c DEF InStep, DrainerHolds
  <2>4. q.size \in 0 .. Len(jsonl) /\ q.offset \in 0 .. q.size
    BY <2>3, <1>t
  <2>5. Ends(jsonl, q.size, Len(jsonl)) = {}
    BY <2>3, <1>t DEF Ends
  <2>6. /\ Len(jsonl') = q.size
        /\ \A k \in 0 .. q.size : /\ Lines(jsonl', k) = Lines(jsonl, k)
                                  /\ Boundary(jsonl, k) => Boundary(jsonl', k)
    BY <2>1, <2>4, <2>5, <1>t, CutFacts
  <2>7. q.size \in 0 .. q.size
    BY <1>n
  <2>8. InStep'
    BY <2>2, <2>3, <2>4, <2>6, <2>7 DEF InStep, SameQueue
  <2>9. cursor' = NoCursor \/ Boundary(jsonl', cursor')
    <3>1. jsonl # <<>>
      BY <2>3, <1>t, SMTT(30)
    <3>2. CASE cursor \in Nat /\ Boundary(jsonl, cursor)
      <4>1. cursor \in 0 .. q.size
        BY <3>2, <2>3, <1>n DEF Boundary
      <4> QED
        BY <4>1, <3>2, <2>1, <2>6
    <3> QED
      BY <3>1, <3>2, <2>1, <1>g, <1>t
  <2> QED
    BY <2>1, <2>8, <2>9, <1>h DEF DrainerHolds
<1>10. CASE EnqueueRealign
  <2>1. /\ reader.pc = "torn" /\ jsonl' = Append(jsonl, Newline)
        /\ UNCHANGED <<cursor, drainer>>
        /\ drainer.pc \notin DrainerHolds /\ ~q.unknown
    BY <1>10, <1>l DEF EnqueueRealign, ReaderHolds
  <2>2. /\ reader'.pc = "idle"
        /\ q'.offset = q.offset /\ q'.size = q.size + 2 /\ q'.pending = q.pending + 1
        /\ q'.unknown = q.unknown
    BY <1>10, <1>t, RealignShape DEF Idle
  <2>3. /\ q.pending = Lines(jsonl, q.offset) /\ Boundary(jsonl, q.offset) /\ q.offset <= q.size
        /\ Len(jsonl) = q.size + 1
    BY <2>1, <1>c DEF InStep, DrainerHolds
  <2>4. q.offset <= Len(jsonl) /\ Newline \in Int
    BY <2>3, <1>n DEF Newline
  <2>5. /\ Len(jsonl') = Len(jsonl) + 1
        /\ Lines(jsonl', q.offset) = Lines(jsonl, q.offset) + 1
        /\ \A k \in Nat : Boundary(jsonl, k) => Boundary(jsonl', k)
        /\ Boundary(jsonl', Len(jsonl'))
    BY <2>1, <2>4, <1>t, GrowFacts, ZenonT(60)
  <2>6. InStep'
    BY <2>1, <2>2, <2>3, <2>5, <1>n DEF InStep
  <2>7. jsonl # <<>>
    BY <2>3, <1>n
  <2>8. cursor' = NoCursor \/ Boundary(jsonl', cursor')
    BY <2>1, <2>5, <2>7, <1>g, <1>t
  <2> QED
    BY <2>1, <2>6, <2>8, <1>h DEF DrainerHolds
\* The lines the queue gives up.
<1>w. ASSUME NEW n \in 0 .. q.pending, q' = Without(q, n), UNCHANGED jsonl,
             ~q.unknown, drainer.pc # "unlink", reader.pc # "torn", reader'.pc # "torn"
      PROVE  /\ ~q'.unknown /\ InStep' /\ q'.pending = q.pending - n
             /\ Boundary(jsonl', q'.offset)
  <2>1. /\ q.pending = Lines(jsonl, q.offset) /\ Boundary(jsonl, q.offset) /\ q.offset <= q.size
        /\ Len(jsonl) = q.size /\ Boundary(jsonl, Len(jsonl))
    BY <1>w, <1>c DEF InStep
  <2>2. /\ q'.offset = After(jsonl, q.offset, n) /\ q'.size = q.size
        /\ q'.pending = q.pending - n /\ q'.unknown = q.unknown
    BY <1>w, <1>t, WithoutType
  <2>3. n \in 0 .. Lines(jsonl, q.offset) /\ n \in Nat /\ n <= Lines(jsonl, q.offset)
        /\ q.offset <= Len(jsonl)
    BY <1>w, <2>1, <1>t
  <2>4. /\ After(jsonl, q.offset, n) <= Len(jsonl)
        /\ Lines(jsonl, After(jsonl, q.offset, n)) = Lines(jsonl, q.offset) - n
    BY <2>3, <1>t, AfterFacts, ZenonT(60)
  <2>5. Boundary(jsonl, After(jsonl, q.offset, n))
    BY <2>1, <2>3, <1>t, AfterBoundary
  <2> QED
    BY <1>w, <2>1, <2>2, <2>4, <2>5 DEF InStep
<1>11. CASE EnqueueCaps
  <2>1. /\ reader.pc = "caps" /\ UNCHANGED <<jsonl, drainer>> /\ reader'.pc = "wake"
        /\ drainer.pc \notin DrainerHolds /\ ~q.unknown
    BY <1>11, <1>l, <1>r DEF EnqueueCaps, ReaderHolds, At
  <2>2. CASE UNCHANGED <<cursor, q>>
    BY <2>1, <2>2, <1>j DEF SameQueue, DrainerHolds
  <2>3. CASE DropOldestOverCaps
    <3>1. PICK n \in 0 .. q.pending :
              q' = Without(q, n) /\ (cursor' = cursor \/ cursor' = q'.offset)
      BY <2>3, <1>t, DropShape
    <3>2. ~q'.unknown /\ InStep' /\ Boundary(jsonl', q'.offset)
      BY <2>1, <3>1, <1>w DEF DrainerHolds
    <3>3. \/ cursor' = NoCursor
          \/ Boundary(jsonl', cursor')
          \/ jsonl' = <<>> /\ reader'.pc # "append"
      BY <2>1, <3>1, <3>2, <1>g
    <3> QED
      BY <2>1, <3>2, <3>3, <1>h DEF DrainerHolds
  <2> QED
    BY <1>11, <2>2, <2>3 DEF EnqueueCaps
<1>12. CASE PeekSkip \/ Advance
  <2>1. /\ q' = Without(q, 1) /\ q.pending > 0 /\ UNCHANGED <<jsonl, cursor, reader>>
        /\ drainer.pc \in {"peek", "skip", "advance", "expire"}
        /\ q.unknown = FALSE
    <3>1. CASE PeekSkip
      BY <3>1, <1>t DEF PeekSkip, Peeking, disk, Queue
    <3>2. CASE Advance
      BY <3>2, <1>t, <1>l DEF Advance, Current, disk, Queue
    <3> QED
      BY <1>12, <3>1, <3>2
  <2>2. 1 \in 0 .. q.pending
    BY <2>1, <1>t
  <2>3. reader.pc # "torn"
    <3>1. CASE drainer.pc = "skip"
      BY <3>1, <1>l DEF ReaderHolds, DrainerHolds
    <3>2. CASE QueueFree
      BY <3>2 DEF QueueFree, ReaderHolds
    <3> QED
      BY <1>12, <3>1, <3>2 DEF PeekSkip, Peeking, Advance
  <2>4. ~q'.unknown /\ InStep'
    BY <2>1, <2>2, <2>3, <1>w
  <2>5. /\ drainer'.pc \notin {"unlink", "rename"}
        /\ drainer'.pc = "reclaim" => q'.pending = 0
    <3>1. CASE PeekSkip
      BY <3>1 DEF PeekSkip, Off
    <3>2. CASE Advance
      BY <3>2, <1>r DEF Advance, Go, Consumed
    <3> QED
      BY <1>12, <3>1, <3>2
  <2> QED
    BY <2>1, <2>4, <2>5, <1>g, <1>h
<1>13. CASE CompactCursor \/ PersistCursor
  <2>1. /\ UNCHANGED <<jsonl, q, reader>> /\ drainer.pc \in {"compact", "persist"}
        /\ ~q.unknown /\ reader.pc \notin ReaderHolds
    BY <1>13, <1>l DEF CompactCursor, PersistCursor, DrainerHolds
  <2>2. SameQueue /\ InStep
    BY <2>1, <1>c DEF SameQueue
  <2>3. ~q'.unknown /\ InStep'
    BY <2>1, <2>2, <1>i
  <2>4. Boundary(jsonl, 0) /\ Boundary(jsonl, q.offset)
    BY <2>2, <1>t, NoFile DEF InStep
  <2>5. /\ cursor' \in {cursor, 0, q.offset}
        /\ drainer'.pc \notin {"unlink", "reclaim"}
        /\ drainer'.pc = "rename" => cursor' = 0
    BY <1>13, <1>r DEF CompactCursor, PersistCursor, Go, Park, Off, Peek
  <2> QED
    BY <2>1, <2>3, <2>4, <2>5, <1>g, <1>h
<1>14. CASE CompactRename
  <2>1. /\ UNCHANGED <<cursor, reader>> /\ drainer.pc = "rename" /\ drainer'.pc = "persist"
        /\ ~q.unknown /\ reader.pc \notin ReaderHolds
    BY <1>14, <1>l, <1>r DEF CompactRename, DrainerHolds, Go
  <2>2. CASE UNCHANGED <<jsonl, q>>
    BY <2>1, <2>2, <1>j DEF SameQueue
  <2>3. CASE /\ jsonl' = SubSeq(jsonl, q.offset + 1, Len(jsonl))
             /\ q' = [q EXCEPT !.offset = 0, !.size = Len(jsonl')]
    <3>1. /\ q.pending = Lines(jsonl, q.offset) /\ q.offset <= Len(jsonl)
          /\ Boundary(jsonl, Len(jsonl))
      BY <2>1, <1>c DEF InStep, ReaderHolds
    <3>2. /\ jsonl' \in File /\ Lines(jsonl', 0) = Lines(jsonl, q.offset)
          /\ Boundary(jsonl', Len(jsonl'))
      BY <2>3, <3>1, <1>t, TailFacts
    <3>3. PICK l : l = Len(jsonl')
      OBVIOUS
    <3>4. q' = [q EXCEPT !.offset = 0, !.size = l]
      BY <2>3, <3>3
    <3>5. q'.offset = 0 /\ q'.size = l /\ q'.pending = q.pending /\ q'.unknown = q.unknown
      BY <3>4, <1>t DEF Queue
    <3>6. Len(jsonl') \in Nat /\ Boundary(jsonl', 0)
      BY <3>2, FileFacts, NoFile
    <3>7. InStep'
      BY <2>1, <3>1, <3>2, <3>3, <3>5, <3>6 DEF InStep, ReaderHolds
    <3>8. Boundary(jsonl', cursor')
      BY <2>1, <3>6, <1>g
    <3> QED
      BY <2>1, <3>7, <3>8, <1>h
  <2> QED
    BY <1>14, <2>2, <2>3 DEF CompactRename
<1>15. CASE Reclaim
  <2>1. /\ UNCHANGED <<cursor, q, reader, unclosed>> /\ drainer.pc = "reclaim"
        /\ ~q.unknown /\ reader.pc \notin ReaderHolds
    BY <1>15, <1>l DEF Reclaim, DrainerHolds, history
  <2>2. CASE jsonl' = <<>> /\ Go("unlink")
    <3>1. drainer'.pc = "unlink" /\ q'.pending = 0
      BY <2>1, <2>2, <1>r, <1>c DEF Go
    <3> QED
      BY <2>1, <2>2, <3>1 DEF FileInv, Counted, CursorGood, ReaderHolds
  <2>3. CASE UNCHANGED jsonl /\ Park
    BY <2>1, <2>3, <1>j DEF SameQueue, Park, Off
  <2> QED
    BY <1>15, <2>2, <2>3 DEF Reclaim
<1>16. CASE Unlink
  <2>1. /\ UNCHANGED <<jsonl, reader>> /\ drainer.pc = "unlink"
        /\ ~q.unknown /\ reader.pc \notin ReaderHolds
    BY <1>16, <1>l DEF Unlink, DrainerHolds
  <2>2. /\ q'.offset = 0 /\ q'.size = 0 /\ q'.pending = q.pending /\ q'.unknown = q.unknown
    BY <1>16, <1>t, UnlinkShape
  <2>3. jsonl = <<>> /\ q.pending = 0
    BY <2>1, <1>c DEF TypeInv, SizeFits
  <2>4. /\ Len(jsonl) = 0 /\ Lines(jsonl, 0) = 0 /\ Boundary(jsonl, 0)
    BY <2>3, NoFile
  <2>5. InStep'
    BY <2>1, <2>2, <2>3, <2>4 DEF InStep, ReaderHolds
  <2>6. drainer'.pc \in {"leave", "peek", "off"}
    BY <1>16, <1>r DEF Unlink, Go, Park, Peek, Off
  <2> QED
    BY <2>1, <2>3, <2>5, <2>6, <1>h DEF ReaderHolds
<1>17. ASSUME Load, reader'.pc = "idle", drainer'.pc \in {"off", "peek"} PROVE FileInv'
  <2>1. cursor' = cursor
    BY <1>17, <1>t, LoadShape
  <2>2. CASE UNCHANGED jsonl /\ q'.unknown
    BY <2>1, <2>2, <1>g, <1>h, <1>17
  <2>3. CASE \E off \in Nat : /\ off <= Len(jsonl) /\ LoadFrom(off)
                              /\ off = 0 \/ off = LoadOffset(jsonl, cursor)
    <3>1. PICK off \in Nat : /\ off <= Len(jsonl) /\ LoadFrom(off)
                             /\ off = 0 \/ off = LoadOffset(jsonl, cursor)
      BY <2>3
    <3>2. /\ q'.offset = off /\ off <= q'.size /\ q'.size = Len(jsonl')
          /\ \A k \in Nat : Boundary(jsonl, k) => Boundary(jsonl', k)
          /\ q'.pending = Lines(jsonl', off)
          /\ Boundary(jsonl, off) => Boundary(jsonl', Len(jsonl'))
      BY <3>1, <1>t, LoadFromShape
    <3>3. Boundary(jsonl, 0) /\ (jsonl = <<>> => Len(jsonl) = 0)
      BY <1>t, NoFile
    <3>4. Boundary(jsonl, off)
      <4>1. CASE off = 0
        BY <4>1, <3>3
      <4>2. CASE off = LoadOffset(jsonl, cursor)
        BY <4>2, <3>3, <1>t, <1>g, LoadOffsetFacts
      <4> QED
        BY <3>1, <4>1, <4>2
    <3>5. InStep'
      BY <3>1, <3>2, <3>4, <1>17 DEF InStep
    <3>6. \/ cursor' = NoCursor
          \/ Boundary(jsonl', cursor')
          \/ jsonl' = <<>> /\ reader'.pc # "append"
      <4>1. CASE jsonl = <<>>
        <5>1. off = 0
          BY <4>1, <3>1, <3>3
        <5> QED
          BY <4>1, <5>1, <3>1, <1>t, <1>17, LoadEmpty
      <4>2. CASE cursor = NoCursor
        BY <4>2, <2>1
      <4>3. CASE cursor \in Nat /\ Boundary(jsonl, cursor)
        BY <4>3, <2>1, <3>2
      <4> QED
        BY <4>1, <4>2, <4>3, <1>g, <1>t
    <3> QED
      BY <3>5, <3>6, <1>17, <1>h
  <2> QED
    BY <1>17, <1>t, <2>2, <2>3, LoadShape
<1>18. CASE RetryLoad
  <2>1. /\ Load /\ reader'.pc = "idle" /\ drainer'.pc \in {"off", "peek"}
    BY <1>18, <1>l DEF RetryLoad
  <2> QED
    BY <2>1, <1>17
<1>19. CASE Reload \/ Crash
  <2>1. /\ Load /\ reader'.pc = "idle" /\ drainer'.pc \in {"off", "peek"}
    BY <1>19 DEF Reload, Crash, Arm, Idle, Off, Peek
  <2> QED
    BY <2>1, <1>17
<1>20. CASE EnqueueAbandon
  BY <1>20 DEF EnqueueAbandon
<1> QED
  BY <1>1, <1>2, <1>3, <1>4, <1>5, <1>6, <1>7, <1>8, <1>9, <1>10, <1>11, <1>12, <1>13, <1>14,
     <1>15, <1>16, <1>18, <1>19, <1>20 DEF Next, Reader, Drainer, Quiet
-----------------------------------------------------------------------------
\* What the queue reported retained and nothing has become of yet.
Unsettled == kept \ (delivered \cup dropped)

\* It is found by the daemon that runs and by one that starts.
Found ==
    \A e \in Unsettled :
        /\ e \in Waiting(jsonl, LoadOffset(jsonl, cursor))
        /\ q.unknown \/ e \in Waiting(jsonl, q.offset)

\* It waits behind all that was delivered; the drainer carries none before its turn.
InTurn ==
    /\ \A e \in Unsettled, f \in delivered : f < e
    /\ Peeked => \A e \in Unsettled : drainer.event <= e
    /\ drainer.pc = "advance" => drainer.event \in delivered

\* What was retained beside a marker has the marker beside it until it is
\* settled; an undo of the marker concerns no such event.
Shields ==
    /\ Unsettled \cap shielded # {} => marker
    /\ drainer.pc = "expire" /\ drainer.event \in shielded => drainer.event \in delivered
    /\ reader.pc \in {"reset", "append", "torn"} /\ reader.undo = "marker"
          => Unsettled \cap shielded = {}
    /\ shielded \cap dropped \subseteq delivered

Retained == ~unclosed => Found /\ InTurn /\ Shields

\* A daemon that starts begins at the start of a line.
LEMMA StartBoundary ==
    ASSUME TypeInv, FileInv, ~unclosed
    PROVE  /\ LoadOffset(jsonl, cursor) \in Nat
           /\ LoadOffset(jsonl, cursor) <= Len(jsonl)
           /\ Boundary(jsonl, LoadOffset(jsonl, cursor))
<1>1. jsonl \in File /\ cursor \in Nat \cup {NoCursor} /\ Len(jsonl) \in Nat
  BY FileOf DEF TypeInv
<1>2. /\ LoadOffset(jsonl, cursor) \in 0 .. Len(jsonl)
      /\ cursor \in Nat /\ Boundary(jsonl, cursor) => LoadOffset(jsonl, cursor) = cursor
      /\ cursor = NoCursor => LoadOffset(jsonl, cursor) = 0
      /\ Len(jsonl) = 0 => LoadOffset(jsonl, cursor) = 0
  BY <1>1, LoadOffsetFacts
<1>3. Boundary(jsonl, 0) /\ (jsonl = <<>> => Len(jsonl) = 0)
  BY <1>1, NoFile
<1>4. \/ cursor = NoCursor
      \/ Boundary(jsonl, cursor)
      \/ jsonl = <<>>
  BY DEF FileInv, CursorGood
<1> QED
  BY <1>1, <1>2, <1>3, <1>4

\* A queue without a line holds nothing that is unsettled.
LEMMA NothingWaits ==
    ASSUME TypeInv, FileInv, ~unclosed, Found,
           jsonl = <<>> \/ (~q.unknown /\ q.pending = 0)
    PROVE  Unsettled = {}
<1>1. jsonl \in File /\ q.offset \in Nat
  BY FileOf DEF TypeInv
<1>2. CASE jsonl = <<>>
  <2>1. LoadOffset(jsonl, cursor) \in Nat /\ LoadOffset(jsonl, cursor) <= 0
    BY <1>1, <1>2, StartBoundary, NoFile
  <2>2. LoadOffset(jsonl, cursor) = 0 /\ Lines(jsonl, 0) = 0
    BY <1>2, <2>1, NoFile
  <2>3. Waiting(jsonl, 0) = {}
    BY <1>1, <2>2, WaitingNone
  <2> QED
    BY <2>2, <2>3 DEF Found
<1>3. CASE jsonl # <<>> /\ ~q.unknown /\ q.pending = 0
  <2>1. drainer.pc # "unlink"
    BY <1>3 DEF TypeInv, SizeFits
  <2>2. Lines(jsonl, q.offset) = 0
    BY <1>3, <2>1 DEF FileInv, Counted, InStep
  <2>3. Waiting(jsonl, q.offset) = {}
    BY <1>1, <2>2, WaitingNone
  <2> QED
    BY <1>3, <2>3 DEF Found
<1> QED
  BY <1>2, <1>3

\* What became of an event is not forgotten, and only an append retains one.
LEMMA SettledGrows ==
    ASSUME TypeInv, [Next]_vars
    PROVE  /\ delivered \subseteq delivered' /\ dropped \subseteq dropped'
           /\ EnqueueAppend \/ (kept' = kept /\ shielded' = shielded /\ Unsettled' \subseteq Unsettled)
           /\ RouteDirect \/ Deliver \/ delivered' = delivered
           /\ EnqueueCaps \/ Advance \/ dropped' = dropped
<1>h. ASSUME kept' = kept, delivered \subseteq delivered', dropped \subseteq dropped'
      PROVE  Unsettled' \subseteq Unsettled
  BY <1>h DEF Unsettled
<1>1. CASE UNCHANGED settled
  BY <1>h, <1>1 DEF settled
<1>2. CASE UNCHANGED vars
  BY <1>1, <1>2 DEF vars, history
<1>3. CASE Quiet
  BY <1>1, <1>3, QuietShape DEF settled
<1>4. CASE RouteDirect \/ Deliver
  BY <1>h, <1>4 DEF RouteDirect, Deliver
<1>5. CASE EnqueueAppend
  BY <1>5 DEF EnqueueAppend
<1>6. CASE EnqueueCaps
  <2>1. dropped' = dropped \/ DropOldestOverCaps
    BY <1>6 DEF EnqueueCaps
  <2>2. dropped \subseteq dropped'
    BY <2>1, DropShape DEF TypeInv
  <2> QED
    BY <1>h, <1>6, <2>2 DEF EnqueueCaps
<1>7. CASE Advance
  BY <1>h, <1>7 DEF Advance
<1>8. CASE \/ EnqueueProtect \/ EnqueueReset \/ EnqueueAppendFails
           \/ EnqueueAppendTorn \/ EnqueueTruncate \/ EnqueueRealign \/ EnqueueAbandon
           \/ PeekHead \/ PeekSkip \/ DecideExpire
           \/ CompactCursor \/ CompactRename \/ PersistCursor \/ Reclaim \/ Unlink
  BY <1>1, <1>8 DEF EnqueueProtect, EnqueueReset, EnqueueAppendFails, EnqueueAppendTorn,
     EnqueueTruncate, EnqueueRealign, EnqueueAbandon, PeekHead, PeekSkip, DecideExpire,
     CompactCursor, CompactRename, PersistCursor, Reclaim, Unlink, history
<1>9. CASE RetryLoad \/ Reload \/ Crash
  BY <1>1, <1>9 DEF RetryLoad, Reload, Crash, Arm
<1> QED
  BY <1>2, <1>3, <1>4, <1>5, <1>6, <1>7, <1>8, <1>9 DEF Next, Reader, Drainer, Quiet

\* Nothing is retained at first.
LEMMA RetainedInit == Init => Retained
<1> SUFFICES ASSUME Init PROVE Retained
  OBVIOUS
<1>1. /\ kept = {} /\ shielded = {} /\ delivered = {} /\ dropped = {}
      /\ drainer.pc = "off" /\ reader.pc = "idle"
  BY DEF Init, Idle, Off
<1>2. Unsettled = {}
  BY <1>1 DEF Unsettled
<1> QED
  BY <1>1, <1>2 DEF Retained, Found, InTurn, Shields, Peeked

\* A retained event stays where it is found, whatever the step does to the files.
LEMMA FoundNext ==
    ASSUME TypeInv, TypeInv', FileInv, FileInv', InTurn, Found, ~unclosed, ~unclosed', [Next]_vars
    PROVE  Found'
<1>t. /\ TypeOK /\ jsonl \in File /\ q \in Queue /\ q.offset \in Nat /\ q.pending \in Nat
      /\ cursor \in Nat \cup {NoCursor}
  BY FileOf DEF TypeInv
<1>n. Len(jsonl) \in Nat /\ q.offset \in Nat /\ q.size \in Nat /\ q.pending \in Nat
  BY FileOf DEF TypeInv
<1>f. jsonl' \in File /\ cursor' \in Nat \cup {NoCursor} /\ Len(jsonl') \in Nat
  <2>1. TypeOK'
    BY DEF TypeInv
  <2>2. jsonl' \in Seq(Cells)
    BY <2>1 DEF TypeOK, Cells
  <2>3. jsonl' \in File /\ Len(jsonl') \in Nat
    BY <2>2, CellsFacts, SeqWider DEF File
  <2> QED
    BY <2>1, <2>3 DEF TypeOK
<1>l. /\ reader.pc \in ReaderHolds => drainer.pc \notin DrainerHolds
      /\ q.unknown => reader.pc = "idle" /\ drainer.pc \in {"off", "peek"}
  BY DEF TypeInv, Locks
<1>c. ~q.unknown /\ drainer.pc # "unlink" => InStep
  BY DEF FileInv, Counted
<1> DEFINE start == LoadOffset(jsonl, cursor)
           Keeps(k) == /\ Boundary(jsonl', k)
                       /\ Waiting(jsonl, k) \subseteq Waiting(jsonl', k)
<1>s. start \in Nat /\ start <= Len(jsonl) /\ Boundary(jsonl, start)
  BY StartBoundary
<1>w. \A e \in Unsettled : /\ e \in Waiting(jsonl, start)
                           /\ q.unknown \/ e \in Waiting(jsonl, q.offset)
  BY DEF Found
\* The cursor stays: a daemon that starts begins where it did.
<1>k. ASSUME cursor' = cursor, Keeps(start), jsonl # <<>>
      PROVE  LoadOffset(jsonl', cursor') = start
  <2>1. CASE cursor = NoCursor
    BY <1>k, <2>1, <1>t, <1>f, LoadOffsetFacts
  <2>2. CASE cursor \in Nat /\ Boundary(jsonl, cursor)
    <3>1. start = cursor
      BY <2>2, <1>t, LoadOffsetFacts
    <3> QED
      BY <1>k, <2>2, <3>1, <1>f, LoadOffsetFacts
  <2> QED
    BY <1>k, <2>1, <2>2, <1>t DEF FileInv, CursorGood
<1> HIDE DEF start
\* Nothing is unsettled.
<1>e. ASSUME Unsettled' = {} PROVE Found'
  BY <1>e DEF Found
\* A step that leaves the files and the offset alone.
<1>i. ASSUME UNCHANGED <<jsonl, cursor>>, q'.offset = q.offset, q'.unknown = q.unknown,
             Unsettled' \subseteq Unsettled
      PROVE  Found'
  BY <1>i DEF Found
\* A step of the reader on the file.
<1>j. ASSUME cursor' = cursor, q'.offset = q.offset, q'.unknown = q.unknown,
             Keeps(start), Keeps(q.offset), Unsettled' \subseteq Unsettled
      PROVE  Found'
  <2>1. CASE jsonl = <<>>
    BY <2>1, <1>j, <1>e, NothingWaits
  <2>2. CASE jsonl # <<>>
    <3>1. LoadOffset(jsonl', cursor') = start
      BY <1>j, <1>k, <2>2
    <3> QED
      BY <1>j, <1>w, <3>1 DEF Found
  <2> QED
    BY <2>1, <2>2
<1>1. CASE UNCHANGED vars
  BY <1>1 DEF vars, disk, history, settled, Found, Unsettled
<1>2. CASE Quiet
  <2>2. UNCHANGED <<jsonl, cursor, kept, delivered, dropped>> /\ SameQueue
    BY <1>2, QuietShape
  <2> QED
    BY <2>2, <1>i DEF SameQueue, Unsettled
<1>3. CASE RouteDirect \/ PeekHead \/ DecideExpire \/ Deliver
  <2>1. UNCHANGED <<jsonl, cursor, q, kept, dropped>> /\ delivered \subseteq delivered'
    BY <1>3 DEF RouteDirect, PeekHead, DecideExpire, Deliver, disk, history, settled
  <2> QED
    BY <2>1, <1>i DEF Unsettled
<1>4. CASE EnqueueProtect
  <2>1. UNCHANGED <<jsonl, cursor, kept, dropped, delivered>>
    BY <1>4 DEF EnqueueProtect, history, settled
  <2>2. q'.offset = q.offset /\ q'.unknown = q.unknown
    <3>1. CASE q' = Unmarked(q)
      BY <3>1, <1>t DEF Unmarked, Queue
    <3>2. CASE MarkLimitParked
      BY <3>2, <1>t, MarkShape
    <3>3. CASE q' = q
      BY <3>3
    <3> QED
      BY <1>4, <3>1, <3>2, <3>3 DEF EnqueueProtect
  <2> QED
    BY <2>1, <2>2, <1>i DEF Unsettled
<1>5. CASE EnqueueAppendFails
  <2>1. UNCHANGED <<jsonl, cursor, kept, dropped, delivered>> /\ Refuse(q)
    BY <1>5 DEF EnqueueAppendFails, history, settled
  <2> QED
    BY <2>1, <1>i, <1>t, RefuseShape DEF Unsettled
<1>6. CASE EnqueueReset
  <2>1. /\ UNCHANGED <<jsonl, kept, dropped, delivered>> /\ reader.pc = "reset" /\ ~q.unknown
    BY <1>6, <1>l DEF EnqueueReset, history, settled
  <2>2. CASE q.pending = 0
    <3>1. Unsettled = {}
      BY <2>1, <2>2, NothingWaits
    <3> QED
      BY <2>1, <3>1, <1>e DEF Unsettled
  <2>3. CASE q.pending # 0
    <3>1. UNCHANGED <<cursor, q>>
      BY <1>6, <2>3 DEF EnqueueReset
    <3> QED
      BY <2>1, <3>1, <1>i DEF Unsettled
  <2> QED
    BY <2>2, <2>3
<1>7. CASE EnqueueAppend
  <2>1. /\ reader.pc = "append" /\ jsonl' = jsonl \o <<Body(emitted), Newline>>
        /\ UNCHANGED <<cursor, drainer, delivered, dropped>> /\ kept' = kept \cup {emitted}
        /\ drainer.pc \notin DrainerHolds /\ ~q.unknown
    BY <1>7, <1>l DEF EnqueueAppend, Idle, ReaderHolds
  <2>2. q'.offset = q.offset /\ q'.unknown = q.unknown
    BY <1>7, <1>t, AppendShape
  <2>3. emitted \in Nat \ {0} /\ Body(emitted) = emitted
    BY <2>1, <1>t, QueueAssumption DEF TypeInv, TypeOK, Body
  <2>4. /\ Boundary(jsonl, q.offset) /\ q.offset <= Len(jsonl) /\ Boundary(jsonl, Len(jsonl))
    BY <2>1, <1>c DEF InStep, DrainerHolds
  <2>5. ASSUME NEW k \in Nat, k <= Len(jsonl)
        PROVE  /\ Waiting(jsonl, k) \cup {emitted} \subseteq Waiting(jsonl', k)
               /\ Boundary(jsonl, k) => Boundary(jsonl', k)
    BY <2>1, <2>3, <2>4, <2>5, <1>t, RecordFacts
  <2>6. LoadOffset(jsonl', cursor') = start
    <3>1. CASE jsonl # <<>>
      BY <2>1, <2>5, <3>1, <1>k, <1>s
    <3>2. CASE cursor = NoCursor
      BY <2>1, <3>2, <1>t, <1>f, LoadOffsetFacts DEF start
    <3>3. CASE cursor \in Nat /\ Boundary(jsonl, cursor)
      <4>1. start = cursor
        BY <3>3, <1>t, LoadOffsetFacts DEF start
      <4> QED
        BY <2>1, <2>5, <3>3, <4>1, <1>s, <1>f, LoadOffsetFacts
    <3> QED
      BY <2>1, <3>1, <3>2, <3>3, <1>t DEF FileInv, CursorGood
  <2>7. /\ Waiting(jsonl, start) \cup {emitted} \subseteq Waiting(jsonl', start)
        /\ Waiting(jsonl, q.offset) \cup {emitted} \subseteq Waiting(jsonl', q.offset)
    BY <2>4, <2>5, <1>s, <1>n
  <2>8. Unsettled' \subseteq Unsettled \cup {emitted}
    BY <2>1 DEF Unsettled
  <2> QED
    BY <2>2, <2>6, <2>7, <2>8, <1>w DEF Found
<1>8. CASE EnqueueAppendTorn \/ EnqueueRealign
  <2>1. PICK x \in Int : jsonl' = Append(jsonl, x)
    <3>1. emitted \in Int
      BY <1>t DEF TypeOK
    <3> QED
      BY <1>8, <3>1 DEF EnqueueAppendTorn, EnqueueRealign, Body, Fragment, Newline
  <2>2. /\ reader.pc \in {"append", "torn"} /\ UNCHANGED <<cursor, drainer, kept, delivered, dropped>>
        /\ drainer.pc \notin DrainerHolds /\ ~q.unknown
    BY <1>8, <1>l DEF EnqueueAppendTorn, EnqueueRealign, ReaderHolds, history, settled
  <2>3. q'.offset = q.offset /\ q'.unknown = q.unknown
    BY <1>8, <1>t, RealignShape DEF EnqueueAppendTorn
  <2>4. Boundary(jsonl, q.offset) /\ q.offset <= q.size
    BY <2>2, <1>c DEF InStep, DrainerHolds
  <2>5. q.size <= Len(jsonl)
    BY <2>2, <1>c, <1>n DEF InStep, DrainerHolds
  <2>6. q.offset <= Len(jsonl)
    BY <2>4, <2>5, <1>n
  <2>7. \A k \in Nat : k <= Len(jsonl) /\ Boundary(jsonl, k) => Keeps(k)
    <3> SUFFICES ASSUME NEW k \in Nat, k <= Len(jsonl), Boundary(jsonl, k) PROVE Keeps(k)
      OBVIOUS
    <3> QED
      BY <2>1, <1>t, GrowFacts
  <2> QED
    BY <2>2, <2>3, <2>4, <2>6, <2>7, <1>j, <1>s, <1>n DEF Unsettled
<1>9. CASE EnqueueTruncate
  <2>1. /\ reader.pc = "torn" /\ jsonl' = SubSeq(jsonl, 1, q.size) /\ Refuse(q)
        /\ UNCHANGED <<cursor, drainer, kept, delivered, dropped>>
        /\ drainer.pc \notin DrainerHolds /\ ~q.unknown
    BY <1>9, <1>l DEF EnqueueTruncate, ReaderHolds, history, settled
  <2>2. q'.offset = q.offset /\ q'.unknown = q.unknown
    BY <2>1, <1>t, RefuseShape
  <2>3. /\ Boundary(jsonl, q.offset) /\ q.offset <= q.size
        /\ Len(jsonl) = q.size + 1 /\ jsonl[Len(jsonl)] # Newline
    BY <2>1, <1>c DEF InStep, DrainerHolds
  <2>4. q.size \in 0 .. Len(jsonl) /\ q.offset \in 0 .. q.size
    BY <2>3, <1>n
  <2>5. Ends(jsonl, q.size, Len(jsonl)) = {}
    BY <2>3, <1>n DEF Ends
  <2>6. start \in 0 .. q.size
    BY <2>3, <1>s, <1>n DEF Boundary
  <2>7. \A k \in 0 .. q.size : Boundary(jsonl, k) => Keeps(k)
    BY <2>1, <2>4, <2>5, <1>t, CutFacts
  <2> QED
    BY <2>1, <2>2, <2>3, <2>4, <2>6, <2>7, <1>j, <1>s DEF Unsettled
<1>10. CASE EnqueueCaps
  <2>1. /\ reader.pc = "caps" /\ UNCHANGED <<jsonl, drainer, kept, delivered>>
        /\ drainer.pc \notin DrainerHolds /\ ~q.unknown
    BY <1>10, <1>l DEF EnqueueCaps, ReaderHolds
  <2>2. CASE UNCHANGED <<cursor, q, dropped>>
    BY <2>1, <2>2, <1>i DEF Unsettled
  <2>3. CASE DropOldestOverCaps
    <3>1. PICK n \in 0 .. q.pending :
              /\ q' = Without(q, n)
              /\ dropped' = dropped \cup
                    (Waiting(jsonl, q.offset) \ Waiting(jsonl, q'.offset))
              /\ cursor' = cursor \/ cursor' = q'.offset
      BY <2>3, <1>t, DropShape
    <3>2. /\ q'.offset = After(jsonl, q.offset, n) /\ q'.unknown = q.unknown
      BY <3>1, <1>t, WithoutType
    <3>3. \A e \in Unsettled' : e \in Unsettled /\ e \in Waiting(jsonl, q'.offset)
      BY <2>1, <3>1, <1>w DEF Unsettled
    <3>4. CASE cursor' = cursor
      BY <2>1, <3>3, <3>4, <1>w DEF Found, start
    <3>5. CASE cursor' = q'.offset
      <4>1. /\ q.pending = Lines(jsonl, q.offset) /\ Boundary(jsonl, q.offset)
        BY <2>1, <1>c DEF InStep, DrainerHolds
      <4>2. n \in Nat /\ n \in 0 .. Lines(jsonl, q.offset)
        BY <4>1, <1>n
      <4>3. jsonl \in File /\ q.offset \in Nat
        BY <1>t
      <4>4. Boundary(jsonl, After(jsonl, q.offset, n))
        BY <4>1, <4>2, <4>3, AfterBoundary
      <4>5. After(jsonl, q.offset, n) \in Nat
        BY <4>2, <4>3, AfterFacts
      <4>6. Boundary(jsonl, q'.offset) /\ q'.offset \in Nat
        BY <3>2, <4>4, <4>5
      <4>7. LoadOffset(jsonl', cursor') = q'.offset
        BY <2>1, <3>5, <4>6, <1>t, LoadOffsetFacts
      <4> QED
        BY <2>1, <3>3, <4>7 DEF Found
    <3> QED
      BY <3>1, <3>4, <3>5
  <2> QED
    BY <1>10, <2>2, <2>3 DEF EnqueueCaps
<1>11. CASE PeekSkip \/ Advance
  <2>1. /\ q' = Without(q, 1) /\ q.pending > 0
        /\ UNCHANGED <<jsonl, cursor, reader, kept, delivered>>
        /\ drainer.pc \in {"peek", "skip", "advance", "expire"}
    BY <1>11 DEF PeekSkip, Peeking, Advance, Current, disk, history, settled
  <2>2. 1 \in 0 .. q.pending
    BY <2>1, <1>n
  <2>3. q'.offset = After(jsonl, q.offset, 1) /\ q'.unknown = q.unknown
    BY <2>1, <2>2, <1>t, WithoutType
  <2>4. Unsettled' \subseteq Unsettled \ {EventAt(jsonl, q.offset)}
    <3>1. CASE PeekSkip
      <4>1. EventAt(jsonl, q.offset) = NoEvent /\ UNCHANGED dropped
        BY <3>1 DEF PeekSkip, history, settled
      <4>2. NoEvent \notin kept
        BY <1>t DEF TypeOK, Events, NoEvent
      <4> QED
        BY <2>1, <4>1, <4>2 DEF Unsettled
    <3>2. CASE Advance
      <4>1. /\ drainer.event = EventAt(jsonl, q.offset)
            /\ drainer.pc \in {"advance", "expire"}
            /\ dropped' = IF drainer.pc = "expire" THEN dropped \cup {drainer.event} ELSE dropped
        BY <3>2 DEF Advance, Current
      <4>2. drainer.pc = "advance" => drainer.event \in delivered
        BY DEF InTurn
      <4> QED
        BY <2>1, <4>1, <4>2 DEF Unsettled
    <3> QED
      BY <1>11, <3>1, <3>2
  <2>5. \A e \in Unsettled' : q.unknown \/ e \in Waiting(jsonl, q'.offset)
    <3> SUFFICES ASSUME NEW e \in Unsettled', ~q.unknown
                 PROVE  e \in Waiting(jsonl, q'.offset)
      OBVIOUS
    <3>1. e \in Waiting(jsonl, q.offset) /\ e # EventAt(jsonl, q.offset)
      BY <2>4, <1>w
    <3>2. Lines(jsonl, q.offset) # 0
      BY <3>1, <1>t, WaitingNone
    <3> QED
      BY <2>3, <3>1, <3>2, <1>t, WaitingHead
  <2> QED
    BY <2>1, <2>3, <2>4, <2>5, <1>w DEF Found, start
<1>12. CASE CompactCursor \/ PersistCursor
  <2>1. /\ UNCHANGED <<jsonl, q, kept, delivered, dropped>> /\ drainer.pc \in {"compact", "persist"}
        /\ ~q.unknown
    BY <1>12, <1>l DEF CompactCursor, PersistCursor, DrainerHolds, history, settled
  <2>2. cursor' \in {cursor, 0, q.offset}
    BY <1>12 DEF CompactCursor, PersistCursor
  <2>3. Boundary(jsonl, q.offset) /\ Boundary(jsonl, 0)
    BY <2>1, <1>c, <1>t, NoFile DEF InStep
  <2>4. CASE cursor' = cursor
    BY <2>1, <2>4, <1>i DEF Unsettled
  <2>5. CASE cursor' = q.offset
    <3>1. LoadOffset(jsonl', cursor') = q.offset
      BY <2>1, <2>3, <2>5, <1>t, LoadOffsetFacts
    <3> QED
      BY <2>1, <3>1, <1>w DEF Found, Unsettled
  <2>6. CASE cursor' = 0
    <3>1. LoadOffset(jsonl', cursor') = 0
      BY <2>1, <2>3, <2>6, <1>t, LoadOffsetFacts
    <3>2. Waiting(jsonl, q.offset) \subseteq Waiting(jsonl, 0)
      BY <2>3, <1>t, WaitingEarlier
    <3> QED
      BY <2>1, <3>1, <3>2, <1>w DEF Found, Unsettled
  <2> QED
    BY <2>2, <2>4, <2>5, <2>6
<1>13. CASE CompactRename
  <2>1. /\ UNCHANGED <<cursor, reader, kept, delivered, dropped>> /\ drainer.pc = "rename"
        /\ ~q.unknown /\ reader.pc \notin ReaderHolds /\ cursor = 0
    BY <1>13, <1>l DEF CompactRename, DrainerHolds, history, settled, FileInv, CursorGood
  <2>2. CASE UNCHANGED <<jsonl, q>>
    BY <2>1, <2>2, <1>i DEF Unsettled
  <2>3. CASE /\ jsonl' = SubSeq(jsonl, q.offset + 1, Len(jsonl))
             /\ q' = [q EXCEPT !.offset = 0, !.size = Len(jsonl')]
    <3>1. q.offset <= Len(jsonl)
      BY <2>1, <1>c DEF InStep, ReaderHolds
    <3>2. Waiting(jsonl, q.offset) \subseteq Waiting(jsonl', 0)
      BY <2>3, <3>1, <1>t, TailFacts
    <3>3. q'.offset = 0
      <4>1. PICK l : q' = [q EXCEPT !.offset = 0, !.size = l]
        BY <2>3
      <4> QED
        BY <4>1, <1>t DEF Queue
    <3>4. LoadOffset(jsonl', cursor') = 0
      BY <2>1, <1>f, NoFile, LoadOffsetFacts
    <3> QED
      BY <2>1, <3>2, <3>3, <3>4, <1>w DEF Found, Unsettled
  <2> QED
    BY <1>13, <2>2, <2>3 DEF CompactRename
<1>14. CASE Reclaim
  <2>1. /\ UNCHANGED <<kept, delivered, dropped>> /\ drainer.pc = "reclaim" /\ ~q.unknown
    BY <1>14, <1>l DEF Reclaim, DrainerHolds, history, settled
  <2>2. q.pending = 0
    BY <2>1 DEF FileInv, Counted
  <2>3. Unsettled = {}
    BY <2>1, <2>2, NothingWaits
  <2> QED
    BY <2>1, <2>3, <1>e DEF Unsettled
<1>15. CASE Unlink
  <2>1. UNCHANGED <<kept, delivered, dropped>> /\ drainer.pc = "unlink"
    BY <1>15 DEF Unlink, history, settled
  <2>2. jsonl = <<>>
    BY <2>1 DEF TypeInv, SizeFits
  <2>3. Unsettled = {}
    BY <2>2, NothingWaits
  <2> QED
    BY <2>1, <2>3, <1>e DEF Unsettled
<1>16. ASSUME Load, UNCHANGED <<kept, delivered, dropped>> PROVE Found'
  <2>0. Unsettled' = Unsettled
    BY <1>16 DEF Unsettled
  <2>1. cursor' = cursor
    BY <1>16, <1>t, LoadShape
  <2>2. CASE UNCHANGED jsonl /\ q'.unknown
    BY <2>0, <2>1, <2>2, <1>w DEF Found, start
  <2>3. CASE \E off \in Nat : /\ off <= Len(jsonl) /\ LoadFrom(off)
                              /\ off = 0 \/ off = LoadOffset(jsonl, cursor)
    <3>1. PICK off \in Nat : /\ off <= Len(jsonl) /\ LoadFrom(off)
                             /\ off = 0 \/ off = LoadOffset(jsonl, cursor)
      BY <2>3
    <3>2. /\ q'.offset = off
          /\ \A k \in Nat : Boundary(jsonl, k) => Keeps(k)
      BY <3>1, <1>t, LoadFromShape
    <3>3. CASE jsonl = <<>>
      BY <2>0, <3>3, <1>e, NothingWaits
    <3>4. CASE jsonl # <<>>
      <4>1. LoadOffset(jsonl', cursor') = start /\ Waiting(jsonl, start) \subseteq Waiting(jsonl', start)
        BY <2>1, <3>2, <3>4, <1>s, <1>k
      <4>2. Waiting(jsonl', start) \subseteq Waiting(jsonl', off)
        <5>1. CASE off = 0
          BY <5>1, <3>2, <1>s, <1>f, WaitingEarlier
        <5>2. CASE off = start
          BY <5>2
        <5> QED
          BY <3>1, <5>1, <5>2 DEF start
      <4> QED
        BY <2>0, <3>2, <4>1, <4>2, <1>w DEF Found
    <3> QED
      BY <3>3, <3>4
  <2> QED
    BY <1>16, <1>t, <2>2, <2>3, LoadShape
<1>17. CASE RetryLoad \/ Reload \/ Crash
  BY <1>16, <1>17 DEF RetryLoad, Reload, Crash, Arm, settled
<1>18. CASE EnqueueAbandon
  BY <1>18 DEF EnqueueAbandon
<1> QED
  BY <1>1, <1>2, <1>3, <1>4, <1>5, <1>6, <1>7, <1>8, <1>9, <1>10, <1>11, <1>12, <1>13, <1>14,
     <1>15, <1>17, <1>18 DEF Next, Reader, Drainer, Quiet

\* Deliveries follow the order of the file.
LEMMA InTurnNext ==
    ASSUME TypeInv, TypeInv', OrderInv, FileInv, Found, InTurn, ~unclosed, [Next]_vars
    PROVE  InTurn'
<1>t. /\ TypeOK /\ jsonl \in File /\ q \in Queue /\ q.offset \in Nat
      /\ emitted \in Nat /\ drainer.event \in Nat
      /\ kept \subseteq Nat /\ delivered \subseteq Nat
  <2>1. TypeOK
    BY DEF TypeInv
  <2>2. Events \subseteq Nat /\ NoEvent \in Nat
    BY DEF Events, NoEvent
  <2>3. kept \subseteq Nat /\ delivered \subseteq Nat
    BY <2>1, <2>2 DEF TypeOK
  <2>4. drainer.event \in Events \cup {NoEvent} /\ emitted \in Nat
    BY <2>1 DEF TypeOK
  <2> QED
    BY <2>1, <2>2, <2>3, <2>4, FileOf
<1>r. drainer \in [pc : {"off", "peek", "leave", "decide", "deliver", "advance",
                         "expire"} \cup DrainerHolds,
                   event : Events \cup {NoEvent}, at : Nat]
  BY <1>t DEF TypeOK
<1>l. q.unknown => reader.pc = "idle" /\ drainer.pc \in {"off", "peek"}
  BY DEF TypeInv, Locks
<1>a. /\ \A e \in Unsettled, f \in delivered : f < e
      /\ Peeked => \A e \in Unsettled : drainer.event <= e
      /\ drainer.pc = "advance" => drainer.event \in delivered
  BY DEF InTurn
<1>o. /\ \A e \in kept \cup delivered \cup dropped : e <= Newest
      /\ drainer.event <= Newest
  BY DEF OrderInv
<1>g. delivered \subseteq delivered'
  BY SettledGrows
\* Steps that deliver nothing and peek at nothing.
<1>h. ASSUME Unsettled' \subseteq Unsettled, delivered' = delivered,
             Peeked' => Peeked /\ drainer'.event = drainer.event,
             drainer'.pc = "advance" => drainer.pc = "advance" /\ drainer'.event = drainer.event
      PROVE  InTurn'
  BY <1>h, <1>a DEF InTurn
<1>1. CASE UNCHANGED vars
  BY <1>1, <1>h DEF vars, history, settled, Unsettled, Peeked
<1>2. CASE Quiet
  <2>1. UNCHANGED <<kept, delivered, dropped>>
    BY <1>2, QuietShape
  <2>2. Unsettled' \subseteq Unsettled
    BY <2>1 DEF Unsettled
  <2>3. /\ Peeked' => Peeked /\ drainer'.event = drainer.event
        /\ drainer'.pc = "advance" => drainer' = drainer
    BY <1>2, QuietShape
  <2> QED
    BY <2>1, <2>2, <2>3, <1>h
<1>3. CASE RouteDirect
  <2>1. /\ reader.pc = "route" /\ q.pending = 0 /\ UNCHANGED <<drainer, kept, dropped>>
    BY <1>3 DEF RouteDirect
  <2>2. Unsettled = {}
    BY <2>1, <1>l, NothingWaits
  <2>3. Unsettled' = {}
    BY <2>1, <2>2, <1>g DEF Unsettled
  <2> QED
    BY <2>1, <2>3, <1>a, <1>g DEF InTurn
<1>4. CASE EnqueueAppend
  <2>1. /\ reader.pc = "append" /\ kept' = kept \cup {emitted}
        /\ UNCHANGED <<drainer, delivered, dropped>>
    BY <1>4 DEF EnqueueAppend
  <2>2. Newest = emitted - 1
    BY <2>1 DEF Newest, InHand
  <2>3. Unsettled' \subseteq Unsettled \cup {emitted}
    BY <2>1 DEF Unsettled
  <2>4. \A f \in delivered : f < emitted
    BY <2>2, <1>o, <1>t
  <2>5. drainer.event <= emitted
    BY <2>2, <1>o, <1>t
  <2>6. Peeked' <=> Peeked
    BY <2>1 DEF Peeked
  <2> QED
    BY <2>1, <2>3, <2>4, <2>5, <2>6, <1>a DEF InTurn
<1>5. CASE Deliver
  <2>1. /\ drainer.pc = "deliver" /\ delivered' = delivered \cup {drainer.event}
        /\ UNCHANGED <<kept, dropped>> /\ drainer'.event = drainer.event
    BY <1>5, <1>r DEF Deliver, Go
  <2>2. \A e \in Unsettled : drainer.event <= e
    BY <2>1, <1>a DEF Peeked
  <2>3. \A e \in Unsettled' : e \in Unsettled /\ e # drainer.event /\ e \in Nat
    BY <2>1, <1>t DEF Unsettled
  <2>4. \A e \in Unsettled' : drainer.event < e
    BY <2>2, <2>3, <1>t
  <2> QED
    BY <2>1, <2>2, <2>3, <2>4, <1>a DEF InTurn
<1>6. CASE PeekHead
  <2>1. /\ UNCHANGED <<jsonl, kept, delivered, dropped>> /\ EventAt(jsonl, q.offset) # NoEvent
        /\ drainer'.event = EventAt(jsonl, q.offset) /\ drainer'.pc = "decide"
        /\ ~q.unknown
    BY <1>6 DEF PeekHead, Peeking, disk, history, settled
  <2>2. /\ EventAt(jsonl, q.offset) = jsonl[q.offset + 1] /\ q.offset + 1 \in 1 .. Len(jsonl)
        /\ jsonl[q.offset + 1] \in Nat \ {0}
    BY <2>1, <1>t, EventAtFacts
  <2>3. ASSUME NEW e \in Unsettled PROVE drainer'.event <= e
    <3>1. e \in Waiting(jsonl, q.offset)
      BY <2>1 DEF Found
    <3>2. PICK k \in Nat : /\ q.offset <= k /\ k + 1 \in 1 .. Len(jsonl) /\ e = jsonl[k + 1]
                           /\ jsonl[k + 1] \in Nat \ {0}
      BY <3>1, <1>t, WaitingCell
    <3>3. CASE k = q.offset
      BY <2>1, <2>2, <3>2, <3>3
    <3>4. CASE k # q.offset
      <4>1. q.offset + 1 < k + 1 /\ jsonl[q.offset + 1] > 0 /\ jsonl[k + 1] > 0
        BY <2>2, <3>2, <3>4, <1>t
      <4>2. jsonl[q.offset + 1] < jsonl[k + 1]
        BY <2>2, <3>2, <4>1 DEF OrderInv, CellsInOrder
      <4> QED
        BY <2>1, <2>2, <3>2, <4>2
    <3> QED
      BY <3>3, <3>4
  <2> QED
    BY <2>1, <2>3, <1>a DEF InTurn, Unsettled
<1>7. CASE \/ EnqueueProtect \/ EnqueueReset \/ EnqueueAppendFails
           \/ EnqueueAppendTorn \/ EnqueueTruncate \/ EnqueueRealign \/ EnqueueAbandon
           \/ EnqueueCaps
  <2>1. UNCHANGED <<drainer, delivered>> /\ ~EnqueueAppend
    BY <1>7 DEF EnqueueProtect, EnqueueReset, EnqueueAppendFails, EnqueueAppendTorn,
       EnqueueTruncate, EnqueueRealign, EnqueueAbandon, EnqueueCaps, EnqueueAppend, history, settled
  <2> QED
    BY <2>1, <1>h, SettledGrows DEF Peeked
<1>8. CASE \/ PeekSkip \/ DecideExpire \/ Advance
           \/ CompactCursor \/ CompactRename \/ PersistCursor \/ Reclaim \/ Unlink
  <2>1. UNCHANGED <<reader, kept, delivered>>
    BY <1>8 DEF PeekSkip, DecideExpire, Advance, CompactCursor, CompactRename, PersistCursor,
       Reclaim, Unlink, history, settled
  <2>2. Unsettled' \subseteq Unsettled
    BY <2>1, SettledGrows DEF Unsettled
  <2>3. CASE DecideExpire
    BY <2>1, <2>2, <2>3, <1>h, <1>r DEF DecideExpire, Go, Peeked
  <2>4. CASE ~DecideExpire
    <3>1. drainer'.pc \notin {"decide", "deliver", "advance", "expire"}
      BY <1>8, <2>4, <1>r DEF PeekSkip, Advance, Consumed, CompactCursor, CompactRename,
         PersistCursor, Reclaim, Unlink, Go, Park, Off, Peek
    <3> QED
      BY <2>1, <2>2, <3>1, <1>h DEF Peeked
  <2> QED
    BY <2>3, <2>4
<1>9. CASE RetryLoad
  <2>1. UNCHANGED <<drainer, kept, delivered, dropped>>
    BY <1>9 DEF RetryLoad, settled
  <2> QED
    BY <2>1, <1>h DEF Peeked, Unsettled
<1>10. CASE Reload \/ Crash
  <2>1. UNCHANGED <<kept, delivered, dropped>> /\ drainer'.pc \in {"off", "peek"}
    BY <1>10 DEF Reload, Crash, Arm, settled, Off, Peek
  <2> QED
    BY <2>1, <1>h DEF Peeked, Unsettled
<1> QED
  BY <1>1, <1>2, <1>3, <1>4, <1>5, <1>6, <1>7, <1>8, <1>9, <1>10 DEF Next, Reader, Drainer, Quiet

\* What is retained beside a marker keeps it until it is delivered.
LEMMA ShieldsNext ==
    ASSUME TypeInv, TypeInv', OrderInv, MarkerInv, FileInv, Found, Found', Shields,
           ~unclosed, ~unclosed', [Next]_vars
    PROVE  Shields'
<1>t. /\ TypeOK /\ jsonl \in File /\ q \in Queue /\ q.offset \in Nat /\ q.pending \in Nat
      /\ marker \in BOOLEAN /\ q.parked \in BOOLEAN /\ q.unknown \in BOOLEAN
  BY FileOf DEF TypeInv, TypeOK
<1>r. /\ reader \in [pc : {"idle", "route", "enqueue", "wake"} \cup ReaderHolds,
                     park : BOOLEAN, undo : {"nothing", "marker", "error"}]
      /\ drainer \in [pc : {"off", "peek", "leave", "decide", "deliver", "advance",
                            "expire"} \cup DrainerHolds,
                      event : Events \cup {NoEvent}, at : Nat]
  BY <1>t DEF TypeOK
<1>k. shielded \subseteq kept
  BY <1>t DEF TypeOK
<1>l. q.unknown => reader.pc = "idle" /\ drainer.pc \in {"off", "peek"}
  BY DEF TypeInv, Locks
<1>m. /\ ~q.unknown => marker = q.parked
      /\ reader.undo = "nothing" \/ reader.pc \in {"reset", "append", "torn"}
  BY DEF MarkerInv
<1>a. Unsettled \cap shielded # {} => marker
  BY DEF Shields
<1>b. drainer.pc = "expire" /\ drainer.event \in shielded => drainer.event \in delivered
  BY DEF Shields
<1>c. reader.pc \in {"reset", "append", "torn"} /\ reader.undo = "marker"
         => Unsettled \cap shielded = {}
  BY DEF Shields
<1>d. shielded \cap dropped \subseteq delivered
  BY DEF Shields
\* What a step has to leave alone.
<1>h. ASSUME UNCHANGED <<kept, shielded, dropped>>, delivered \subseteq delivered',
             Unsettled \cap shielded # {} /\ marker => marker',
             drainer'.pc = "expire" => drainer.pc = "expire" /\ drainer'.event = drainer.event,
             reader'.pc \in {"reset", "append", "torn"} /\ reader'.undo = "marker" =>
                reader.pc \in {"reset", "append", "torn"} /\ reader.undo = "marker"
      PROVE  Shields'
  <2>1. Unsettled' \subseteq Unsettled
    BY <1>h DEF Unsettled
  <2>2. Unsettled' \cap shielded' # {} => marker'
    BY <1>h, <1>a, <2>1
  <2>3. drainer'.pc = "expire" /\ drainer'.event \in shielded' => drainer'.event \in delivered'
    BY <1>h, <1>b
  <2>4. reader'.pc \in {"reset", "append", "torn"} /\ reader'.undo = "marker"
           => Unsettled' \cap shielded' = {}
    BY <1>h, <1>c, <2>1
  <2>5. shielded' \cap dropped' \subseteq delivered'
    BY <1>h, <1>d
  <2> QED
    BY <2>2, <2>3, <2>4, <2>5 DEF Shields
<1>s. ASSUME NEW m \in Queue, Refuse(m), reader.pc \in {"reset", "append", "torn"},
             UNCHANGED <<kept, shielded, delivered, dropped, drainer>>
      PROVE  Shields'
  <2>1. reader' = Idle /\ (reader.undo # "marker" => marker' = marker)
    BY <1>s, <1>t, RefuseShape
  <2>2. reader'.undo = "nothing"
    BY <2>1 DEF Idle
  <2> QED
    BY <1>s, <1>c, <1>h, <2>1, <2>2
\* Without protection nothing that is shielded is unsettled.
<1>p. ASSUME ~Protected(q), ~q.unknown PROVE Unsettled \cap shielded = {}
  BY <1>p, <1>a, <1>m DEF Protected
<1>1. CASE UNCHANGED vars
  BY <1>1, <1>h DEF vars, disk, history, settled
<1>2. CASE Quiet
  <2>1. /\ UNCHANGED <<kept, shielded, delivered, dropped>> /\ (marker => marker')
        /\ reader'.pc \in ReaderHolds => reader' = reader
        /\ drainer'.pc = "expire" => drainer' = drainer
    BY <1>2, QuietShape
  <2> QED
    BY <2>1, <1>h DEF ReaderHolds
<1>3. CASE RouteDirect
  <2>1. /\ UNCHANGED <<kept, shielded, dropped, marker, drainer>> /\ delivered \subseteq delivered'
        /\ reader'.pc = "idle"
    BY <1>3 DEF RouteDirect, disk, Idle
  <2> QED
    BY <2>1, <1>h
<1>4. CASE \/ PeekHead \/ PeekSkip \/ Deliver \/ CompactCursor \/ CompactRename
           \/ PersistCursor \/ Reclaim
  <2>1. /\ UNCHANGED <<kept, shielded, dropped, marker, reader>> /\ delivered \subseteq delivered'
    BY <1>4 DEF PeekHead, PeekSkip, Deliver, CompactCursor, CompactRename, PersistCursor, Reclaim,
       disk, history, settled
  <2>2. drainer'.pc # "expire"
    BY <1>4, <1>r DEF PeekHead, PeekSkip, Deliver, CompactCursor, CompactRename, PersistCursor,
       Reclaim, Go, Park, Off, Peek
  <2> QED
    BY <2>1, <2>2, <1>h
<1>5. CASE DecideExpire
  <2>1. /\ UNCHANGED <<kept, shielded, delivered, dropped, marker, reader>>
        /\ drainer.pc = "decide" /\ ~Protected(q) /\ drainer'.event = drainer.event
    BY <1>5, <1>r DEF DecideExpire, Go, disk, history, settled
  <2>2. Unsettled \cap shielded = {}
    BY <2>1, <1>l, <1>p
  <2>3. drainer'.event \in shielded' => drainer'.event \in delivered'
    BY <2>1, <2>2, <1>k, <1>d DEF Unsettled
  <2>4. Unsettled' = Unsettled
    BY <2>1 DEF Unsettled
  <2> QED
    BY <2>1, <2>3, <2>4, <1>a, <1>c, <1>d DEF Shields
<1>6. CASE EnqueueProtect
  <2>1. /\ UNCHANGED <<kept, shielded, delivered, dropped, drainer, jsonl>>
        /\ reader.pc = "enqueue" /\ reader.undo = "nothing" /\ ~q.unknown
    BY <1>6, <1>m, <1>l DEF EnqueueProtect, history, settled
  <2>2. CASE ~reader.park /\ q.pending > 0 /\ At("reset") /\ UNCHANGED <<marker, q>>
    <3>1. reader'.undo = "nothing"
      BY <2>1, <2>2, <1>r DEF At
    <3> QED
      BY <2>1, <2>2, <3>1, <1>h
  <2>3. CASE ~reader.park /\ q.pending = 0 /\ At("reset")
    <3>1. reader'.undo = "nothing"
      BY <2>1, <2>3, <1>r DEF At
    <3>2. Unsettled = {}
      BY <2>1, <2>3, NothingWaits
    <3> QED
      BY <2>1, <3>1, <3>2, <1>h
  <2>4. CASE reader' = Idle /\ UNCHANGED <<marker, q>>
    <3>1. reader'.undo = "nothing"
      BY <2>4 DEF Idle
    <3> QED
      BY <2>1, <2>4, <3>1, <1>h
  <2>5. CASE /\ MarkLimitParked
             /\ reader' = [reader EXCEPT
                   !.pc = "reset",
                   !.undo = IF marker' # marker /\ ~Protected(q) THEN "marker"
                            ELSE IF q'.parkErr /\ ~q.parkErr THEN "error"
                            ELSE "nothing"]
    <3>1. marker => marker'
      BY <2>5, <1>t, MarkShape
    <3>2. CASE marker' # marker /\ ~Protected(q)
      <4>1. Unsettled \cap shielded = {}
        BY <2>1, <3>2, <1>p
      <4>2. Unsettled' = Unsettled
        BY <2>1 DEF Unsettled
      <4> QED
        BY <2>1, <4>1, <4>2, <1>b, <1>d DEF Shields
    <3>3. CASE ~(marker' # marker /\ ~Protected(q))
      <4>1. reader'.undo # "marker"
        BY <2>5, <3>3, <1>r
      <4> QED
        BY <2>1, <3>1, <4>1, <1>h
    <3> QED
      BY <3>2, <3>3
  <2> QED
    BY <1>6, <2>2, <2>3, <2>4, <2>5 DEF EnqueueProtect
<1>7. CASE EnqueueReset
  <2>1. UNCHANGED <<kept, shielded, delivered, dropped, drainer>> /\ reader.pc = "reset"
    BY <1>7 DEF EnqueueReset, history, settled
  <2>2. CASE Refuse(q)
    BY <2>1, <2>2, <1>s, <1>t
  <2>3. CASE At("append") /\ UNCHANGED marker
    <3>1. reader'.undo = reader.undo
      BY <2>3, <1>r DEF At
    <3> QED
      BY <2>1, <2>3, <3>1, <1>h
  <2> QED
    BY <1>7, <2>2, <2>3 DEF EnqueueReset
<1>8. CASE EnqueueAppendFails \/ EnqueueTruncate
  <2>1. /\ UNCHANGED <<kept, shielded, delivered, dropped, drainer>>
        /\ reader.pc \in {"append", "torn"} /\ Refuse(q)
    BY <1>8 DEF EnqueueAppendFails, EnqueueTruncate, history, settled
  <2> QED
    BY <2>1, <1>s, <1>t
<1>9. CASE EnqueueRealign
  <2>1. /\ UNCHANGED <<kept, shielded, delivered, dropped, drainer>> /\ reader.pc = "torn"
    BY <1>9 DEF EnqueueRealign, history, settled
  <2>2. reader' = Idle /\ (reader.undo # "marker" => marker' = marker)
    BY <1>9, <1>t, RealignShape
  <2>3. reader'.undo = "nothing"
    BY <2>2 DEF Idle
  <2> QED
    BY <2>1, <2>2, <2>3, <1>c, <1>h
<1>10. CASE EnqueueAppendTorn
  <2>1. /\ UNCHANGED <<kept, shielded, delivered, dropped, drainer, marker>>
        /\ reader.pc = "append" /\ reader'.undo = reader.undo
    BY <1>10, <1>r DEF EnqueueAppendTorn, At, history, settled
  <2> QED
    BY <2>1, <1>h
<1>11. CASE EnqueueAppend
  <2>1. /\ reader.pc = "append" /\ kept' = kept \cup {emitted}
        /\ shielded' = IF marker THEN shielded \cup {emitted} ELSE shielded
        /\ UNCHANGED <<drainer, delivered, dropped, marker>>
        /\ reader'.undo = "nothing"
    BY <1>11 DEF EnqueueAppend, Idle
  <2>2. Newest = emitted - 1 /\ emitted \in Nat
    BY <2>1, <1>t DEF Newest, InHand, TypeOK
  <2>3. emitted \notin kept \cup dropped /\ emitted # drainer.event
    <3>1. /\ \A e \in kept \cup delivered \cup dropped : e <= emitted - 1
          /\ drainer.event <= emitted - 1
      BY <2>2 DEF OrderInv
    <3>2. ~(emitted <= emitted - 1)
      BY <2>2
    <3> QED
      BY <3>1, <3>2
  <2>4. Unsettled' \subseteq Unsettled \cup {emitted}
    BY <2>1 DEF Unsettled
  <2>5. Unsettled' \cap shielded' # {} => marker'
    BY <2>1, <2>3, <2>4, <1>a, <1>k
  <2>6. drainer'.pc = "expire" /\ drainer'.event \in shielded' => drainer'.event \in delivered'
    BY <2>1, <2>3, <1>b
  <2>7. shielded' \cap dropped' \subseteq delivered'
    BY <2>1, <2>3, <1>d
  <2> QED
    BY <2>1, <2>5, <2>6, <2>7 DEF Shields
<1>12. CASE EnqueueCaps
  <2>1. /\ reader.pc = "caps" /\ UNCHANGED <<jsonl, marker, drainer, kept, shielded, delivered>>
        /\ reader'.pc = "wake" /\ ~q.unknown
    BY <1>12, <1>l, <1>r DEF EnqueueCaps, At
  <2>2. CASE dropped' = dropped
    BY <2>1, <2>2, <1>h
  <2>3. CASE ~Protected(q) /\ DropOldestOverCaps
    <3>1. Unsettled \cap shielded = {}
      BY <2>1, <2>3, <1>p
    <3>2. shielded \subseteq delivered
      BY <3>1, <1>k, <1>d DEF Unsettled
    <3>3. dropped \subseteq dropped' /\ Unsettled' \subseteq Unsettled
      <4>1. dropped \subseteq dropped'
        BY <2>3, <1>t, DropShape
      <4> QED
        BY <2>1, <4>1 DEF Unsettled
    <3> QED
      BY <2>1, <3>1, <3>2, <3>3 DEF Shields
  <2> QED
    BY <1>12, <2>2, <2>3 DEF EnqueueCaps
<1>13. CASE Advance
  <2>1. /\ UNCHANGED <<marker, reader, kept, shielded, delivered>>
        /\ dropped' = IF drainer.pc = "expire" THEN dropped \cup {drainer.event} ELSE dropped
        /\ drainer'.pc # "expire"
    BY <1>13, <1>r DEF Advance, Go, Consumed, disk
  <2>2. shielded' \cap dropped' \subseteq delivered'
    BY <2>1, <1>b, <1>d
  <2>3. Unsettled' \subseteq Unsettled
    BY <2>1 DEF Unsettled
  <2> QED
    BY <2>1, <2>2, <2>3, <1>a, <1>c DEF Shields
<1>14. CASE Unlink
  <2>1. /\ UNCHANGED <<kept, shielded, delivered, dropped, reader>> /\ drainer.pc = "unlink"
        /\ drainer'.pc # "expire"
    BY <1>14, <1>r DEF Unlink, Go, Park, Off, Peek, history, settled
  <2>2. jsonl = <<>>
    BY <2>1 DEF TypeInv, SizeFits
  <2>3. Unsettled = {}
    BY <2>2, NothingWaits
  <2> QED
    BY <2>1, <2>3, <1>h
<1>15. ASSUME Load, UNCHANGED <<kept, shielded, delivered, dropped>>,
              drainer'.pc \in {"off", "peek"}, reader'.pc = "idle"
       PROVE  Shields'
  <2>1. Unsettled \cap shielded # {} /\ marker => marker'
    <3>1. CASE UNCHANGED marker
      BY <3>1
    <3>2. CASE \E off \in Nat : off <= Len(jsonl) /\ LoadFrom(off)
      <4>1. PICK off \in Nat : off <= Len(jsonl) /\ LoadFrom(off)
        BY <3>2
      <4>2. /\ jsonl' \in File /\ q'.offset = off /\ ~q'.unknown
            /\ marker' = (marker /\ q'.pending > 0)
            /\ q'.pending = Lines(jsonl', off)
        BY <4>1, <1>t, LoadFromShape
      <4>3. ASSUME NEW e \in Unsettled PROVE q'.pending > 0
        <5>1. e \in Unsettled'
          BY <1>15, <4>3 DEF Unsettled
        <5>2. e \in Waiting(jsonl', off)
          BY <4>2, <5>1 DEF Found
        <5>3. Lines(jsonl', off) # 0
          BY <4>2, <5>2, WaitingNone
        <5>4. Lines(jsonl', off) \in Nat
          BY <4>2, FileFacts
        <5> QED
          BY <4>2, <5>3, <5>4
      <4> QED
        BY <4>2, <4>3
    <3> QED
      BY <1>15, <1>t, <3>1, <3>2, LoadShape
  <2> QED
    BY <1>15, <2>1, <1>h
<1>16. CASE RetryLoad
  <2>1. /\ Load /\ UNCHANGED <<kept, shielded, delivered, dropped, reader, drainer>> /\ q.unknown
    BY <1>16 DEF RetryLoad, settled
  <2> QED
    BY <2>1, <1>l, <1>15
<1>17. CASE Reload \/ Crash
  BY <1>15, <1>17 DEF Reload, Crash, Arm, settled, Idle, Off, Peek
<1>18. CASE EnqueueAbandon
  BY <1>18 DEF EnqueueAbandon
<1> QED
  BY <1>1, <1>2, <1>3, <1>4, <1>5, <1>6, <1>7, <1>8, <1>9, <1>10, <1>11, <1>12, <1>13, <1>14,
     <1>16, <1>17, <1>18 DEF Next, Reader, Drainer, Quiet

-----------------------------------------------------------------------------
\* The inductive invariant.
QueueInv == TypeInv /\ OrderInv /\ MarkerInv /\ FileInv /\ Retained

\* It holds of an empty queue.
LEMMA QueueInit == Init => QueueInv
BY TypeInit, OrderInit, MarkerInit, FileInit, RetainedInit DEF QueueInv

\* Every step keeps it.
LEMMA QueueNext == QueueInv /\ [Next]_vars => QueueInv'
<1> SUFFICES ASSUME QueueInv, [Next]_vars PROVE QueueInv'
  OBVIOUS
<1>1. TypeInv /\ OrderInv /\ MarkerInv /\ FileInv /\ Retained
  BY DEF QueueInv
<1>2. TypeInv'
  BY <1>1, TypeNext
<1>3. OrderInv' /\ MarkerInv' /\ FileInv'
  BY <1>1, <1>2, OrderNext, MarkerNext, FileNext
<1>4. Retained'
  <2>1. SUFFICES ASSUME ~unclosed' PROVE Found' /\ InTurn' /\ Shields'
    BY DEF Retained
  <2>2. ~unclosed
    BY <1>1, <2>1, UnclosedStays
  <2>3. Found /\ InTurn /\ Shields
    BY <1>1, <2>2 DEF Retained
  <2>4. Found'
    BY <1>1, <1>2, <1>3, <2>1, <2>2, <2>3, FoundNext
  <2>5. InTurn'
    BY <1>1, <1>2, <2>2, <2>3, InTurnNext
  <2>6. Shields'
    BY <1>1, <1>2, <2>1, <2>2, <2>3, <2>4, ShieldsNext
  <2> QED
    BY <2>4, <2>5, <2>6
<1> QED
  BY <1>2, <1>3, <1>4 DEF QueueInv

\* The queue and its files agree in every behaviour.
THEOREM QueueInvariant == Spec => []QueueInv
BY QueueInit, QueueNext, PTL DEF Spec

\* A retained event is readable, now and after a crash, until it is delivered,
\* evicted or expired (eventqueue.go: an event the queue took is never lost).
THEOREM RetainedEventsSettle == Spec => []RetainedIsSettled
<1>1. QueueInv => RetainedIsSettled
  BY DEF QueueInv, Retained, Found, Unsettled, RetainedIsSettled
<1> QED
  BY <1>1, QueueInvariant, PTL

\* The count and the size that the queue keeps in memory are those of its file.
THEOREM CountIsRight == Spec => []CountMatchesLines
<1>1. QueueInv => CountMatchesLines
  <2> SUFFICES ASSUME QueueInv, QueueFree, ~q.unknown, ~unclosed
               PROVE  q.size = Len(jsonl) /\ q.pending = Lines(jsonl, q.offset)
    BY DEF CountMatchesLines
  <2>1. drainer.pc # "unlink" /\ reader.pc # "torn"
    BY DEF QueueFree, ReaderHolds, DrainerHolds
  <2>2. InStep
    BY <2>1 DEF QueueInv, FileInv, Counted
  <2> QED
    BY <2>1, <2>2 DEF InStep
<1> QED
  BY <1>1, QueueInvariant, PTL

\* What was retained beside a marker is neither evicted nor expired before it
\* was delivered (limitProtectedLocked), across restarts too.
THEOREM ShieldsHold == Spec => []ShieldedStay
<1>1. QueueInv => ShieldedStay
  BY DEF QueueInv, Retained, Shields, ShieldedStay
<1> QED
  BY <1>1, QueueInvariant, PTL

\* A retained event is delivered before every later one (handleEvent and
\* drainLoop keep the order of the watch command).
THEOREM DeliveryInOrder == Spec => OrderKept
<1> DEFINE Kept == unclosed \/ \A e \in (delivered' \ delivered) \cap (kept \ dropped) :
                                  \A f \in delivered : f < e
<1>1. ASSUME QueueInv, [Next]_vars PROVE [Kept]_vars
  <2>1. SUFFICES ASSUME ~unclosed, NEW e \in (delivered' \ delivered) \cap (kept \ dropped),
                        NEW f \in delivered
                 PROVE  f < e
    OBVIOUS
  <2>2. TypeInv /\ OrderInv /\ Found /\ InTurn
    BY <1>1, <2>1 DEF QueueInv, Retained
  <2>3. RouteDirect \/ Deliver
    BY <1>1, <2>1, <2>2, SettledGrows
  <2>4. CASE RouteDirect
    <3>1. e = emitted /\ reader.pc = "route"
      BY <2>1, <2>4 DEF RouteDirect
    <3>2. emitted \in Nat /\ Newest = emitted - 1
      BY <2>2, <3>1 DEF TypeInv, TypeOK, Newest, InHand
    <3>3. e <= emitted - 1
      BY <2>1, <2>2, <3>2 DEF OrderInv
    <3> QED
      BY <3>1, <3>2, <3>3
  <2>5. CASE Deliver
    <3>1. e \in Unsettled
      BY <2>1 DEF Unsettled
    <3> QED
      BY <2>1, <2>2, <3>1 DEF InTurn
  <2> QED
    BY <2>3, <2>4, <2>5
<1>2. OrderKept <=> [][Kept]_vars
  BY DEF OrderKept
<1> HIDE DEF Kept
<1>3. QueueInv /\ [Next]_vars => [Kept]_vars
  BY <1>1
<1> QED
  BY <1>2, <1>3, QueueInvariant, PTL DEF Spec
=============================================================================
