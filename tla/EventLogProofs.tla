--------------------------- MODULE EventLogProofs ---------------------------
(***************************************************************************)
(* Lemmas about the queue file: what its readers find after an append, a   *)
(* cut, and a compaction, and that skipping n lines skips n lines.         *)
(***************************************************************************)
EXTENDS EventLog, FiniteSetTheorems, TLAPS

\* Every set of naturals that is not empty has a least element.
LEMMA LeastOf ==
    ASSUME NEW S \in SUBSET Nat, S # {}
    PROVE  Min(S) \in S /\ \A k \in S : Min(S) <= k
<1>1. PICK x \in S : \A y \in S : ~ (<<y, x>> \in OpToRel(<, Nat))
  BY NatLessThanWellFounded, WFMin
<1>2. \A y \in S : y < x => <<y, x>> \in OpToRel(<, Nat)
  <2> SUFFICES ASSUME NEW y \in S, y < x PROVE <<y, x>> \in OpToRel(<, Nat)
    OBVIOUS
  <2>1. <<y, x>> \in Nat \X Nat /\ <<y, x>>[1] < <<y, x>>[2]
    OBVIOUS
  <2> QED
    BY <2>1, Zenon DEF OpToRel
<1>3. \A y \in S : x <= y
  <2>1. \A y \in S : ~ (y < x)
    BY <1>1, <1>2, Zenon
  <2> QED
    BY <2>1
<1> QED
  BY <1>3 DEF Min

\* A bounded one has a greatest.
LEMMA GreatestOf ==
    ASSUME NEW n \in Nat, NEW S \in SUBSET (0 .. n), S # {}
    PROVE  Max(S) \in S /\ \A k \in S : k <= Max(S)
<1> DEFINE U == {m \in Nat : \A k \in S : k <= m}
<1>1. n \in U /\ U \in SUBSET Nat
  OBVIOUS
<1>2. PICK m \in U : \A y \in U : m <= y
  BY <1>1, LeastOf
<1>3. m \in S
  <2>1. SUFFICES ASSUME m \notin S PROVE FALSE
    OBVIOUS
  <2>2. PICK k \in S : TRUE
    OBVIOUS
  <2>3. k < m /\ k \in Nat /\ m \in Nat
    BY <1>2, <2>1
  <2>4. m - 1 \in U
    BY <1>2, <2>1, <2>3
  <2> QED
    BY <1>2, <2>3, <2>4
<1> QED
  BY <1>2, <1>3 DEF Max

-----------------------------------------------------------------------------
File == Seq(Int)

\* The ends of lines form a finite set of positions.
LEMMA EndsFacts ==
    ASSUME NEW f, NEW off \in Nat, NEW upto \in Nat
    PROVE  /\ Ends(f, off, upto) \subseteq off + 1 .. upto
           /\ IsFiniteSet(Ends(f, off, upto))
           /\ Cardinality(Ends(f, off, upto)) \in Nat
<1>1. Ends(f, off, upto) \subseteq off + 1 .. upto
  BY DEF Ends
<1>2. IsFiniteSet(off + 1 .. upto)
  BY FS_Interval
<1>3. IsFiniteSet(Ends(f, off, upto))
  BY <1>1, <1>2, FS_Subset
<1> QED
  BY <1>1, <1>3, FS_CardinalityType

\* A file has a length and a number of lines.
LEMMA FileFacts ==
    ASSUME NEW f \in File
    PROVE  /\ Len(f) \in Nat
           /\ \A off \in Nat : Lines(f, off) \in Nat
           /\ \A k \in 1 .. Len(f) : f[k] \in Int
<1>1. Len(f) \in Nat /\ \A k \in 1 .. Len(f) : f[k] \in Int
  BY DEF File
<1> QED
  BY <1>1, EndsFacts DEF Lines

\* Lines are counted stretch by stretch.
LEMMA EndsSplit ==
    ASSUME NEW f, NEW a \in Nat, NEW b \in Nat, NEW c \in Nat, a <= b, b <= c
    PROVE  /\ Ends(f, a, c) = Ends(f, a, b) \cup Ends(f, b, c)
           /\ Cardinality(Ends(f, a, c)) =
                 Cardinality(Ends(f, a, b)) + Cardinality(Ends(f, b, c))
<1>1. Ends(f, a, c) = Ends(f, a, b) \cup Ends(f, b, c)
  BY DEF Ends
<1>2. Ends(f, a, b) \cap Ends(f, b, c) = {}
  BY DEF Ends
<1>3. Cardinality(Ends(f, a, b) \cap Ends(f, b, c)) = 0
  BY <1>2, FS_EmptySet
<1>4. Cardinality(Ends(f, a, b) \cup Ends(f, b, c)) =
         Cardinality(Ends(f, a, b)) + Cardinality(Ends(f, b, c)) - 0
  BY <1>3, EndsFacts, FS_Union
<1> QED
  BY <1>1, <1>4, EndsFacts

\* One cell more ends at most one line more.
LEMMA EndsOne ==
    ASSUME NEW f, NEW m \in Nat
    PROVE  Cardinality(Ends(f, m, m + 1)) = IF f[m + 1] = Newline THEN 1 ELSE 0
<1>1. CASE f[m + 1] = Newline
  <2>1. Ends(f, m, m + 1) = {m + 1}
    BY <1>1 DEF Ends
  <2> QED
    BY <1>1, <2>1, FS_Singleton
<1>2. CASE f[m + 1] # Newline
  <2>1. Ends(f, m, m + 1) = {}
    BY <1>2 DEF Ends
  <2> QED
    BY <1>2, <2>1, FS_EmptySet
<1> QED
  BY <1>1, <1>2

\* Among n lines or more there is one that is the n-th.
LEMMA NthLine ==
    ASSUME NEW f, NEW off \in Nat, NEW top \in Nat,
           NEW n \in Nat \ {0}, n <= Cardinality(Ends(f, off, top))
    PROVE  \E k \in Ends(f, off, top) : Cardinality(Ends(f, off, k)) = n
<1> DEFINE T == {m \in Nat : off <= m /\ m <= top /\ n <= Cardinality(Ends(f, off, m))}
<1>1. off <= top
  <2>1. SUFFICES ASSUME top < off PROVE FALSE
    OBVIOUS
  <2>2. Ends(f, off, top) = {}
    BY <2>1 DEF Ends
  <2> QED
    BY <2>2, FS_EmptySet
<1>2. top \in T /\ T \in SUBSET Nat
  BY <1>1
<1>3. PICK m \in T : \A y \in T : m <= y
  BY <1>2, LeastOf
<1>4. m # off
  <2>1. Ends(f, off, off) = {}
    BY DEF Ends
  <2>2. Cardinality(Ends(f, off, off)) = 0
    BY <2>1, FS_EmptySet
  <2> QED
    BY <1>3, <2>2
<1>5. m - 1 \in Nat /\ off <= m - 1 /\ m - 1 <= m /\ m <= top /\ m \in Nat
  BY <1>3, <1>4
<1>6. Cardinality(Ends(f, off, m - 1)) < n
  <2>1. m - 1 \notin T
    BY <1>3, <1>5
  <2>2. Cardinality(Ends(f, off, m - 1)) \in Nat
    BY <1>5, EndsFacts
  <2> QED
    BY <1>5, <2>1, <2>2
<1>7. Cardinality(Ends(f, off, m)) =
         Cardinality(Ends(f, off, m - 1)) + Cardinality(Ends(f, m - 1, m))
  BY <1>5, EndsSplit
<1>8. Cardinality(Ends(f, m - 1, m)) = IF f[m] = Newline THEN 1 ELSE 0
  <2>1. m - 1 + 1 = m
    BY <1>5
  <2> QED
    BY <1>5, <2>1, EndsOne
<1>9. Cardinality(Ends(f, off, m)) = n /\ f[m] = Newline
  <2>1. Cardinality(Ends(f, off, m - 1)) \in Nat /\ n <= Cardinality(Ends(f, off, m))
    BY <1>3, <1>5, EndsFacts
  <2> QED
    BY <1>6, <1>7, <1>8, <2>1
<1>10. m \in Ends(f, off, top)
  BY <1>5, <1>9 DEF Ends
<1> QED
  BY <1>9, <1>10

\* Skipping n lines moves to the end of the n-th, or of the file, and leaves the rest.
LEMMA AfterFacts ==
    ASSUME NEW f \in File, NEW off \in Nat, NEW n \in Nat
    PROVE  /\ After(f, off, n) \in Nat
           /\ off <= Len(f) => off <= After(f, off, n) /\ After(f, off, n) <= Len(f)
           /\ n \in 1 .. Lines(f, off) => /\ After(f, off, n) \in Ends(f, off, Len(f))
                                          /\ Cardinality(Ends(f, off, After(f, off, n))) = n
           /\ off <= Len(f) /\ n <= Lines(f, off)
                 => Lines(f, After(f, off, n)) = Lines(f, off) - n
<1>1. Len(f) \in Nat /\ Lines(f, off) \in Nat
  BY FileFacts
<1>2. CASE n = 0
  BY <1>1, <1>2 DEF After
<1>3. CASE n > Lines(f, off)
  BY <1>1, <1>3 DEF After
<1>4. CASE n # 0 /\ n <= Lines(f, off)
  <2> DEFINE k == After(f, off, n)
  <2>1. k \in Ends(f, off, Len(f)) /\ Cardinality(Ends(f, off, k)) = n
    <3>1. \E j \in Ends(f, off, Len(f)) : Cardinality(Ends(f, off, j)) = n
      BY <1>1, <1>4, NthLine DEF Lines
    <3>2. k = CHOOSE j \in Ends(f, off, Len(f)) : Cardinality(Ends(f, off, j)) = n
      BY <1>1, <1>4 DEF After
    <3> HIDE DEF k
    <3> QED
      BY <3>1, <3>2
  <2>2. k \in Nat /\ off <= k /\ k <= Len(f)
    BY <1>1, <2>1, EndsFacts
  <2> HIDE DEF k
  <2>3. Lines(f, off) = n + Lines(f, k)
    BY <1>1, <2>1, <2>2, EndsSplit DEF Lines
  <2>4. Lines(f, k) \in Nat
    BY <1>1, <2>2, EndsFacts DEF Lines
  <2>5. Lines(f, k) = Lines(f, off) - n
    BY <2>3, <2>4, <1>1
  <2> QED
    BY <1>1, <1>4, <2>1, <2>2, <2>5 DEF k
<1> QED
  BY <1>1, <1>2, <1>3, <1>4

\* A reader sees an end of a line exactly where the file has one.
LEMMA LineEndFacts ==
    ASSUME NEW f \in File, NEW off \in Nat
    PROVE  /\ LineEnd(f, off) \in Nat
           /\ LineEnd(f, off) = 0 <=> Lines(f, off) = 0
           /\ LineEnd(f, off) # 0 =>
                 /\ LineEnd(f, off) \in Ends(f, off, Len(f))
                 /\ \A k \in Ends(f, off, Len(f)) : LineEnd(f, off) <= k
                 /\ LineEnd(f, off) = After(f, off, 1)
<1> DEFINE E == Ends(f, off, Len(f))
<1>1. Len(f) \in Nat
  BY DEF File
<1>2. /\ E \subseteq off + 1 .. Len(f) /\ IsFiniteSet(E)
      /\ Cardinality(E) = 0 <=> E = {}
  BY <1>1, EndsFacts, FS_EmptySet
<1>3. CASE E = {}
  BY <1>2, <1>3 DEF LineEnd, Lines
<1>4. CASE E # {}
  <2>1. E \in SUBSET Nat
    BY <1>1, <1>2
  <2>2. LineEnd(f, off) = Min(E)
    BY <1>4 DEF LineEnd
  <2>3. Min(E) \in E /\ \A k \in E : Min(E) <= k
    BY <1>4, <2>1, LeastOf
  <2>4. Lines(f, off) \in Nat \ {0}
    BY <1>1, <1>2, <1>4, EndsFacts DEF Lines
  <2>5. After(f, off, 1) \in E /\ Cardinality(Ends(f, off, After(f, off, 1))) = 1
    <3>1. 1 \in 1 .. Lines(f, off)
      BY <2>4
    <3> QED
      BY <3>1, AfterFacts
  <2>8. \A k \in E : k \in off + 1 .. Len(f)
    BY <1>2
  <2> HIDE DEF E
  <2>6. Min(E) = After(f, off, 1)
    <3> DEFINE a == After(f, off, 1)
    <3>1. a \in Nat /\ off <= a /\ a <= Len(f) /\ Min(E) \in Nat /\ Min(E) <= a
      BY <1>1, <2>3, <2>5, <2>8
    <3>2. a \in Ends(f, off, a) /\ Min(E) \in Ends(f, off, a)
      BY <2>3, <2>5, <3>1 DEF Ends, E
    <3>3. PICK x : Ends(f, off, a) = {x}
      <4>1. IsFiniteSet(Ends(f, off, a)) /\ Cardinality(Ends(f, off, a)) = 1
        BY <2>5, <3>1, EndsFacts
      <4> QED
        BY <4>1, FS_Singleton
    <3> QED
      BY <3>2, <3>3
  <2>7. Min(E) \in Nat /\ Min(E) # 0
    BY <2>3, <2>8
  <2> QED
    BY <2>2, <2>3, <2>4, <2>6, <2>7 DEF E
<1> QED
  BY <1>3, <1>4

\* An event is a positive number, two cells before the end of its line.
LEMMA EventAtFacts ==
    ASSUME NEW f \in File, NEW off \in Nat, EventAt(f, off) # NoEvent
    PROVE  /\ off + 2 \in Ends(f, off, Len(f)) /\ LineEnd(f, off) = off + 2
           /\ off + 1 \in 1 .. Len(f)
           /\ EventAt(f, off) = f[off + 1] /\ f[off + 1] \in Nat \ {0}
<1>1. /\ LineEnd(f, off) = off + 2 /\ f[off + 1] > 0 /\ EventAt(f, off) = f[off + 1]
  BY DEF EventAt, NoEvent
<1>2. off + 2 \in Ends(f, off, Len(f))
  BY <1>1, LineEndFacts
<1>3. off + 2 <= Len(f) /\ Len(f) \in Nat
  BY <1>2, EndsFacts DEF File
<1>4. f[off + 1] \in Int
  BY <1>3 DEF File
<1> QED
  BY <1>1, <1>2, <1>3, <1>4

\* The head, then what follows the first line.
LEMMA WaitingHead ==
    ASSUME NEW f \in File, NEW off \in Nat, Lines(f, off) # 0
    PROVE  Waiting(f, off) \subseteq {EventAt(f, off)} \cup Waiting(f, After(f, off, 1))
<1> DEFINE a == After(f, off, 1)
<1>1. LineEnd(f, off) = a /\ LineEnd(f, off) # 0
  BY LineEndFacts
<1>2. a \in Ends(f, off, Len(f)) /\ \A k \in Ends(f, off, Len(f)) : a <= k
  BY <1>1, LineEndFacts
<1>3. Len(f) \in Nat /\ a \in Nat
  BY <1>2, EndsFacts DEF File
<1> HIDE DEF a
<1>4. \A k \in Ends(f, off, Len(f)) : k = a \/ k \in Ends(f, a, Len(f))
  BY <1>2, <1>3 DEF Ends
<1> QED
  BY <1>4 DEF Waiting, a

\* Without a line there is no event.
LEMMA WaitingNone ==
    ASSUME NEW f \in File, NEW off \in Nat, Lines(f, off) = 0
    PROVE  Waiting(f, off) = {}
<1>1. Ends(f, off, Len(f)) = {}
  <2>1. Len(f) \in Nat
    BY DEF File
  <2> QED
    BY <2>1, EndsFacts, FS_EmptySet DEF Lines
<1>2. EventAt(f, off) = NoEvent
  BY <1>1, EventAtFacts
<1> QED
  BY <1>1, <1>2 DEF Waiting

\* A boundary: the start of the file, or the end of a line.
Boundary(f, k) == k = 0 \/ (k \in 1 .. Len(f) /\ f[k] = Newline)

\* From an earlier start everything is found that is found from a boundary.
LEMMA WaitingEarlier ==
    ASSUME NEW f \in File, NEW a \in Nat, NEW b \in Nat, a <= b, Boundary(f, b)
    PROVE  Waiting(f, b) \subseteq Waiting(f, a)
<1>1. Ends(f, b, Len(f)) \subseteq Ends(f, a, Len(f))
  BY DEF Ends, File
<1>2. b = a \/ b \in Ends(f, a, Len(f))
  BY DEF Ends, Boundary, File
<1> QED
  BY <1>1, <1>2 DEF Waiting

\* Skipping lines leads from a boundary to a boundary.
LEMMA AfterBoundary ==
    ASSUME NEW f \in File, NEW off \in Nat, Boundary(f, off), NEW n \in 0 .. Lines(f, off)
    PROVE  Boundary(f, After(f, off, n))
<1>1. n = 0 => After(f, off, n) = off
  BY DEF After
<1>2. n # 0 => After(f, off, n) \in Ends(f, off, Len(f))
  <2>1. Lines(f, off) \in Nat
    BY FileFacts
  <2> QED
    BY <2>1, AfterFacts
<1>3. \A k \in Ends(f, off, Len(f)) : Boundary(f, k)
  BY DEF Ends, Boundary, File
<1> QED
  BY <1>1, <1>2, <1>3

\* An event reads the same wherever its body and its newline are copied to.
LEMMA SameEvent ==
    ASSUME NEW f \in File, NEW g \in File, NEW a \in Nat, NEW b \in Nat,
           EventAt(f, a) # NoEvent, b + 2 <= Len(g),
           g[b + 1] = f[a + 1], g[b + 2] = Newline
    PROVE  EventAt(g, b) = EventAt(f, a)
<1>1. EventAt(f, a) = f[a + 1] /\ f[a + 1] \in Nat \ {0}
  BY EventAtFacts
<1>2. Len(g) \in Nat
  BY FileFacts
<1>3. b + 2 \in Ends(g, b, Len(g)) /\ b + 1 \notin Ends(g, b, Len(g))
  BY <1>1, <1>2 DEF Ends, Newline
<1>4. \A k \in Ends(g, b, Len(g)) : b + 2 <= k
  <2> SUFFICES ASSUME NEW k \in Ends(g, b, Len(g)) PROVE b + 2 <= k
    OBVIOUS
  <2>1. k \in b + 1 .. Len(g)
    BY DEF Ends
  <2>2. k # b + 1
    BY <1>3
  <2> QED
    BY <2>1, <2>2, <1>2
<1>5. Lines(g, b) # 0
  <2>1. Ends(g, b, Len(g)) # {} /\ IsFiniteSet(Ends(g, b, Len(g)))
    BY <1>2, <1>3, EndsFacts
  <2> QED
    BY <2>1, FS_EmptySet DEF Lines
<1>6. /\ LineEnd(g, b) \in Ends(g, b, Len(g)) /\ LineEnd(g, b) \in Nat
      /\ \A k \in Ends(g, b, Len(g)) : LineEnd(g, b) <= k
  BY <1>5, LineEndFacts
<1>7. LineEnd(g, b) = b + 2
  <2>1. b + 2 <= LineEnd(g, b) /\ LineEnd(g, b) <= b + 2
    BY <1>3, <1>4, <1>6
  <2> QED
    BY <2>1, <1>6
<1>8. g[b + 1] = f[a + 1] /\ f[a + 1] > 0
  BY <1>1
<1> QED
  BY <1>1, <1>7, <1>8 DEF EventAt

\* A waiting event is the cell after the end of a line, and has a newline.
LEMMA WaitingCell ==
    ASSUME NEW f \in File, NEW off \in Nat, NEW e \in Waiting(f, off)
    PROVE  \E k \in {off} \cup Ends(f, off, Len(f)) :
              /\ k \in Nat /\ off <= k /\ e = EventAt(f, k) /\ EventAt(f, k) # NoEvent
              /\ k + 2 \in Ends(f, off, Len(f))
              /\ k + 1 \in 1 .. Len(f) /\ e = f[k + 1] /\ f[k + 1] \in Nat \ {0}
<1>1. PICK k \in {off} \cup Ends(f, off, Len(f)) : e = EventAt(f, k) /\ e # NoEvent
  BY DEF Waiting
<1>2. k \in Nat /\ off <= k
  BY FileFacts DEF Ends
<1>3. /\ k + 2 \in Ends(f, k, Len(f)) /\ k + 1 \in 1 .. Len(f)
      /\ EventAt(f, k) = f[k + 1] /\ f[k + 1] \in Nat \ {0}
  BY <1>1, <1>2, EventAtFacts
<1>4. k + 2 \in Ends(f, off, Len(f))
  BY <1>2, <1>3, FileFacts DEF Ends
<1> QED
  BY <1>1, <1>2, <1>3, <1>4

\* A cell more is a line more when it is a newline.
LEMMA EndsNext ==
    ASSUME NEW f, NEW off \in Nat, NEW m \in Nat, off <= m
    PROVE  Cardinality(Ends(f, off, m + 1)) =
              Cardinality(Ends(f, off, m)) + (IF f[m + 1] = Newline THEN 1 ELSE 0)
<1>1. Cardinality(Ends(f, off, m + 1)) =
         Cardinality(Ends(f, off, m)) + Cardinality(Ends(f, m, m + 1))
  BY EndsSplit
<1> QED
  BY <1>1, EndsOne

\* A file that grew by a cell keeps its lines, its events and its boundaries.
LEMMA GrowKeeps ==
    ASSUME NEW f \in File, NEW g \in File, NEW off \in Nat, off <= Len(f),
           Len(g) = Len(f) + 1, \A i \in 1 .. Len(f) : g[i] = f[i]
    PROVE  /\ Lines(g, off) = Lines(f, off) + (IF g[Len(f) + 1] = Newline THEN 1 ELSE 0)
           /\ Waiting(f, off) \subseteq Waiting(g, off)
           /\ \A k \in Nat : Boundary(f, k) => Boundary(g, k)
<1>1. /\ Len(g) = Len(f) + 1 /\ Len(f) \in Nat /\ Len(g) \in Nat
      /\ \A i \in 1 .. Len(f) : g[i] = f[i]
  BY FileFacts
<1>2. Ends(g, off, Len(f)) = Ends(f, off, Len(f))
  BY <1>1 DEF Ends
<1>3. Lines(g, off) = Lines(f, off) + (IF g[Len(f) + 1] = Newline THEN 1 ELSE 0)
  <2>0. Len(f) \in Nat /\ Len(f) + 1 \in Nat /\ off <= Len(f) /\ Len(f) <= Len(f) + 1
    BY <1>1
  <2>1. Cardinality(Ends(g, off, Len(f) + 1)) =
           Cardinality(Ends(g, off, Len(f))) + (IF g[Len(f) + 1] = Newline THEN 1 ELSE 0)
    BY <2>0, EndsNext
  <2> QED
    BY <2>1, <1>1, <1>2 DEF Lines
<1>4. Ends(f, off, Len(f)) \subseteq Ends(g, off, Len(g))
  BY <1>1 DEF Ends
<1>5. Waiting(f, off) \subseteq Waiting(g, off)
  <2> SUFFICES ASSUME NEW e \in Waiting(f, off) PROVE e \in Waiting(g, off)
    OBVIOUS
  <2>1. PICK k \in {off} \cup Ends(f, off, Len(f)) :
              /\ k \in Nat /\ e = EventAt(f, k) /\ EventAt(f, k) # NoEvent
              /\ k + 2 \in Ends(f, off, Len(f)) /\ k + 1 \in 1 .. Len(f)
    BY WaitingCell
  <2>2. k + 2 <= Len(f) /\ f[k + 2] = Newline /\ k + 2 \in 1 .. Len(f)
    BY <2>1, <1>1 DEF Ends
  <2>3. EventAt(g, k) = EventAt(f, k)
    <3>1. k + 2 <= Len(g) /\ g[k + 1] = f[k + 1] /\ g[k + 2] = Newline
      BY <1>1, <2>1, <2>2
    <3> QED
      BY <3>1, <2>1, <1>1, SameEvent
  <2> QED
    BY <1>4, <2>1, <2>3 DEF Waiting
<1>6. \A k \in Nat : Boundary(f, k) => Boundary(g, k)
  BY <1>1 DEF Boundary
<1> QED
  BY <1>3, <1>5, <1>6

\* The same of an append.
LEMMA GrowFacts ==
    ASSUME NEW f \in File, NEW x \in Int, NEW off \in Nat, off <= Len(f)
    PROVE  LET g == Append(f, x)
           IN  /\ g \in File /\ Len(g) = Len(f) + 1 /\ g[Len(f) + 1] = x
               /\ \A i \in 1 .. Len(f) : g[i] = f[i]
               /\ Lines(g, off) = Lines(f, off) + (IF x = Newline THEN 1 ELSE 0)
               /\ Waiting(f, off) \subseteq Waiting(g, off)
               /\ \A k \in Nat : Boundary(f, k) => Boundary(g, k)
               /\ x = Newline => Boundary(g, Len(g))
<1> DEFINE g == Append(f, x)
<1>1. /\ g \in File /\ Len(g) = Len(f) + 1 /\ g[Len(f) + 1] = x /\ Len(f) \in Nat
      /\ \A i \in 1 .. Len(f) : g[i] = f[i]
  BY DEF File
<1> HIDE DEF g
<1>2. /\ Lines(g, off) = Lines(f, off) + (IF g[Len(f) + 1] = Newline THEN 1 ELSE 0)
      /\ Waiting(f, off) \subseteq Waiting(g, off)
      /\ \A k \in Nat : Boundary(f, k) => Boundary(g, k)
  BY <1>1, GrowKeeps
<1>3. x = Newline => Boundary(g, Len(g))
  BY <1>1 DEF Boundary
<1> QED
  BY <1>1, <1>2, <1>3 DEF g

\* Cutting off what follows the last newline takes no line and no event.
LEMMA CutFacts ==
    ASSUME NEW f \in File, NEW n \in 0 .. Len(f), Ends(f, n, Len(f)) = {}
    PROVE  LET g == SubSeq(f, 1, n)
           IN  /\ g \in File /\ Len(g) = n
               /\ \A i \in 1 .. n : g[i] = f[i]
               /\ \A k \in 0 .. n : /\ Lines(g, k) = Lines(f, k)
                                    /\ Waiting(f, k) \subseteq Waiting(g, k)
                                    /\ Boundary(f, k) => Boundary(g, k)
<1> DEFINE g == SubSeq(f, 1, n)
<1>1. /\ g \in File /\ Len(g) = n /\ Len(f) \in Nat
      /\ \A i \in 1 .. n : g[i] = f[i]
  BY DEF File
<1> HIDE DEF g
<1>2. ASSUME NEW k \in 0 .. n
      PROVE  /\ Lines(g, k) = Lines(f, k)
             /\ Waiting(f, k) \subseteq Waiting(g, k)
             /\ Boundary(f, k) => Boundary(g, k)
  <2>0. k \in Nat /\ n \in Nat /\ Len(f) \in Nat /\ k <= n /\ n <= Len(f)
    BY <1>1
  <2>1. Ends(f, k, Len(f)) = Ends(f, k, n) \cup Ends(f, n, Len(f))
    <3>1. \A m \in Nat : n <= m => Ends(f, k, m) = Ends(f, k, n) \cup Ends(f, n, m)
      BY <2>0, EndsSplit
    <3> QED
      BY <3>1, <2>0
  <2>2. Ends(g, k, n) = Ends(f, k, n)
    BY <1>1 DEF Ends
  <2>3. Ends(g, k, Len(g)) = Ends(f, k, Len(f))
    BY <2>1, <2>2, <1>1
  <2>4. Lines(g, k) = Lines(f, k)
    BY <2>3 DEF Lines
  <2>5. ASSUME NEW e \in Waiting(f, k) PROVE e \in Waiting(g, k)
    <3>1. PICK j \in {k} \cup Ends(f, k, Len(f)) :
              /\ j \in Nat /\ e = EventAt(f, j) /\ EventAt(f, j) # NoEvent
              /\ j + 2 \in Ends(f, k, Len(f)) /\ j + 1 \in 1 .. Len(f)
      BY WaitingCell
    <3>2. j + 2 \in 1 .. n /\ f[j + 2] = Newline
      BY <3>1, <2>1, <1>1 DEF Ends
    <3>3. g[j + 1] = f[j + 1] /\ g[j + 2] = Newline /\ j + 2 <= Len(g)
      BY <3>1, <3>2, <1>1
    <3>4. EventAt(g, j) = EventAt(f, j)
      BY <3>1, <3>3, <1>1, SameEvent
    <3> QED
      BY <2>3, <3>1, <3>4 DEF Waiting
  <2>6. Boundary(f, k) => Boundary(g, k)
    BY <1>1 DEF Boundary
  <2> QED
    BY <2>4, <2>5, <2>6
<1> QED
  BY <1>1, <1>2 DEF g

\* A boundary moves with the cells.
LEMMA TailLines ==
    ASSUME NEW f \in File, NEW g \in File, NEW n \in Nat, n <= Len(f),
           Len(g) = Len(f) - n, \A i \in 1 .. Len(g) : g[i] = f[i + n]
    PROVE  Lines(g, 0) = Lines(f, n)
<1> DEFINE S == Ends(g, 0, Len(g))
           T == Ends(f, n, Len(f))
           F == [i \in S |-> i + n]
<1>1. Len(f) \in Nat /\ Len(g) \in Nat
  BY FileFacts
<1>2. F \in [S -> T]
  BY <1>1 DEF Ends
<1>3. \A a, b \in S : F[a] = F[b] => a = b
  BY <1>1 DEF Ends
<1>4. \A t \in T : \E a \in S : F[a] = t
  <2> SUFFICES ASSUME NEW t \in T PROVE \E a \in S : F[a] = t
    OBVIOUS
  <2>1. t \in n + 1 .. Len(f) /\ f[t] = Newline
    BY DEF Ends
  <2>2. t - n \in 1 .. Len(g) /\ g[t - n] = f[t - n + n] /\ t - n + n = t
    BY <2>1, <1>1
  <2>3. t - n \in S
    BY <2>1, <2>2, <1>1 DEF Ends
  <2> QED
    BY <2>2, <2>3
<1>5. IsFiniteSet(S)
  BY <1>1, EndsFacts
<1> HIDE DEF F, S, T
<1>6. F \in Bijection(S, T)
  <2>1. DOMAIN F = S
    BY <1>2
  <2> QED
    BY <2>1, <1>2, <1>3, <1>4 DEF Bijection, Injection, Surjection, IsInjective
<1>7. Cardinality(T) = Cardinality(S)
  BY <1>5, <1>6, FS_Bijection DEF ExistsBijection
<1> QED
  BY <1>7 DEF S, T, Lines

\* The rest of a file from a boundary on holds what a reader from there finds.
LEMMA TailFacts ==
    ASSUME NEW f \in File, NEW n \in Nat, n <= Len(f)
    PROVE  LET g == SubSeq(f, n + 1, Len(f))
           IN  /\ g \in File /\ Len(g) = Len(f) - n
               /\ \A i \in 1 .. Len(g) : g[i] = f[i + n]
               /\ Lines(g, 0) = Lines(f, n)
               /\ Waiting(f, n) \subseteq Waiting(g, 0)
               /\ Boundary(f, Len(f)) => Boundary(g, Len(g))
<1> DEFINE g == SubSeq(f, n + 1, Len(f))
<1>1. /\ g \in File /\ Len(g) = Len(f) - n /\ Len(f) \in Nat /\ Len(g) \in Nat
      /\ \A i \in 1 .. Len(g) : g[i] = f[i + n]
  BY DEF File
<1> HIDE DEF g
<1>2. Lines(g, 0) = Lines(f, n)
  BY <1>1, TailLines
<1>3. ASSUME NEW e \in Waiting(f, n) PROVE e \in Waiting(g, 0)
  <2>1. PICK k \in {n} \cup Ends(f, n, Len(f)) :
              /\ k \in Nat /\ n <= k /\ e = EventAt(f, k) /\ EventAt(f, k) # NoEvent
              /\ k + 2 \in Ends(f, n, Len(f)) /\ k + 1 \in 1 .. Len(f)
    BY WaitingCell
  <2> DEFINE j == k - n
  <2>2. j \in Nat /\ k = j + n /\ k + 2 \in 1 .. Len(f) /\ f[k + 2] = Newline
    BY <2>1, <1>1 DEF Ends
  <2>3. g[j + 1] = f[k + 1] /\ g[j + 2] = Newline /\ j + 2 <= Len(g)
    <3>1. j + 1 \in 1 .. Len(g) /\ j + 2 \in 1 .. Len(g) /\ (j + 1) + n = k + 1 /\ (j + 2) + n = k + 2
      BY <2>2, <1>1
    <3> QED
      BY <3>1, <2>2, <1>1
  <2> HIDE DEF j
  <2>4. EventAt(g, j) = EventAt(f, k)
    BY <2>1, <2>2, <2>3, <1>1, SameEvent
  <2>5. j \in {0} \cup Ends(g, 0, Len(g))
    <3>1. CASE k = n
      BY <3>1 DEF j
    <3>2. CASE k # n
      <4>1. k \in n + 1 .. Len(f) /\ f[k] = Newline
        BY <2>1, <3>2 DEF Ends
      <4>2. j \in 1 .. Len(g) /\ g[j] = f[j + n]
        BY <4>1, <2>2, <1>1
      <4> QED
        BY <4>1, <4>2, <2>2 DEF Ends
    <3> QED
      BY <3>1, <3>2
  <2> QED
    BY <2>1, <2>4, <2>5 DEF Waiting
<1>4. Boundary(f, Len(f)) => Boundary(g, Len(g))
  BY <1>1 DEF Boundary
<1> QED
  BY <1>1, <1>2, <1>3, <1>4 DEF g

\* A record appended to a closed file is found by every reader of it.
LEMMA RecordFacts ==
    ASSUME NEW f \in File, NEW b \in Nat \ {0}, NEW off \in Nat, off <= Len(f),
           Boundary(f, Len(f))
    PROVE  LET g == f \o <<b, Newline>>
           IN  /\ Lines(g, off) = Lines(f, off) + 1
               /\ Waiting(f, off) \cup {b} \subseteq Waiting(g, off)
               /\ \A k \in Nat : Boundary(f, k) => Boundary(g, k)
               /\ Boundary(g, Len(g))
<1> DEFINE h == Append(f, b)
           g == Append(h, Newline)
<1>1. f \o <<b, Newline>> = g
  BY DEF File
<1>2. /\ h \in File /\ Len(h) = Len(f) + 1 /\ h[Len(f) + 1] = b
      /\ \A i \in 1 .. Len(f) : h[i] = f[i]
      /\ Lines(h, off) = Lines(f, off) + (IF b = Newline THEN 1 ELSE 0)
      /\ Waiting(f, off) \subseteq Waiting(h, off)
      /\ \A k \in Nat : Boundary(f, k) => Boundary(h, k)
  <2>1. b \in Int
    OBVIOUS
  <2> QED
    BY <2>1, GrowFacts
<1> HIDE DEF h
<1>3. Len(f) \in Nat /\ Len(h) \in Nat /\ off <= Len(h) /\ b # Newline
  <2>1. Len(f) \in Nat /\ Len(h) \in Nat
    BY <1>2, FileFacts
  <2> QED
    BY <2>1, <1>2 DEF Newline
<1>4. /\ g \in File /\ Len(g) = Len(h) + 1 /\ g[Len(h) + 1] = Newline
      /\ \A i \in 1 .. Len(h) : g[i] = h[i]
      /\ Lines(g, off) = Lines(h, off) + (IF Newline = Newline THEN 1 ELSE 0)
      /\ Waiting(h, off) \subseteq Waiting(g, off)
      /\ \A k \in Nat : Boundary(h, k) => Boundary(g, k)
      /\ Boundary(g, Len(g))
  <2>1. Newline \in Int
    BY DEF Newline
  <2> QED
    BY <2>1, <1>2, <1>3, GrowFacts
<1> HIDE DEF g
<1>5. b \in Waiting(g, off)
  <2> DEFINE k == Len(f)
  <2>1. k \in {off} \cup Ends(g, off, Len(g))
    BY <1>2, <1>3, <1>4 DEF Ends, Boundary
  <2>2. EventAt(g, k) = b
    <3>1. g[k + 1] = b /\ g[k + 2] = Newline /\ Len(g) = k + 2
      BY <1>2, <1>3, <1>4
    <3>2. Ends(g, k, Len(g)) = {k + 2}
      BY <3>1, <1>3 DEF Ends
    <3>3. LineEnd(g, k) = k + 2
      <4>1. Lines(g, k) # 0
        <5>1. Cardinality({k + 2}) = 1
          BY FS_Singleton
        <5> QED
          BY <3>2, <5>1 DEF Lines
      <4> QED
        BY <4>1, <3>2, <1>3, <1>4, LineEndFacts
    <3> QED
      BY <3>1, <3>3 DEF EventAt
  <2> QED
    BY <2>1, <2>2 DEF Waiting, NoEvent
<1>6. Lines(g, off) = Lines(f, off) + 1
  <2>1. Lines(f, off) \in Nat
    BY FileFacts
  <2> QED
    BY <2>1, <1>2, <1>3, <1>4
<1> QED
  BY <1>1, <1>2, <1>4, <1>5, <1>6

\* What follows the last newline holds none.
LEMMA ScannedFacts ==
    ASSUME NEW f \in File, NEW off \in 0 .. Len(f)
    PROVE  /\ Scanned(f, off) \in off .. Len(f)
           /\ Ends(f, Scanned(f, off), Len(f)) = {}
           /\ Boundary(f, off) => Boundary(f, Scanned(f, off))
<1> DEFINE S == {off} \cup Ends(f, off, Len(f))
<1>1. Len(f) \in Nat /\ S \in SUBSET (0 .. Len(f)) /\ S # {}
  BY FileFacts DEF Ends
<1>2. Max(S) \in S /\ \A k \in S : k <= Max(S)
  BY <1>1, GreatestOf
<1>3. Scanned(f, off) = Max(S)
  BY DEF Scanned
<1>4. Scanned(f, off) \in S /\ \A k \in S : k <= Scanned(f, off)
  BY <1>2, <1>3
<1> HIDE DEF S
<1>5. Scanned(f, off) \in off .. Len(f)
  BY <1>1, <1>4 DEF S, Ends
<1>6. Ends(f, Scanned(f, off), Len(f)) = {}
  <2>1. SUFFICES ASSUME NEW k \in Ends(f, Scanned(f, off), Len(f)) PROVE FALSE
    OBVIOUS
  <2>2. k \in Scanned(f, off) + 1 .. Len(f) /\ f[k] = Newline
    BY DEF Ends
  <2>3. k \in S
    BY <2>2, <1>1, <1>5 DEF S, Ends
  <2> QED
    BY <2>2, <2>3, <1>1, <1>4, <1>5
<1>7. Boundary(f, off) => Boundary(f, Scanned(f, off))
  BY <1>1, <1>4 DEF S, Ends, Boundary
<1> QED
  BY <1>5, <1>6, <1>7

\* A load starts within the file.
LEMMA LoadOffsetFacts ==
    ASSUME NEW f \in File, NEW c \in Nat \cup {NoCursor}
    PROVE  /\ LoadOffset(f, c) \in 0 .. Len(f)
           /\ c \in Nat /\ Boundary(f, c) => LoadOffset(f, c) = c
           /\ c = NoCursor => LoadOffset(f, c) = 0
           /\ Len(f) = 0 => LoadOffset(f, c) = 0
<1>1. Len(f) \in Nat
  BY FileFacts
<1> QED
  BY <1>1 DEF LoadOffset, Boundary, NoCursor
=============================================================================
