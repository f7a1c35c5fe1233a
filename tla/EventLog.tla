------------------------------ MODULE EventLog ------------------------------
(***************************************************************************)
(* The queue file of a watch task as its readers see it                    *)
(* (daemon/eventqueue.go).  A file is a sequence of cells.  One append      *)
(* writes two cells, the JSON body of an event and its newline; a short     *)
(* write leaves a whole body without its newline, or a fragment of one.     *)
(* Cells stand for bytes: offsets and sizes count cells, so an offset may   *)
(* fall inside a line and lines may merge, as they do in the file.          *)
(***************************************************************************)
EXTENDS Integers, Sequences, FiniteSets, FiniteSetsExt

Newline == 0
NoEvent == 0
Body(e) == e
Fragment(e) == -e

\* The ends of the lines that start at or after off and end by upto.
Ends(f, off, upto) == {k \in off + 1 .. upto : f[k] = Newline}

\* Where the line that starts at off ends, 0 when it has no newline.
LineEnd(f, off) ==
    LET ends == Ends(f, off, Len(f))
    IN  IF ends = {} THEN 0 ELSE Min(ends)

\* Mutant: a fragment passes for an event.
EventAtLax(f, off) == IF LineEnd(f, off) = off + 2 THEN f[off + 1] ELSE NoEvent

\* The event a line that starts at off decodes to, NoEvent when it does not
\* decode: a fragment, two bodies merged into one line, or no newline.
EventAt(f, off) ==
    IF LineEnd(f, off) = off + 2 /\ f[off + 1] > 0 THEN f[off + 1] ELSE NoEvent

\* The number of complete lines at or after off.
Lines(f, off) == Cardinality(Ends(f, off, Len(f)))

\* Where the first n lines after off end.
After(f, off, n) ==
    IF n = 0 THEN off
    ELSE IF n > Lines(f, off) THEN Len(f)
    ELSE CHOOSE k \in Ends(f, off, Len(f)) : Cardinality(Ends(f, off, k)) = n

\* The events a reader that starts at off finds.
Waiting(f, off) == {EventAt(f, k) : k \in {off} \cup Ends(f, off, Len(f))} \ {NoEvent}

\* Where the last complete line ends: what follows is a torn append.
Scanned(f, off) == Max({off} \cup Ends(f, off, Len(f)))

\* Where a load starts to replay a file beside a cursor: a cursor past the end
\* or inside a line is not trusted.
NoCursor == -1
LoadOffset(f, cursor) ==
    IF /\ cursor # NoCursor
       /\ cursor <= Len(f)
       /\ cursor \in {0, Len(f)} \/ f[cursor] = Newline
    THEN cursor ELSE 0
=============================================================================
