------------------------------ MODULE ChunkSplit ------------------------------
(***************************************************************************)
(* How byte ranges own lines.  The splitter cuts a file it has not opened  *)
(* into ranges of ChunkBytes; each worker reads its range with one byte    *)
(* before it and Overlap bytes after it, and takes the lines that start    *)
(* inside the range.  A worker that runs short of time makes a chunk of    *)
(* the rest, from one byte behind the start of its last line.              *)
(*                                                                         *)
(* IngestionPipeline takes the resulting line intervals as given and adds  *)
(* the queue, failures and redelivery; here each chunk is processed once.  *)
(***************************************************************************)
EXTENDS Integers, Sequences

CONSTANTS
  MaxSize,      \* bound on the size of the file
  ChunkBytes,   \* bytes of a range
  Overlap       \* bytes read behind the end of a range

ASSUME SplitAssumption ==
  MaxSize \in Nat /\ ChunkBytes \in Nat \ {0} /\ Overlap \in Nat \ {0}

VARIABLES
  size,         \* ContentLength
  file,         \* its bytes: a newline, a carriage return or anything else
  cut,          \* where the splitter's next range starts
  chunks,
  taken         \* history: the lines yielded, by which chunk, and up to where

vars == <<size, file, cut, chunks, taken>>

Bytes == {"other", "cr", "newline"}
Smaller(a, b) == IF a < b THEN a ELSE b
Chunk(start, end) == [start |-> start, end |-> end, phase |-> "waiting", cursor |-> 0]

Init ==
  /\ size \in 1..MaxSize /\ file \in [0..size - 1 -> Bytes]
  /\ cut = 0 /\ chunks = <<>> /\ taken = {}
-------------------------------------------------------------------------------
CutWhole ==                                       \* mutant: the last range is not clipped
  /\ cut < size
  /\ chunks' = Append(chunks, Chunk(cut, cut + ChunkBytes))
  /\ cut' = cut + ChunkBytes
  /\ UNCHANGED <<size, file, taken>>

(* One round of computeByteRanges.                                         *)
Cut ==
  /\ cut < size
  /\ chunks' = Append(chunks, Chunk(cut, Smaller(cut + ChunkBytes, size)))
  /\ cut' = cut + ChunkBytes
  /\ UNCHANGED <<size, file, taken>>

BufferEndShort(c) == c.end                        \* mutant: no overlap
BufferEnd(c) == Smaller(c.end + Overlap, size)

(* Buffer.indexOf(0x0a, from): no element where it returns -1.             *)
IndexOf(from, end) ==
  {p \in from..end - 1 : file[p] = "newline" /\ \A q \in from..p - 1 : file[q] # "newline"}

SkipFromInRange(c) == c.start                     \* mutant: no byte of lookbehind
SkipFrom(c) == IF c.start = 0 THEN 0 ELSE c.start - 1

(* Behind the header, or behind the line that started before the range;    *)
(* the preceding byte is that line's newline where the boundary is clean.  *)
Open(i) ==
  /\ cut >= size /\ chunks[i].phase = "waiting"
  /\ LET c == chunks[i]
         skipped == IndexOf(SkipFrom(c), BufferEnd(c))
     IN  \/ /\ skipped = {}
            /\ chunks' = [chunks EXCEPT ![i].phase = "done"]
         \/ \E p \in skipped :
              chunks' = [chunks EXCEPT ![i].phase = "reading", ![i].cursor = p + 1]
  /\ UNCHANGED <<size, file, cut, taken>>

OwnsToEnd(c) == c.phase = "reading" /\ c.cursor <= c.end      \* mutant
Owns(c) == c.phase = "reading" /\ c.cursor < c.end

(* Where the line at `from` ends in a buffer that ends at `end`, and where *)
(* its text does.                                                          *)
LineEnd(from, end) ==
  IF IndexOf(from, end) = {} THEN end ELSE CHOOSE p \in IndexOf(from, end) : TRUE
Trimmed(from, end) == IF end > from /\ file[end - 1] = "cr" THEN end - 1 ELSE end
TextEnd(from, end) == Trimmed(from, LineEnd(from, end))

Yield(i) ==
  LET c == chunks[i]
  IN  [line |-> c.cursor, by |-> i, text |-> TextEnd(c.cursor, BufferEnd(c))]

(* The loop goes on behind the line's newline, and ends without one.       *)
Advanced(c) ==
  IF IndexOf(c.cursor, BufferEnd(c)) = {}
  THEN [c EXCEPT !.phase = "done"]
  ELSE [c EXCEPT !.cursor = LineEnd(c.cursor, BufferEnd(c)) + 1]

NextLine(i) ==
  /\ Owns(chunks[i])
  /\ taken' = IF Yield(i).text > chunks[i].cursor THEN taken \cup {Yield(i)} ELSE taken
  /\ chunks' = [chunks EXCEPT ![i] = Advanced(chunks[i])]
  /\ UNCHANGED <<size, file, cut>>

ResumeAtLine(c) == Chunk(c.cursor, c.end)         \* mutant: at the line just taken
Resume(c) == Chunk(c.cursor + 1, c.end)

(* The line fills a batch and the clock says to stop; which lines fill a   *)
(* batch is left open.                                                     *)
HandOver(i) ==
  /\ Owns(chunks[i])
  /\ Yield(i).text > chunks[i].cursor
  /\ taken' = taken \cup {Yield(i)}
  /\ chunks' = Append([chunks EXCEPT ![i].phase = "done"], Resume(chunks[i]))
  /\ UNCHANGED <<size, file, cut>>

Close(i) ==
  /\ chunks[i].phase = "reading" /\ ~Owns(chunks[i])
  /\ chunks' = [chunks EXCEPT ![i].phase = "done"]
  /\ UNCHANGED <<size, file, cut, taken>>

Work(i) == i \in DOMAIN chunks /\ (Open(i) \/ NextLine(i) \/ HandOver(i) \/ Close(i))
Next == Cut \/ \E i \in DOMAIN chunks : Work(i)

(* A message is received sooner or later and its worker goes on.           *)
Spec == Init /\ [][Next]_vars /\ WF_vars(Next)
-------------------------------------------------------------------------------
TypeOK ==
  /\ size \in 1..MaxSize /\ file \in [0..size - 1 -> Bytes] /\ cut \in Nat
  /\ chunks \in Seq([start : 0..size, end : 1..size,
                     phase : {"waiting", "reading", "done"}, cursor : 0..size])
  /\ taken \subseteq [line : 1..size - 1, by : DOMAIN chunks, text : 1..size]

(* The lines of the file as one reader of the whole file would see them,   *)
(* without the header and the empty ones.                                  *)
LineStarts == {a \in 1..size - 1 : file[a - 1] = "newline" /\ TextEnd(a, size) > a}

(* What a chunk still has to yield.                                        *)
Todo(c) ==
  {a \in LineStarts : a < c.end /\ \/ c.phase = "waiting" /\ c.start <= a
                                   \/ c.phase = "reading" /\ c.cursor <= a}

(* At every moment a line that has been cut into a range is in the hands   *)
(* of exactly one: it was taken, once, or is ahead of one chunk.           *)
TakenOnce(a) == \E t \in taken : t.line = a /\ \A u \in taken : u.line = a => u = t
Held(a) == \E i \in DOMAIN chunks : a \in Todo(chunks[i])
HeldOnce(a) ==
  \E i \in DOMAIN chunks :
    a \in Todo(chunks[i]) /\ \A j \in DOMAIN chunks : a \in Todo(chunks[j]) => j = i
HasOneOwner(a) ==
  IF \E t \in taken : t.line = a THEN TakenOnce(a) /\ ~Held(a) ELSE HeldOnce(a)
LineOwnership ==
  /\ \A t \in taken : t.line \in LineStarts /\ t.line < cut
  /\ \A a \in LineStarts : a < cut => HasOneOwner(a)

(* What makes it inductive: no range reaches behind the cut, and a reader  *)
(* stands on the start of a line.                                          *)
ChunksOK ==
  \A i \in DOMAIN chunks :
    /\ chunks[i].end <= cut
    /\ chunks[i].phase = "reading" =>
         chunks[i].cursor > 0 /\ file[chunks[i].cursor - 1] = "newline"
SplitInv == TypeOK /\ ChunksOK /\ LineOwnership

(* A line that is not longer than the overlap and one byte, its carriage   *)
(* return counted, is never read truncated, wherever the range ends        *)
(* (readRange).                                                            *)
ReadWhole ==
  \A t \in taken :
    LineEnd(t.line, size) - t.line <= Overlap + 1 => t.text = TextEnd(t.line, size)

(* Splitting implements LineFeed: no line is given twice, nothing is given *)
(* that is not a line of the file, and in the end every line is.           *)
Feed == INSTANCE LineFeed WITH
  lines <- LineStarts,
  given <- {[line |-> t.line, by |-> t.by] : t \in taken}
EachLineOnce == Feed!Spec
EveryLineGiven == Feed!AllGiven
===============================================================================
