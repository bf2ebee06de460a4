--------------------------- MODULE ChunkSplitProofs ---------------------------
(***************************************************************************)
(* Proofs about the splitting of a file.  Everything rests on LineEnd: it  *)
(* is the first newline or the buffer's end, so what a reader passes over  *)
(* holds no start of a line.                                               *)
(***************************************************************************)
EXTENDS ChunkSplit, LeastElement

LEMMA IndexOfFindsFirst ==
  ASSUME NEW from \in Nat, NEW end \in Nat, IndexOf(from, end) = {}
  PROVE  \A q \in from..end - 1 : file[q] # "newline"
<1> DEFINE S == {q \in from..end - 1 : file[q] = "newline"}
<1> SUFFICES ASSUME S # {} PROVE FALSE
  OBVIOUS
<1>1. S \in SUBSET Nat
  OBVIOUS
<1>2. PICK m \in S : \A n \in S : m <= n
  <2> HIDE DEF S
  <2> QED BY <1>1, HasLeast
<1>3. m \in IndexOf(from, end)
  BY <1>2 DEF IndexOf
<1> QED BY <1>3

(* LineEnd is the only position that is the first newline or the end.      *)
LEMMA LineEndIs ==
  ASSUME NEW from \in Nat, NEW end \in Nat, from <= end
  PROVE  /\ LineEnd(from, end) \in from..end
         /\ \A q \in from..LineEnd(from, end) - 1 : file[q] # "newline"
         /\ LineEnd(from, end) < end => file[LineEnd(from, end)] = "newline"
         /\ LineEnd(from, end) < end <=> IndexOf(from, end) # {}
<1>1. CASE IndexOf(from, end) = {}
  BY <1>1, IndexOfFindsFirst DEF LineEnd
<1>2. CASE IndexOf(from, end) # {}
  <2>1. LineEnd(from, end) \in IndexOf(from, end)
    BY <1>2 DEF LineEnd
  <2> QED BY <2>1, <1>2 DEF IndexOf
<1> QED BY <1>1, <1>2

(* A buffer that holds two bytes of a line, or ends with the file, agrees  *)
(* with the file on whether the line is empty.                             *)
LEMMA BufferSeesLine ==
  ASSUME TypeOK, NEW a \in Nat, NEW end \in Nat, a < end, end <= size,
         end >= a + 2 \/ end = size
  PROVE  TextEnd(a, end) > a <=> TextEnd(a, size) > a
<1> DEFINE e == LineEnd(a, end)
           f == LineEnd(a, size)
<1>1. size \in Nat
  BY DEF TypeOK
<1>2. /\ e \in a..end /\ \A q \in a..e - 1 : file[q] # "newline"
      /\ e < end => file[e] = "newline"
  BY LineEndIs
<1>3. /\ f \in a..size /\ \A q \in a..f - 1 : file[q] # "newline"
      /\ f < size => file[f] = "newline"
  BY <1>1, LineEndIs
<1> HIDE DEF e, f
<1>4. e = f \/ (e >= a + 2 /\ f >= a + 2)
  BY <1>1, <1>2, <1>3
<1>5. Trimmed(a, e) > a <=> Trimmed(a, f) > a
  BY <1>1, <1>2, <1>3, <1>4 DEF Trimmed
<1> QED BY <1>5 DEF TextEnd, e, f

(* Whatever a reader passes over, [from, LineEnd], holds no other line's   *)
(* start, and neither does what lies behind a line without a newline.      *)
LEMMA NoLineBetween ==
  ASSUME NEW from \in Nat, NEW end \in Nat, from <= end,
         NEW a \in LineStarts, from < a, a <= end, a <= LineEnd(from, end)
  PROVE  FALSE
<1>1. a \in Nat /\ file[a - 1] = "newline"
  BY DEF LineStarts
<1>2. a - 1 \in from..LineEnd(from, end) - 1
  BY <1>1, LineEndIs
<1> QED BY <1>1, <1>2, LineEndIs
-------------------------------------------------------------------------------
ChunkRec == [start : 0..size, end : 1..size, phase : {"waiting", "reading", "done"}, cursor : 0..size]

LEMMA ChunkFacts ==
  ASSUME TypeOK, NEW i \in DOMAIN chunks
  PROVE  /\ size \in Nat /\ chunks \in Seq(ChunkRec) /\ chunks[i] \in ChunkRec
         /\ BufferEnd(chunks[i]) \in Nat
         /\ chunks[i].end <= BufferEnd(chunks[i]) /\ BufferEnd(chunks[i]) <= size
         /\ BufferEnd(chunks[i]) > chunks[i].end \/ BufferEnd(chunks[i]) = size
<1>1. size \in Nat /\ chunks \in Seq(ChunkRec)
  BY DEF TypeOK, ChunkRec
<1>2. chunks[i] \in ChunkRec
  BY <1>1
<1>3. chunks[i].end \in 1..size
  BY <1>2 DEF ChunkRec
<1> QED BY <1>1, <1>2, <1>3, SplitAssumption DEF BufferEnd, Smaller

(* A step that changes one chunk, and takes nothing, keeps every owner if  *)
(* the chunk has the same lines to do as before.                           *)
LEMMA SameTodo ==
  ASSUME SplitInv, NEW i \in DOMAIN chunks, NEW c \in ChunkRec,
         chunks' = [chunks EXCEPT ![i] = c], UNCHANGED <<size, file, cut, taken>>,
         c.end = chunks[i].end, Todo(c) = Todo(chunks[i]),
         c.phase = "reading" => c.cursor > 0 /\ file[c.cursor - 1] = "newline"
  PROVE  SplitInv'
<1>1. chunks \in Seq(ChunkRec)
  BY ChunkFacts DEF SplitInv
<1>2. /\ DOMAIN chunks' = DOMAIN chunks
      /\ \A j \in DOMAIN chunks : chunks'[j] = IF j = i THEN c ELSE chunks[j]
  BY <1>1
<1>3. TypeOK'
  <2>1. chunks' \in Seq(ChunkRec)
    BY <1>1
  <2> QED BY <1>2, <2>1 DEF SplitInv, TypeOK, ChunkRec
<1>4. ChunksOK'
  BY <1>2 DEF SplitInv, ChunksOK
<1>5. LineStarts' = LineStarts
  BY DEF LineStarts, TextEnd, Trimmed, LineEnd, IndexOf
<1>6. \A j \in DOMAIN chunks : Todo(chunks[j])' = Todo(chunks[j])
  BY <1>2, <1>5 DEF Todo
<1>7. \A a : Held(a)' <=> Held(a)
  BY <1>2, <1>6 DEF Held
<1>8. \A a : HeldOnce(a)' <=> HeldOnce(a)
  BY <1>2, <1>6 DEF HeldOnce
<1>9. LineOwnership'
  BY <1>5, <1>7, <1>8 DEF SplitInv, LineOwnership, HasOneOwner, TakenOnce
<1> QED BY <1>3, <1>4, <1>9 DEF SplitInv

LEMMA OpenStep ==
  ASSUME SplitInv, NEW i \in DOMAIN chunks, Open(i)
  PROVE  SplitInv'
<1> DEFINE c == chunks[i]
           from == SkipFrom(c)
           end == BufferEnd(c)
<1>1. /\ c \in ChunkRec /\ end \in Nat /\ c.end <= end /\ end <= size /\ size \in Nat
      /\ chunks \in Seq(ChunkRec)
  BY ChunkFacts DEF SplitInv
<1>2. c.start \in 0..size /\ c.end \in 1..size /\ c.phase = "waiting"
  BY <1>1 DEF ChunkRec, Open
<1>3. from \in Nat /\ from <= c.start /\ c.start <= from + 1 /\ (c.start = 0 => from = 0)
  BY <1>2 DEF SkipFrom
<1>4. \A a \in LineStarts : a > from /\ a \in Nat <=> a >= c.start
  BY <1>2, <1>3 DEF LineStarts, SkipFrom
<1>0. UNCHANGED <<size, file, cut, taken>>
  BY DEF Open
<1>5. CASE IndexOf(from, end) = {}
  <2>1. chunks' = [chunks EXCEPT ![i] = [c EXCEPT !.phase = "done"]]
    BY <1>5, <1>1 DEF Open
  <2>2. \A a \in LineStarts : ~(c.start <= a /\ a < c.end)
    BY SMTT(30), <1>1, <1>2, <1>3, <1>4, <1>5, IndexOfFindsFirst DEF LineStarts
  <2>3. Todo(c) = {} /\ Todo([c EXCEPT !.phase = "done"]) = {}
    BY <1>1, <1>2, <2>2 DEF Todo, ChunkRec
  <2>4. [c EXCEPT !.phase = "done"] \in ChunkRec
    BY <1>1 DEF ChunkRec
  <2> QED BY <1>0, <1>1, <2>1, <2>3, <2>4, SameTodo DEF ChunkRec
<1>6. ASSUME NEW p \in IndexOf(from, end), chunks' = [chunks EXCEPT ![i].phase = "reading", ![i].cursor = p + 1]
      PROVE  SplitInv'
  <2> DEFINE d == [c EXCEPT !.phase = "reading", !.cursor = p + 1]
  <2>1. p \in from..end - 1 /\ file[p] = "newline" /\ \A q \in from..p - 1 : file[q] # "newline"
    BY DEF IndexOf
  <2>2. chunks' = [chunks EXCEPT ![i] = d]
    BY <1>1, <1>6
  <2>3. \A a \in LineStarts : c.start <= a => p + 1 <= a
    BY <1>1, <1>2, <1>3, <1>4, <2>1 DEF LineStarts
  <2>4. p + 1 >= c.start
    BY <1>1, <1>2, <1>3, <2>1
  <2>5. Todo(d) = Todo(c)
    <3>1. d.phase = "reading" /\ d.cursor = p + 1 /\ d.end = c.end
      BY <1>1 DEF ChunkRec
    <3> HIDE DEF d
    <3> QED BY <1>1, <1>2, <2>1, <2>3, <2>4, <3>1 DEF Todo, LineStarts
  <2>6. p + 1 \in 0..size /\ p \in Nat /\ file[p] = "newline"
    <3> HIDE DEF c, from, end
    <3> QED BY <1>1, <1>3, <2>1
  <2>7. d \in ChunkRec /\ d.end = c.end /\ d.cursor = p + 1
    BY <1>1, <2>6 DEF ChunkRec
  <2>8. d.phase = "reading" => d.cursor > 0 /\ file[d.cursor - 1] = "newline"
    <3> HIDE DEF d
    <3> QED BY <2>6, <2>7
  <2> HIDE DEF d
  <2> QED BY <1>0, <2>2, <2>5, <2>7, <2>8, SameTodo
<1> QED BY <1>5, <1>6 DEF Open

LEMMA CloseStep ==
  ASSUME SplitInv, NEW i \in DOMAIN chunks, Close(i)
  PROVE  SplitInv'
<1> DEFINE d == [chunks[i] EXCEPT !.phase = "done"]
<1>1. chunks[i] \in ChunkRec /\ chunks \in Seq(ChunkRec) /\ size \in Nat
  BY ChunkFacts DEF SplitInv
<1>2. d \in ChunkRec /\ d.end = chunks[i].end /\ d.phase = "done"
  BY <1>1 DEF ChunkRec
<1>3. chunks' = [chunks EXCEPT ![i] = d] /\ UNCHANGED <<size, file, cut, taken>>
  BY <1>1 DEF Close
<1>4. ~(chunks[i].cursor < chunks[i].end) /\ chunks[i].phase = "reading"
  BY DEF Close, Owns
<1>5. \A a \in LineStarts : ~(a < chunks[i].end /\ chunks[i].cursor <= a)
  BY <1>1, <1>4 DEF LineStarts, ChunkRec
<1>6. Todo(d) = {} /\ Todo(chunks[i]) = {}
  <2> HIDE DEF d
  <2> QED BY <1>2, <1>4, <1>5 DEF Todo
<1> HIDE DEF d
<1> QED BY <1>2, <1>3, <1>6, SameTodo

(* What a reader knows about the line it stands on, and about what it goes *)
(* on with.                                                                *)
LEMMA AtCursor ==
  ASSUME SplitInv, NEW i \in DOMAIN chunks, Owns(chunks[i])
  PROVE  /\ chunks[i].cursor \in 1..size - 1
         /\ Yield(i).text > chunks[i].cursor <=> chunks[i].cursor \in LineStarts
         /\ Yield(i).text \in chunks[i].cursor..size
<1> DEFINE c == chunks[i]
           end == BufferEnd(c)
<1>1. /\ c \in ChunkRec /\ end \in Nat /\ c.end <= end /\ end <= size /\ size \in Nat
      /\ end > c.end \/ end = size
  BY ChunkFacts DEF SplitInv
<1>2. c.cursor > 0 /\ file[c.cursor - 1] = "newline" /\ c.cursor < c.end /\ c.phase = "reading"
  BY DEF SplitInv, ChunksOK, Owns
<1>3. c.cursor \in 1..size - 1 /\ c.cursor \in Nat /\ c.end \in Nat
  BY <1>1, <1>2 DEF ChunkRec
<1>4. c.cursor < end /\ (end >= c.cursor + 2 \/ end = size)
  BY <1>1, <1>2, <1>3
<1>5. TextEnd(c.cursor, end) > c.cursor <=> TextEnd(c.cursor, size) > c.cursor
  BY <1>1, <1>3, <1>4, BufferSeesLine DEF SplitInv
<1>6. LineEnd(c.cursor, end) \in c.cursor..end
  BY SMTT(30), <1>1, <1>3, <1>4, LineEndIs
<1>7. TextEnd(c.cursor, end) \in c.cursor..size
  BY <1>1, <1>3, <1>6 DEF TextEnd, Trimmed
<1>8. Yield(i).text = TextEnd(c.cursor, end)
  BY DEF Yield
<1> QED BY <1>2, <1>3, <1>5, <1>7, <1>8 DEF LineStarts

LEMMA AdvancedIs ==
  ASSUME SplitInv, NEW i \in DOMAIN chunks, Owns(chunks[i])
  PROVE  LET c == chunks[i]
             d == Advanced(chunks[i])
         IN  /\ d \in ChunkRec /\ d.end = c.end
             /\ d.phase = "reading" => d.cursor > 0 /\ file[d.cursor - 1] = "newline"
             /\ Todo(d) = Todo(c) \ {c.cursor}
<1> DEFINE c == chunks[i]
           end == BufferEnd(c)
           e == LineEnd(c.cursor, end)
<1>1. /\ c \in ChunkRec /\ end \in Nat /\ c.end <= end /\ end <= size /\ size \in Nat
  BY ChunkFacts DEF SplitInv
<1>2. c.cursor \in Nat /\ c.cursor < c.end /\ c.end \in Nat /\ c.phase = "reading"
  BY <1>1, AtCursor DEF Owns, ChunkRec
<1>0. c.cursor <= end
  BY <1>1, <1>2
<1>3. /\ e \in c.cursor..end
      /\ e < end => file[e] = "newline"
      /\ e < end <=> IndexOf(c.cursor, end) # {}
  <2> HIDE DEF c, end
  <2> QED BY <1>0, <1>1, <1>2, LineEndIs
<1>4. \A a \in LineStarts : a > c.cursor /\ a < c.end => a > e
  <2> SUFFICES ASSUME NEW a \in LineStarts, a > c.cursor, a < c.end, ~(a > e) PROVE FALSE
    OBVIOUS
  <2>1. a \in Nat /\ c.cursor < a /\ a <= end /\ a <= e
    BY <1>1, <1>2, <1>3 DEF LineStarts
  <2> HIDE DEF c, end
  <2> QED BY <1>0, <1>1, <1>2, <2>1, NoLineBetween
<1>5. CASE IndexOf(c.cursor, end) = {}
  <2> DEFINE d == [c EXCEPT !.phase = "done"]
  <2>1. Advanced(c) = d
    BY <1>5 DEF Advanced
  <2>2. d \in ChunkRec /\ d.end = c.end /\ d.phase = "done"
    BY <1>1 DEF ChunkRec
  <2>3. e = end
    BY <1>1, <1>3, <1>5
  <2>4. \A a \in LineStarts : a > c.cursor => ~(a < c.end)
    BY <1>1, <1>2, <1>4, <2>3 DEF LineStarts
  <2>5. Todo(d) = {} /\ Todo(c) \subseteq {c.cursor}
    <3> HIDE DEF d
    <3> QED BY <1>2, <2>2, <2>4 DEF Todo, LineStarts
  <2> HIDE DEF d
  <2> QED BY <2>1, <2>2, <2>5
<1>6. CASE IndexOf(c.cursor, end) # {}
  <2> DEFINE d == [c EXCEPT !.cursor = e + 1]
  <2>1. Advanced(c) = d
    BY <1>6 DEF Advanced
  <2>2. e \in Nat /\ e < end /\ file[e] = "newline" /\ e >= c.cursor
    BY <1>1, <1>2, <1>3, <1>6
  <2>3. e + 1 \in 0..size /\ e + 1 > 0 /\ e + 1 - 1 = e
    <3> HIDE DEF e, end
    <3> QED BY <1>1, <2>2
  <2>4. d \in ChunkRec /\ d.end = c.end /\ d.phase = "reading" /\ d.cursor = e + 1
    BY <1>1, <1>2, <2>3 DEF ChunkRec
  <2> HIDE DEF d
  <2>5. d.cursor > 0 /\ file[d.cursor - 1] = "newline"
    BY <2>2, <2>3, <2>4
  <2>6. Todo(d) = Todo(c) \ {c.cursor}
    <3> HIDE DEF e, end
    <3> QED BY <1>2, <1>4, <2>2, <2>4 DEF Todo, LineStarts
  <2> QED BY <2>1, <2>4, <2>5, <2>6
<1> QED BY <1>5, <1>6

LEMMA SizesKept ==
  ASSUME UNCHANGED <<size, file>>
  PROVE  LineStarts' = LineStarts
BY DEF LineStarts, TextEnd, Trimmed, LineEnd, IndexOf

(* The line a reader stands on is its own: nobody has taken it and nobody  *)
(* else has it to do.                                                      *)
LEMMA OwnLine ==
  ASSUME SplitInv, NEW i \in DOMAIN chunks, Owns(chunks[i]), chunks[i].cursor \in LineStarts
  PROVE  /\ chunks[i].cursor < cut
         /\ \A t \in taken : t.line # chunks[i].cursor
         /\ \A j \in DOMAIN chunks : chunks[i].cursor \in Todo(chunks[j]) <=> j = i
<1> DEFINE a == chunks[i].cursor
<1>1. chunks[i] \in ChunkRec /\ size \in Nat /\ cut \in Nat
  BY ChunkFacts DEF SplitInv, TypeOK
<1>2. a \in Nat /\ a < chunks[i].end /\ chunks[i].phase = "reading" /\ chunks[i].end \in Nat
  BY <1>1 DEF Owns, ChunkRec
<1>3. a \in Todo(chunks[i])
  BY <1>2 DEF Todo
<1>4. a < cut
  BY <1>1, <1>2 DEF SplitInv, ChunksOK
<1>5. HasOneOwner(a) /\ Held(a)
  BY <1>3, <1>4 DEF SplitInv, LineOwnership, Held
<1> QED BY <1>3, <1>4, <1>5 DEF HasOneOwner, HeldOnce

LEMMA NextLineStep ==
  ASSUME SplitInv, NEW i \in DOMAIN chunks, NextLine(i)
  PROVE  SplitInv'
<1> DEFINE c == chunks[i]
           d == Advanced(c)
<1>1. /\ d \in ChunkRec /\ d.end = c.end
      /\ d.phase = "reading" => d.cursor > 0 /\ file[d.cursor - 1] = "newline"
      /\ Todo(d) = Todo(c) \ {c.cursor}
  BY AdvancedIs DEF NextLine
<1>2. /\ Owns(c) /\ chunks' = [chunks EXCEPT ![i] = d] /\ UNCHANGED <<size, file, cut>>
      /\ taken' = IF Yield(i).text > c.cursor THEN taken \cup {Yield(i)} ELSE taken
  BY DEF NextLine
<1>3. /\ c.cursor \in 1..size - 1 /\ Yield(i).text \in c.cursor..size
      /\ Yield(i).text > c.cursor <=> c.cursor \in LineStarts
  BY <1>2, AtCursor
<1>4. chunks \in Seq(ChunkRec) /\ size \in Nat
  BY ChunkFacts DEF SplitInv
<1>5. CASE c.cursor \notin LineStarts
  <2>1. taken' = taken
    BY <1>2, <1>3, <1>5
  <2>2. Todo(d) = Todo(c)
    BY <1>1, <1>5 DEF Todo
  <2> HIDE DEF d
  <2> QED BY <1>1, <1>2, <2>1, <2>2, SameTodo
<1>6. CASE c.cursor \in LineStarts
  <2>0. PICK own : own = c.cursor
    OBVIOUS
  <2> DEFINE y == Yield(i)
  <2>1. taken' = taken \cup {y} /\ y.line = c.cursor
    BY <1>2, <1>3, <1>6 DEF Yield
  <2>2. y \in [line : 1..size - 1, by : DOMAIN chunks, text : 1..size]
    BY <1>3, <1>4 DEF Yield
  <2> HIDE DEF d, y
  <2>3. /\ DOMAIN chunks' = DOMAIN chunks /\ chunks' \in Seq(ChunkRec)
        /\ \A j \in DOMAIN chunks : chunks'[j] = IF j = i THEN d ELSE chunks[j]
    BY <1>1, <1>2, <1>4
  <2>4. TypeOK'
    BY <1>2, <2>1, <2>2, <2>3 DEF SplitInv, TypeOK, ChunkRec
  <2>5. ChunksOK'
    BY <1>1, <1>2, <2>3 DEF SplitInv, ChunksOK
  <2>6. LineStarts' = LineStarts
    BY <1>2, SizesKept
  <2>7. /\ own < cut /\ \A t \in taken : t.line # own
        /\ \A j \in DOMAIN chunks : own \in Todo(chunks[j]) <=> j = i
    BY <1>2, <1>6, <2>0, OwnLine
  <2>8. \A j \in DOMAIN chunks : Todo(chunks[j])' = Todo(chunks[j]) \ {own}
    <3>1. \A j \in DOMAIN chunks : Todo(chunks[j])' = Todo(chunks'[j])
      BY <2>6 DEF Todo
    <3> QED BY <1>1, <2>0, <2>3, <2>7, <3>1
  <2>9. HasOneOwner(own)'
    BY <2>0, <2>1, <2>3, <2>7, <2>8 DEF HasOneOwner, TakenOnce, Held
  <2>10. ASSUME NEW a \in LineStarts, a < cut, a # own PROVE HasOneOwner(a)'
    <3>1. HasOneOwner(a)
      BY <2>10 DEF SplitInv, LineOwnership
    <3>2. (Held(a)' <=> Held(a)) /\ (HeldOnce(a)' <=> HeldOnce(a))
      BY <2>3, <2>8, <2>10 DEF Held, HeldOnce
    <3>3. (\E t \in taken' : t.line = a) <=> (\E t \in taken : t.line = a)
      BY <2>0, <2>1, <2>10
    <3>4. TakenOnce(a)' <=> TakenOnce(a)
      BY <2>0, <2>1, <2>10 DEF TakenOnce
    <3> QED BY <3>1, <3>2, <3>3, <3>4 DEF HasOneOwner
  <2>11. LineOwnership'
    <3>1. \A t \in taken' : t.line \in LineStarts /\ t.line < cut
      BY <1>6, <2>0, <2>1, <2>7 DEF SplitInv, LineOwnership
    <3> QED BY <1>2, <2>6, <2>9, <2>10, <3>1 DEF LineOwnership
  <2> QED BY <2>4, <2>5, <2>11 DEF SplitInv
<1> QED BY <1>5, <1>6

LEMMA HandOverStep ==
  ASSUME SplitInv, NEW i \in DOMAIN chunks, HandOver(i)
  PROVE  SplitInv'
<1> DEFINE c == chunks[i]
           d == [c EXCEPT !.phase = "done"]
           r == Resume(c)
           y == Yield(i)
<1>0. PICK own, n : own = c.cursor /\ n = Len(chunks) + 1
  OBVIOUS
<1>1. /\ Owns(c) /\ y.text > c.cursor /\ UNCHANGED <<size, file, cut>>
      /\ chunks' = Append([chunks EXCEPT ![i].phase = "done"], r) /\ taken' = taken \cup {y}
  BY DEF HandOver
<1>2. c.cursor \in LineStarts /\ c.cursor \in 1..size - 1 /\ y.text \in c.cursor..size
  BY <1>1, AtCursor
<1>3. chunks \in Seq(ChunkRec) /\ size \in Nat /\ c \in ChunkRec /\ c.phase = "reading"
  BY <1>1, ChunkFacts DEF SplitInv, Owns
<1>4. d \in ChunkRec /\ d.phase = "done" /\ d.end = c.end
  BY <1>3 DEF ChunkRec
<1>5. /\ r \in ChunkRec /\ r.phase = "waiting" /\ r.end = c.end /\ r.start = c.cursor + 1
  BY SMTT(30), <1>2, <1>3 DEF Resume, Chunk, ChunkRec
<1>6. y.line = c.cursor /\ y \in [line : 1..size - 1, by : DOMAIN chunks, text : 1..size]
  BY <1>2, <1>3 DEF Yield
<1>7. Todo(d) = {} /\ Todo(r) = Todo(c) \ {c.cursor}
  <2>1. c.cursor \in Nat
    BY <1>2
  <2> HIDE DEF d, r
  <2> QED BY <1>3, <1>4, <1>5, <2>1 DEF Todo, LineStarts
<1>8. chunks' = Append([chunks EXCEPT ![i] = d], r)
  BY <1>1, <1>3
<1> HIDE DEF d, r, y
<1>9. /\ chunks' \in Seq(ChunkRec) /\ DOMAIN chunks = 1..n - 1 /\ DOMAIN chunks' = 1..n /\ n \in Nat \ {0}
      /\ \A j \in 1..n : chunks'[j] = IF j = i THEN d ELSE IF j = n THEN r ELSE chunks[j]
  BY <1>0, <1>3, <1>4, <1>5, <1>8
<1>10. LineStarts' = LineStarts
  BY <1>1, SizesKept
<1>11. /\ own < cut /\ \A t \in taken : t.line # own
       /\ \A j \in DOMAIN chunks : own \in Todo(chunks[j]) <=> j = i
  BY <1>0, <1>1, <1>2, OwnLine
<1>12. \A j \in 1..n : Todo(chunks[j])' =
         IF j = i THEN {} ELSE IF j = n THEN Todo(c) \ {own} ELSE Todo(chunks[j])
  <2>1. \A j \in 1..n : Todo(chunks[j])' = Todo(chunks'[j])
    BY <1>10 DEF Todo
  <2> QED BY <1>0, <1>7, <1>9, <2>1
<1>13. TypeOK'
  <2>0. DOMAIN chunks \subseteq DOMAIN chunks'
    BY <1>9
  <2>1. taken' \subseteq [line : 1..size - 1, by : DOMAIN chunks', text : 1..size]
    BY <1>1, <1>6, <2>0 DEF SplitInv, TypeOK
  <2> QED BY <1>1, <1>9, <2>1 DEF SplitInv, TypeOK, ChunkRec
<1>14. ChunksOK'
  BY <1>1, <1>4, <1>5, <1>9 DEF SplitInv, ChunksOK
<1>15. HasOneOwner(own)'
  <2>1. \A j \in 1..n : own \notin Todo(chunks[j])'
    BY <1>9, <1>11, <1>12
  <2>2. ~Held(own)'
    BY <1>9, <2>1 DEF Held
  <2>3. y \in taken' /\ y.line = own /\ TakenOnce(own)'
    BY <1>0, <1>1, <1>6, <1>11 DEF TakenOnce
  <2> QED BY <2>2, <2>3 DEF HasOneOwner
<1>16. ASSUME NEW a \in LineStarts, a < cut, a # own PROVE HasOneOwner(a)'
  <2>1. HasOneOwner(a)
    BY <1>16 DEF SplitInv, LineOwnership
  <2>2. Held(a)' <=> Held(a)
    BY <1>9, <1>12, <1>16 DEF Held
  <2>3. HeldOnce(a) => HeldOnce(a)'
    <3> SUFFICES ASSUME NEW k \in DOMAIN chunks, a \in Todo(chunks[k]),
                        \A j \in DOMAIN chunks : a \in Todo(chunks[j]) => j = k
                 PROVE  HeldOnce(a)'
      BY DEF HeldOnce
    <3>1. CASE k = i
      <4>1. a \in Todo(chunks[n])' /\ \A j \in 1..n : a \in Todo(chunks[j])' => j = n
        BY <1>9, <1>12, <1>16, <3>1
      <4> QED BY <1>9, <4>1 DEF HeldOnce
    <3>2. CASE k # i
      <4>1. a \notin Todo(c)
        BY <3>2
      <4>2. a \in Todo(chunks[k])' /\ \A j \in 1..n : a \in Todo(chunks[j])' => j = k
        BY <1>9, <1>12, <3>2, <4>1
      <4> QED BY <1>9, <4>2 DEF HeldOnce
    <3> QED BY <3>1, <3>2
  <2>4. (\E t \in taken' : t.line = a) <=> (\E t \in taken : t.line = a)
    BY <1>0, <1>1, <1>6, <1>16
  <2>5. TakenOnce(a)' <=> TakenOnce(a)
    BY <1>0, <1>1, <1>6, <1>16 DEF TakenOnce
  <2> QED BY <2>1, <2>2, <2>3, <2>4, <2>5 DEF HasOneOwner
<1>17. LineOwnership'
  <2>1. \A t \in taken' : t.line \in LineStarts /\ t.line < cut
    BY <1>0, <1>1, <1>2, <1>6, <1>11 DEF SplitInv, LineOwnership
  <2> QED BY <1>1, <1>10, <1>15, <1>16, <2>1 DEF LineOwnership
<1> QED BY <1>13, <1>14, <1>17 DEF SplitInv

LEMMA CutStep ==
  ASSUME SplitInv, Cut
  PROVE  SplitInv'
<1> DEFINE r == Chunk(cut, Smaller(cut + ChunkBytes, size))
<1>0. PICK n : n = Len(chunks) + 1
  OBVIOUS
<1>1. chunks \in Seq(ChunkRec) /\ size \in 1..MaxSize /\ size \in Nat /\ cut \in Nat
  BY SplitAssumption DEF SplitInv, TypeOK, ChunkRec
<1>2. /\ cut < size /\ chunks' = Append(chunks, r) /\ UNCHANGED <<size, file, taken>>
      /\ cut' = cut + ChunkBytes /\ cut' > cut /\ cut' \in Nat
  BY <1>1, SplitAssumption DEF Cut
<1>3. /\ r \in ChunkRec /\ r.phase = "waiting" /\ r.start = cut
      /\ r.end <= cut' /\ r.end \in 1..size /\ (r.end = size \/ r.end = cut')
  BY <1>1, <1>2, SplitAssumption DEF Chunk, ChunkRec, Smaller
<1> HIDE DEF r
<1>4. /\ chunks' \in Seq(ChunkRec) /\ DOMAIN chunks = 1..n - 1 /\ DOMAIN chunks' = 1..n /\ n \in Nat \ {0}
      /\ \A j \in 1..n : chunks'[j] = IF j = n THEN r ELSE chunks[j]
  BY <1>0, <1>1, <1>2, <1>3
<1>5. LineStarts' = LineStarts
  BY <1>2, SizesKept
<1>6. \A j \in 1..n : Todo(chunks[j])' = IF j = n THEN Todo(r) ELSE Todo(chunks[j])
  <2>1. \A j \in 1..n : Todo(chunks[j])' = Todo(chunks'[j])
    BY <1>5 DEF Todo
  <2> QED BY <1>4, <2>1
<1>7. TypeOK'
  <2>1. taken' \subseteq [line : 1..size - 1, by : DOMAIN chunks', text : 1..size]
    BY <1>2, <1>4 DEF SplitInv, TypeOK
  <2> QED BY <1>2, <1>4, <2>1 DEF SplitInv, TypeOK, ChunkRec
<1>8. ASSUME NEW j \in 1..n - 1 PROVE chunks[j].end \in Nat /\ chunks[j].end <= cut
  <2>1. chunks[j] \in ChunkRec /\ j \in DOMAIN chunks
    BY <1>1, <1>4
  <2> QED BY <1>1, <2>1 DEF SplitInv, ChunksOK, ChunkRec
<1>9. ChunksOK'
  BY <1>1, <1>2, <1>3, <1>4, <1>8 DEF SplitInv, ChunksOK
<1>10. ASSUME NEW a \in LineStarts, a < cut' PROVE HasOneOwner(a)'
  <2>0. a \in Nat /\ a < size
    BY <1>1 DEF LineStarts
  <2>1. CASE a < cut
    <3>1. HasOneOwner(a) /\ a \notin Todo(r)
      BY <1>1, <1>3, <2>0, <2>1 DEF SplitInv, LineOwnership, Todo
    <3>2. Held(a)' <=> Held(a)
      BY <1>4, <1>6, <3>1 DEF Held
    <3>3. HeldOnce(a)' <=> HeldOnce(a)
      BY <1>4, <1>6, <3>1 DEF HeldOnce
    <3> QED BY <1>2, <3>1, <3>2, <3>3 DEF HasOneOwner, TakenOnce
  <2>2. CASE a >= cut
    <3>1. a \in Todo(r)
      BY <1>2, <1>3, <1>10, <2>0, <2>2 DEF Todo
    <3>2. \A j \in 1..n - 1 : a \notin Todo(chunks[j])
      BY <1>1, <1>8, <2>0, <2>2 DEF Todo
    <3>3. \A t \in taken : t.line # a
      BY <1>1, <1>8, <2>0, <2>2 DEF SplitInv, LineOwnership
    <3>4. HeldOnce(a)'
      BY <1>4, <1>6, <3>1, <3>2 DEF HeldOnce
    <3> QED BY <1>2, <3>3, <3>4 DEF HasOneOwner
  <2> QED BY <1>1, <2>0, <2>1, <2>2
<1>11. LineOwnership'
  <2>1. \A t \in taken : t.line \in Nat /\ t.line \in LineStarts /\ t.line < cut
    BY <1>1 DEF SplitInv, LineOwnership, LineStarts
  <2>2. \A t \in taken' : t.line \in LineStarts /\ t.line < cut'
    BY <1>1, <1>2, <2>1
  <2> QED BY <1>5, <1>10, <2>2 DEF LineOwnership
<1> QED BY <1>7, <1>9, <1>11 DEF SplitInv

LEMMA SplitInitInv == Init => SplitInv
  BY SplitAssumption DEF Init, SplitInv, TypeOK, ChunksOK, LineOwnership, LineStarts

LEMMA SplitStepInv == SplitInv /\ [Next]_vars => SplitInv'
<1> SUFFICES ASSUME SplitInv, [Next]_vars PROVE SplitInv'
  OBVIOUS
<1>1. CASE Cut
  BY <1>1, CutStep
<1>2. ASSUME NEW i \in DOMAIN chunks, Work(i) PROVE SplitInv'
  BY <1>2, OpenStep, NextLineStep, HandOverStep, CloseStep DEF Work
<1>3. CASE UNCHANGED vars
  <2>1. LineStarts' = LineStarts
    BY <1>3, SizesKept DEF vars
  <2>2. \A c : Todo(c)' = Todo(c)
    BY <2>1 DEF Todo
  <2> QED BY SMTT(30), <1>3, <2>1, <2>2 DEF vars, SplitInv, TypeOK, ChunksOK, LineOwnership, HasOneOwner,
             TakenOnce, Held, HeldOnce
<1> QED BY <1>1, <1>2, <1>3 DEF Next

(* The type invariant of the splitter's and the readers' state.            *)
THEOREM SplitTypeOK == Spec => []TypeOK
<1>1. SplitInv => TypeOK
  BY DEF SplitInv
<1> QED BY <1>1, SplitInitInv, SplitStepInv, PTL DEF Spec

(* A line is in the hands of exactly one chunk from the moment it is cut   *)
(* into a range, for every file, chunk size and overlap.                   *)
THEOREM LinesHaveOneOwner == Spec => []LineOwnership
<1>1. SplitInv => LineOwnership
  BY DEF SplitInv
<1> QED BY <1>1, SplitInitInv, SplitStepInv, PTL DEF Spec
-------------------------------------------------------------------------------
LEMMA YieldIsWhole ==
  ASSUME SplitInv, NEW i \in DOMAIN chunks, Owns(chunks[i]),
         LineEnd(chunks[i].cursor, size) - chunks[i].cursor <= Overlap + 1
  PROVE  Yield(i).text = TextEnd(chunks[i].cursor, size)
<1> DEFINE c == chunks[i]
           end == BufferEnd(c)
           e == LineEnd(c.cursor, end)
           f == LineEnd(c.cursor, size)
<1>1. /\ c \in ChunkRec /\ end \in Nat /\ c.end <= end /\ end <= size /\ size \in Nat
  BY ChunkFacts DEF SplitInv
<1>2. c.cursor \in Nat /\ c.cursor < c.end /\ c.end \in Nat /\ c.cursor <= end /\ c.cursor <= size
  BY <1>1, AtCursor DEF Owns, ChunkRec
<1>3. end = c.end + Overlap \/ end = size
  BY DEF BufferEnd, Smaller
<1>4. /\ e \in c.cursor..end /\ \A q \in c.cursor..e - 1 : file[q] # "newline"
      /\ e < end => file[e] = "newline"
  <2> HIDE DEF c, end
  <2> QED BY <1>1, <1>2, LineEndIs
<1>5. /\ f \in c.cursor..size /\ \A q \in c.cursor..f - 1 : file[q] # "newline"
      /\ f < size => file[f] = "newline"
  <2> HIDE DEF c
  <2> QED BY <1>1, <1>2, LineEndIs
<1>6. f - c.cursor <= Overlap + 1
  OBVIOUS
<1> HIDE DEF e, f, end, c
<1>7. e = f
  BY <1>1, <1>2, <1>3, <1>4, <1>5, <1>6, SplitAssumption
<1> QED BY <1>7 DEF Yield, TextEnd, e, f, end, c

LEMMA NextTakes ==
  ASSUME SplitInv, [Next]_vars
  PROVE  /\ UNCHANGED <<size, file>>
         /\ \/ taken' = taken
            \/ \E i \in DOMAIN chunks :
                  /\ Owns(chunks[i]) /\ chunks[i].cursor \in LineStarts
                  /\ taken' = taken \cup {Yield(i)}
<1>1. ASSUME NEW i \in DOMAIN chunks, NextLine(i) \/ HandOver(i)
      PROVE  /\ UNCHANGED <<size, file>>
             /\ taken' = taken \/ (/\ Owns(chunks[i]) /\ chunks[i].cursor \in LineStarts
                                   /\ taken' = taken \cup {Yield(i)})
  <2>1. Owns(chunks[i])
    BY <1>1 DEF NextLine, HandOver
  <2>2. Yield(i).text > chunks[i].cursor <=> chunks[i].cursor \in LineStarts
    BY <2>1, AtCursor
  <2> QED BY <1>1, <2>1, <2>2 DEF NextLine, HandOver
<1>2. ASSUME Cut \/ UNCHANGED vars PROVE UNCHANGED <<size, file, taken>>
  BY <1>2 DEF Cut, vars
<1>3. ASSUME NEW i \in DOMAIN chunks, Open(i) \/ Close(i) PROVE UNCHANGED <<size, file, taken>>
  BY <1>3 DEF Open, Close
<1> QED BY <1>1, <1>2, <1>3 DEF Next, Work

LEMMA ReadWholeStep == SplitInv /\ ReadWhole /\ [Next]_vars => ReadWhole'
<1> SUFFICES ASSUME SplitInv, ReadWhole, [Next]_vars PROVE ReadWhole'
  OBVIOUS
<1>1. UNCHANGED <<size, file>>
  BY NextTakes
<1>2. \A a : LineEnd(a, size)' = LineEnd(a, size) /\ TextEnd(a, size)' = TextEnd(a, size)
  BY <1>1 DEF TextEnd, Trimmed, LineEnd, IndexOf
<1>3. CASE taken' = taken
  BY <1>1, <1>2, <1>3 DEF ReadWhole
<1>4. ASSUME NEW i \in DOMAIN chunks, Owns(chunks[i]), taken' = taken \cup {Yield(i)}
      PROVE  ReadWhole'
  <2>0. PICK y : y = Yield(i)
    OBVIOUS
  <2>1. y.line = chunks[i].cursor
    BY <2>0 DEF Yield
  <2>2. LineEnd(y.line, size) - y.line <= Overlap + 1 => y.text = TextEnd(y.line, size)
    BY <1>4, <2>0, <2>1, YieldIsWhole
  <2> QED BY <1>1, <1>2, <1>4, <2>0, <2>2 DEF ReadWhole
<1> QED BY <1>3, <1>4, NextTakes

(* No line as short as the overlap allows is ever read truncated.          *)
THEOREM ShortLinesReadWhole == Spec => []ReadWhole
<1>1. Init => ReadWhole
  BY DEF Init, ReadWhole
<1> QED BY <1>1, SplitInitInv, SplitStepInv, ReadWholeStep, PTL DEF Spec
-------------------------------------------------------------------------------
GivenPairs == {[line |-> t.line, by |-> t.by] : t \in taken}

LEMMA FeedStep == SplitInv /\ [Next]_vars => [Feed!Next]_<<LineStarts, GivenPairs>>
<1> SUFFICES ASSUME SplitInv, [Next]_vars PROVE [Feed!Next]_<<LineStarts, GivenPairs>>
  OBVIOUS
<1>1. LineStarts' = LineStarts
  BY NextTakes, SizesKept
<1>2. CASE taken' = taken
  <2>1. GivenPairs' = GivenPairs
    BY <1>2 DEF GivenPairs
  <2> QED BY <1>1, <2>1
<1>3. ASSUME NEW i \in DOMAIN chunks, Owns(chunks[i]), chunks[i].cursor \in LineStarts,
             taken' = taken \cup {Yield(i)}
      PROVE  [Feed!Next]_<<LineStarts, GivenPairs>>
  <2>0. PICK g : g = [line |-> chunks[i].cursor, by |-> i]
    OBVIOUS
  <2>1. g = [line |-> Yield(i).line, by |-> Yield(i).by]
    BY <2>0 DEF Yield
  <2>2. GivenPairs' = GivenPairs \cup {g}
    BY <1>3, <2>1 DEF GivenPairs
  <2>3. \A h \in GivenPairs : h.line # g.line
    BY <1>3, <2>0, OwnLine DEF GivenPairs
  <2>4. Feed!Give(g)
    BY <1>1, <1>3, <2>0, <2>2, <2>3 DEF Feed!Give, GivenPairs
  <2> QED BY <2>2, <2>4 DEF Feed!Next, GivenPairs
<1> QED BY <1>2, <1>3, NextTakes

(* Splitting by byte offset implements LineFeed: every step takes nothing, *)
(* or gives one line of the file that nobody had been given.               *)
THEOREM SplitImplementsFeed == Spec => EachLineOnce
<1>1. Init => Feed!Init
  BY DEF Init, Feed!Init
<1>2. SplitInv /\ [Next]_vars => [Feed!Next]_<<LineStarts, {[line |-> t.line, by |-> t.by] : t \in taken}>>
  BY FeedStep DEF GivenPairs
<1> QED BY <1>1, <1>2, SplitInitInv, SplitStepInv, PTL DEF Spec, EachLineOnce, Feed!Spec
===============================================================================
