--------------------------- MODULE IngestionProofs ----------------------------
(***************************************************************************)
(* LinesCovered and RejectionsKept for every file, every number of         *)
(* splitters and workers, every batch size and error cap and any number of *)
(* faults.  One argument carries both: the chunk a worker allocates for    *)
(* the rest of its own has a higher index, so "owned by a later open       *)
(* chunk" cannot go round in a circle, and completing a chunk only removes *)
(* it from the claims of earlier ones, which the completed chunk's own     *)
(* claim then replaces (SettledLasts).                                     *)
(***************************************************************************)
EXTENDS IngestionPipeline, LeastElement, SequenceTheorems

Structure  == TypeOK /\ MessagesOK
Coverage   == RecordedOK /\ Covers(Accounted, Started, chunks, worker)

(* Chunk rows keep their interval; no chunk but d closes, and d is settled. *)
RowsKept(cs, ds) ==
  /\ Len(cs) \in Nat /\ Len(ds) \in Nat /\ Len(cs) <= Len(ds)
  /\ \A i \in 1..Len(cs) : ds[i].from = cs[i].from /\ ds[i].to = cs[i].to
ClosesOnly(cs, ds, done, d) ==
  \A i \in 1..Len(cs) : Open(cs[i]) => Open(ds[i]) \/ (i = d /\ Settled(cs, done, d))
-------------------------------------------------------------------------------
LEMMA GoodLinesFinite ==
  ASSUME NEW from, NEW to
  PROVE  /\ GoodLines(from, to) \subseteq Rows /\ IsFiniteSet(GoodLines(from, to))
         /\ Cardinality(GoodLines(from, to)) \in Nat
         /\ Cardinality({Sku[l] : l \in GoodLines(from, to)}) \in Nat
<1> DEFINE G == GoodLines(from, to)
           f == [l \in G |-> Sku[l]]
<1>1. G \subseteq Rows /\ Rows \subseteq Lines
  BY DEF GoodLines, Rows
<1>2. IsFiniteSet(G)
  BY <1>1, FS_Subset, LinesAssumption
<1>3. f \in Surjection(G, {Sku[l] : l \in G})
  BY DEF Surjection
<1>4. IsFiniteSet({Sku[l] : l \in G})
  BY <1>2, <1>3, FS_Surjection
<1> QED BY <1>1, <1>2, <1>4, FS_CardinalityType

(* Splitting an interval loses no line.                                    *)
LEMMA LinesSplit ==
  ASSUME NEW from \in Nat, NEW mid \in Nat, NEW to \in Nat,
         NEW l \in LinesIn(from, to)
  PROVE  l \in LinesIn(from, mid) \/ l \in LinesIn(mid, to)
<1>1. l \in Nat
  BY LinesAssumption DEF LinesIn
<1> QED BY <1>1 DEF LinesIn

LEMMA LinesAreGoodOrBad ==
  ASSUME NEW from, NEW to
  PROVE  LinesIn(from, to) = GoodLines(from, to) \cup BadLines(from, to)
BY DEF LinesIn, GoodLines, BadLines

(* Records are only added: what is listed stays so.                        *)
LEMMA ListedGrows ==
  ASSUME Structure, errors' \in [Lines -> Nat], \A l \in Lines : errors[l] <= errors'[l]
  PROVE  Listed \subseteq Listed'
<1> SUFFICES ASSUME NEW l \in Listed PROVE l \in Listed'
  OBVIOUS
<1>1. \A k \in Lines : errors[k] \in Nat /\ errors'[k] \in Nat
  BY DEF Structure, TypeOK
<1>2. l \in Lines /\ l \in Rejects
  BY DEF Listed, Rejects
<1>3. CASE errors[l] > 0
  BY <1>1, <1>2, <1>3 DEF Listed
<1>4. CASE Cardinality(ListedBefore(l)) >= ErrorCap
  <2>1. ListedBefore(l) \subseteq ListedBefore(l)'
    BY <1>1 DEF ListedBefore
  <2>2. IsFiniteSet(ListedBefore(l)) /\ IsFiniteSet(ListedBefore(l)')
    BY FS_Subset, LinesAssumption DEF ListedBefore
  <2>3. Cardinality(ListedBefore(l)') >= ErrorCap
    BY <1>4, <2>1, <2>2, FS_Subset, FS_CardinalityType, BoundsAssumption
  <2> QED BY <1>2, <2>3 DEF Listed
<1> QED BY <1>3, <1>4 DEF Listed

(* A settled chunk stays settled while rows keep their interval, lines     *)
(* stay landed, and at most one chunk closes, itself settled.              *)
LEMMA SettledLasts ==
  ASSUME NEW cs, NEW ds, NEW done, NEW more, done \subseteq more, RowsKept(cs, ds),
         NEW d, ClosesOnly(cs, ds, done, d),
         NEW c \in 1..Len(cs), Settled(cs, done, c)
  PROVE  Settled(ds, more, c)
<1> SUFFICES ASSUME NEW l \in Owned(ds[c]), l \notin more
             PROVE  \E i \in c + 1..Len(ds) : Open(ds[i]) /\ l \in Owned(ds[i])
  BY DEF Settled
<1>1. l \in Owned(cs[c])
  BY DEF RowsKept, Owned
<1>2. PICK i \in c + 1..Len(cs) : Open(cs[i]) /\ l \in Owned(cs[i])
  BY <1>1 DEF Settled
<1>3. i \in 1..Len(cs) /\ i \in c + 1..Len(ds) /\ l \in Owned(ds[i])
  BY <1>2 DEF RowsKept, Owned
<1>4. CASE Open(ds[i])
  BY <1>3, <1>4
<1>5. CASE ~Open(ds[i])
  <2>1. i = d /\ Settled(cs, done, i)
    BY <1>2, <1>3, <1>5 DEF ClosesOnly
  <2>2. PICK j \in i + 1..Len(cs) : Open(cs[j]) /\ l \in Owned(cs[j])
    BY <1>2, <2>1 DEF Settled
  <2>3. j \in 1..Len(cs) /\ j # d /\ j \in c + 1..Len(ds)
    BY <1>3, <2>1, <2>2 DEF RowsKept
  <2>4. Open(ds[j]) /\ l \in Owned(ds[j])
    BY <2>2, <2>3 DEF RowsKept, Owned, ClosesOnly
  <2> QED BY <2>3, <2>4
<1> QED BY <1>4, <1>5
-------------------------------------------------------------------------------
(* Types and the shape of the tables.                                      *)

LEMMA InitStructure ==
  ASSUME Init PROVE Structure
<1>1. IdleWorker \in WorkerState /\ NoJob \in JobRow
  BY DEF IdleWorker, Delivery, WorkerState, NoJob, JobRow
<1>2. TypeOK
  BY <1>1, BoundsAssumption DEF Init, TypeOK, IdleSplitter, Chunk
<1>3. MessagesOK
  BY DEF Init, MessagesOK, NoJob, IdleSplitter, IdleWorker, Delivery, Working, Messages
<1> QED BY <1>2, <1>3 DEF Structure

LEMMA CreateJobStructure ==
  ASSUME Structure, NEW s \in Splitters, CreateJob(s)
  PROVE  Structure'
<1> USE DEF Structure
<1>1. /\ chunks' \in Seq(Chunk) /\ Len(chunks') = Len(Ranges)
  <2>1. Len(Ranges) \in Nat
    BY RangesAssumption
  <2>2. \A i \in 1..Len(Ranges) : NewChunk(Ranges[i].from, Ranges[i].to) \in Chunk
    <3>1. \A i \in 1..Len(Ranges) : Ranges[i] \in [from : Nat \ {0}, to : Nat \ {0}]
      BY RangesAssumption, ElementOfSeq
    <3> QED BY <3>1 DEF NewChunk, Chunk
  <2> QED BY <2>1, <2>2 DEF CreateJob
<1>2. job' \in JobRow /\ job'.status = "processing"
  <2>1. Len(Ranges) \in Nat
    BY RangesAssumption
  <2> QED BY <2>1 DEF CreateJob, NoJob, JobRow
<1>3. splitter' \in [Splitters -> [phase : {"idle", "sending", "ack"}, next : Nat]]
  BY DEF CreateJob, SetSplitter, TypeOK
<1>4. TypeOK'
  <2>1. notices' \in Nat
    BY DEF CreateJob, TypeOK
  <2> QED BY <1>1, <1>2, <1>3, <2>1, BoundsAssumption DEF CreateJob, TypeOK
<1>5. \A m : ~HasRow(m)
  BY DEF CreateJob, MessagesOK, HasRow
<1>6. MessagesOK'
  BY <1>1, <1>2, <1>5 DEF CreateJob, MessagesOK
<1> QED BY <1>4, <1>6

(* Splitter and queue steps leave the tables and the workers alone.        *)
LEMMA SplitterStructure ==
  ASSUME Structure, NEW s \in Splitters,
         SkipExistingJob(s) \/ SendChunks(s) \/ AckNotice(s) \/ SplitterFails(s)
  PROVE  Structure'
<1> USE DEF Structure
<1>1. CASE SkipExistingJob(s)
  BY <1>1 DEF SkipExistingJob, SetSplitter, tableVars, TypeOK, MessagesOK, HasRow
<1>2. CASE SendChunks(s)
  <2>1. faults' \in 0..MaxFaults
    <3>1. faults' = faults \/ Fault
      BY <1>2 DEF SendChunks
    <3> QED BY <3>1, BoundsAssumption DEF Fault, TypeOK
  <2>2. splitter' \in [Splitters -> [phase : {"idle", "sending", "ack"}, next : Nat]]
    <3>1. splitter[s].next + SendBatch \in Nat
      BY BoundsAssumption DEF TypeOK
    <3>2. PICK phase \in {"sending", "ack"}, next \in Nat : SetSplitter(s, phase, next)
      BY <1>2, <3>1 DEF SendChunks
    <3> QED BY <3>2 DEF SetSplitter, TypeOK
  <2>3. PICK sent \in SUBSET (splitter[s].next..Len(Ranges)) :
          msg' = [m \in Messages |-> IF m \in sent THEN [msg[m] EXCEPT !.state = "visible"]
                                                   ELSE msg[m]]
    BY <1>2 DEF SendChunks
  <2>4. TypeOK'
    <3>1. msg' \in [Messages -> [state : {"unsent", "visible", "inflight", "deleted", "dead"},
                                 receives : 0..MaxReceives]]
      BY <2>3 DEF TypeOK
    <3>2. UNCHANGED <<notices, tableVars, worker>>
      BY <1>2 DEF SendChunks
    <3> QED BY <2>1, <2>2, <3>1, <3>2 DEF tableVars, TypeOK
  <2>5. job.status # "none" /\ Len(Ranges) <= Len(chunks)
    BY <1>2 DEF SendChunks, MessagesOK
  <2>6. \A m \in sent : m \in Nat => m <= Len(chunks)
    BY <2>5, RangesAssumption DEF TypeOK
  <2>7. \A m \in Messages \ Garbled : msg'[m].state # "unsent" => HasRow(m)
    BY <2>3, <2>6, BoundsAssumption DEF MessagesOK, HasRow, Messages, TypeOK
  <2>8. \A z \in Splitters : splitter'[z].phase = "sending" => job.status # "none"
    BY <2>5
  <2> QED BY <1>2, <2>4, <2>7, <2>8 DEF SendChunks, tableVars, MessagesOK, HasRow
<1>3. CASE AckNotice(s)
  BY <1>3 DEF AckNotice, SetSplitter, tableVars, TypeOK, MessagesOK, HasRow
<1>4. CASE SplitterFails(s)
  BY SMTT(30), <1>4, BoundsAssumption DEF SplitterFails, SetSplitter, tableVars, TypeOK, MessagesOK, HasRow, Fault
<1> QED BY <1>1, <1>2, <1>3, <1>4

LEMMA QueueStructure ==
  ASSUME Structure, NEW m \in Messages, MoveToDlq(m) \/ Reappear(m)
  PROVE  Structure'
<1> USE DEF Structure
<1>1. CASE MoveToDlq(m)
  BY <1>1 DEF MoveToDlq, splitVars, tableVars, TypeOK, MessagesOK, HasRow
<1>2. CASE Reappear(m)
  <2>1. faults' \in 0..MaxFaults
    BY <1>2, BoundsAssumption DEF Reappear, Fault, TypeOK
  <2>2. msg' = [msg EXCEPT ![m].state = "visible"] /\ msg[m].state = "inflight"
    BY <1>2 DEF Reappear
  <2>3. TypeOK'
    BY <1>2, <2>1, <2>2 DEF Reappear, splitVars, tableVars, TypeOK
  <2>4. MessagesOK'
    BY <1>2, <2>2 DEF Reappear, splitVars, tableVars, TypeOK, MessagesOK, HasRow
  <2> QED BY <2>3, <2>4
<1> QED BY <1>1, <1>2

(* A worker's steps: SetWorker with a well-typed state keeps the others.   *)
LEMMA SetWorkerKeeps ==
  ASSUME Structure, NEW w \in Workers, NEW s \in WorkerState, SetWorker(w, s)
  PROVE  /\ worker' \in [Workers -> WorkerState] /\ worker'[w] = s
         /\ \A v \in Workers \ {w} : worker'[v] = worker[v]
BY DEF Structure, TypeOK, SetWorker

(* What MessagesOK asks of one worker, given the number of chunk rows.     *)
WorkerHasRows(s, n) ==
  /\ s.phase \in Working => s.msg \in 1..n
  /\ s.phase = "received" => s.msg \in Garbled \/ s.msg \in 1..n
  /\ s.phase = "sending" => s.next \in 1..n

LEMMA WorkersHaveRows ==
  ASSUME Structure, NEW w \in Workers, NEW s \in WorkerState, SetWorker(w, s),
         NEW n \in Nat, Len(chunks) <= n, WorkerHasRows(s, n)
  PROVE  \A v \in Workers : WorkerHasRows(worker'[v], n)
<1>1. \A v \in Workers \ {w} : WorkerHasRows(worker'[v], n)
  BY SetWorkerKeeps DEF Structure, MessagesOK, WorkerHasRows, HasRow, TypeOK
<1> QED BY <1>1, SetWorkerKeeps

(* Every step of a worker that leaves the number of rows as it is.         *)
LEMMA WorkerStructure ==
  ASSUME Structure, NEW w \in Workers, NEW s \in WorkerState, SetWorker(w, s),
         UNCHANGED splitVars, Len(chunks') = Len(chunks), chunks' \in Seq(Chunk),
         job' \in JobRow, job.status = "none" <=> job'.status = "none", job'.total = job.total,
         msg' \in [Messages -> [state : {"unsent", "visible", "inflight", "deleted", "dead"},
                                receives : 0..MaxReceives]],
         \A m \in Messages \ Garbled : msg'[m].state # "unsent" => HasRow(m),
         landed' \subseteq Rows, errors' \in [Lines -> Nat], faults' \in 0..MaxFaults,
         WorkerHasRows(s, Len(chunks))
  PROVE  Structure'
<1>1. TypeOK'
  BY SetWorkerKeeps DEF Structure, TypeOK, splitVars
<1>2. \A v \in Workers : WorkerHasRows(worker'[v], Len(chunks))
  <2>1. Len(chunks) \in Nat /\ Len(chunks) <= Len(chunks)
    BY LenProperties DEF Structure, TypeOK
  <2> QED BY <2>1, WorkersHaveRows
<1>3. MessagesOK'
  <2>1. job'.status = "none" => chunks' = <<>>
    <3>1. job'.status = "none" => Len(chunks') = 0
      BY DEF Structure, MessagesOK
    <3> QED BY <3>1, EmptySeq
  <2> QED BY <1>2, <2>1 DEF Structure, MessagesOK, WorkerHasRows, HasRow, splitVars
<1> QED BY <1>1, <1>3 DEF Structure

LEMMA ReceiveStructure ==
  ASSUME Structure, NEW w \in Workers, NEW m \in Messages, Receive(w, m)
  PROVE  Structure'
<1> DEFINE s == Delivery("received", m, msg[m].receives + 1)
<1>1. m \in Int /\ msg[m].receives \in Nat /\ msg[m].receives + 1 \in 0..MaxReceives
  BY GarbledAssumption, BoundsAssumption DEF Receive, Structure, TypeOK, Messages
<1>2. s \in WorkerState
  <2>1. msg[m].receives + 1 \in Nat
    BY <1>1
  <2> QED BY <1>1, <2>1 DEF Delivery, WorkerState, Working
<1>3. msg' \in [Messages -> [state : {"unsent", "visible", "inflight", "deleted", "dead"},
                             receives : 0..MaxReceives]]
  BY <1>1 DEF Receive, Structure, TypeOK
<1>4. \A k \in Messages \ Garbled : msg'[k].state # "unsent" => HasRow(k)
  BY DEF Receive, Structure, MessagesOK, TypeOK
<1>5. WorkerHasRows(s, Len(chunks))
  <2>1. m \in Garbled \/ m \in 1..Len(chunks)
    BY DEF Receive, Structure, MessagesOK, HasRow
  <2> QED BY <2>1 DEF WorkerHasRows, Delivery, Working
<1> HIDE DEF s
<1> QED BY <1>2, <1>3, <1>4, <1>5, WorkerStructure DEF Receive, tableVars, Structure, TypeOK, s

LEMMA ClaimedRow ==
  ASSUME Structure, NEW w \in Workers, Claim(w)
  PROVE  LET c   == worker[w].msg
             new == [chunks[c] EXCEPT !.status = "processing"]
         IN  /\ c \in 1..Len(chunks) /\ chunks[c] \in Chunk
             /\ chunks' \in Seq(Chunk) /\ Len(chunks') = Len(chunks)
             /\ \A i \in 1..Len(chunks) : chunks'[i] = IF i = c THEN new ELSE chunks[i]
<1> DEFINE c   == worker[w].msg
           new == [chunks[c] EXCEPT !.status = "processing"]
<1>1. c \in 1..Len(chunks) /\ chunks[c] \in Chunk
  BY ElementOfSeq DEF Claim, Structure, TypeOK, MessagesOK, HasRow
<1>2. new \in Chunk
  BY <1>1 DEF Chunk
<1>3. chunks' = [chunks EXCEPT ![c] = new]
  BY DEF Claim
<1> HIDE DEF c, new
<1>4. /\ chunks' \in Seq(Chunk) /\ Len(chunks') = Len(chunks)
      /\ \A i \in 1..Len(chunks) : chunks'[i] = IF i = c THEN new ELSE chunks[i]
  BY <1>1, <1>2, <1>3, ExceptSeq DEF Structure, TypeOK
<1> QED BY <1>1, <1>4 DEF c, new

LEMMA CompletedRow ==
  ASSUME Structure, NEW w \in Workers, CompleteChunk(w)
  PROVE  LET c   == worker[w].msg
             new == [chunks[c] EXCEPT !.status = "completed", !.upserted = worker[w].upserted,
                                      !.rejected = Cardinality(worker[w].rejected)]
         IN  /\ c \in 1..Len(chunks) /\ chunks[c] \in Chunk
             /\ chunks' \in Seq(Chunk) /\ Len(chunks') = Len(chunks)
             /\ \A i \in 1..Len(chunks) : chunks'[i] = IF i = c THEN new ELSE chunks[i]
             /\ worker[w].upserted \in Nat /\ Cardinality(worker[w].rejected) \in Nat
<1> DEFINE c   == worker[w].msg
           up  == worker[w].upserted
           bad == Cardinality(worker[w].rejected)
           new == [chunks[c] EXCEPT !.status = "completed", !.upserted = up, !.rejected = bad]
<1>1. c \in 1..Len(chunks) /\ worker[w] \in WorkerState /\ chunks[c] \in Chunk
  BY ElementOfSeq DEF CompleteChunk, Structure, TypeOK, MessagesOK, HasRow, Working
<1>2. up \in Nat /\ bad \in Nat
  <2>1. worker[w].rejected \in SUBSET Lines /\ up \in Nat
    BY <1>1 DEF WorkerState, Rejects
  <2> QED BY <2>1, FS_Subset, FS_CardinalityType, LinesAssumption
<1>3. new \in Chunk
  BY <1>1, <1>2 DEF Chunk
<1>4. chunks' = [chunks EXCEPT ![c] = new]
  BY DEF CompleteChunk
<1> HIDE DEF c, new
<1>5. /\ chunks' \in Seq(Chunk) /\ Len(chunks') = Len(chunks)
      /\ \A i \in 1..Len(chunks) : chunks'[i] = IF i = c THEN new ELSE chunks[i]
  BY <1>1, <1>3, <1>4, ExceptSeq DEF Structure, TypeOK
<1> QED BY <1>1, <1>2, <1>5 DEF c, new

LEMMA ClaimStructure ==
  ASSUME Structure, NEW w \in Workers, Claim(w)
  PROVE  Structure'
<1> DEFINE c == worker[w].msg
           s == [worker[w] EXCEPT !.phase = "reading", !.pos = chunks[c].from]
<1>1. c \in 1..Len(chunks) /\ worker[w] \in WorkerState /\ chunks[c] \in Chunk
  BY ElementOfSeq DEF Claim, Structure, TypeOK, MessagesOK, HasRow
<1>2. s \in WorkerState
  BY <1>1 DEF WorkerState, Chunk, Working
<1>3. chunks' \in Seq(Chunk) /\ Len(chunks') = Len(chunks)
  BY ClaimedRow
<1>4. WorkerHasRows(s, Len(chunks))
  BY <1>1 DEF WorkerHasRows, WorkerState, Working
<1> HIDE DEF s
<1> QED BY <1>2, <1>3, <1>4, WorkerStructure DEF Claim, Structure, TypeOK, MessagesOK, s

LEMMA FlushStructure ==
  ASSUME Structure, NEW w \in Workers, Flush(w)
  PROVE  Structure'
<1>1. /\ worker[w].msg \in 1..Len(chunks) /\ worker[w] \in WorkerState
      /\ chunks[worker[w].msg] \in Chunk
  BY ElementOfSeq DEF Flush, Structure, TypeOK, MessagesOK, HasRow, Working
<1>2. PICK e \in BatchEnds(worker[w].pos, chunks[worker[w].msg].to) :
        LET batch == GoodLines(worker[w].pos, e)
        IN  /\ landed' = landed \cup batch
            /\ \E phase \in AfterFlush(Cardinality(batch)) :
                 SetWorker(w, [worker[w] EXCEPT
                   !.phase = phase, !.pos = e,
                   !.upserted = @ + Cardinality({Sku[l] : l \in batch}),
                   !.rejected = @ \cup BadLines(worker[w].pos, e)])
  BY DEF Flush
<1> DEFINE batch == GoodLines(worker[w].pos, e)
<1>3. PICK phase \in {"reading", "handoff", "recording"} :
        SetWorker(w, [worker[w] EXCEPT
                   !.phase = phase, !.pos = e,
                   !.upserted = @ + Cardinality({Sku[l] : l \in batch}),
                   !.rejected = @ \cup BadLines(worker[w].pos, e)])
  BY <1>2 DEF AfterFlush
<1> DEFINE s == [worker[w] EXCEPT
                   !.phase = phase, !.pos = e,
                   !.upserted = @ + Cardinality({Sku[l] : l \in batch}),
                   !.rejected = @ \cup BadLines(worker[w].pos, e)]
<1>4. e \in Nat
  BY <1>1 DEF BatchEnds, WorkerState, Chunk
<1>5. s \in WorkerState
  <2>1. worker[w].upserted + Cardinality({Sku[l] : l \in batch}) \in Nat
    <3>1. Cardinality({Sku[l] : l \in batch}) \in Nat
      BY GoodLinesFinite, Zenon
    <3> QED BY <1>1, <3>1 DEF WorkerState
  <2>2. worker[w].rejected \cup BadLines(worker[w].pos, e) \in SUBSET Rejects
    BY <1>1 DEF WorkerState, BadLines, Rejects
  <2> QED BY <1>1, <1>4, <2>1, <2>2 DEF WorkerState, Working
<1>6. landed' \subseteq Rows
  BY <1>2, GoodLinesFinite DEF Structure, TypeOK
<1>7. WorkerHasRows(s, Len(chunks))
  BY <1>1 DEF WorkerHasRows, WorkerState
<1>8. SetWorker(w, s)
  BY <1>3
<1> HIDE DEF s
<1> QED BY <1>5, <1>6, <1>7, <1>8, WorkerStructure DEF Flush, Structure, TypeOK, MessagesOK

LEMMA AllocateStructure ==
  ASSUME Structure, NEW w \in Workers, AllocateContinuation(w)
  PROVE  Structure'
<1> DEFINE new == NewChunk(worker[w].pos, chunks[worker[w].msg].to)
           s == [worker[w] EXCEPT !.phase = "sending", !.next = job.total + 1]
<1>1. /\ worker[w].msg \in 1..Len(chunks) /\ worker[w] \in WorkerState
      /\ chunks[worker[w].msg] \in Chunk
  BY ElementOfSeq DEF AllocateContinuation, Structure, TypeOK, MessagesOK, HasRow, Working
<1>2. new \in Chunk
  BY <1>1 DEF NewChunk, Chunk, WorkerState
<1>3. chunks' \in Seq(Chunk) /\ Len(chunks') = Len(chunks) + 1 /\ Len(chunks') <= MaxChunks
  BY <1>2, AppendProperties, LenProperties, BoundsAssumption
  DEF AllocateContinuation, Structure, TypeOK
<1>4. s \in WorkerState /\ job.total + 1 = Len(chunks')
  <2>1. job.total + 1 = Len(chunks') /\ job.total + 1 \in Nat
    BY <1>3 DEF Structure, TypeOK, JobRow, MessagesOK
  <2> QED BY <1>1, <2>1 DEF WorkerState, Working
<1>5. \A v \in Workers : WorkerHasRows(worker'[v], Len(chunks'))
  <2>1. WorkerHasRows(s, Len(chunks'))
    BY SMTT(30), <1>1, <1>3, <1>4 DEF WorkerHasRows, WorkerState
  <2>2. SetWorker(w, s)
    BY DEF AllocateContinuation
  <2>3. Len(chunks') \in Nat /\ Len(chunks) <= Len(chunks')
    BY <1>3, LenProperties DEF Structure, TypeOK
  <2> HIDE DEF s
  <2> QED BY <1>4, <2>1, <2>2, <2>3, WorkersHaveRows
<1>6. job' \in JobRow /\ job'.total = Len(chunks') /\ job'.status = job.status
  <2>1. job \in JobRow /\ job.total + 1 \in Nat
    BY DEF Structure, TypeOK, JobRow
  <2> QED BY <1>4, <2>1 DEF AllocateContinuation, JobRow
<1>7. worker' \in [Workers -> WorkerState]
  BY <1>4 DEF AllocateContinuation, SetWorker, Structure, TypeOK
<1>8. job.status # "none"
  BY <1>1 DEF Structure, MessagesOK
<1>9. TypeOK'
  BY <1>3, <1>6, <1>7 DEF AllocateContinuation, Structure, TypeOK, splitVars
<1>10. MessagesOK'
  BY <1>3, <1>5, <1>6, <1>8
  DEF AllocateContinuation, Structure, TypeOK, MessagesOK, HasRow, WorkerHasRows, splitVars
<1> QED BY <1>9, <1>10 DEF Structure

(* The other steps of a worker touch no chunk row, or one row's outcome.   *)
LEMMA SendContinuationStructure ==
  ASSUME Structure, NEW w \in Workers, SendContinuation(w)
  PROVE  Structure'
<1> DEFINE s == [worker[w] EXCEPT !.phase = "recording"]
<1>1. /\ worker[w].msg \in 1..Len(chunks) /\ worker[w].next \in 1..Len(chunks)
      /\ worker[w] \in WorkerState
  BY DEF SendContinuation, Structure, TypeOK, MessagesOK, HasRow, Working
<1>2. s \in WorkerState /\ WorkerHasRows(s, Len(chunks))
  BY <1>1 DEF WorkerState, Working, WorkerHasRows
<1>3. msg' \in [Messages -> [state : {"unsent", "visible", "inflight", "deleted", "dead"},
                             receives : 0..MaxReceives]]
  BY DEF SendContinuation, Structure, TypeOK
<1>4. \A m \in Messages \ Garbled : msg'[m].state # "unsent" => HasRow(m)
  BY <1>1 DEF SendContinuation, Structure, TypeOK, MessagesOK, HasRow
<1> HIDE DEF s
<1> QED BY <1>2, <1>3, <1>4, WorkerStructure
  DEF SendContinuation, tableVars, Structure, TypeOK, s

LEMMA RecordStructure ==
  ASSUME Structure, NEW w \in Workers, RecordRejections(w)
  PROVE  Structure'
<1> DEFINE s == [worker[w] EXCEPT !.phase = "completing"]
<1>1. worker[w].msg \in 1..Len(chunks) /\ worker[w] \in WorkerState
  BY DEF RecordRejections, Structure, TypeOK, MessagesOK, HasRow, Working
<1>2. s \in WorkerState /\ WorkerHasRows(s, Len(chunks))
  BY <1>1 DEF WorkerState, Working, WorkerHasRows
<1>3. errors' \in [Lines -> Nat]
  BY DEF RecordRejections, Structure, TypeOK
<1> HIDE DEF s
<1> QED BY <1>2, <1>3, WorkerStructure DEF RecordRejections, Structure, TypeOK, MessagesOK, s

LEMMA CompleteStructure ==
  ASSUME Structure, NEW w \in Workers, CompleteChunk(w)
  PROVE  Structure'
<1> DEFINE c   == worker[w].msg
           up  == worker[w].upserted
           bad == Cardinality(worker[w].rejected)
           s   == [worker[w] EXCEPT !.phase = "done"]
           done == [job EXCEPT !.completed = @ + 1, !.upserted = @ + up, !.rejected = @ + bad]
<1>1. worker[w] \in WorkerState
  BY DEF Structure, TypeOK
<1>2. s \in WorkerState /\ WorkerHasRows(s, Len(chunks))
  BY <1>1 DEF WorkerState, Working, WorkerHasRows
<1>3. up \in Nat /\ bad \in Nat
  BY CompletedRow
<1>4. chunks' \in Seq(Chunk) /\ Len(chunks') = Len(chunks)
  BY CompletedRow
<1>5. job' \in JobRow /\ job'.total = job.total /\ (job.status = "none" <=> job'.status = "none")
  <2>1. done \in JobRow /\ done.total = job.total /\ done.status = job.status
    <3>1. job \in JobRow /\ job.completed + 1 \in Nat
          /\ job.upserted + up \in Nat /\ job.rejected + bad \in Nat
      BY SMTT(30), <1>3 DEF Structure, TypeOK, JobRow
    <3> HIDE DEF up, bad
    <3> QED BY <3>1 DEF JobRow
  <2>2. \/ job' = done
        \/ /\ done.status = "processing"
           /\ \E end \in {"partial", "completed"} : job' = [done EXCEPT !.status = end]
    BY DEF CompleteChunk, EndsJob
  <2> HIDE DEF done
  <2> QED BY <2>1, <2>2 DEF JobRow
<1>6. SetWorker(w, s)
  BY DEF CompleteChunk
<1> HIDE DEF s
<1> QED BY <1>2, <1>4, <1>5, <1>6, WorkerStructure DEF CompleteChunk, Structure, TypeOK, MessagesOK

LEMMA LeaveStructure ==
  ASSUME Structure, NEW w \in Workers, Ignore(w) \/ DeleteMessage(w) \/ WorkerFails(w)
  PROVE  Structure'
<1>1. worker[w] \in WorkerState /\ IdleWorker \in WorkerState
  BY DEF Structure, TypeOK, IdleWorker, Delivery, WorkerState
<1>2. WorkerHasRows(IdleWorker, Len(chunks))
  BY DEF WorkerHasRows, IdleWorker, Delivery, Working
<1>3. CASE Ignore(w)
  <2> DEFINE s == [worker[w] EXCEPT !.phase = "done"]
  <2>1. s \in WorkerState /\ WorkerHasRows(s, Len(chunks))
    BY <1>1 DEF WorkerState, WorkerHasRows, Working
  <2>2. SetWorker(w, s)
    BY <1>3 DEF Ignore
  <2> HIDE DEF s
  <2> QED BY <1>3, <2>1, <2>2, WorkerStructure DEF Ignore, tableVars, Structure, TypeOK, MessagesOK
<1>4. CASE DeleteMessage(w)
  <2>1. msg' = msg \/ (msg' = [msg EXCEPT ![worker[w].msg].state = "deleted"]
                        /\ msg[worker[w].msg].state \in {"visible", "inflight"})
    BY <1>4 DEF DeleteMessage
  <2>2. msg' \in [Messages -> [state : {"unsent", "visible", "inflight", "deleted", "dead"},
                               receives : 0..MaxReceives]]
    <3>1. CASE msg' = msg
      BY <3>1 DEF Structure, TypeOK
    <3>2. CASE msg' = [msg EXCEPT ![worker[w].msg].state = "deleted"]
      BY <3>2 DEF Structure, TypeOK
    <3> QED BY <2>1, <3>1, <3>2
  <2>3. \A m \in Messages \ Garbled : msg'[m].state # "unsent" => HasRow(m)
    BY <2>1 DEF Structure, TypeOK, MessagesOK
  <2> QED BY <1>1, <1>2, <1>4, <2>2, <2>3, WorkerStructure
      DEF DeleteMessage, tableVars, Structure, TypeOK
<1>5. CASE WorkerFails(w)
  <2>1. faults' \in 0..MaxFaults
    BY <1>5, BoundsAssumption DEF WorkerFails, Fault, Structure, TypeOK
  <2> QED BY <1>1, <1>2, <1>5, <2>1, WorkerStructure
      DEF WorkerFails, tableVars, Structure, TypeOK, MessagesOK
<1> QED BY <1>3, <1>4, <1>5
-------------------------------------------------------------------------------
(* Coverage.                                                               *)

LEMMA WorkerCoveredLasts ==
  ASSUME NEW cs, NEW ds, NEW done, NEW more, done \subseteq more, RowsKept(cs, ds),
         NEW d, ClosesOnly(cs, ds, more, d),
         NEW s, s.phase \in Working => s.msg \in 1..Len(cs), WorkerCovered(cs, done, s)
  PROVE  WorkerCovered(ds, more, s)
<1>1. CASE s.phase \in {"reading", "handoff"}
  BY <1>1 DEF WorkerCovered, RowsKept, Working
<1>2. CASE s.phase \in {"sending", "recording", "completing"}
  <2> DEFINE held == more \cup s.rejected
  <2>1. s.msg \in 1..Len(cs) /\ Settled(cs, held, s.msg)
    BY <1>2 DEF WorkerCovered, Working, Settled
  <2>2. ClosesOnly(cs, ds, held, d)
    BY DEF ClosesOnly, Settled
  <2>3. Settled(ds, held, s.msg)
    <3> HIDE DEF held
    <3> QED BY <2>1, <2>2, SettledLasts
  <2> QED BY <1>2, <2>3 DEF WorkerCovered
<1> QED BY <1>1, <1>2 DEF WorkerCovered

(* A step that keeps the rows, closes at most one chunk, a settled one,    *)
(* appends only open rows, and leaves each worker covered as it was or     *)
(* covered anew.                                                           *)
LEMMA CoversLasts ==
  ASSUME Structure, NEW done, NEW more, done \subseteq more,
         Covers(done, Started, chunks, worker), NEW d,
         RowsKept(chunks, chunks'), ClosesOnly(chunks, chunks', more, d),
         \A c \in Len(chunks) + 1..Len(chunks') : Open(chunks'[c]),
         Started' => Started,
         \A v \in Workers : worker'[v] = worker[v] \/ WorkerCovered(chunks', more, worker'[v])
  PROVE  Covers(more, Started', chunks', worker')
<1>1. ASSUME NEW v \in Workers PROVE WorkerCovered(chunks', more, worker'[v])
  <2>1. WorkerCovered(chunks, done, worker[v])
    BY DEF Covers
  <2>2. worker[v].phase \in Working => worker[v].msg \in 1..Len(chunks)
    BY DEF Structure, MessagesOK, HasRow
  <2>3. WorkerCovered(chunks', more, worker[v])
    BY <2>1, <2>2, WorkerCoveredLasts
  <2> QED BY <2>3
<1>2. ASSUME NEW c \in 1..Len(chunks'), ~Open(chunks'[c])
      PROVE  Settled(chunks', more, c)
  <2>1. c \in 1..Len(chunks)
    BY <1>2 DEF RowsKept
  <2>2. Settled(chunks, more, c)
    BY <1>2, <2>1 DEF Covers, ClosesOnly, Settled
  <2> QED BY <2>1, <2>2, SettledLasts
<1>3. ASSUME Started, NEW l \in Lines, l \notin more
      PROVE  \E i \in 1..Len(chunks') : Open(chunks'[i]) /\ l \in Owned(chunks'[i])
  <2>1. PICK i \in 1..Len(chunks) : Open(chunks[i]) /\ l \in Owned(chunks[i])
    BY <1>3 DEF Covers
  <2>2. i \in 1..Len(chunks') /\ l \in Owned(chunks'[i])
    BY <2>1 DEF RowsKept, Owned
  <2>3. CASE Open(chunks'[i])
    BY <2>2, <2>3
  <2>4. CASE ~Open(chunks'[i])
    <3>1. i = d /\ Settled(chunks, more, i)
      BY <2>1, <2>4 DEF ClosesOnly
    <3>2. PICK j \in i + 1..Len(chunks) : Open(chunks[j]) /\ l \in Owned(chunks[j])
      BY <1>3, <2>1, <3>1 DEF Settled
    <3>3. j \in 1..Len(chunks) /\ j # d /\ j \in 1..Len(chunks')
      BY <2>1, <3>1, <3>2 DEF RowsKept
    <3>4. Open(chunks'[j]) /\ l \in Owned(chunks'[j])
      BY <3>2, <3>3 DEF RowsKept, ClosesOnly, Owned
    <3> QED BY <3>3, <3>4
  <2> QED BY <2>3, <2>4
<1> QED BY <1>1, <1>2, <1>3 DEF Covers

LEMMA CoversMore ==
  ASSUME NEW done, NEW more, done \subseteq more, NEW st, NEW cs, NEW ws, Covers(done, st, cs, ws)
  PROVE  Covers(more, st, cs, ws)
<1>1. \A c, held : Settled(cs, done \cup held, c) => Settled(cs, more \cup held, c)
  BY DEF Settled
<1>2. \A c : Settled(cs, done, c) => Settled(cs, more, c)
  BY DEF Settled
<1> QED BY <1>1, <1>2 DEF Covers, WorkerCovered

(* A step that leaves the job's status and its chunks alone.               *)
LEMMA QuietCovers ==
  ASSUME Structure, NEW done, NEW more, done \subseteq more,
         Covers(done, Started, chunks, worker), UNCHANGED <<job, chunks>>,
         \A v \in Workers : worker'[v] = worker[v] \/ WorkerCovered(chunks, more, worker'[v])
  PROVE  Covers(more, Started', chunks', worker')
<1>1. RowsKept(chunks, chunks') /\ ClosesOnly(chunks, chunks', more, 0)
  BY LenProperties DEF RowsKept, ClosesOnly, Structure, TypeOK
<1>2. \A c \in Len(chunks) + 1..Len(chunks') : Open(chunks'[c])
  BY LenProperties DEF Structure, TypeOK
<1>3. Started' => Started
  BY DEF Started
<1> QED BY <1>1, <1>2, <1>3, CoversLasts

LEMMA InitCovers ==
  ASSUME Init, NEW done PROVE Covers(done, Started, chunks, worker)
BY DEF Init, Covers, WorkerCovered, Started, NoJob, IdleWorker, Delivery

LEMMA CreateJobCovers ==
  ASSUME Structure, NEW s \in Splitters, CreateJob(s), NEW done
  PROVE  Covers(done, Started', chunks', worker')
<1>1. /\ Len(Ranges) \in Nat /\ Len(chunks') = Len(Ranges)
      /\ chunks' = [i \in 1..Len(Ranges) |-> NewChunk(Ranges[i].from, Ranges[i].to)]
  BY RangesAssumption DEF CreateJob
<1>2. \A i \in 1..Len(chunks') :
        /\ Open(chunks'[i])
        /\ chunks'[i].from = Ranges[i].from /\ chunks'[i].to = Ranges[i].to
  BY <1>1 DEF NewChunk, Open
<1>3. \A l \in Lines : \E i \in 1..Len(chunks') : Open(chunks'[i]) /\ l \in Owned(chunks'[i])
  BY <1>1, <1>2, RangesAssumption DEF Owned, LinesIn
<1>4. \A w \in Workers : WorkerCovered(chunks', done, worker'[w])
  <2>1. chunks = <<>>
    BY DEF CreateJob, Structure, MessagesOK
  <2>2. \A w \in Workers : worker[w].phase \notin Working
    BY <2>1 DEF Structure, MessagesOK, HasRow
  <2> QED BY <2>2 DEF CreateJob, WorkerCovered, Working
<1> QED BY <1>2, <1>3, <1>4 DEF Covers

(* The steps of a worker that touch no chunk and no product.               *)
LEMMA QuietWorkerCovers ==
  ASSUME Structure, NEW done, NEW more, done \subseteq more,
         Covers(done, Started, chunks, worker), NEW w \in Workers,
         \/ \E m \in Messages : Receive(w, m)
         \/ Ignore(w) \/ SendContinuation(w) \/ RecordRejections(w)
         \/ DeleteMessage(w) \/ WorkerFails(w)
  PROVE  Covers(more, Started', chunks', worker')
<1>1. UNCHANGED <<job, chunks>>
  BY DEF Receive, Ignore, SendContinuation, RecordRejections, DeleteMessage, WorkerFails, tableVars
<1>2. PICK s : /\ SetWorker(w, s)
               /\ \/ s.phase \notin Working
                  \/ /\ s.phase \in {"recording", "completing"}
                     /\ worker[w].phase \in {"sending", "recording"}
                     /\ s.msg = worker[w].msg /\ s.rejected = worker[w].rejected
  <2>1. CASE \E m \in Messages : Receive(w, m)
    BY <2>1 DEF Receive, Delivery, Working
  <2>2. CASE DeleteMessage(w) \/ WorkerFails(w)
    BY <2>2 DEF DeleteMessage, WorkerFails, IdleWorker, Delivery, Working
  <2>3. worker[w] \in WorkerState
    BY DEF Structure, TypeOK
  <2>4. CASE Ignore(w)
    BY <2>3, <2>4 DEF Ignore, Working, WorkerState
  <2>5. CASE SendContinuation(w)
    BY <2>3, <2>5 DEF SendContinuation, WorkerState
  <2>6. CASE RecordRejections(w)
    BY <2>3, <2>6 DEF RecordRejections, WorkerState
  <2> QED BY <2>1, <2>2, <2>4, <2>5, <2>6
<1>3. WorkerCovered(chunks, more, s)
  <2>1. CASE s.phase \notin Working
    BY <2>1 DEF WorkerCovered, Working
  <2>2. CASE s.phase \in Working
    <3>1. /\ s.phase \in {"recording", "completing"} /\ s.msg = worker[w].msg
          /\ s.rejected = worker[w].rejected
          /\ Settled(chunks, done \cup worker[w].rejected, worker[w].msg)
      BY <1>2, <2>2 DEF Covers, WorkerCovered
    <3>2. Settled(chunks, more \cup s.rejected, s.msg)
      BY <3>1 DEF Settled
    <3> QED BY <3>1, <3>2 DEF WorkerCovered
  <2> QED BY <2>1, <2>2
<1>4. \A v \in Workers : worker'[v] = worker[v] \/ WorkerCovered(chunks, more, worker'[v])
  BY <1>2, <1>3 DEF SetWorker, Structure, TypeOK
<1> QED BY <1>1, <1>4, QuietCovers

LEMMA ClaimCovers ==
  ASSUME Structure, NEW done, Covers(done, Started, chunks, worker), NEW w \in Workers, Claim(w)
  PROVE  Covers(done, Started', chunks', worker')
<1> DEFINE c == worker[w].msg
           s == [worker[w] EXCEPT !.phase = "reading", !.pos = chunks[c].from]
<1>1. c \in 1..Len(chunks) /\ worker[w] \in WorkerState /\ Len(chunks) \in Nat
  BY ClaimedRow, LenProperties DEF Structure, TypeOK
<1>2. Len(chunks') = Len(chunks)
  BY ClaimedRow
<1>3. \A i \in 1..Len(chunks) : chunks'[i].from = chunks[i].from /\ chunks'[i].to = chunks[i].to
  <2> DEFINE new == [chunks[c] EXCEPT !.status = "processing"]
  <2>1. chunks[c] \in Chunk /\ \A i \in 1..Len(chunks) : chunks'[i] = IF i = c THEN new ELSE chunks[i]
    BY ClaimedRow
  <2>2. new.from = chunks[c].from /\ new.to = chunks[c].to
    BY <2>1 DEF Chunk
  <2> HIDE DEF new, c, s
  <2> QED BY <2>1, <2>2
<1>4. RowsKept(chunks, chunks') /\ ClosesOnly(chunks, chunks', done, 0)
  <2>1. \A i \in 1..Len(chunks) : Open(chunks[i]) => Open(chunks'[i])
    BY ClaimedRow DEF Open, Chunk
  <2> HIDE DEF c, s
  <2> QED BY <1>1, <1>2, <1>3, <2>1 DEF RowsKept, ClosesOnly
<1>5. WorkerCovered(chunks', done, s)
  <2>1. s.phase = "reading" /\ s.pos = chunks[c].from /\ s.msg = c
    BY <1>1 DEF WorkerState
  <2>2. LinesIn(chunks'[c].from, s.pos) = {}
    <3>1. chunks'[c].from = chunks[c].from /\ chunks[c].from \in Nat
      <4>1. chunks[c] \in Chunk
        BY ClaimedRow
      <4> QED BY <1>1, <1>3, <4>1 DEF Chunk
    <3> QED BY <2>1, <3>1, LinesAssumption DEF LinesIn
  <2> HIDE DEF s
  <2> QED BY <2>1, <2>2 DEF WorkerCovered
<1>6. \A v \in Workers : worker'[v] = worker[v] \/ WorkerCovered(chunks', done, worker'[v])
  BY <1>5 DEF Claim, SetWorker, Structure, TypeOK
<1>7. \A i \in Len(chunks) + 1..Len(chunks') : Open(chunks'[i])
  BY <1>1, <1>2
<1>8. Started' => Started
  BY DEF Claim, Started
<1> QED BY <1>4, <1>6, <1>7, <1>8, CoversLasts

LEMMA FlushCovers ==
  ASSUME Structure, NEW done, NEW more, done \subseteq more, landed' \subseteq more,
         Covers(done, Started, chunks, worker), NEW w \in Workers, Flush(w)
  PROVE  Covers(more, Started', chunks', worker')
<1> DEFINE k == chunks[worker[w].msg]
           pos == worker[w].pos
<1>1. /\ worker[w].msg \in 1..Len(chunks) /\ worker[w] \in WorkerState
      /\ k \in Chunk /\ Len(chunks) \in Nat
  BY ElementOfSeq, LenProperties DEF Flush, Structure, TypeOK, MessagesOK, HasRow, Working
<1> DEFINE S(e, phase) == [worker[w] EXCEPT
                   !.phase = phase, !.pos = e,
                   !.upserted = @ + Cardinality({Sku[l] : l \in GoodLines(pos, e)}),
                   !.rejected = @ \cup BadLines(pos, e)]
<1>2. PICK e \in BatchEnds(pos, k.to) :
        /\ landed' = landed \cup GoodLines(pos, e)
        /\ \E phase \in AfterFlush(Cardinality(GoodLines(pos, e))) : SetWorker(w, S(e, phase))
  BY DEF Flush
<1>3. pos \in Nat /\ k.from \in Nat /\ k.to \in Nat /\ e \in Nat
  BY SMTT(30), <1>1, <1>2 DEF BatchEnds, WorkerState, Chunk
<1>4. LinesIn(k.from, e) \subseteq more \cup worker[w].rejected \cup BadLines(pos, e)
  <2>1. LinesIn(k.from, pos) \subseteq done \cup worker[w].rejected
    BY DEF Flush, Covers, WorkerCovered
  <2>2. GoodLines(pos, e) \subseteq more
    BY <1>2
  <2> QED BY <1>3, <2>1, <2>2, LinesSplit, LinesAreGoodOrBad
<1>5. PICK phase \in AfterFlush(Cardinality(GoodLines(pos, e))) : SetWorker(w, S(e, phase))
  BY <1>2
<1>6. /\ S(e, phase).phase = phase /\ S(e, phase).pos = e /\ S(e, phase).msg = worker[w].msg
      /\ S(e, phase).rejected = worker[w].rejected \cup BadLines(pos, e)
  BY <1>1 DEF WorkerState
<1> HIDE DEF S
<1>7. WorkerCovered(chunks, more, S(e, phase))
  <2>1. CASE phase \in {"reading", "handoff"}
    BY <1>4, <1>6, <2>1 DEF WorkerCovered
  <2>2. CASE phase = "recording"
    <3>1. Cardinality(GoodLines(pos, e)) < UpsertBatch
      BY <1>5, <2>2, GoodLinesFinite, BoundsAssumption DEF AfterFlush
    <3>2. e = k.to
      BY <1>2, <3>1, GoodLinesFinite, BoundsAssumption DEF BatchEnds
    <3>3. Settled(chunks, more \cup S(e, phase).rejected, worker[w].msg)
      BY <1>4, <1>6, <3>2 DEF Settled, Owned
    <3> QED BY <1>6, <2>2, <3>3 DEF WorkerCovered
  <2> QED BY <1>5, <2>1, <2>2 DEF AfterFlush
<1>8. \A v \in Workers : worker'[v] = worker[v] \/ WorkerCovered(chunks, more, worker'[v])
  BY <1>5, <1>7 DEF SetWorker, Structure, TypeOK
<1> QED BY <1>8, QuietCovers DEF Flush

LEMMA AllocateCovers ==
  ASSUME Structure, NEW done, Covers(done, Started, chunks, worker), NEW w \in Workers,
         AllocateContinuation(w)
  PROVE  Covers(done, Started', chunks', worker')
<1> DEFINE c == worker[w].msg
           n == Len(chunks) + 1
           s == [worker[w] EXCEPT !.phase = "sending", !.next = job.total + 1]
           held == done \cup worker[w].rejected
<1>1. /\ c \in 1..Len(chunks) /\ worker[w] \in WorkerState
      /\ chunks[c] \in Chunk /\ Len(chunks) \in Nat
  BY ElementOfSeq, LenProperties
  DEF AllocateContinuation, Structure, TypeOK, MessagesOK, HasRow, Working
<1>2. NewChunk(worker[w].pos, chunks[c].to) \in Chunk
  BY <1>1 DEF NewChunk, Chunk, WorkerState
<1>3. /\ Len(chunks') = n
      /\ chunks'[n] = NewChunk(worker[w].pos, chunks[c].to)
      /\ \A i \in 1..Len(chunks) : chunks'[i] = chunks[i]
  BY <1>2, AppendProperties DEF AllocateContinuation, Structure, TypeOK
<1>4. RowsKept(chunks, chunks') /\ ClosesOnly(chunks, chunks', done, 0)
  BY <1>1, <1>3 DEF RowsKept, ClosesOnly
<1>5. Open(chunks'[n]) /\ chunks'[n].from = worker[w].pos /\ chunks'[n].to = chunks[c].to
  BY <1>3 DEF NewChunk, Open
<1>6. Settled(chunks', held, c)
  <2>1. SUFFICES ASSUME NEW l \in Owned(chunks[c]), l \notin held
                 PROVE  l \in Owned(chunks'[n])
    BY <1>1, <1>3, <1>5 DEF Settled
  <2>2. l \notin LinesIn(chunks[c].from, worker[w].pos)
    BY <2>1 DEF AllocateContinuation, Covers, WorkerCovered
  <2>3. l \in LinesIn(worker[w].pos, chunks[c].to)
    BY <1>1, <2>1, <2>2, LinesSplit DEF Owned, Chunk, WorkerState
  <2> QED BY <1>5, <2>3 DEF Owned
<1>7. WorkerCovered(chunks', done, s)
  <2>1. s.phase = "sending" /\ s.msg = c /\ s.rejected = worker[w].rejected
    BY <1>1 DEF WorkerState
  <2> HIDE DEF s
  <2> QED BY <1>6, <2>1 DEF WorkerCovered
<1>8. \A v \in Workers : worker'[v] = worker[v] \/ WorkerCovered(chunks', done, worker'[v])
  BY <1>7 DEF AllocateContinuation, SetWorker, Structure, TypeOK
<1>9. \A i \in Len(chunks) + 1..Len(chunks') : Open(chunks'[i])
  BY <1>1, <1>3, <1>5
<1>10. Started
  BY <1>1 DEF Started, Structure, MessagesOK
<1> QED BY <1>4, <1>8, <1>9, <1>10, CoversLasts

(* The step the argument turns on: the chunk that closes is settled.       *)
LEMMA CompleteCovers ==
  ASSUME Structure, NEW done, NEW more, done \subseteq more,
         Covers(done, Started, chunks, worker), NEW w \in Workers, CompleteChunk(w),
         worker[w].rejected \subseteq more
  PROVE  Covers(more, Started', chunks', worker')
<1> DEFINE c == worker[w].msg
           s == [worker[w] EXCEPT !.phase = "done"]
<1>1. c \in 1..Len(chunks) /\ worker[w] \in WorkerState /\ Len(chunks) \in Nat
  BY CompletedRow, LenProperties DEF Structure, TypeOK
<1>2. Settled(chunks, more, c)
  <2>1. Settled(chunks, done \cup worker[w].rejected, c)
    BY DEF CompleteChunk, Covers, WorkerCovered
  <2> QED BY <2>1 DEF Settled
<1>3. /\ Len(chunks') = Len(chunks)
      /\ \A i \in 1..Len(chunks) : /\ chunks'[i].from = chunks[i].from /\ chunks'[i].to = chunks[i].to
                                   /\ i # c => chunks'[i] = chunks[i]
  <2> DEFINE new == [chunks[c] EXCEPT !.status = "completed", !.upserted = worker[w].upserted,
                                      !.rejected = Cardinality(worker[w].rejected)]
  <2>1. /\ chunks[c] \in Chunk /\ Len(chunks') = Len(chunks)
        /\ \A i \in 1..Len(chunks) : chunks'[i] = IF i = c THEN new ELSE chunks[i]
    BY CompletedRow
  <2>2. new.from = chunks[c].from /\ new.to = chunks[c].to
    BY <2>1 DEF Chunk
  <2> HIDE DEF new, c, s
  <2> QED BY <2>1, <2>2
<1>4. RowsKept(chunks, chunks')
  BY <1>1, <1>3 DEF RowsKept
<1>5. ClosesOnly(chunks, chunks', more, c)
  BY <1>2, <1>3 DEF ClosesOnly
<1>6. WorkerCovered(chunks', more, s)
  BY <1>1 DEF WorkerCovered, WorkerState
<1>7. \A v \in Workers : worker'[v] = worker[v] \/ WorkerCovered(chunks', more, worker'[v])
  BY <1>6 DEF CompleteChunk, SetWorker, Structure, TypeOK
<1>8. Started
  BY <1>1 DEF Started, Structure, MessagesOK
<1>9. \A i \in Len(chunks) + 1..Len(chunks') : Open(chunks'[i])
  BY <1>1, <1>3
<1> QED BY <1>4, <1>5, <1>7, <1>8, <1>9, CoversLasts

(* One step of the pipeline, for any set of lines that are done with.      *)
LEMMA CoversNext ==
  ASSUME Structure, NEW done, NEW more, done \subseteq more, landed' \subseteq more,
         Covers(done, Started, chunks, worker), [Next]_vars,
         \A w \in Workers : CompleteChunk(w) => worker[w].rejected \subseteq more
  PROVE  Covers(more, Started', chunks', worker')
<1>1. ASSUME UNCHANGED <<job, chunks, worker>>
      PROVE  Covers(more, Started', chunks', worker')
  BY <1>1, QuietCovers
<1>2. ASSUME NEW s \in Splitters, SplitterStep(s) \/ SplitterFails(s)
      PROVE  Covers(more, Started', chunks', worker')
  BY <1>1, <1>2, CreateJobCovers
  DEF SplitterStep, SkipExistingJob, SendChunks, AckNotice, SplitterFails, tableVars
<1>3. ASSUME NEW m \in Messages, Reappear(m) \/ MoveToDlq(m)
      PROVE  Covers(more, Started', chunks', worker')
  BY <1>1, <1>3 DEF Reappear, MoveToDlq, tableVars
<1>4. ASSUME NEW w \in Workers, WorkerStep(w) \/ WorkerFails(w)
      PROVE  Covers(more, Started', chunks', worker')
  <2>1. CASE \/ \E m \in Messages : Receive(w, m)
             \/ Ignore(w) \/ SendContinuation(w) \/ RecordRejections(w)
             \/ DeleteMessage(w) \/ WorkerFails(w)
    BY <2>1, QuietWorkerCovers
  <2>2. CASE Flush(w)
    BY <2>2, FlushCovers
  <2>3. CASE CompleteChunk(w)
    BY <2>3, CompleteCovers
  <2>4. CASE Claim(w) \/ AllocateContinuation(w)
    <3>1. Covers(done, Started', chunks', worker')
      BY <2>4, ClaimCovers, AllocateCovers
    <3> QED BY <3>1, CoversMore
  <2> QED BY <1>4, <2>1, <2>2, <2>3, <2>4 DEF WorkerStep
<1> QED BY <1>1, <1>2, <1>3, <1>4 DEF Next, vars
-------------------------------------------------------------------------------
(* Lines that have landed or are listed.                                   *)

(* Every rejection a worker records is listed: one that the cap leaves out *)
(* has at least ErrorCap before it that are recorded, for otherwise the    *)
(* least one left out would have had room.                                 *)
LEMMA RecordedIsListed ==
  ASSUME Structure, NEW w \in Workers, RecordRejections(w)
  PROVE  worker[w].rejected \subseteq Listed'
<1> DEFINE R == worker[w].rejected
           before(l) == {k \in R : k < l}
           recorded == {l \in R : Cardinality(before(l)) < ErrorCap}
<1>1. \A k \in R : k \in Rejects /\ k \in Lines /\ k \in Nat
  BY LinesAssumption DEF Structure, TypeOK, WorkerState, Rejects
<1>2. errors' = [l \in Lines |-> IF l \in recorded THEN errors[l] + 1 ELSE errors[l]]
  BY DEF RecordRejections
<1>3. \A l \in Lines : errors[l] \in Nat
  BY DEF Structure, TypeOK
<1>4. \A l \in R : IsFiniteSet(before(l)) /\ Cardinality(before(l)) \in Nat
  <2> TAKE l \in R
  <2>1. before(l) \in SUBSET Lines
    BY <1>1
  <2> QED BY <2>1, FS_Subset, FS_CardinalityType, LinesAssumption
<1>5. recorded \subseteq R /\ \A k \in R : k \in recorded <=> Cardinality(before(k)) < ErrorCap
  OBVIOUS
<1>6. \A k \in recorded : errors'[k] > 0
  BY <1>1, <1>2, <1>3, <1>5
<1> SUFFICES ASSUME NEW l \in R PROVE l \in Listed'
  OBVIOUS
<1> HIDE DEF recorded, R
<1>7. CASE l \in recorded
  BY <1>1, <1>7, <1>6 DEF Listed
<1>8. CASE l \notin recorded
  <2> DEFINE kept == {k \in before(l) : k \in recorded}
  <2>1. IsFiniteSet(kept) /\ Cardinality(kept) \in Nat
    <3>1. kept \in SUBSET before(l)
      OBVIOUS
    <3> HIDE DEF kept, before
    <3> QED BY <1>4, <3>1, FS_Subset, FS_CardinalityType
  <2>2. Cardinality(kept) >= ErrorCap
    <3> SUFFICES ASSUME Cardinality(kept) < ErrorCap PROVE FALSE
      BY <2>1, BoundsAssumption
    <3> DEFINE out == {k \in R : k <= l /\ k \notin recorded}
    <3>1. out \in SUBSET Nat /\ out # {}
      <4>1. l \in out
        BY <1>1, <1>8
      <4>2. \A k \in out : k \in Nat
        BY <1>1
      <4> HIDE DEF out
      <4> QED BY <4>1, <4>2
    <3>2. PICK m \in out : \A n \in out : m <= n
      <4> HIDE DEF out
      <4> QED BY <3>1, HasLeast
    <3>3. m \in R /\ m \in Nat /\ m <= l /\ m \notin recorded /\ l \in Nat
      BY <1>1, <3>2
    <3>4. before(m) \subseteq kept
      <4> SUFFICES ASSUME NEW k \in R, k < m PROVE k < l /\ k \in recorded
        OBVIOUS
      <4>1. k \in Nat
        BY <1>1
      <4>2. k \notin out
        BY <3>2, <3>3, <4>1
      <4> QED BY <3>3, <4>1, <4>2
    <3>5. Cardinality(before(m)) <= Cardinality(kept)
      <4> HIDE DEF before, kept
      <4> QED BY <2>1, <3>4, FS_Subset
    <3>6. Cardinality(before(m)) < ErrorCap
      <4>1. Cardinality(before(m)) \in Nat
        BY <1>4, <3>3
      <4> HIDE DEF before, kept
      <4> QED BY <2>1, <3>5, <4>1, BoundsAssumption
    <3> QED BY <1>5, <3>3, <3>6
  <2>3. kept \subseteq ListedBefore(l)'
    BY <1>1, <1>6 DEF ListedBefore
  <2>4. IsFiniteSet(ListedBefore(l)')
    BY FS_Subset, LinesAssumption DEF ListedBefore
  <2>5. Cardinality(ListedBefore(l)') >= ErrorCap
    <3> HIDE DEF kept
    <3> QED BY <2>1, <2>2, <2>3, <2>4, FS_Subset, FS_CardinalityType, BoundsAssumption
  <2> HIDE DEF kept
  <2> QED BY <1>1, <2>5 DEF Listed
<1> QED BY <1>7, <1>8

LEMMA SameAccounted ==
  ASSUME UNCHANGED <<landed, errors>>
  PROVE  Accounted' = Accounted /\ Listed' = Listed
BY DEF Accounted, Listed, ListedBefore

LEMMA AccountedNext ==
  ASSUME Structure, [Next]_vars
  PROVE  Accounted \subseteq Accounted' /\ landed' \subseteq Accounted' /\ Listed \subseteq Listed'
<1>1. landed \subseteq landed'
  BY DEF Next, SplitterStep, WorkerStep, CreateJob, SkipExistingJob, SendChunks, AckNotice,
         SplitterFails, Receive, Claim, Ignore, Flush, AllocateContinuation, SendContinuation,
         RecordRejections, CompleteChunk, DeleteMessage, WorkerFails, Reappear, MoveToDlq,
         tableVars, vars
<1>2. (\E w \in Workers : RecordRejections(w)) \/ UNCHANGED errors
  BY DEF Next, SplitterStep, WorkerStep, CreateJob, SkipExistingJob, SendChunks, AckNotice,
         SplitterFails, Receive, Claim, Ignore, Flush, AllocateContinuation, SendContinuation,
         CompleteChunk, DeleteMessage, WorkerFails, Reappear, MoveToDlq, tableVars, vars
<1>3. errors' \in [Lines -> Nat] /\ \A l \in Lines : errors[l] <= errors'[l]
  <2>1. errors \in [Lines -> Nat]
    BY DEF Structure, TypeOK
  <2>2. PICK recorded : \/ UNCHANGED errors
                        \/ errors' = [l \in Lines |-> IF l \in recorded THEN errors[l] + 1
                                                                        ELSE errors[l]]
    BY <1>2 DEF RecordRejections
  <2> QED BY <2>1, <2>2
<1>4. Listed \subseteq Listed'
  BY <1>3, ListedGrows
<1> QED BY <1>1, <1>4 DEF Accounted

LEMMA RecordedNext ==
  ASSUME Structure, RecordedOK, [Next]_vars
  PROVE  RecordedOK'
<1> SUFFICES ASSUME NEW v \in Workers, worker'[v].phase = "completing"
             PROVE  worker'[v].rejected \subseteq Listed'
  BY DEF RecordedOK
<1>1. CASE worker'[v] = worker[v]
  BY <1>1, AccountedNext DEF RecordedOK
<1>2. CASE worker'[v] # worker[v]
  <2>1. PICK w \in Workers : WorkerStep(w) \/ WorkerFails(w)
    BY <1>2 DEF Next, SplitterStep, CreateJob, SkipExistingJob, SendChunks, AckNotice,
                SplitterFails, Reappear, MoveToDlq, vars
  <2>2. \E s : SetWorker(w, s)
    BY <2>1 DEF WorkerStep, Receive, Claim, Ignore, Flush, AllocateContinuation, SendContinuation,
                RecordRejections, CompleteChunk, DeleteMessage, WorkerFails
  <2>3. v = w /\ worker[w] \in WorkerState
    BY <1>2, <2>2 DEF SetWorker, Structure, TypeOK
  <2>4. CASE RecordRejections(w)
    <3>1. worker'[w].rejected = worker[w].rejected
      BY <2>3, <2>4 DEF RecordRejections, SetWorker, Structure, TypeOK, WorkerState
    <3> QED BY <2>3, <2>4, <3>1, RecordedIsListed
  <2>5. CASE ~RecordRejections(w)
    <3>1. \E s : s.phase # "completing" /\ SetWorker(w, s)
      <4>1. CASE \/ \E m \in Messages : Receive(w, m)
                 \/ DeleteMessage(w) \/ WorkerFails(w)
        BY <4>1 DEF Receive, DeleteMessage, WorkerFails, IdleWorker, Delivery
      <4>2. CASE Claim(w) \/ Ignore(w)
        BY <2>3, <4>2 DEF Claim, Ignore, WorkerState
      <4>3. CASE AllocateContinuation(w) \/ SendContinuation(w) \/ CompleteChunk(w)
        BY <2>3, <4>3 DEF AllocateContinuation, SendContinuation, CompleteChunk, WorkerState
      <4>4. CASE Flush(w)
        BY <2>3, <4>4 DEF Flush, AfterFlush, WorkerState
      <4> QED BY <2>1, <2>5, <4>1, <4>2, <4>3, <4>4 DEF WorkerStep
    <3> QED BY <1>2, <2>3, <3>1 DEF SetWorker, Structure, TypeOK
  <2> QED BY <2>4, <2>5
<1> QED BY <1>1, <1>2

LEMMA InitCoverage ==
  ASSUME Init PROVE Coverage
BY InitCovers DEF Init, Coverage, RecordedOK, IdleWorker, Delivery

LEMMA CoverageNext ==
  ASSUME Structure, Coverage, [Next]_vars
  PROVE  Coverage'
<1>1. \A w \in Workers : CompleteChunk(w) => worker[w].rejected \subseteq Accounted'
  BY AccountedNext DEF Coverage, RecordedOK, CompleteChunk, Accounted
<1>2. Covers(Accounted', Started', chunks', worker')
  BY <1>1, AccountedNext, CoversNext DEF Coverage
<1>3. RecordedOK'
  BY RecordedNext DEF Coverage
<1> QED BY <1>2, <1>3 DEF Coverage, Covers, WorkerCovered
-------------------------------------------------------------------------------
LEMMA StructureNext ==
  ASSUME Structure, [Next]_vars
  PROVE  Structure'
<1>1. CASE UNCHANGED vars
  BY <1>1 DEF vars, Structure, TypeOK, MessagesOK, HasRow
<1>2. ASSUME NEW s \in Splitters, SplitterStep(s) \/ SplitterFails(s)
      PROVE  Structure'
  BY <1>2, CreateJobStructure, SplitterStructure DEF SplitterStep
<1>3. ASSUME NEW w \in Workers, WorkerStep(w) \/ WorkerFails(w)
      PROVE  Structure'
  BY <1>3, ReceiveStructure, ClaimStructure, FlushStructure, AllocateStructure,
     SendContinuationStructure, RecordStructure, CompleteStructure, LeaveStructure DEF WorkerStep
<1>4. ASSUME NEW m \in Messages, Reappear(m) \/ MoveToDlq(m)
      PROVE  Structure'
  BY <1>4, QueueStructure
<1> QED BY <1>1, <1>2, <1>3, <1>4 DEF Next

LEMMA LinesInvFollows ==
  ASSUME Structure, Coverage PROVE LinesInv
<1>1. landed \subseteq Rows
  BY DEF Structure, TypeOK
<1>2. LinesCovered /\ RejectionsKept
  BY <1>1 DEF Coverage, Covers, Started, Accounted, Awaited, Listed, Rows, Rejects,
              LinesCovered, RejectionsKept
<1> QED BY <1>2 DEF Structure, Coverage, LinesInv

(* The invariant holds whatever the queue, the workers and the faults do.  *)
THEOREM LinesInvHolds == Spec => []LinesInv
<1>1. Init => Structure /\ Coverage
  BY InitStructure, InitCoverage
<1>2. Structure /\ Coverage /\ [Next]_vars => (Structure /\ Coverage)'
  BY StructureNext, CoverageNext
<1>3. Structure /\ Coverage => LinesInv
  BY LinesInvFollows
<1> QED BY <1>1, <1>2, <1>3, PTL DEF Spec

(* The state and every message of the pipeline keep their types: with any  *)
(* number of redeliveries no chunk row is missing and no counter negative. *)
THEOREM IngestionTypeCorrect == Spec => []TypeOK
<1>1. LinesInv => TypeOK
  BY DEF LinesInv
<1> QED BY <1>1, LinesInvHolds, PTL

(* For every file, every split and any number of splitters, workers,       *)
(* crashes, lapses and redeliveries: a good line is in the products table  *)
(* or still owned by a chunk that is not marked completed.                 *)
THEOREM NoLineDropped == Spec => []LinesCovered
<1>1. LinesInv => LinesCovered
  BY DEF LinesInv
<1> QED BY <1>1, LinesInvHolds, PTL

(* For as many rejections in a chunk and as small a cap as one likes, and  *)
(* whenever workers die between handing on, recording and completing: a    *)
(* bad line is listed, or still owned by a chunk that is not completed.    *)
THEOREM NoRejectionLost == Spec => []RejectionsKept
<1>1. LinesInv => RejectionsKept
  BY DEF LinesInv
<1> QED BY <1>1, LinesInvHolds, PTL
-------------------------------------------------------------------------------
(* Where no message reappears while a worker holds it: each message is     *)
(* sent once and held by one worker.                                       *)
Exclusive == SendersOK /\ DeliveriesOK

LEMMA FileMessages ==
  ASSUME Structure
  PROVE  /\ Len(Ranges) \in Nat /\ Len(chunks) \in Nat
         /\ \A i \in 1..MaxChunks : i \in Messages \ Garbled
         /\ \A i \in 1..Len(Ranges) : i \in Messages \ Garbled
         /\ \A i \in 1..MaxChunks : ~HasRow(i) => msg[i].state = "unsent"
<1>1. Len(Ranges) \in Nat /\ Len(chunks) \in Nat
  BY RangesAssumption, LenProperties DEF Structure, TypeOK
<1>2. \A i \in 1..MaxChunks : i \in Messages \ Garbled
  BY GarbledAssumption, BoundsAssumption DEF Messages
<1>3. \A i \in 1..Len(Ranges) : i \in 1..MaxChunks
  BY <1>1, BoundsAssumption
<1> QED BY <1>1, <1>2, <1>3 DEF Structure, MessagesOK

(* A step after which nobody sends what was not being sent before.         *)
LEMMA SendersLast ==
  ASSUME Structure, SendersOK,
         \A s \in Splitters : splitter'[s].phase = "sending" =>
           /\ splitter[s].phase = "sending"
           /\ splitter'[s].next \in Nat /\ splitter[s].next <= splitter'[s].next
           /\ \A i \in splitter'[s].next..Len(Ranges) :
                msg[i].state = "unsent" => msg'[i].state = "unsent",
         \A w \in Workers : worker'[w].phase = "sending" =>
           /\ worker[w].phase = "sending" /\ worker'[w].next = worker[w].next
           /\ msg[worker[w].next].state = "unsent" => msg'[worker[w].next].state = "unsent"
  PROVE  SendersOK'
<1>1. \A s \in Splitters : splitter[s].next \in Nat
  BY DEF Structure, TypeOK
<1> QED BY <1>1, FileMessages DEF SendersOK

(* A step after which nobody holds what was not being held before.         *)
LEMMA DeliveriesLast ==
  ASSUME DeliveriesOK,
         \A w \in Workers : worker'[w].phase # "idle" =>
           /\ worker[w].phase # "idle" /\ worker'[w].msg = worker[w].msg
           /\ worker'[w].receipt = worker[w].receipt
           /\ msg'[worker[w].msg] = msg[worker[w].msg]
  PROVE  DeliveriesOK'
BY DEF DeliveriesOK

(* What both need of a step that sends nothing.                            *)
UnsentKept == \A m \in Messages : msg[m].state = "unsent" => msg'[m].state = "unsent"

LEMMA QuietSenders ==
  ASSUME Structure, SendersOK, UnsentKept, UNCHANGED splitter,
         \A w \in Workers : worker'[w] = worker[w] \/ worker'[w].phase # "sending"
  PROVE  SendersOK'
<1>1. \A s \in Splitters : splitter[s].next \in Nat
  BY DEF Structure, TypeOK
<1>2. \A s \in Splitters : splitter[s].phase = "sending" =>
        \A i \in splitter[s].next..Len(Ranges) : i \in Messages
  BY <1>1, FileMessages DEF SendersOK
<1>3. \A w \in Workers : worker[w].phase = "sending" => worker[w].next \in Messages
  BY SMTT(30), FileMessages, BoundsAssumption DEF Structure, TypeOK, MessagesOK, HasRow
<1> QED BY <1>1, <1>2, <1>3, SendersLast DEF UnsentKept

LEMMA CreateJobExclusive ==
  ASSUME Structure, Exclusive, NEW s \in Splitters, CreateJob(s)
  PROVE  Exclusive'
<1>1. \A t \in Splitters : splitter[t].phase # "sending"
  BY DEF CreateJob, Structure, MessagesOK
<1>2. /\ splitter'[s].phase = "sending" /\ splitter'[s].next = 1
      /\ \A t \in Splitters \ {s} : splitter'[t] = splitter[t]
  BY DEF CreateJob, SetSplitter, Structure, TypeOK
<1>3. \A i \in 1..Len(Ranges) : msg[i].state = "unsent"
  <2>1. \A i \in 1..Len(Ranges) : i \in 1..MaxChunks /\ ~HasRow(i)
    BY FileMessages, BoundsAssumption DEF CreateJob, Structure, MessagesOK, HasRow
  <2> QED BY <2>1, FileMessages
<1>4. UNCHANGED <<msg, worker>>
  BY DEF CreateJob
<1>5. SendersOK'
  BY <1>1, <1>2, <1>3, <1>4 DEF SendersOK, Exclusive
<1> QED BY <1>4, <1>5, DeliveriesLast DEF Exclusive

LEMMA SplitterExclusive ==
  ASSUME Structure, Exclusive, NEW s \in Splitters,
         SkipExistingJob(s) \/ SendChunks(s) \/ AckNotice(s) \/ SplitterFails(s)
  PROVE  Exclusive'
<1> USE DEF Exclusive
<1>1. UNCHANGED worker
  BY DEF SkipExistingJob, SendChunks, AckNotice, SplitterFails
<1>2. CASE SkipExistingJob(s) \/ AckNotice(s) \/ SplitterFails(s)
  <2>1. UNCHANGED msg
    BY <1>2 DEF SkipExistingJob, AckNotice, SplitterFails
  <2>2. \A t \in Splitters : splitter'[t].phase = "sending" => splitter'[t] = splitter[t]
    BY <1>2 DEF SkipExistingJob, AckNotice, SplitterFails, SetSplitter, Structure, TypeOK
  <2>3. SendersOK'
    <3>1. \A t \in Splitters : splitter[t].next \in Nat
      BY DEF Structure, TypeOK
    <3> QED BY <1>1, <2>1, <2>2, <3>1, SendersLast
  <2> QED BY <1>1, <2>1, <2>3, DeliveriesLast
<1>3. CASE SendChunks(s)
  <2> DEFINE n == splitter[s].next
  <2>1. /\ n \in Nat /\ n > 0 /\ SendBatch \in Nat /\ n + SendBatch \in Nat
        /\ \A i \in n..Len(Ranges) : msg[i].state = "unsent"
    BY <1>3, BoundsAssumption DEF SendChunks, SendersOK, Structure, TypeOK
  <2>2. PICK sent \in SUBSET {i \in n..Len(Ranges) : i < n + SendBatch} :
          msg' = [m \in Messages |-> IF m \in sent THEN [msg[m] EXCEPT !.state = "visible"]
                                                   ELSE msg[m]]
    BY <1>3 DEF SendChunks
  <2>3. \A m \in Messages : m \in sent \/ msg'[m] = msg[m]
    BY <2>2
  <2>4. \A t \in Splitters : splitter'[t].phase = "sending" =>
          t = s /\ splitter'[t].next = n + SendBatch
    <3>1. \A t \in Splitters \ {s} : splitter[t].phase # "sending" /\ splitter'[t] = splitter[t]
      BY <1>3 DEF SendChunks, SendersOK, SetSplitter, Structure, TypeOK
    <3>2. splitter'[s].phase = "sending" => splitter'[s].next = n + SendBatch
      BY <1>3 DEF SendChunks, SetSplitter, Structure, TypeOK
    <3> QED BY <3>1, <3>2
  <2>5. \A m \in sent : msg[m].state = "unsent" /\ m \in 1..Len(Ranges) /\ m < n + SendBatch
    BY <2>1, FileMessages
  <2>6. SendersOK'
    <3>1. \A i \in n + SendBatch..Len(Ranges) : msg'[i] = msg[i]
      <4>1. \A i \in n + SendBatch..Len(Ranges) : i \in Messages /\ i \notin sent
        BY <2>1, FileMessages
      <4> QED BY <2>3, <4>1
    <3>2. \A w \in Workers : worker[w].phase = "sending" => msg'[worker[w].next] = msg[worker[w].next]
      <4>1. \A w \in Workers : worker[w].phase = "sending" =>
              worker[w].next \in Messages /\ worker[w].next \notin sent
        <5> SUFFICES ASSUME NEW w \in Workers, worker[w].phase = "sending"
                     PROVE  worker[w].next \in Messages /\ worker[w].next \notin sent
          OBVIOUS
        <5>1. worker[w].next \in 1..Len(chunks) /\ worker[w].next > Len(Ranges)
          BY DEF SendersOK, Structure, MessagesOK, HasRow
        <5>2. worker[w].next \in 1..MaxChunks
          BY <5>1, FileMessages, BoundsAssumption DEF Structure, TypeOK
        <5> QED BY <2>5, <5>1, <5>2, FileMessages
      <4> QED BY <2>3, <4>1
    <3>3. splitter[s].phase = "sending"
      BY <1>3 DEF SendChunks
    <3>4. n <= n + SendBatch
      BY <2>1
    <3> QED BY <1>1, <2>1, <2>4, <3>1, <3>2, <3>3, <3>4, SendersLast
  <2>7. \A w \in Workers : worker[w].phase # "idle" => msg'[worker[w].msg] = msg[worker[w].msg]
    BY <2>3, <2>5 DEF DeliveriesOK
  <2> QED BY <1>1, <2>6, <2>7, DeliveriesLast
<1> QED BY <1>2, <1>3

(* NoOverlap is what forbids Reappear here.                                *)
LEMMA QueueExclusive ==
  ASSUME Structure, Exclusive, NoOverlap, NEW m \in Messages, MoveToDlq(m) \/ Reappear(m)
  PROVE  Exclusive'
<1> USE DEF Exclusive
<1>1. UNCHANGED <<splitter, worker>>
  BY DEF MoveToDlq, Reappear, splitVars
<1>2. /\ msg[m].state # "unsent" /\ \A k \in Messages \ {m} : msg'[k] = msg[k]
  BY DEF MoveToDlq, Reappear, Structure, TypeOK
<1>3. \A w \in Workers : worker[w].phase # "idle" => worker[w].msg # m
  <2>1. CASE MoveToDlq(m)
    BY <2>1 DEF MoveToDlq, DeliveriesOK
  <2>2. CASE Reappear(m)
    <3>1. msg'[m].state = "visible" /\ msg[m].state = "inflight"
      BY <2>2 DEF Reappear, Structure, TypeOK
    <3>2. ~Held(m)
      BY <3>1 DEF NoOverlap
    <3> QED BY <3>2 DEF Held, DeliveriesOK
  <2> QED BY <2>1, <2>2
<1>4. UnsentKept
  BY <1>2 DEF UnsentKept
<1>5. SendersOK'
  BY <1>1, <1>4, QuietSenders
<1>6. DeliveriesOK'
  BY <1>1, <1>2, <1>3, DeliveriesLast DEF DeliveriesOK
<1> QED BY <1>5, <1>6

LEMMA ReceiveExclusive ==
  ASSUME Structure, Exclusive, NEW w \in Workers, NEW m \in Messages, Receive(w, m)
  PROVE  Exclusive'
<1> USE DEF Exclusive
<1>1. /\ worker'[w].phase = "received" /\ worker'[w].msg = m
      /\ worker'[w].receipt = msg[m].receives + 1
      /\ \A v \in Workers \ {w} : worker'[v] = worker[v]
  BY DEF Receive, SetWorker, Delivery, Structure, TypeOK
<1>2. /\ msg[m].state = "visible" /\ msg'[m].state = "inflight"
      /\ msg'[m].receives = msg[m].receives + 1
      /\ \A k \in Messages \ {m} : msg'[k] = msg[k]
  BY DEF Receive, Structure, TypeOK
<1>3. SendersOK'
  <2>1. UnsentKept /\ UNCHANGED splitter
    BY <1>2 DEF UnsentKept, Receive, splitVars
  <2> QED BY <1>1, <2>1, QuietSenders
<1>4. \A v \in Workers : worker[v].phase # "idle" => worker[v].msg # m
  BY <1>2 DEF DeliveriesOK
<1>5. DeliveriesOK'
  BY <1>1, <1>2, <1>4 DEF DeliveriesOK
<1> QED BY <1>3, <1>5

(* The steps of a worker that leave the queue alone and send nothing.      *)
LEMMA WorkExclusive ==
  ASSUME Structure, Exclusive, NEW w \in Workers,
         \/ Claim(w) \/ Ignore(w) \/ Flush(w) \/ RecordRejections(w)
         \/ CompleteChunk(w) \/ WorkerFails(w)
  PROVE  Exclusive'
<1> USE DEF Exclusive
<1>1. UNCHANGED <<splitter, msg>>
  BY DEF Claim, Ignore, Flush, RecordRejections, CompleteChunk, WorkerFails, splitVars
<1>2. /\ worker'[w].phase # "sending"
      /\ \/ worker'[w].phase = "idle"
         \/ /\ worker[w].phase # "idle" /\ worker'[w].msg = worker[w].msg
            /\ worker'[w].receipt = worker[w].receipt
  <2>1. worker[w] \in WorkerState /\ worker \in [Workers -> WorkerState]
    BY DEF Structure, TypeOK
  <2>2. CASE Claim(w)
    BY <2>1, <2>2 DEF Claim, SetWorker, WorkerState
  <2>3. CASE Ignore(w) \/ RecordRejections(w) \/ CompleteChunk(w)
    <3>1. PICK phase \in {"done", "completing"} :
            SetWorker(w, [worker[w] EXCEPT !.phase = phase]) /\ worker[w].phase # "idle"
      BY <2>3 DEF Ignore, RecordRejections, CompleteChunk
    <3> QED BY <2>1, <3>1 DEF SetWorker, WorkerState
  <2>4. CASE Flush(w)
    <3>1. PICK phase \in {"reading", "handoff", "recording"} : \E e, up, bad :
            SetWorker(w, [worker[w] EXCEPT !.phase = phase, !.pos = e,
                                           !.upserted = @ + up, !.rejected = @ \cup bad])
      BY <2>4 DEF Flush, AfterFlush
    <3>2. worker[w].phase = "reading"
      BY <2>4 DEF Flush
    <3> QED BY <2>1, <3>1, <3>2 DEF SetWorker, WorkerState
  <2>5. CASE WorkerFails(w)
    BY <2>1, <2>5 DEF WorkerFails, SetWorker, IdleWorker, Delivery
  <2> QED BY <2>2, <2>3, <2>4, <2>5
<1>3. \A v \in Workers \ {w} : worker'[v] = worker[v]
  BY DEF Claim, Ignore, Flush, RecordRejections, CompleteChunk, WorkerFails, SetWorker,
         Structure, TypeOK
<1>4. SendersOK'
  BY <1>1, <1>2, <1>3, QuietSenders DEF UnsentKept
<1> QED BY <1>1, <1>2, <1>3, <1>4, DeliveriesLast

(* A continuation's index is one that no message was ever sent for.        *)
LEMMA AllocateExclusive ==
  ASSUME Structure, Exclusive, NEW w \in Workers, AllocateContinuation(w)
  PROVE  Exclusive'
<1> USE DEF Exclusive
<1> DEFINE n == Len(chunks) + 1
<1>1. /\ worker'[w].phase = "sending" /\ worker'[w].next = n
      /\ worker[w].phase # "idle" /\ worker'[w].msg = worker[w].msg
      /\ worker'[w].receipt = worker[w].receipt
      /\ \A v \in Workers \ {w} : worker'[v] = worker[v]
  <2>1. worker[w] \in WorkerState
    BY DEF Structure, TypeOK
  <2> QED BY <2>1 DEF AllocateContinuation, SetWorker, Structure, TypeOK, MessagesOK, WorkerState
<1>2. n > Len(Ranges) /\ msg[n].state = "unsent"
  <2>1. Len(Ranges) <= Len(chunks)
    BY DEF AllocateContinuation, Structure, MessagesOK, HasRow, Working
  <2>2. n \in 1..MaxChunks /\ ~HasRow(n)
    BY FileMessages, BoundsAssumption DEF AllocateContinuation, HasRow
  <2> QED BY <2>1, <2>2, FileMessages
<1>3. \A v \in Workers : worker[v].phase = "sending" => worker[v].next # n
  BY FileMessages DEF Structure, MessagesOK, HasRow
<1>4. UNCHANGED <<splitter, msg>>
  BY DEF AllocateContinuation, splitVars
<1> HIDE DEF n
<1>5. SendersOK'
  BY <1>1, <1>2, <1>3, <1>4 DEF SendersOK
<1> QED BY <1>1, <1>4, <1>5, DeliveriesLast

LEMMA SendContinuationExclusive ==
  ASSUME Structure, Exclusive, NEW w \in Workers, SendContinuation(w)
  PROVE  Exclusive'
<1> USE DEF Exclusive
<1> DEFINE n == worker[w].next
<1>1. /\ worker'[w].phase = "recording"
      /\ worker[w].phase # "idle" /\ worker'[w].msg = worker[w].msg
      /\ worker'[w].receipt = worker[w].receipt
      /\ \A v \in Workers \ {w} : worker'[v] = worker[v]
  <2>1. worker[w] \in WorkerState
    BY DEF Structure, TypeOK
  <2> QED BY <2>1 DEF SendContinuation, SetWorker, Structure, TypeOK, WorkerState
<1>2. n > Len(Ranges) /\ msg[n].state = "unsent" /\ n \in Nat
  BY DEF SendContinuation, SendersOK, Structure, TypeOK, WorkerState
<1>3. \A k \in Messages \ {n} : msg'[k] = msg[k]
  BY DEF SendContinuation, Structure, TypeOK
<1>4. UNCHANGED splitter
  BY DEF SendContinuation, splitVars
<1>5. SendersOK'
  <2>1. \A s \in Splitters : splitter[s].phase = "sending" =>
          \A i \in splitter[s].next..Len(Ranges) : msg'[i] = msg[i]
    <3>1. \A s \in Splitters : splitter[s].phase = "sending" =>
            \A i \in splitter[s].next..Len(Ranges) : i \in Messages /\ i # n
      BY <1>2, FileMessages DEF SendersOK, Structure, TypeOK
    <3> QED BY <1>3, <3>1
  <2>2. \A v \in Workers \ {w} : worker[v].phase = "sending" =>
          msg'[worker[v].next] = msg[worker[v].next]
    <3>1. \A v \in Workers \ {w} : worker[v].phase = "sending" =>
            worker[v].next \in Messages /\ worker[v].next # n
      <4>1. \A v \in Workers : worker[v].phase = "sending" => HasRow(worker[v].next)
        BY DEF Structure, MessagesOK
      <4>2. \A v \in Workers \ {w} : worker[v].phase = "sending" => worker[v].next # n
        BY DEF SendContinuation, SendersOK
      <4>3. \A i \in 1..Len(chunks) : i \in 1..MaxChunks
        BY FileMessages, BoundsAssumption DEF Structure, TypeOK
      <4> QED BY <4>1, <4>2, <4>3, FileMessages DEF HasRow
    <3> QED BY <1>3, <3>1
  <2>3. \A s \in Splitters : splitter[s].next \in Nat
    BY DEF Structure, TypeOK
  <2> QED BY <1>1, <1>4, <2>1, <2>2, <2>3, SendersLast
<1>6. \A v \in Workers : worker[v].phase # "idle" => msg'[worker[v].msg] = msg[worker[v].msg]
  BY <1>2, <1>3 DEF DeliveriesOK
<1> QED BY <1>1, <1>5, <1>6, DeliveriesLast

LEMMA DeleteExclusive ==
  ASSUME Structure, Exclusive, NEW w \in Workers, DeleteMessage(w)
  PROVE  Exclusive'
<1> USE DEF Exclusive
<1>1. worker'[w].phase = "idle" /\ \A v \in Workers \ {w} : worker'[v] = worker[v]
  BY DEF DeleteMessage, SetWorker, IdleWorker, Delivery, Structure, TypeOK
<1>2. /\ worker[w].msg \in Messages /\ msg[worker[w].msg].state = "inflight"
      /\ \A v \in Workers \ {w} : worker[v].phase # "idle" =>
           worker[v].msg \in Messages /\ worker[v].msg # worker[w].msg
  BY DEF DeleteMessage, DeliveriesOK
<1>3. \A k \in Messages \ {worker[w].msg} : msg'[k] = msg[k]
  BY DEF DeleteMessage, Structure, TypeOK
<1>4. SendersOK'
  <2>1. UnsentKept /\ UNCHANGED splitter
    BY <1>2, <1>3 DEF UnsentKept, DeleteMessage, splitVars
  <2> QED BY <1>1, <2>1, QuietSenders
<1> QED BY <1>1, <1>2, <1>3, <1>4, DeliveriesLast

LEMMA ExclusiveNext ==
  ASSUME Structure, Exclusive, [Next /\ NoOverlap]_vars
  PROVE  Exclusive'
<1>1. CASE UNCHANGED vars
  BY <1>1 DEF vars, Exclusive, SendersOK, DeliveriesOK
<1>2. ASSUME NEW s \in Splitters, SplitterStep(s) \/ SplitterFails(s)
      PROVE  Exclusive'
  BY <1>2, CreateJobExclusive, SplitterExclusive DEF SplitterStep
<1>3. ASSUME NEW w \in Workers, WorkerStep(w) \/ WorkerFails(w)
      PROVE  Exclusive'
  BY <1>3, ReceiveExclusive, WorkExclusive, AllocateExclusive, SendContinuationExclusive,
     DeleteExclusive DEF WorkerStep
<1>4. ASSUME NoOverlap, NEW m \in Messages, Reappear(m) \/ MoveToDlq(m)
      PROVE  Exclusive'
  BY <1>4, QueueExclusive
<1> QED BY <1>1, <1>2, <1>3, <1>4 DEF Next
-------------------------------------------------------------------------------
(* The job's counters.                                                     *)
Outcome == CountersMatchChunks /\ OutcomeOK

Closed(cs) == {i \in 1..Len(cs) : ~Open(cs[i])}

LEMMA CountUpTo ==
  ASSUME NEW n \in Nat PROVE IsFiniteSet(1..n) /\ Cardinality(1..n) = n
<1>1. 1 \in Int /\ n \in Int
  OBVIOUS
<1>2. IsFiniteSet(1..n)
  BY <1>1, FS_Interval, Zenon
<1>3. Cardinality(1..n) = IF 1 > n THEN 0 ELSE n - 1 + 1
  BY <1>1, FS_Interval, Zenon
<1>4. CASE n = 0
  <2>1. 1 > n
    BY <1>4
  <2> QED BY <1>2, <1>3, <1>4, <2>1, Zenon
<1>5. CASE n # 0
  <2>1. ~(1 > n) /\ n - 1 + 1 = n
    BY <1>5
  <2> QED BY <1>2, <1>3, <2>1, Zenon
<1> QED BY <1>2, <1>4, <1>5

LEMMA ClosedFinite ==
  ASSUME Structure
  PROVE  /\ IsFiniteSet(Closed(chunks)) /\ Cardinality(Closed(chunks)) \in Nat
         /\ IsFiniteSet(1..Len(chunks)) /\ Cardinality(1..Len(chunks)) = Len(chunks)
         /\ Cardinality(Closed(chunks)) = Len(chunks) => Closed(chunks) = 1..Len(chunks)
<1>1. Len(chunks) \in Nat /\ Closed(chunks) \subseteq 1..Len(chunks)
  BY LenProperties DEF Structure, TypeOK, Closed
<1>2. IsFiniteSet(1..Len(chunks)) /\ Cardinality(1..Len(chunks)) = Len(chunks)
  BY <1>1, CountUpTo
<1> HIDE DEF Closed
<1>3. IsFiniteSet(Closed(chunks))
  BY <1>1, <1>2, FS_Subset
<1>4. Cardinality(Closed(chunks)) = Len(chunks) => Closed(chunks) = 1..Len(chunks)
  BY <1>1, <1>2, FS_Subset
<1> QED BY <1>2, <1>3, <1>4, FS_CardinalityType

(* A step that touches neither the job nor a chunk, and sets nobody to     *)
(* work on another chunk.                                                  *)
LEMMA QuietOutcome ==
  ASSUME Outcome, UNCHANGED <<job, chunks>>,
         \A w \in Workers : worker'[w].phase \in Working =>
           worker[w].phase \in Working /\ worker'[w].msg = worker[w].msg
  PROVE  Outcome'
<1> USE DEF Outcome
<1>1. CountersMatchChunks'
  BY DEF CountersMatchChunks
<1>2. OutcomeOK'
  BY DEF OutcomeOK, Finished, Started
<1> QED BY <1>1, <1>2

LEMMA CreateJobOutcome ==
  ASSUME Structure, NEW s \in Splitters, CreateJob(s)
  PROVE  Outcome'
<1>1. /\ Len(chunks') = Len(Ranges) /\ Len(Ranges) \in Nat
      /\ \A i \in 1..Len(chunks') : Open(chunks'[i])
  BY RangesAssumption DEF CreateJob, NewChunk, Open
<1>2. job'.total = Len(Ranges) /\ job'.completed = 0 /\ job'.rejected = 0 /\ job'.status = "processing"
  BY DEF CreateJob, NoJob
<1>3. CountersMatchChunks'
  <2>1. {i \in 1..Len(chunks') : ~Open(chunks'[i])} = {}
    BY <1>1
  <2> QED BY <1>1, <1>2, <2>1, FS_EmptySet DEF CountersMatchChunks
<1>4. \A w \in Workers : worker'[w].phase \notin Working
  BY DEF CreateJob, Structure, MessagesOK, HasRow
<1>5. OutcomeOK'
  BY <1>2, <1>4 DEF OutcomeOK, Finished, Started
<1> QED BY <1>3, <1>5 DEF Outcome

LEMMA ClaimOutcome ==
  ASSUME Structure, Outcome, NEW w \in Workers, Claim(w)
  PROVE  Outcome'
<1> USE DEF Outcome
<1> DEFINE c == worker[w].msg
<1>1. /\ c \in 1..Len(chunks) /\ Len(chunks') = Len(chunks)
      /\ Open(chunks[c]) /\ \A i \in 1..Len(chunks) : Open(chunks'[i]) <=> Open(chunks[i])
  <2>1. Open(chunks[c])
    BY DEF Claim, Open
  <2>2. chunks[c] \in Chunk
    BY ClaimedRow
  <2>3. Open([chunks[c] EXCEPT !.status = "processing"])
    BY <2>2 DEF Open, Chunk
  <2> QED BY <2>1, <2>3, ClaimedRow
<1>2. UNCHANGED job
  BY DEF Claim
<1>3. CountersMatchChunks'
  <2>1. {i \in 1..Len(chunks') : ~Open(chunks'[i])} = {i \in 1..Len(chunks) : ~Open(chunks[i])}
    BY <1>1
  <2> QED BY <1>1, <1>2, <2>1 DEF CountersMatchChunks
<1>4. \A v \in Workers : worker'[v].phase \in Working => Open(chunks'[worker'[v].msg])
  <2>1. worker'[w].msg = c /\ \A v \in Workers \ {w} : worker'[v] = worker[v]
    BY DEF Claim, SetWorker, Structure, TypeOK, WorkerState
  <2>2. \A v \in Workers : worker[v].phase \in Working => worker[v].msg \in 1..Len(chunks)
    BY DEF Structure, MessagesOK, HasRow
  <2> QED BY <1>1, <2>1, <2>2 DEF OutcomeOK
<1>5. ~Finished
  BY <1>1 DEF OutcomeOK
<1> QED BY <1>2, <1>3, <1>4, <1>5 DEF OutcomeOK, Finished, Started

LEMMA AllocateOutcome ==
  ASSUME Structure, Outcome, NEW w \in Workers, AllocateContinuation(w)
  PROVE  Outcome'
<1> USE DEF Outcome
<1> DEFINE c == worker[w].msg
           n == Len(chunks) + 1
<1>1. worker[w] \in WorkerState /\ c \in 1..Len(chunks) /\ Open(chunks[c]) /\ Len(chunks) \in Nat
  BY LenProperties DEF AllocateContinuation, Structure, TypeOK, MessagesOK, HasRow, Working, OutcomeOK
<1>2. /\ Len(chunks') = n /\ Open(chunks'[n])
      /\ \A i \in 1..Len(chunks) : chunks'[i] = chunks[i]
  <2>1. NewChunk(worker[w].pos, chunks[c].to) \in Chunk
    <3>1. chunks[c] \in Chunk
      BY <1>1, ElementOfSeq DEF Structure, TypeOK
    <3> QED BY <1>1, <3>1 DEF NewChunk, Chunk, WorkerState
  <2>2. Open(NewChunk(worker[w].pos, chunks[c].to))
    BY DEF NewChunk, Open
  <2> QED BY <2>1, <2>2, AppendProperties DEF AllocateContinuation, Structure, TypeOK
<1>3. job' = [job EXCEPT !.total = @ + 1] /\ job \in JobRow
  BY DEF AllocateContinuation, Structure, TypeOK
<1>4. CountersMatchChunks'
  <2>1. {i \in 1..Len(chunks') : ~Open(chunks'[i])} = {i \in 1..Len(chunks) : ~Open(chunks[i])}
    BY <1>1, <1>2
  <2>2. job'.total = job.total + 1 /\ job'.completed = job.completed
    BY <1>3 DEF JobRow
  <2> QED BY <1>2, <2>1, <2>2 DEF CountersMatchChunks
<1>5. ~Finished
  BY <1>1 DEF OutcomeOK
<1>6. job'.status = job.status /\ job'.rejected = job.rejected
  BY <1>3 DEF JobRow
<1>7. \A v \in Workers : worker'[v].phase \in Working => Open(chunks'[worker'[v].msg])
  <2>1. /\ worker'[w].msg = c /\ \A v \in Workers \ {w} : worker'[v] = worker[v]
    BY <1>1 DEF AllocateContinuation, SetWorker, Structure, TypeOK, WorkerState
  <2>2. \A v \in Workers : worker[v].phase \in Working => worker[v].msg \in 1..Len(chunks)
    BY DEF Structure, MessagesOK, HasRow
  <2> QED BY <1>1, <1>2, <2>1, <2>2 DEF OutcomeOK
<1> QED BY <1>4, <1>5, <1>6, <1>7 DEF OutcomeOK, Finished, Started

(* The chunk was open and closes: the count of completed chunks and the    *)
(* job's counter grow together, and reach the total together.              *)
LEMMA CompleteOutcome ==
  ASSUME Structure, Structure', Exclusive, Outcome, NEW w \in Workers, CompleteChunk(w)
  PROVE  /\ Outcome' /\ job'.rejected >= job.rejected
         /\ worker[w].rejected # {} => job'.rejected > 0
<1> USE DEF Outcome
<1> DEFINE c   == worker[w].msg
           bad == Cardinality(worker[w].rejected)
           done == [job EXCEPT !.completed = @ + 1, !.upserted = @ + worker[w].upserted,
                               !.rejected = @ + bad]
<1>1. /\ c \in 1..Len(chunks) /\ Open(chunks[c]) /\ Len(chunks') = Len(chunks)
      /\ \A i \in 1..Len(chunks) : Open(chunks'[i]) <=> Open(chunks[i]) /\ i # c
  <2>1. Open(chunks[c])
    BY DEF CompleteChunk, OutcomeOK, Working
  <2>2. ~Open([chunks[c] EXCEPT !.status = "completed", !.upserted = worker[w].upserted,
                                !.rejected = bad])
    BY CompletedRow DEF Open, Chunk
  <2> QED BY <2>1, <2>2, CompletedRow
<1>2. ~Finished
  BY <1>1 DEF OutcomeOK
<1>11. Started' /\ Started
  <2>1. chunks # <<>> /\ chunks' # <<>>
    BY <1>1
  <2> QED BY <2>1 DEF Structure, MessagesOK, Started
<1>3. /\ worker[w].rejected \subseteq Rejects /\ bad \in Nat
      /\ worker[w].rejected # {} => bad > 0
  <2>1. worker[w].rejected \subseteq Rejects
    BY DEF Structure, TypeOK, WorkerState
  <2>2. IsFiniteSet(worker[w].rejected)
    BY <2>1, FS_Subset, LinesAssumption DEF Rejects
  <2> QED BY <2>1, <2>2, FS_CardinalityType, FS_EmptySet
<1>4. /\ done.status = job.status /\ done.completed = job.completed + 1 /\ done.total = job.total
      /\ done.rejected = job.rejected + bad
      /\ job.rejected \in Nat /\ job.completed \in Nat /\ job.total \in Nat
      /\ DOMAIN done = DOMAIN job /\ "status" \in DOMAIN job
  BY DEF Structure, TypeOK, JobRow
<1>5. job' = IF EndsJob(done)
             THEN [done EXCEPT !.status = IF done.rejected > 0 THEN "partial" ELSE "completed"]
             ELSE done
  BY DEF CompleteChunk
<1> HIDE DEF done
<1>6. /\ job'.completed = job.completed + 1 /\ job'.total = job.total
      /\ job'.rejected = job.rejected + bad
      /\ EndsJob(done) => job'.status = (IF job'.rejected > 0 THEN "partial" ELSE "completed")
      /\ ~EndsJob(done) => job'.status = job.status
  BY <1>4, <1>5
<1>7. CountersMatchChunks'
  <2>1. Closed(chunks)' = Closed(chunks) \cup {c} /\ c \notin Closed(chunks)
    BY <1>1 DEF Closed
  <2>2. Cardinality(Closed(chunks)') = Cardinality(Closed(chunks)) + 1
    BY <2>1, ClosedFinite, FS_AddElement
  <2> QED BY <1>1, <1>6, <2>2 DEF CountersMatchChunks, Closed
<1>8. \A v \in Workers : worker'[v].phase \in Working => Open(chunks'[worker'[v].msg])
  <2>1. worker'[w].phase = "done" /\ \A v \in Workers \ {w} : worker'[v] = worker[v]
    BY DEF CompleteChunk, SetWorker, Structure, TypeOK, WorkerState
  <2>2. \A v \in Workers \ {w} : worker[v].phase \in Working =>
          worker[v].msg \in 1..Len(chunks) /\ worker[v].msg # c
    BY DEF CompleteChunk, Working, Exclusive, DeliveriesOK, Structure, MessagesOK, HasRow
  <2> QED BY <1>1, <2>1, <2>2 DEF OutcomeOK, Working
<1>12. job'.rejected > 0 => Started' /\ Rejects # {}
  <2>1. job'.rejected > 0 => job.rejected > 0 \/ bad > 0
    BY <1>3, <1>4, <1>6
  <2>2. bad > 0 => worker[w].rejected # {}
    BY FS_EmptySet
  <2> QED BY <1>3, <1>11, <2>1, <2>2 DEF OutcomeOK
<1>13. /\ job'.rejected >= job.rejected
       /\ worker[w].rejected # {} => job'.rejected > 0
  BY <1>3, <1>4, <1>6
<1>9. CASE EndsJob(done)
  <2>1. \A i \in 1..Len(chunks') : ~Open(chunks'[i])
    <3>1. Cardinality(Closed(chunks)') >= Len(chunks')
      BY <1>4, <1>6, <1>7, <1>9 DEF EndsJob, CountersMatchChunks, Closed
    <3>2. Closed(chunks)' \subseteq 1..Len(chunks') /\ Len(chunks') \in Nat
      BY <1>1, LenProperties DEF Closed, Structure, TypeOK
    <3>3. IsFiniteSet(1..Len(chunks')) /\ Cardinality(1..Len(chunks')) = Len(chunks')
      BY <3>2, CountUpTo
    <3>4. Closed(chunks)' = 1..Len(chunks')
      <4>1. /\ Cardinality(Closed(chunks)') <= Len(chunks')
            /\ Cardinality(Closed(chunks)') = Len(chunks') => Closed(chunks)' = 1..Len(chunks')
            /\ Cardinality(Closed(chunks)') \in Nat
        BY <3>2, <3>3, FS_Subset, FS_CardinalityType
      <4> QED BY <3>1, <3>2, <4>1
    <3> QED BY <3>4 DEF Closed
  <2>3. (job'.status = "partial") = (job'.rejected > 0)
    BY <1>6, <1>9
  <2>4. OutcomeOK'
    BY <1>8, <1>12, <2>1, <2>3 DEF OutcomeOK
  <2> QED BY <1>7, <1>13, <2>4
<1>10. CASE ~EndsJob(done)
  BY <1>2, <1>6, <1>7, <1>8, <1>10, <1>12, <1>13 DEF OutcomeOK, Finished
<1> QED BY <1>9, <1>10

LEMMA OutcomeNext ==
  ASSUME Structure, Exclusive, Outcome, [Next]_vars
  PROVE  /\ Outcome' /\ Counted \subseteq Counted'
         /\ \A w \in Workers : CompleteChunk(w) => worker[w].rejected \subseteq Counted'
<1>1. Structure'
  BY StructureNext
<1>2. job.rejected \in Nat /\ \A w \in Workers : worker[w].rejected \subseteq Rejects
  BY DEF Structure, TypeOK, JobRow, WorkerState
<1> SUFFICES /\ Outcome' /\ job.rejected <= job'.rejected
             /\ \A w \in Workers : (CompleteChunk(w) /\ worker[w].rejected # {}) => job'.rejected > 0
  <2>1. job'.rejected \in Nat
    BY <1>1 DEF Structure, TypeOK, JobRow
  <2> QED BY <1>2, <2>1 DEF Counted
<1>3. ASSUME NEW w \in Workers, CompleteChunk(w), worker[w].rejected # {}
      PROVE  job'.rejected > 0
  BY <1>1, <1>3, CompleteOutcome
<1>4. ASSUME UNCHANGED vars
      PROVE  Outcome' /\ job.rejected <= job'.rejected
  BY <1>2, <1>4, QuietOutcome DEF vars
<1>5. ASSUME NEW s \in Splitters, SplitterStep(s) \/ SplitterFails(s)
      PROVE  Outcome' /\ job.rejected <= job'.rejected
  <2>1. CASE CreateJob(s)
    <3>1. job.rejected = 0 /\ job'.rejected = 0
      BY <1>2, <2>1 DEF CreateJob, NoJob, Outcome, OutcomeOK, Started
    <3> QED BY <2>1, <3>1, CreateJobOutcome
  <2>2. CASE SkipExistingJob(s) \/ SendChunks(s) \/ AckNotice(s) \/ SplitterFails(s)
    <3>1. UNCHANGED <<job, chunks, worker>>
      BY <2>2 DEF SkipExistingJob, SendChunks, AckNotice, SplitterFails, tableVars
    <3> QED BY <1>2, <3>1, QuietOutcome
  <2> QED BY <1>5, <2>1, <2>2 DEF SplitterStep
<1>6. ASSUME NEW m \in Messages, Reappear(m) \/ MoveToDlq(m)
      PROVE  Outcome' /\ job.rejected <= job'.rejected
  <2>1. UNCHANGED <<job, chunks, worker>>
    BY <1>6 DEF Reappear, MoveToDlq, tableVars
  <2> QED BY <1>2, <2>1, QuietOutcome
<1>7. ASSUME NEW w \in Workers, WorkerStep(w) \/ WorkerFails(w)
      PROVE  Outcome' /\ job.rejected <= job'.rejected
  <2>1. worker[w] \in WorkerState /\ worker \in [Workers -> WorkerState]
    BY DEF Structure, TypeOK
  <2>2. ASSUME UNCHANGED <<job, chunks>>, NEW s, SetWorker(w, s),
               s.phase \in Working => worker[w].phase \in Working /\ s.msg = worker[w].msg
        PROVE  Outcome' /\ job.rejected <= job'.rejected
    <3>1. worker'[w] = s /\ \A v \in Workers \ {w} : worker'[v] = worker[v]
      BY <2>1, <2>2 DEF SetWorker
    <3> QED BY <1>2, <2>2, <3>1, QuietOutcome
  <2>3. CASE \/ \E m \in Messages : Receive(w, m)
             \/ DeleteMessage(w) \/ WorkerFails(w)
    <3>1. PICK s : SetWorker(w, s) /\ s.phase \notin Working
      <4>1. CASE \E m \in Messages : Receive(w, m)
        BY <4>1 DEF Receive, Delivery, Working
      <4>2. CASE DeleteMessage(w) \/ WorkerFails(w)
        BY <4>2 DEF DeleteMessage, WorkerFails, IdleWorker, Delivery, Working
      <4> QED BY <2>3, <4>1, <4>2
    <3>2. UNCHANGED <<job, chunks>>
      BY <2>3 DEF Receive, DeleteMessage, WorkerFails, tableVars
    <3> QED BY <2>2, <3>1, <3>2
  <2>4. CASE Ignore(w) \/ SendContinuation(w) \/ RecordRejections(w)
    <3>1. PICK phase \in {"done", "recording", "completing"} :
            /\ SetWorker(w, [worker[w] EXCEPT !.phase = phase])
            /\ phase \in Working => worker[w].phase \in Working
      BY <2>4 DEF Ignore, SendContinuation, RecordRejections, Working
    <3>2. UNCHANGED <<job, chunks>>
      BY <2>4 DEF Ignore, SendContinuation, RecordRejections, tableVars
    <3>3. [worker[w] EXCEPT !.phase = phase].phase = phase
          /\ [worker[w] EXCEPT !.phase = phase].msg = worker[w].msg
      BY <2>1 DEF WorkerState
    <3> QED BY <2>2, <3>1, <3>2, <3>3
  <2>5. CASE Flush(w)
    <3>1. PICK phase, e, up, bad :
            SetWorker(w, [worker[w] EXCEPT !.phase = phase, !.pos = e,
                                           !.upserted = @ + up, !.rejected = @ \cup bad])
      BY <2>5 DEF Flush
    <3> DEFINE s == [worker[w] EXCEPT !.phase = phase, !.pos = e,
                                      !.upserted = @ + up, !.rejected = @ \cup bad]
    <3>2. s.msg = worker[w].msg /\ worker[w].phase \in Working /\ UNCHANGED <<job, chunks>>
      BY <2>1, <2>5 DEF Flush, WorkerState, Working
    <3> HIDE DEF s
    <3> QED BY <2>2, <3>1, <3>2 DEF s
  <2>6. CASE Claim(w)
    <3>1. job' = job
      BY <2>6 DEF Claim
    <3> QED BY <1>2, <2>6, <3>1, ClaimOutcome
  <2>7. CASE AllocateContinuation(w)
    <3>1. job'.rejected = job.rejected
      BY <2>7 DEF AllocateContinuation, Structure, TypeOK, JobRow
    <3> QED BY <1>2, <2>7, <3>1, AllocateOutcome
  <2>8. CASE CompleteChunk(w)
    <3>1. Outcome' /\ job'.rejected >= job.rejected
      BY <1>1, <2>8, CompleteOutcome
    <3>2. job'.rejected \in Nat
      BY <1>1 DEF Structure, TypeOK, JobRow
    <3> QED BY <1>2, <3>1, <3>2
  <2> QED BY <1>7, <2>3, <2>4, <2>5, <2>6, <2>7, <2>8 DEF WorkerStep
<1> QED BY <1>3, <1>4, <1>5, <1>6, <1>7 DEF Next

LEMMA CountersInvFollows ==
  ASSUME Structure, Coverage, Exclusive, Outcome, Covers(Counted, Started, chunks, worker)
  PROVE  CountersInv
BY LinesInvFollows DEF CountersInv, Structure, Coverage, Exclusive, Outcome

(* The invariant of the pipeline as it is deployed: a message stays hidden *)
(* for as long as a worker holds it.                                       *)
THEOREM CountersInvHolds == ExclusiveSpec => []CountersInv
<1> DEFINE Inv == Structure /\ Coverage /\ Exclusive /\ Outcome
                  /\ Covers(Counted, Started, chunks, worker)
<1>1. Init => Inv
  <2> SUFFICES ASSUME Init PROVE Inv
    OBVIOUS
  <2>1. Exclusive
    BY DEF Init, Exclusive, SendersOK, DeliveriesOK, IdleSplitter, IdleWorker, Delivery
  <2>2. Outcome
    <3>1. {i \in 1..Len(chunks) : ~Open(chunks[i])} = {}
      BY DEF Init
    <3>2. CountersMatchChunks
      BY <3>1, FS_EmptySet DEF Init, CountersMatchChunks, NoJob
    <3>3. OutcomeOK
      BY DEF Init, OutcomeOK, NoJob, IdleWorker, Delivery, Working, Finished
    <3> QED BY <3>2, <3>3 DEF Outcome
  <2> QED BY <2>1, <2>2, InitStructure, InitCoverage, InitCovers
<1>2. Inv /\ [Next /\ NoOverlap]_vars => Inv'
  <2> SUFFICES ASSUME Inv, [Next /\ NoOverlap]_vars PROVE Inv'
    OBVIOUS
  <2>1. [Next]_vars
    OBVIOUS
  <2>2. Structure' /\ Coverage' /\ Exclusive'
    BY <2>1, StructureNext, CoverageNext, ExclusiveNext
  <2>3. /\ Outcome' /\ Counted \subseteq Counted'
        /\ \A w \in Workers : CompleteChunk(w) => worker[w].rejected \subseteq Counted'
    BY <2>1, OutcomeNext
  <2>4. landed' \subseteq Counted'
    BY <2>2 DEF Structure, TypeOK, Counted
  <2>5. Covers(Counted', Started', chunks', worker')
    BY <2>1, <2>3, <2>4, CoversNext
  <2> QED BY <2>2, <2>3, <2>5 DEF Covers, WorkerCovered
<1>3. Inv => CountersInv
  BY CountersInvFollows
<1> QED BY <1>1, <1>2, <1>3, PTL DEF ExclusiveSpec

(* Redelivery after a crash, retries of the notice and continuations never *)
(* count a chunk twice, or fail to count one.                              *)
THEOREM CountersMatch == ExclusiveSpec => []CountersMatchChunks
<1>1. CountersInv => CountersMatchChunks
  BY DEF CountersInv
<1> QED BY <1>1, CountersInvHolds, PTL

(* An end is reported with every line accounted for, and says partial      *)
(* exactly when the file has a line that was rejected.                     *)
EndAccounts ==
  Finished => /\ Accounted = Lines /\ Rows \subseteq landed
              /\ job.status = IF Rejects = {} THEN "completed" ELSE "partial"

LEMMA FinishedAccounts ==
  ASSUME CountersInv
  PROVE  EndAccounts
<1> SUFFICES ASSUME Finished
             PROVE  /\ Accounted = Lines /\ Rows \subseteq landed
                    /\ job.status = IF Rejects = {} THEN "completed" ELSE "partial"
  BY DEF EndAccounts
<1>1. Started /\ (\A i \in 1..Len(chunks) : ~Open(chunks[i]))
      /\ (job.status = "partial") = (job.rejected > 0)
  BY DEF CountersInv, OutcomeOK, Finished, Started
<1>2. \A l \in Lines : l \in Accounted /\ l \in Counted
  BY <1>1 DEF CountersInv, LinesInv, Covers
<1>3. Accounted = Lines
  BY <1>2 DEF CountersInv, LinesInv, TypeOK, Accounted, Listed, Rejects, Rows
<1>4. Rows \subseteq landed
  BY <1>2 DEF Accounted, Listed, Rejects, Rows
<1>5. job.rejected > 0 <=> Rejects # {}
  BY <1>2 DEF CountersInv, OutcomeOK, Counted, Rows, Rejects
<1> QED BY <1>1, <1>3, <1>4, <1>5 DEF Finished

(* A job that reports an end has every good line of its file in products,  *)
(* and says partial exactly when the file has a line that was rejected.    *)
THEOREM FinishedJobsAreDone == ExclusiveSpec => []FinishedMeansLanded
<1>1. CountersInv => FinishedMeansLanded
  BY FinishedAccounts DEF EndAccounts, FinishedMeansLanded, Finished, Rows, Rejects
<1> QED BY <1>1, CountersInvHolds, PTL
-------------------------------------------------------------------------------
(* The pipeline implements the file of VendorFile.                         *)

LEMMA NothingAccounted ==
  ASSUME Init PROVE Accounted = {} /\ job.status = "none"
<1>1. \A l \in Lines : ListedBefore(l) = {}
  BY DEF Init, ListedBefore
<1>2. \A l \in Lines : ~(Cardinality(ListedBefore(l)) >= ErrorCap)
  <2>1. Cardinality({}) = 0 /\ ErrorCap \in Nat /\ ErrorCap > 0
    BY FS_EmptySet, BoundsAssumption
  <2> QED BY <1>1, <2>1
<1>3. Listed = {}
  BY <1>2 DEF Init, Listed, Rejects
<1> QED BY <1>3 DEF Init, NoJob, Accounted

(* Only a worker on an open chunk accounts for lines, so the job is still  *)
(* in processing.                                                          *)
LEMMA AccountedInProcessing ==
  ASSUME CountersInv, [Next]_vars
  PROVE  \/ UNCHANGED Accounted
         \/ job.status = "processing" /\ UNCHANGED job
<1>1. CASE UNCHANGED <<landed, errors>>
  BY <1>1, SameAccounted
<1>2. CASE \E w \in Workers : Flush(w) \/ RecordRejections(w)
  <2>1. PICK w \in Workers : Flush(w) \/ RecordRejections(w)
    BY <1>2
  <2>2. worker[w].phase \in Working /\ UNCHANGED job
    BY <2>1 DEF Flush, RecordRejections, Working
  <2>3. HasRow(worker[w].msg) /\ Open(chunks[worker[w].msg])
    BY <2>2 DEF CountersInv, LinesInv, MessagesOK, OutcomeOK
  <2>4. ~Finished
    BY <2>3 DEF CountersInv, OutcomeOK, HasRow
  <2>5. job.status # "none"
    BY <2>3 DEF CountersInv, LinesInv, MessagesOK, HasRow
  <2> QED BY <2>2, <2>4, <2>5 DEF CountersInv, LinesInv, TypeOK, JobRow, Finished
<1> QED BY <1>1, <1>2
     DEF Next, SplitterStep, WorkerStep, CreateJob, SkipExistingJob, SendChunks, AckNotice,
         SplitterFails, Receive, Claim, Ignore, AllocateContinuation, SendContinuation,
         CompleteChunk, DeleteMessage, WorkerFails, Reappear, MoveToDlq, tableVars, vars

(* The status changes where the job is created and where its last chunk    *)
(* completes, and in no step that accounts for a line.                     *)
LEMMA StatusNext ==
  ASSUME CountersInv, [Next]_vars
  PROVE  \/ UNCHANGED job.status
         \/ job.status = "none" /\ job'.status = "processing" /\ UNCHANGED <<landed, errors>>
         \/ job.status = "processing" /\ Finished' /\ UNCHANGED <<landed, errors>>
<1>1. CASE UNCHANGED job
  BY <1>1
<1>2. ASSUME NEW s \in Splitters, CreateJob(s)
      PROVE  job.status = "none" /\ job'.status = "processing" /\ UNCHANGED <<landed, errors>>
  BY <1>2 DEF CreateJob, NoJob
<1>3. ASSUME NEW w \in Workers, AllocateContinuation(w)
      PROVE  UNCHANGED job.status
  BY <1>3 DEF AllocateContinuation, CountersInv, LinesInv, TypeOK, JobRow
<1>4. ASSUME NEW w \in Workers, CompleteChunk(w)
      PROVE  \/ UNCHANGED job.status
             \/ job.status = "processing" /\ Finished' /\ UNCHANGED <<landed, errors>>
  <2> DEFINE bad  == Cardinality(worker[w].rejected)
             done == [job EXCEPT !.completed = @ + 1, !.upserted = @ + worker[w].upserted,
                                 !.rejected = @ + bad]
  <2>1. done.status = job.status /\ "status" \in DOMAIN done
    BY DEF CountersInv, LinesInv, TypeOK, JobRow
  <2>2. job' = IF EndsJob(done)
               THEN [done EXCEPT !.status = IF done.rejected > 0 THEN "partial" ELSE "completed"]
               ELSE done
    BY <1>4 DEF CompleteChunk
  <2>3. UNCHANGED <<landed, errors>>
    BY <1>4 DEF CompleteChunk
  <2> HIDE DEF done
  <2>4. CASE EndsJob(done)
    BY <2>1, <2>2, <2>3, <2>4 DEF EndsJob, Finished
  <2> QED BY <2>1, <2>2, <2>4
<1> QED BY <1>1, <1>2, <1>3, <1>4
     DEF Next, SplitterStep, WorkerStep, SkipExistingJob, SendChunks, AckNotice,
         SplitterFails, Receive, Claim, Ignore, Flush, SendContinuation, RecordRejections,
         DeleteMessage, WorkerFails, Reappear, MoveToDlq, tableVars, vars

LEMMA FileNext ==
  ASSUME CountersInv, CountersInv', EndAccounts', [Next]_vars
  PROVE  [File!Next]_<<Accounted, job.status>>
<1>1. Accounted \subseteq Accounted'
  <2>1. Structure
    BY DEF CountersInv, LinesInv, Structure
  <2> QED BY <2>1, AccountedNext
<1>2. Accounted' \subseteq Lines
  BY DEF CountersInv, LinesInv, TypeOK, Accounted, Listed, Rejects, Rows
<1>3. CASE UNCHANGED job.status
  BY <1>1, <1>2, <1>3, AccountedInProcessing DEF File!Next, File!Account
<1>4. CASE job.status = "none" /\ job'.status = "processing" /\ UNCHANGED <<landed, errors>>
  BY <1>4, SameAccounted DEF File!Next, File!Register
<1>5. CASE job.status = "processing" /\ Finished' /\ UNCHANGED <<landed, errors>>
  <2>1. Accounted' = Lines /\ job'.status = IF Rejects = {} THEN "completed" ELSE "partial"
    BY <1>5 DEF EndAccounts
  <2> QED BY <1>5, <2>1, SameAccounted DEF File!Next, File!Finish
<1> QED BY <1>3, <1>4, <1>5, StatusNext

(* To whoever polls it the job is one file imported once: every step of    *)
(* the splitters, the workers and the queue is a step of VendorFile or     *)
(* changes nothing it shows.                                               *)
THEOREM PipelineImportsFile == ExclusiveSpec => FileImported
<1>1. Init => File!Init
  BY NothingAccounted DEF File!Init
<1>2. CountersInv => EndAccounts
  BY FinishedAccounts
<1>3. CountersInv /\ CountersInv' /\ EndAccounts' /\ [Next /\ NoOverlap]_vars
        => [File!Next]_<<Accounted, job.status>>
  BY FileNext
<1> QED BY <1>1, <1>2, <1>3, CountersInvHolds, PTL DEF ExclusiveSpec, FileImported, File!Spec
===============================================================================
