-------------------------- MODULE IngestionPipeline ---------------------------
(***************************************************************************)
(* One vendor file through the ingestion pipeline.  The bucket's           *)
(* notification reaches a splitter, which creates the job and its chunk    *)
(* rows in one transaction and then sends one SQS message per chunk.       *)
(* Workers receive a message, claim its chunk, upsert the lines it owns in *)
(* batches, hand the rest to a new chunk when their time runs short, and   *)
(* roll the chunk's counts into the job.  SQS delivers at least once.      *)
(*                                                                         *)
(* A chunk is the interval [from, to) of the lines that start in its byte  *)
(* range; a line is its SKU, or Bad when parsing or pricing rejects it.    *)
(* Jobs share no rows but products, so one file stands for all of them.    *)
(***************************************************************************)
EXTENDS Integers, FiniteSets, Sequences

CONSTANTS
  Lines,        \* the line numbers of the file, the header left out
  Sku,          \* the SKU of each line, or Bad
  Bad,
  Ranges,       \* the line intervals of the splitter's byte ranges
  Splitters, Workers,
  SendBatch,    \* entries of one SendMessageBatch
  UpsertBatch,  \* rows of one upsert
  ErrorCap,     \* rejections recorded per chunk
  MaxReceives,  \* maxReceiveCount of the queue's redrive policy
  Notices,      \* deliveries of the upload's notification
  Garbled,      \* messages in the queue whose body does not parse
  MaxChunks,    \* bound on the chunks of a job
  MaxFaults     \* bound on crashes, failures, lost entries and early redeliveries

ASSUME LinesAssumption == Lines \subseteq Nat \ {0} /\ IsFiniteSet(Lines)
ASSUME RangesAssumption ==
  /\ Ranges \in Seq([from : Nat \ {0}, to : Nat \ {0}])
  /\ \A l \in Lines : \E i \in 1..Len(Ranges) : Ranges[i].from <= l /\ l < Ranges[i].to
ASSUME GarbledAssumption == \A m \in Garbled : m \in Int /\ m < 1
ASSUME BoundsAssumption ==
  /\ {SendBatch, UpsertBatch, ErrorCap, MaxReceives} \subseteq Nat \ {0}
  /\ {Notices, MaxChunks, MaxFaults} \subseteq Nat
  /\ Len(Ranges) <= MaxChunks

VARIABLES
  notices,     \* notifications waiting in the splitter's queue
  splitter,
  job,         \* the ingestion_jobs row
  chunks,      \* the ingestion_chunks rows: entry i has chunk_index i - 1
  msg,         \* the SQS message of each chunk, and the garbled ones
  worker,
  landed,      \* history: the lines whose row reached products
  errors,      \* ingestion_row_errors: rows per line
  faults

splitVars == <<notices, splitter>>
tableVars == <<job, chunks, landed, errors>>
vars == <<notices, splitter, job, chunks, msg, worker, landed, errors, faults>>

Messages == (1..MaxChunks) \cup Garbled
GoodLines(from, to) == {l \in Lines : from <= l /\ l < to /\ Sku[l] # Bad}
BadLines(from, to)  == {l \in Lines : from <= l /\ l < to /\ Sku[l] = Bad}
Finished == job.status \in {"completed", "partial"}

NoJob == [status |-> "none", total |-> 0, completed |-> 0, upserted |-> 0, rejected |-> 0]
NewChunk(from, to) ==
  [from |-> from, to |-> to, status |-> "pending", upserted |-> 0, rejected |-> 0]
IdleSplitter == [phase |-> "idle", next |-> 1]
Delivery(phase, m, receipt) ==
  [phase |-> phase, msg |-> m, receipt |-> receipt, pos |-> 1,
   upserted |-> 0, rejected |-> {}, next |-> 0]
IdleWorker == Delivery("idle", 0, 0)

Init ==
  /\ notices = Notices /\ splitter = [s \in Splitters |-> IdleSplitter]
  /\ job = NoJob /\ chunks = <<>> /\ landed = {} /\ errors = [l \in Lines |-> 0]
  /\ msg = [m \in Messages |->
              [state |-> IF m \in Garbled THEN "visible" ELSE "unsent", receives |-> 0]]
  /\ worker = [w \in Workers |-> IdleWorker]
  /\ faults = 0

Fault == faults < MaxFaults /\ faults' = faults + 1
-------------------------------------------------------------------------------
(* The splitter.                                                           *)

SetSplitter(s, phase, next) ==
  splitter' = [splitter EXCEPT ![s] = [phase |-> phase, next |-> next]]

(* The transaction: the job row and every chunk row, or neither.           *)
CreateJob(s) ==
  /\ splitter[s].phase = "idle" /\ notices > 0
  /\ job.status = "none"
  /\ notices' = notices - 1
  /\ job' = [NoJob EXCEPT !.status = "processing", !.total = Len(Ranges)]
  /\ chunks' = [i \in 1..Len(Ranges) |-> NewChunk(Ranges[i].from, Ranges[i].to)]
  /\ SetSplitter(s, "sending", 1)
  /\ UNCHANGED <<msg, worker, landed, errors, faults>>

(* The idempotency key is taken: nothing is sent, the notice is deleted.   *)
SkipExistingJob(s) ==
  /\ splitter[s].phase = "idle" /\ notices > 0
  /\ job.status # "none"
  /\ notices' = notices - 1
  /\ SetSplitter(s, "ack", 1)
  /\ UNCHANGED <<tableVars, msg, worker, faults>>

(* A batch whose call succeeds may still list entries as Failed; the       *)
(* response is not read.                                                   *)
SendChunks(s) ==
  /\ splitter[s].phase = "sending"
  /\ LET after == splitter[s].next + SendBatch
         slice == {i \in splitter[s].next..Len(Ranges) : i < after}
     IN  /\ \E lost \in SUBSET slice :
              /\ IF lost = {} THEN faults' = faults ELSE Fault
              /\ msg' = [m \in Messages |->
                           IF m \in slice \ lost THEN [msg[m] EXCEPT !.state = "visible"]
                                                 ELSE msg[m]]
         /\ IF after <= Len(Ranges) THEN SetSplitter(s, "sending", after)
                                    ELSE SetSplitter(s, "ack", 1)
  /\ UNCHANGED <<notices, tableVars, worker>>

AckNotice(s) ==
  /\ splitter[s].phase = "ack"
  /\ SetSplitter(s, "idle", 1)
  /\ UNCHANGED <<notices, tableVars, msg, worker, faults>>

(* The splitter throws or dies; the notice becomes visible again.          *)
SplitterFails(s) ==
  /\ splitter[s].phase # "idle"
  /\ Fault
  /\ notices' = notices + 1
  /\ SetSplitter(s, "idle", 1)
  /\ UNCHANGED <<tableVars, msg, worker>>
-------------------------------------------------------------------------------
(* The queue.                                                              *)

SetWorker(w, s) == worker' = [worker EXCEPT ![w] = s]

ReceiveForEver(w, m) ==                           \* mutant: no maxReceiveCount
  /\ worker[w].phase = "idle"
  /\ msg[m].state = "visible"
  /\ msg' = [msg EXCEPT ![m] = [state |-> "inflight", receives |-> @.receives + 1]]
  /\ SetWorker(w, Delivery("received", m, msg[m].receives + 1))
  /\ UNCHANGED <<splitVars, tableVars, faults>>

Receive(w, m) ==
  /\ worker[w].phase = "idle"
  /\ msg[m].state = "visible" /\ msg[m].receives < MaxReceives
  /\ msg' = [msg EXCEPT ![m] = [state |-> "inflight", receives |-> @.receives + 1]]
  /\ SetWorker(w, Delivery("received", m, msg[m].receives + 1))
  /\ UNCHANGED <<splitVars, tableVars, faults>>

MoveToDlq(m) ==
  /\ msg[m].state = "visible" /\ msg[m].receives >= MaxReceives
  /\ msg' = [msg EXCEPT ![m].state = "dead"]
  /\ UNCHANGED <<splitVars, tableVars, worker, faults>>

Held(m) == \E w \in Workers : /\ worker[w].phase # "idle" /\ worker[w].msg = m
                              /\ worker[w].receipt = msg[m].receives

(* The visibility timeout; while a worker still holds the message this is  *)
(* a lapse, or the second delivery of a standard queue.                    *)
Reappear(m) ==
  /\ msg[m].state = "inflight"
  /\ IF Held(m) THEN Fault ELSE faults' = faults
  /\ msg' = [msg EXCEPT ![m].state = "visible"]
  /\ UNCHANGED <<splitVars, tableVars, worker>>
-------------------------------------------------------------------------------
(* processChunk.                                                           *)

ClaimUnguarded(w) ==                              \* mutant: completed chunks are claimed again
  /\ worker[w].phase = "received" /\ worker[w].msg \notin Garbled
  /\ chunks' = [chunks EXCEPT ![worker[w].msg].status = "processing"]
  /\ SetWorker(w, [worker[w] EXCEPT !.phase = "reading", !.pos = chunks[worker[w].msg].from])
  /\ UNCHANGED <<splitVars, job, landed, errors, msg, faults>>

Claim(w) ==
  /\ worker[w].phase = "received" /\ worker[w].msg \notin Garbled
  /\ chunks[worker[w].msg].status # "completed"
  /\ chunks' = [chunks EXCEPT ![worker[w].msg].status = "processing"]
  /\ SetWorker(w, [worker[w] EXCEPT !.phase = "reading", !.pos = chunks[worker[w].msg].from])
  /\ UNCHANGED <<splitVars, job, landed, errors, msg, faults>>

(* A completed chunk is ignored, an unparseable body discarded: either way *)
(* the handler reports no failure and the message is deleted.              *)
Ignore(w) ==
  /\ worker[w].phase = "received"
  /\ worker[w].msg \notin Garbled => chunks[worker[w].msg].status = "completed"
  /\ SetWorker(w, [worker[w] EXCEPT !.phase = "done"])
  /\ UNCHANGED <<splitVars, tableVars, msg, faults>>

(* Where the loop flushes: behind the row that fills the batch, else at    *)
(* the end of the chunk.                                                   *)
BatchEnds(from, to) ==
  {e \in from..to : LET n == Cardinality(GoodLines(from, e))
                    IN  IF n = UpsertBatch THEN Sku[e - 1] # Bad
                                           ELSE e = to /\ n < UpsertBatch}

(* Behind a full batch the worker looks at its clock, which may say        *)
(* anything; MaxChunks bounds the continuations there can be.              *)
AfterFlush(n) ==
  IF n < UpsertBatch THEN {"recording"}
  ELSE {"reading"} \cup
       {phase \in {"handoff"} :
          Len(chunks) + Cardinality({w \in Workers : worker[w].phase = "handoff"}) < MaxChunks}

(* Reads up to the flush, upserts the batch, one row per SKU, and projects *)
(* it.                                                                     *)
Flush(w) ==
  /\ worker[w].phase = "reading"
  /\ \E e \in BatchEnds(worker[w].pos, chunks[worker[w].msg].to) :
       LET batch == GoodLines(worker[w].pos, e)
       IN  /\ landed' = landed \cup batch
           /\ \E phase \in AfterFlush(Cardinality(batch)) :
                SetWorker(w, [worker[w] EXCEPT
                  !.phase = phase, !.pos = e,
                  !.upserted = @ + Cardinality({Sku[l] : l \in batch}),
                  !.rejected = @ \cup BadLines(worker[w].pos, e)])
  /\ UNCHANGED <<splitVars, job, chunks, errors, msg, faults>>

(* The job's total grows and the new chunk's row appears together.         *)
AllocateKeepingTotal(w) ==                        \* mutant: chunks_total is not raised
  /\ worker[w].phase = "handoff" /\ Len(chunks) < MaxChunks
  /\ chunks' = Append(chunks, NewChunk(worker[w].pos, chunks[worker[w].msg].to))
  /\ SetWorker(w, [worker[w] EXCEPT !.phase = "sending", !.next = Len(chunks) + 1])
  /\ UNCHANGED <<splitVars, job, landed, errors, msg, faults>>

AllocateNextLine(w) ==                            \* mutant: resumes one line too late
  /\ worker[w].phase = "handoff" /\ Len(chunks) < MaxChunks
  /\ job' = [job EXCEPT !.total = @ + 1]
  /\ chunks' = Append(chunks, NewChunk(worker[w].pos + 1, chunks[worker[w].msg].to))
  /\ SetWorker(w, [worker[w] EXCEPT !.phase = "sending", !.next = job.total + 1])
  /\ UNCHANGED <<splitVars, landed, errors, msg, faults>>

AllocateContinuation(w) ==
  /\ worker[w].phase = "handoff" /\ Len(chunks) < MaxChunks
  /\ job' = [job EXCEPT !.total = @ + 1]
  /\ chunks' = Append(chunks, NewChunk(worker[w].pos, chunks[worker[w].msg].to))
  /\ SetWorker(w, [worker[w] EXCEPT !.phase = "sending", !.next = job.total + 1])
  /\ UNCHANGED <<splitVars, landed, errors, msg, faults>>

SendContinuation(w) ==
  /\ worker[w].phase = "sending"
  /\ msg' = [msg EXCEPT ![worker[w].next].state = "visible"]
  /\ SetWorker(w, [worker[w] EXCEPT !.phase = "recording"])
  /\ UNCHANGED <<splitVars, tableVars, faults>>

RecordUnlessHandedOff(w) ==                       \* mutant: a chunk cut short records nothing
  /\ worker[w].phase = "recording"
  /\ LET rejected == IF worker[w].next = 0 THEN worker[w].rejected ELSE {}
         recorded == {l \in rejected : Cardinality({k \in rejected : k < l}) < ErrorCap}
     IN  errors' = [l \in Lines |-> IF l \in recorded THEN errors[l] + 1 ELSE errors[l]]
  /\ SetWorker(w, [worker[w] EXCEPT !.phase = "completing"])
  /\ UNCHANGED <<splitVars, job, chunks, landed, msg, faults>>

RecordIgnoringFailure(w) ==                       \* mutant: an insert that fails is swallowed
  /\ worker[w].phase = "recording"
  /\ SetWorker(w, [worker[w] EXCEPT !.phase = "completing"])
  /\ UNCHANGED <<splitVars, tableVars, msg, faults>>

(* One insert of the first ErrorCap rejections, ahead of the completion.   *)
RecordRejections(w) ==
  /\ worker[w].phase = "recording"
  /\ LET rejected == worker[w].rejected
         recorded == {l \in rejected : Cardinality({k \in rejected : k < l}) < ErrorCap}
     IN  errors' = [l \in Lines |-> IF l \in recorded THEN errors[l] + 1 ELSE errors[l]]
  /\ SetWorker(w, [worker[w] EXCEPT !.phase = "completing"])
  /\ UNCHANGED <<splitVars, job, chunks, landed, msg, faults>>

EndsJobPast(j) == j.completed > j.total /\ j.status = "processing"        \* mutant
EndsJob(j)     == j.completed >= j.total /\ j.status = "processing"

(* completeChunk's transaction; the last chunk to complete ends the job.   *)
CompleteChunk(w) ==
  /\ worker[w].phase = "completing"
  /\ LET up   == worker[w].upserted
         bad  == Cardinality(worker[w].rejected)
         done == [job EXCEPT !.completed = @ + 1, !.upserted = @ + up, !.rejected = @ + bad]
     IN  /\ chunks' = [chunks EXCEPT ![worker[w].msg].status = "completed",
                                     ![worker[w].msg].upserted = up,
                                     ![worker[w].msg].rejected = bad]
         /\ job' = IF EndsJob(done)
                   THEN [done EXCEPT !.status = IF done.rejected > 0 THEN "partial" ELSE "completed"]
                   ELSE done
  /\ SetWorker(w, [worker[w] EXCEPT !.phase = "done"])
  /\ UNCHANGED <<splitVars, landed, errors, msg, faults>>

(* An outdated receipt handle may or may not delete.                       *)
DeleteMessage(w) ==
  /\ worker[w].phase = "done"
  /\ LET m == worker[w].msg
         deleted == [msg EXCEPT ![m].state = "deleted"]
     IN  IF msg[m].state \notin {"visible", "inflight"} THEN msg' = msg
         ELSE IF msg[m].receives = worker[w].receipt THEN msg' = deleted
         ELSE msg' \in {msg, deleted}
  /\ SetWorker(w, IdleWorker)
  /\ UNCHANGED <<splitVars, tableVars, faults>>

(* The handler throws, runs out of time, or its process dies: the message  *)
(* stays in flight until its visibility timeout.                           *)
WorkerFails(w) ==
  /\ worker[w].phase # "idle"
  /\ Fault
  /\ SetWorker(w, IdleWorker)
  /\ UNCHANGED <<splitVars, tableVars, msg>>
-------------------------------------------------------------------------------
SplitterStep(s) == CreateJob(s) \/ SkipExistingJob(s) \/ SendChunks(s) \/ AckNotice(s)

WorkerStep(w) ==
  \/ \E m \in Messages : Receive(w, m)
  \/ Claim(w) \/ Ignore(w) \/ Flush(w) \/ AllocateContinuation(w) \/ SendContinuation(w)
  \/ RecordRejections(w) \/ CompleteChunk(w) \/ DeleteMessage(w)

Next ==
  \/ \E s \in Splitters : SplitterStep(s) \/ SplitterFails(s)
  \/ \E w \in Workers : WorkerStep(w) \/ WorkerFails(w)
  \/ \E m \in Messages : Reappear(m) \/ MoveToDlq(m)

Spec == Init /\ [][Next]_vars

(* VisibilityTimeout exceeds the worker's run time and no message is       *)
(* delivered twice: a message never reappears while a worker holds it.     *)
NoOverlap == \A m \in Messages :
  (msg[m].state = "inflight" /\ Held(m)) => msg'[m].state # "visible"

(* Pollers keep polling and an unheld message reappears or is moved; what  *)
(* fails, lapses or runs short of time is nobody's duty.                   *)
Fairness ==
  /\ \A s \in Splitters : WF_vars(SplitterStep(s))
  /\ \A w \in Workers : WF_vars(WorkerStep(w))
  /\ \A m \in Messages : WF_vars((Reappear(m) /\ ~Held(m)) \/ MoveToDlq(m))
ExclusiveSpec == Init /\ [][Next /\ NoOverlap]_vars /\ Fairness
-------------------------------------------------------------------------------
Working == {"reading", "handoff", "sending", "recording", "completing"}

JobRow == [status : {"none", "processing", "completed", "partial"},
           total : Nat, completed : Nat, upserted : Nat, rejected : Nat]
Chunk == [from : Nat, to : Nat, status : {"pending", "processing", "completed"},
          upserted : Nat, rejected : Nat]
Rows    == {l \in Lines : Sku[l] # Bad}
Rejects == {l \in Lines : Sku[l] = Bad}
WorkerState ==
  [phase : Working \cup {"idle", "received", "done"}, msg : Int, receipt : Nat,
   pos : Nat, upserted : Nat, rejected : SUBSET Rejects, next : Nat]

TypeOK ==
  /\ notices \in Nat
  /\ splitter \in [Splitters -> [phase : {"idle", "sending", "ack"}, next : Nat]]
  /\ job \in JobRow /\ chunks \in Seq(Chunk) /\ Len(chunks) <= MaxChunks
  /\ msg \in [Messages -> [state : {"unsent", "visible", "inflight", "deleted", "dead"},
                            receives : 0..MaxReceives]]
  /\ worker \in [Workers -> WorkerState]
  /\ landed \subseteq Rows /\ errors \in [Lines -> Nat]
  /\ faults \in 0..MaxFaults

LinesIn(from, to) == {l \in Lines : from <= l /\ l < to}
Open(chunk)  == chunk.status # "completed"
Owned(chunk) == LinesIn(chunk.from, chunk.to)
Awaited(l)   == \E i \in 1..Len(chunks) : Open(chunks[i]) /\ l \in Owned(chunks[i])

(* No line is dropped, whatever crashes, lapses and redeliveries do: a     *)
(* good line that has not reached the products table is owned by a chunk   *)
(* that is not marked completed (processChunk, enqueueContinuation).       *)
LinesCovered == job.status # "none" => \A l \in Rows : l \in landed \/ Awaited(l)

(* The lines an operator finds in ingestion_row_errors, or that the cap on *)
(* a chunk's records left out behind at least ErrorCap that are there.     *)
ListedBefore(l) == {k \in Lines : k < l /\ errors[k] > 0}
Listed == {l \in Rejects : errors[l] > 0 \/ Cardinality(ListedBefore(l)) >= ErrorCap}

(* No rejection is dropped either, although its record is written after    *)
(* the rest of the chunk may have been handed on, and nothing but a chunk  *)
(* still open brings a worker back to it: a bad line is listed, or is      *)
(* owned by a chunk that is not marked completed (recordRejections; the    *)
(* "per-row error records" that ingestion_row_errors is there for).        *)
RejectionsKept == job.status # "none" => \A l \in Rejects : l \in Listed \/ Awaited(l)

(* Chunk c needs nothing more: each of its lines is in done or is owned by *)
(* a later chunk that is still open.                                       *)
Settled(cs, done, c) ==
  \A l \in Owned(cs[c]) :
    l \in done \/ \E i \in c + 1..Len(cs) : Open(cs[i]) /\ l \in Owned(cs[i])

(* A worker has dealt with what lies behind it, or holds its rejection; or *)
(* it has settled its chunk, but for those.                                *)
WorkerCovered(cs, done, s) ==
  /\ s.phase \in {"reading", "handoff"} =>
       LinesIn(cs[s.msg].from, s.pos) \subseteq done \cup s.rejected
  /\ s.phase \in {"sending", "recording", "completing"} =>
       Settled(cs, done \cup s.rejected, s.msg)

(* What makes "done, or owned by an open chunk" inductive, whatever it is  *)
(* that is to be done with a line.                                         *)
Covers(done, started, cs, ws) ==
  /\ started => \A l \in Lines : l \in done \/ \E i \in 1..Len(cs) : Open(cs[i]) /\ l \in Owned(cs[i])
  /\ \A c \in 1..Len(cs) : Open(cs[c]) \/ Settled(cs, done, c)
  /\ \A w \in Workers : WorkerCovered(cs, done, ws[w])

HasRow(m) == m \in 1..Len(chunks)
MessagesOK ==
  /\ job.status = "none" => chunks = <<>>
  /\ job.status # "none" => Len(Ranges) <= Len(chunks)
  /\ job.total = Len(chunks)
  /\ \A s \in Splitters : splitter[s].phase = "sending" => job.status # "none"
  /\ \A m \in Messages \ Garbled : msg[m].state # "unsent" => HasRow(m)
  /\ \A w \in Workers :
       /\ worker[w].phase \in Working => HasRow(worker[w].msg)
       /\ worker[w].phase = "received" => worker[w].msg \in Garbled \/ HasRow(worker[w].msg)
       /\ worker[w].phase = "sending" => HasRow(worker[w].next)
Started   == job.status # "none"
Accounted == landed \cup Listed
RecordedOK ==
  \A w \in Workers : worker[w].phase = "completing" => worker[w].rejected \subseteq Listed
LinesInv ==
  /\ TypeOK /\ MessagesOK /\ RecordedOK /\ Covers(Accounted, Started, chunks, worker)
  /\ LinesCovered /\ RejectionsKept

(* The job's counters describe its chunk rows: each completed chunk was    *)
(* counted once.  It is what the comments of processChunk and of the       *)
(* ingestion_chunks table promise of redelivery, "the counters cannot be   *)
(* double-incremented".                                                    *)
CountersMatchChunks ==
  /\ job.total = Len(chunks)
  /\ job.completed = Cardinality({i \in 1..Len(chunks) : ~Open(chunks[i])})

(* A job that reports an end has one: every good line of the file is in    *)
(* the products table, and the job is partial exactly when the file has    *)
(* lines that were rejected (completeChunk).                               *)
FinishedMeansLanded ==
  Finished => /\ \A l \in Lines : Sku[l] # Bad => l \in landed
              /\ (job.status = "partial") = (\E l \in Lines : Sku[l] = Bad)

(* What makes the two inductive where no message reappears while a worker  *)
(* holds it.  Each message is sent once, ...                               *)
SendersOK ==
  /\ \A s, t \in Splitters :
       (splitter[s].phase = "sending" /\ splitter[t].phase = "sending") => s = t
  /\ \A s \in Splitters : splitter[s].phase = "sending" =>
       splitter[s].next > 0 /\ \A i \in splitter[s].next..Len(Ranges) : msg[i].state = "unsent"
  /\ \A w \in Workers : worker[w].phase = "sending" =>
       worker[w].next > Len(Ranges) /\ msg[worker[w].next].state = "unsent"
  /\ \A v, w \in Workers :
       (worker[v].phase = "sending" /\ worker[w].phase = "sending"
          /\ worker[v].next = worker[w].next) => v = w

(* ... held by one worker, in flight and under its newest receipt, ...     *)
DeliveriesOK ==
  /\ \A w \in Workers : worker[w].phase # "idle" =>
       /\ worker[w].msg \in Messages /\ msg[worker[w].msg].state = "inflight"
       /\ worker[w].receipt = msg[worker[w].msg].receives
  /\ \A v, w \in Workers :
       (worker[v].phase # "idle" /\ worker[w].phase # "idle" /\ worker[v].msg = worker[w].msg)
         => v = w

(* ... so that its chunk stays open while it works; and a bad line is in   *)
(* the job's count, or is owned by an open chunk.                          *)
OutcomeOK ==
  /\ \A w \in Workers : worker[w].phase \in Working => Open(chunks[worker[w].msg])
  /\ job.rejected > 0 => Started /\ Rejects # {}
  /\ Finished => /\ \A i \in 1..Len(chunks) : ~Open(chunks[i])
                 /\ (job.status = "partial") = (job.rejected > 0)
Counted == Rows \cup (IF job.rejected > 0 THEN Rejects ELSE {})
CountersInv ==
  /\ LinesInv /\ SendersOK /\ DeliveriesOK /\ CountersMatchChunks /\ OutcomeOK
  /\ Covers(Counted, Started, chunks, worker)

(* To whoever polls it the job is the file's import and nothing else: its  *)
(* lines come to account while it is in processing, it ends once and with  *)
(* every line accounted for, and neither crashes, continuations nor later  *)
(* deliveries show (processChunk, completeChunk).                          *)
File == INSTANCE VendorFile WITH FileLines <- Lines, Rejected <- Rejects,
                                 accounted <- Accounted, status <- job.status
FileImported == File!Spec

(* The splitter's runner leaves a failed notification "for another attempt *)
(* rather than losing" it: once every notification has been handled, every *)
(* chunk of the file has been sent.                                        *)
NoticeHandled ==
  (job.status # "none" /\ notices = 0 /\ \A s \in Splitters : splitter[s].phase = "idle")
    => \A i \in 1..Len(Ranges) : msg[i].state # "unsent"

(* A chunk that nobody will work on: its message was never sent and nobody *)
(* is about to send it, or it is in the dead letter queue.                 *)
Unsent(i) ==
  /\ msg[i].state = "unsent"
  /\ \A s \in Splitters : splitter[s].phase = "sending" => i < splitter[s].next \/ i > Len(Ranges)
  /\ \A w \in Workers : worker[w].phase = "sending" => worker[w].next # i
Abandoned(i) == Open(chunks[i]) /\ (Unsent(i) \/ msg[i].state = "dead")

(* A job that has started reaches an end, through crashes, restarts, retries *)
(* and continuations: the only way for it to stay in processing is a chunk *)
(* whose message was never sent or used up its receives (completeChunk).   *)
JobFinishes ==
  job.status = "processing" ~> (Finished \/ \E i \in 1..Len(chunks) : Abandoned(i))
===============================================================================
