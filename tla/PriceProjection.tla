--------------------------- MODULE PriceProjection ----------------------------
(***************************************************************************)
(* Everything that writes products.effective_price_cents.  The API commits *)
(* a promotion and then hands a job to BullMQ; the scheduler queues        *)
(* delayed jobs for the edges of promotion windows; projector workers walk *)
(* a category in batches; the reconciler sweeps the table for rows that    *)
(* disagree with the promotions; ingestion and product creation project    *)
(* the rows they write.                                                    *)
(*                                                                         *)
(* A projection is one SQL statement under READ COMMITTED: the prices are  *)
(* computed from the snapshot taken when the statement starts and reach    *)
(* the rows when it commits, possibly after waiting for their locks.  So   *)
(* every statement is two actions, and other transactions commit between.  *)
(***************************************************************************)
EXTENDS Promotions, Bags

CONSTANTS
  Listings,         \* the [base, category] pairs a product may be given
  Catalogue,        \* the listing of each product stored initially
  Workers,          \* projector job slots (PROJECTOR_CONCURRENCY)
  Reconcilers,      \* one per running projector process
  Ingestors,        \* ingestion workers between an upsert and its projection
  Creators,         \* API requests inside createProduct's transaction
  BatchSize, ScanWindow, SweepLimit,
  Horizon,          \* how far ahead the scheduler looks
  Skew,             \* how far its clock may be ahead of PostgreSQL's
  MaxAttempts,      \* BullMQ attempts of a job the API enqueues
  MaxFaults,        \* bound on crashes, failures and losses
  MaxUpserts        \* bound on vendor upserts

ASSUME ListingsAssumption == Listings \subseteq [base : Nat, category : Categories]
ASSUME CatalogueAssumption ==
  /\ DOMAIN Catalogue \subseteq Products /\ IsFiniteSet(DOMAIN Catalogue)
  /\ \A p \in DOMAIN Catalogue : Catalogue[p] \in [base : Nat, category : Categories]
ASSUME SizesAssumption ==
  /\ {BatchSize, ScanWindow, SweepLimit, MaxAttempts} \subseteq Nat \ {0}
  /\ {Horizon, Skew, MaxFaults, MaxUpserts} \subseteq Nat

VARIABLES
  stored,      \* ids of the committed products
  row,         \* their columns
  past,        \* history: every listing a product has been given
  pending,     \* promotions committed by the API whose job is not queued yet
  jobs,        \* the waiting and delayed BullMQ jobs, a bag
  scheduled,   \* the deterministic job ids the scheduler has used
  worker, recon, ingest, creating,
  faults, upserts

productVars == <<stored, row, past>>
queueVars   == <<pending, jobs, scheduled>>
procVars    == <<worker, recon, ingest, creating>>
budgetVars  == <<faults, upserts>>
vars == <<promotions, now, stored, row, past, pending, jobs, scheduled,
          worker, recon, ingest, creating, faults, upserts>>

Null == 0                                     \* a null cursor
Listing == [base : Nat, category : Categories]
Price   == [effective : Nat, active : {NoPromotion} \cup PromotionIds]
Row     == [base : Nat, category : Categories,
            effective : Nat, active : {NoPromotion} \cup PromotionIds]
Reasons == {"promotion.published", "promotion.cancelled",
            "promotion.window.opened", "promotion.window.closed"}
Handoff == [promo : PromotionIds, reason : Reasons]
Job     == [promo : PromotionIds, reason : Reasons,
            cursor : {Null} \cup Products, tries : 1..MaxAttempts]
-------------------------------------------------------------------------------
(* Snapshots, batches and windows.                                         *)

Projected(p, listing) ==
  LET k == WinningPromotion(promotions, p, listing.category, now)
  IN  [effective |-> PriceUnder(promotions, listing.base, k), active |-> k]

Snapshot(ids) == [p \in ids |-> Projected(p, row[p])]

Write(prices, ids) ==
  row' = [p \in Products |->
            IF p \in ids
            THEN [row[p] EXCEPT !.effective = prices[p].effective, !.active = prices[p].active]
            ELSE row[p]]

IsStaleByPromotion(p) == row[p].active # Projected(p, row[p]).active   \* mutant

(* active_promotion_id or effective_price_cents IS DISTINCT FROM expected. *)
IsStale(p) ==
  \/ row[p].active # Projected(p, row[p]).active
  \/ row[p].effective # Projected(p, row[p]).effective

FirstOf(n, ids) == {p \in ids : Cardinality({q \in ids : q < p}) < n}
LastOf(ids) == CHOOSE p \in ids : \A q \in ids : q <= p

NextCursorShort(ids, n) == IF Cardinality(ids) < n /\ ids # {} THEN LastOf(ids) ELSE Null \* mutant

(* A full batch (or window) may have more behind it; a short one ends it.  *)
NextCursor(ids, n) == IF Cardinality(ids) = n THEN LastOf(ids) ELSE Null

OfCategory(j) == promotions[j.promo].targetType = "category"

(* The rows a job's statement sees; a category batch takes its first       *)
(* BatchSize of these when it has locked them.                             *)
JobIds(j) ==
  LET target == promotions[j.promo].target
  IN  IF OfCategory(j)
      THEN {p \in stored : row[p].category = target /\ p > j.cursor}
      ELSE {target} \cap stored

(* A delayed job runs once the queue's clock reaches its instant.          *)
IsDue(j) ==
  /\ j.reason = "promotion.window.opened" => promotions[j.promo].startsAt <= now + Skew
  /\ j.reason = "promotion.window.closed" => promotions[j.promo].endsAt <= now + Skew
-------------------------------------------------------------------------------
IdleWorker  == [phase |-> "idle", job |-> Null, prices |-> <<>>, next |-> Null]
IdleReconAt(cursor) == [phase |-> "idle", cursor |-> cursor, ids |-> {}, prices |-> <<>>]
IdleIngest  == [phase |-> "idle", id |-> Null, prices |-> <<>>]
IdleCreator == [phase |-> "idle", id |-> Null, listing |-> <<>>, price |-> <<>>]

Init ==
  /\ PromoInit
  /\ stored = DOMAIN Catalogue
  /\ row = [p \in Products |->
              IF p \in DOMAIN Catalogue
              THEN [base |-> Catalogue[p].base, category |-> Catalogue[p].category,
                    effective |-> Catalogue[p].base, active |-> NoPromotion]
              ELSE [base |-> 0, category |-> CHOOSE c \in Categories : TRUE,
                    effective |-> 0, active |-> NoPromotion]]
  /\ past = [p \in Products |-> IF p \in DOMAIN Catalogue THEN {Catalogue[p]} ELSE {}]
  /\ pending = {} /\ jobs = EmptyBag /\ scheduled = {}
  /\ worker = [w \in Workers |-> IdleWorker]
  /\ recon = [r \in Reconcilers |-> IdleReconAt(Null)]
  /\ ingest = [i \in Ingestors |-> IdleIngest]
  /\ creating = [c \in Creators |-> IdleCreator]
  /\ faults = 0 /\ upserts = 0

Enqueue(js) == jobs' = jobs (+) SetToBag(js)
Fault == faults < MaxFaults /\ faults' = faults + 1 /\ upserts' = upserts
NoFault == UNCHANGED budgetVars
-------------------------------------------------------------------------------
(* The API.  The promotion commits first; the job is queued afterwards, by *)
(* a request that may die in between.                                      *)

Draft ==
  /\ \E k \in PromotionIds, w \in Windows, d \in Discounts : CreateDraft(k, w, d)
  /\ UNCHANGED <<productVars, queueVars, procVars>> /\ NoFault

HandOff(k, reason) == pending' = pending \cup {[promo |-> k, reason |-> reason]}

Publish(k, target) ==
  /\ target[1] = "product" => target[2] \in stored
  /\ AssignAndPublish(k, target[1], target[2])
  /\ HandOff(k, "promotion.published")
  /\ UNCHANGED <<productVars, jobs, scheduled, procVars>> /\ NoFault

Cancel(k) ==
  /\ CancelPromotion(k)
  /\ HandOff(k, "promotion.cancelled")
  /\ UNCHANGED <<productVars, jobs, scheduled, procVars>> /\ NoFault

EnqueueProjection(h) ==
  /\ pending' = pending \ {h}
  /\ Enqueue({[promo |-> h.promo, reason |-> h.reason, cursor |-> Null, tries |-> MaxAttempts]})
  /\ UNCHANGED <<promotions, now, productVars, scheduled, procVars>> /\ NoFault

ApiCrash(h) ==
  /\ Fault
  /\ pending' = pending \ {h}
  /\ UNCHANGED <<promotions, now, productVars, jobs, scheduled, procVars>>

ClockTick ==
  /\ Tick
  /\ UNCHANGED <<productVars, queueVars, procVars>> /\ NoFault
-------------------------------------------------------------------------------
(* The scheduler: one delayed job per edge in [now, now + Horizon), under  *)
(* an id BullMQ accepts once.                                              *)

EdgesAhead ==
  {[promo |-> k, reason |-> r] :
     k \in {k \in PromotionIds : /\ promotions[k].status = "published"
                                 /\ now <= promotions[k].startsAt
                                 /\ promotions[k].startsAt < now + Horizon},
     r \in {"promotion.window.opened"}}
  \cup
  {[promo |-> k, reason |-> r] :
     k \in {k \in PromotionIds : /\ promotions[k].status = "published"
                                 /\ now <= promotions[k].endsAt
                                 /\ promotions[k].endsAt < now + Horizon},
     r \in {"promotion.window.closed"}}

ScheduleEdges ==
  LET new == EdgesAhead \ scheduled
  IN  /\ new # {}
      /\ scheduled' = scheduled \cup new
      /\ Enqueue({[promo |-> e.promo, reason |-> e.reason, cursor |-> Null, tries |-> 1] : e \in new})
      /\ UNCHANGED <<promotions, now, productVars, pending, procVars>> /\ NoFault
-------------------------------------------------------------------------------
(* The projection worker.                                                  *)

SetWorker(w, s) ==
  /\ worker' = [worker EXCEPT ![w] = s]
  /\ UNCHANGED <<recon, ingest, creating>>

StartJob(w, j) ==
  /\ worker[w].phase = "idle"
  /\ IsDue(j)
  /\ jobs' = jobs (-) SetToBag({j})
  /\ SetWorker(w, [phase |-> "project", job |-> j, prices |-> Snapshot(JobIds(j)), next |-> Null])
  /\ UNCHANGED <<promotions, now, productVars, pending, scheduled>> /\ NoFault

(* FOR UPDATE re-reads the category of a row it had to wait for.           *)
LockedBatch(w) ==
  LET j == worker[w].job
      seen == DOMAIN worker[w].prices
  IN  IF OfCategory(j)
      THEN FirstOf(BatchSize, {p \in seen : row[p].category = promotions[j.promo].target})
      ELSE seen

CommitBatch(w) ==
  /\ worker[w].phase = "project"
  /\ LET ids  == LockedBatch(w)
         next == IF OfCategory(worker[w].job) THEN NextCursor(ids, BatchSize) ELSE Null
     IN  /\ Write(worker[w].prices, ids)
         /\ SetWorker(w, [phase |-> IF next = Null THEN "complete" ELSE "continue",
                          job |-> worker[w].job, prices |-> <<>>, next |-> next])
  /\ UNCHANGED <<promotions, now, stored, past, queueVars>> /\ NoFault

EnqueueSame(w) ==                              \* mutant: the cursor of the batch just done
  /\ worker[w].phase = "continue"
  /\ Enqueue({[worker[w].job EXCEPT !.tries = 1]})
  /\ SetWorker(w, [phase |-> "complete", job |-> worker[w].job, prices |-> <<>>,
                   next |-> worker[w].next])
  /\ UNCHANGED <<promotions, now, productVars, pending, scheduled>> /\ NoFault

(* The continuation is added without job options: it is tried once.        *)
EnqueueNext(w) ==
  /\ worker[w].phase = "continue"
  /\ Enqueue({[worker[w].job EXCEPT !.cursor = worker[w].next, !.tries = 1]})
  /\ SetWorker(w, [phase |-> "complete", job |-> worker[w].job, prices |-> <<>>,
                   next |-> worker[w].next])
  /\ UNCHANGED <<promotions, now, productVars, pending, scheduled>> /\ NoFault

CompleteJob(w) ==
  /\ worker[w].phase = "complete"
  /\ SetWorker(w, IdleWorker)
  /\ UNCHANGED <<promotions, now, productVars, queueVars>> /\ NoFault

RetryPastLast(j) == {[j EXCEPT !.tries = @ - 1]}                  \* mutant
Retry(j) == IF j.tries > 1 THEN {[j EXCEPT !.tries = @ - 1]} ELSE {}

(* The handler throws: a deadlock or a lost connection in the statement,   *)
(* or Redis failing after it; once the continuation is queued nothing can. *)
FailJob(w) ==
  /\ \/ worker[w].phase \in {"project", "continue"}
     \/ worker[w].phase = "complete" /\ worker[w].next = Null
  /\ Fault
  /\ LET j == worker[w].job
     IN  Enqueue(Retry(j))
  /\ SetWorker(w, IdleWorker)
  /\ UNCHANGED <<promotions, now, productVars, pending, scheduled>>

(* The process dies; BullMQ finds the job stalled and re-queues it, or     *)
(* gives it up when it has stalled before.                                 *)
CrashWorker(w) ==
  /\ worker[w].phase # "idle"
  /\ Fault
  /\ \E back \in {{}, {worker[w].job}} : Enqueue(back)
  /\ SetWorker(w, IdleWorker)
  /\ UNCHANGED <<promotions, now, productVars, pending, scheduled>>
-------------------------------------------------------------------------------
(* The reconciler.  A sweep is a SELECT, then the cursor moves, then the   *)
(* repair is a statement of its own.                                       *)

SetRecon(r, s) ==
  /\ recon' = [recon EXCEPT ![r] = s]
  /\ UNCHANGED <<worker, ingest, creating>>

StaleInWindow(window) == FirstOf(SweepLimit, {p \in window : IsStale(p)})

CursorAfter(window, cursor) == NextCursor(window, ScanWindow)

Sweep(r) ==
  /\ recon[r].phase = "idle"
  /\ LET window == FirstOf(ScanWindow, {p \in stored : p > recon[r].cursor})
         ids    == StaleInWindow(window)
     IN  SetRecon(r, [phase |-> IF ids = {} THEN "idle" ELSE "repair",
                      cursor |-> CursorAfter(window, recon[r].cursor),
                      ids |-> ids, prices |-> <<>>])
  /\ UNCHANGED <<promotions, now, productVars, queueVars>> /\ NoFault

StartRepair(r) ==
  /\ recon[r].phase = "repair"
  /\ SetRecon(r, [phase |-> "write", cursor |-> recon[r].cursor, ids |-> {},
                  prices |-> Snapshot(recon[r].ids)])
  /\ UNCHANGED <<promotions, now, productVars, queueVars>> /\ NoFault

CommitRepair(r) ==
  /\ recon[r].phase = "write"
  /\ Write(recon[r].prices, DOMAIN recon[r].prices)
  /\ SetRecon(r, IdleReconAt(recon[r].cursor))
  /\ UNCHANGED <<promotions, now, stored, past, queueVars>> /\ NoFault

(* A failed sweep keeps the cursor it has moved; a restart forgets it.     *)
SweepFails(r) ==
  /\ Fault
  /\ \E cursor \in {Null, recon[r].cursor} : SetRecon(r, IdleReconAt(cursor))
  /\ UNCHANGED <<promotions, now, productVars, queueVars>>
-------------------------------------------------------------------------------
(* Ingestion: the upsert leaves the projected price of an existing row     *)
(* alone and gives a new row its base price; a second statement projects.  *)

SetIngest(i, s) ==
  /\ ingest' = [ingest EXCEPT ![i] = s]
  /\ UNCHANGED <<worker, recon, creating>>

Upsert(i, p, listing) ==
  /\ ingest[i].phase = "idle"
  /\ \A c \in Creators : creating[c].phase = "write" => creating[c].id # p
  /\ upserts < MaxUpserts /\ upserts' = upserts + 1 /\ faults' = faults
  /\ row' = [row EXCEPT ![p] =
       IF p \in stored
       THEN [@ EXCEPT !.base = listing.base, !.category = listing.category]
       ELSE [base |-> listing.base, category |-> listing.category,
             effective |-> listing.base, active |-> NoPromotion]]
  /\ stored' = stored \cup {p}
  /\ past' = [past EXCEPT ![p] = @ \cup {listing}]
  /\ SetIngest(i, [phase |-> "upserted", id |-> p, prices |-> <<>>])
  /\ UNCHANGED <<promotions, now, queueVars>>

StartReproject(i) ==
  /\ ingest[i].phase = "upserted"
  /\ SetIngest(i, [phase |-> "write", id |-> ingest[i].id, prices |-> Snapshot({ingest[i].id})])
  /\ UNCHANGED <<promotions, now, productVars, queueVars>> /\ NoFault

CommitReproject(i) ==
  /\ ingest[i].phase = "write"
  /\ Write(ingest[i].prices, DOMAIN ingest[i].prices)
  /\ SetIngest(i, IdleIngest)
  /\ UNCHANGED <<promotions, now, stored, past, queueVars>> /\ NoFault

IngestCrash(i) ==
  /\ ingest[i].phase # "idle"
  /\ Fault
  /\ SetIngest(i, IdleIngest)
  /\ UNCHANGED <<promotions, now, productVars, queueVars>>
-------------------------------------------------------------------------------
(* createProduct: the row and its projection commit together, but the      *)
(* price is computed before the commit.                                    *)

SetCreator(c, s) ==
  /\ creating' = [creating EXCEPT ![c] = s]
  /\ UNCHANGED <<worker, recon, ingest>>

BeginCreate(c, p, listing) ==
  /\ creating[c].phase = "idle"
  /\ p \notin stored
  /\ \A d \in Creators : creating[d].phase = "write" => creating[d].id # p
  /\ past' = [past EXCEPT ![p] = @ \cup {listing}]
  /\ SetCreator(c, [phase |-> "write", id |-> p, listing |-> listing,
                    price |-> Projected(p, listing)])
  /\ UNCHANGED <<promotions, now, stored, row, queueVars>> /\ NoFault

CommitCreate(c) ==
  /\ creating[c].phase = "write"
  /\ LET new == creating[c]
     IN  /\ stored' = stored \cup {new.id}
         /\ row' = [row EXCEPT ![new.id] =
              [base |-> new.listing.base, category |-> new.listing.category,
               effective |-> new.price.effective, active |-> new.price.active]]
  /\ SetCreator(c, IdleCreator)
  /\ UNCHANGED <<promotions, now, past, queueVars>> /\ NoFault
-------------------------------------------------------------------------------
WorkerStep(w) ==
  \/ \E j \in BagToSet(jobs) : StartJob(w, j)
  \/ CommitBatch(w) \/ EnqueueNext(w) \/ CompleteJob(w)

ReconcilerStep(r) == Sweep(r) \/ StartRepair(r) \/ CommitRepair(r)

ProcessStep ==
  \/ Draft \/ ScheduleEdges
  \/ \E k \in PromotionIds, t \in Target : Publish(k, t)
  \/ \E k \in PromotionIds : Cancel(k)
  \/ \E h \in pending : EnqueueProjection(h) \/ ApiCrash(h)
  \/ \E w \in Workers : WorkerStep(w) \/ FailJob(w) \/ CrashWorker(w)
  \/ \E r \in Reconcilers : ReconcilerStep(r) \/ SweepFails(r)
  \/ \E i \in Ingestors : \/ \E p \in Products, l \in Listings : Upsert(i, p, l)
                          \/ StartReproject(i) \/ CommitReproject(i) \/ IngestCrash(i)
  \/ \E c \in Creators : \/ \E p \in Products, l \in Listings : BeginCreate(c, p, l)
                         \/ CommitCreate(c)

Next == ClockTick \/ ProcessStep
Spec == Init /\ [][Next]_vars

(* A projector process that keeps running takes its jobs and its timer     *)
(* keeps firing; requests, the clock and faults owe nobody anything.       *)
FairWorkers == \A w \in Workers : WF_vars(WorkerStep(w))
FairReconcilers == \A r \in Reconcilers : WF_vars(ReconcilerStep(r))
RunningSpec == Spec /\ FairWorkers
ReconciledSpec == Spec /\ FairReconcilers
-------------------------------------------------------------------------------
ProductTypeOK ==
  /\ PromoTypeOK
  /\ stored \subseteq Products /\ row \in [Products -> Row] /\ past \in [Products -> SUBSET Listing]

QueueTypeOK ==
  /\ pending \subseteq Handoff /\ scheduled \subseteq Handoff /\ DOMAIN jobs \subseteq Job
  /\ \A w \in Workers :
       /\ worker[w].phase \in {"idle", "project", "continue", "complete"}
       /\ worker[w].phase # "idle" => worker[w].job \in Job
       /\ worker[w].next \in {Null} \cup Products
       /\ worker[w].phase = "continue" => worker[w].next # Null
  /\ \A r \in Reconcilers : /\ recon[r].phase \in {"idle", "repair", "write"}
                            /\ recon[r].cursor \in {Null} \cup Products
  /\ \A i \in Ingestors : ingest[i].phase \in {"idle", "upserted", "write"}

TypeOK == ProductTypeOK /\ QueueTypeOK

(* A price can be explained: it is what some listing the product has had   *)
(* costs, or costs under a promotion that was published for that listing   *)
(* and whose window has opened.                                            *)
Explains(table, t, listings, p, price) ==
  \E l \in listings :
    IF price.active = NoPromotion THEN price.effective = l.base
    ELSE LET pm == table[price.active]
         IN  /\ pm.status \in {"published", "cancelled"}
             /\ pm.startsAt <= t
             /\ Targets(pm, p, l.category)
             /\ price.effective = ApplyDiscount(l.base, pm.discountType, pm.discountValue)

PriceOf(r) == [effective |-> r.effective, active |-> r.active]

(* Whatever the order in which projections, upserts, retries and repairs   *)
(* commit, a customer never sees a discount before its window opens, a     *)
(* draft's discount, another target's discount, or a price that mixes two  *)
(* promotions (projectPricesForIds, projectPricesForCategoryBatch).        *)
EveryPriceExplained ==
  \A p \in stored : Explains(promotions, now, past[p], p, PriceOf(row[p]))

(* What makes EveryPriceExplained inductive: a product's current listing   *)
(* is one it has had, and every price a statement is about to write, to a  *)
(* row that exists, can be explained already.                              *)
RowsOK ==
  \A p \in stored : /\ [base |-> row[p].base, category |-> row[p].category] \in past[p]
                    /\ Explains(promotions, now, past[p], p, PriceOf(row[p]))
PricesOK(prices) ==
  \A p \in DOMAIN prices : /\ p \in stored /\ prices[p] \in Price
                           /\ Explains(promotions, now, past[p], p, prices[p])
WorkersOK == DOMAIN worker = Workers /\ \A w \in Workers : PricesOK(worker[w].prices)
ReconsOK ==
  /\ DOMAIN recon = Reconcilers
  /\ \A r \in Reconcilers : recon[r].ids \subseteq stored /\ PricesOK(recon[r].prices)
IngestsOK ==
  /\ DOMAIN ingest = Ingestors
  /\ \A i \in Ingestors : PricesOK(ingest[i].prices)
  /\ \A i \in Ingestors : ingest[i].phase # "idle" => ingest[i].id \in stored
CreatorOK(s) ==
  s.phase = "write" => /\ s.id \in Products \ stored
                       /\ s.listing \in past[s.id]
                       /\ s.price \in Price
                       /\ Explains(promotions, now, past[s.id], s.id, s.price)
CreatorsOK ==
  /\ DOMAIN creating = Creators
  /\ \A c \in Creators : CreatorOK(creating[c])
  /\ \A c, d \in Creators :
       (creating[c].phase = "write" /\ creating[d].phase = "write"
          /\ creating[c].id = creating[d].id) => c = d
ExplainedInv == ProductTypeOK /\ RowsOK /\ WorkersOK /\ ReconsOK /\ IngestsOK /\ CreatorsOK

(* The row holds what the promotion table says now.                        *)
IsRight(p) == PriceOf(row[p]) = Projected(p, row[p])

Covers(k, p) == Targets(promotions[k], p, row[p].category)

Drained == pending = {} /\ jobs = EmptyBag /\ \A w \in Workers : worker[w].phase = "idle"

(* Every chain of category batches ends: again and again, and for good    *)
(* once the callers stop, no job is left that a worker could take          *)
(* (startProjectionWorker).                                                *)
ChainsEnd ==
  []<>(/\ \A j \in BagToSet(jobs) : ~IsDue(j)
       /\ \A w \in Workers : worker[w].phase = "idle")

(* The reconciler's promise: whatever jobs were lost, failed or overtook   *)
(* one another, once writes and the clock stop every stored price becomes  *)
(* and stays what the promotion table says (startReconciler).              *)
EventuallyCorrect == <>[](\A p \in stored : IsRight(p))

(* What scheduler.ts says of duplicate jobs, "reprojection is idempotent,  *)
(* it recomputes from current state": when every job has run and none was  *)
(* lost, the rows agree with the promotions.                               *)
DrainedMeansCorrect == (Drained /\ faults = 0) => \A p \in stored : IsRight(p)
===============================================================================
