# A TLA+ development of modaco-api

modaco-api is a product catalogue with promotions. PostgreSQL holds the truth; the price a
customer sees is a *projection* stored on the product row; Redis caches reads and carries a
BullMQ queue; vendor files enter through S3, SQS and two workers. The code is small, and
almost everything that is hard about it happens between processes. This directory models
those interactions, checks them with TLC and proves the safety properties that matter most
with TLAPS.

Paths below are relative to `src/`.

## 1. Inventory

| Component | Source | State | Operations | Correct when | Modelled in |
|---|---|---|---|---|---|
| Promotion lifecycle | `packages/db/src/repositories/promotionRepository.ts`, `apps/api/src/services/promotionService.ts`, `packages/db/migrations/0001_init.sql` | `promotions` rows; "active" is derived from the clock | create a draft, assign and publish, cancel | at most one active promotion per target at any instant | `Promotions` |
| SQL pricing rules | `0001_init.sql` (`apply_discount`), `priceProjection.ts` (`RESOLVE_WINNING_PROMOTION`) | none | resolve the winner, discount a price | the winner is determined; SQL and TypeScript agree | `PricingSql` |
| Price projection | `packages/db/src/repositories/priceProjection.ts` | `effective_price_cents`, `active_promotion_id` | by id, by category batch, stale scan | a price is always explicable and eventually right | `PriceProjection` |
| Promotion service and its queue | `promotionService.ts`, `apps/api/src/queue/projectionQueue.ts` | the waiting jobs | commit, invalidate, enqueue | a published promotion reaches its products; nothing stale stays cached | `PriceProjection`; the invalidations in `CacheAside` |
| Projection worker | `apps/projector/src/worker.ts` | job slots, the cursor in a job | run a job, queue its continuation | no row is passed by the cursor; chains end | `PriceProjection`; its DELs in `CacheAside` |
| Window scheduler | `apps/projector/src/scheduler.ts` | the used job ids | scan, queue delayed jobs | the rows change when the clock crosses an edge | `PriceProjection` |
| Reconciler | `apps/projector/src/reconciler.ts` | the cursor | scan, repair | drift from any cause is repaired | `PriceProjection`; its DELs in `CacheAside` |
| Product creation | `packages/db/src/repositories/productRepository.ts` | an open transaction | insert and project | a new row has its right price | `PriceProjection`; the route's bumps in `CacheAside` |
| Splitter | `apps/ingestion/src/splitter.ts`, `bin/splitter-runner.ts` | job and chunk rows, the notification | create the job, send a message per chunk | one job per file, every chunk sent | `IngestionPipeline` |
| Ingestion queue | `bin/worker-runner.ts`, `handlers.ts`, `infra/localstack/init/01-bootstrap.sh` | messages, receive counts | receive, reappear, redrive, delete | nothing is lost on redelivery | `IngestionPipeline` |
| Chunk worker | `apps/ingestion/src/worker.ts`, `upsert.ts` | position, batch, chunk and job rows | claim, flush, continue, reject, complete | every line lands; counters are exact; the job ends | `IngestionPipeline`; its upserts in `PriceProjection` |
| Byte ranges | `splitter.ts` (`computeByteRanges`), `csv.ts` (`iterateOwnedLines`), `worker.ts` (`readRange`) | a worker's position | cut, own, resume | each line has exactly one owner | `ChunkSplit`, implementing `LineFeed` |
| Cache | `apps/api/src/cache/cache.ts`, `productService.ts`, `http/routes/products.ts` | entries, versions, in-flight loads, the breaker | get-or-load, delete, bump | loads coalesce; a bump hides what is older; staleness ends with the TTL | `CacheAside` |
| Keyset listing | `productRepository.ts` (`listProducts`) | the client's cursor | next page | no steady product is skipped or repeated | `KeysetListing`, walked in `CacheAside` |
| TypeScript pricing rules | `packages/core/src/{money,promotion,dynamicPricing}.ts` | none | format, parse, discount, mark up, resolve | parity with SQL; the floor holds | `PricingCore`, compared in `PriceParity` |
| Start and shutdown | `apps/api/src/server.ts`, `apps/projector/src/main.ts` | timers, pools | drain, close | a stopped process loses no work | crashes only |
| HTTP, observability, migrations, seed, bench, infrastructure | `apps/api/src/http`, `packages/observability`, ... | none of their own | | | not modelled |

### How the parts interact

* The **API** commits a promotion and *then* adds a BullMQ job. Nothing ties the two
  together: a request can die in between.
* The **scheduler** queues a delayed job per window edge. It looks at its own clock, the job
  waits on the queue's, and the statement asks PostgreSQL's `NOW()`.
* The **worker** projects a batch of a category, deletes cache keys and queues the next batch
  as a new job with a cursor.
* The **reconciler** scans windows of the table, moves its cursor, then repairs what it found
  with a statement of its own.
* **Ingestion** upserts a batch of rows and projects it with a second statement;
  `createProduct` does both in one transaction.
* Six writers therefore share the price columns, with no version or timestamp comparison.
* The **cache** is filled by reads and invalidated by the API (detail keys and list
  versions), the projector and the reconciler (detail keys only); ingestion invalidates
  nothing. Its calls may fail and are never retried: they feed a circuit breaker, and while
  that is open reads go to PostgreSQL and invalidations are skipped.
* The **splitter** is driven by an SQS notification and feeds a second SQS queue; chunk
  workers feed the same queue with continuations. PostgreSQL rows (`ingestion_jobs`,
  `ingestion_chunks`) are their only shared state.

### What is hard

Snapshots older than the commits they overwrite; a commit followed by a send that may not
happen; messages delivered twice, concurrently; cursors that must not pass rows; a clock that
changes what is right without any write; workers that stop half way on purpose. Each of these
is listed, at its line, in `PROJECT.json` under `hazards`, with the properties that would
catch it or the reason why none does.

## 2. Modules

```
PricingSql          operators: apply_discount, ranges, windows, precedence, the winner
  Promotions        the promotions table and the clock
    PriceProjection the six writers of the price columns, BullMQ, scheduler, reconciler
      ProjectionHistory  history variables: what becomes of a stale row
  PricingCore       the same rules in TypeScript, money, the vendor's dynamic price
    PriceParity     both over the promotions table (extends Promotions too)
VendorFile          abstract: a file is registered, accounted for and ended once
  IngestionPipeline splitter, SQS, chunk workers, job accounting: implements VendorFile
LineFeed            abstract: each line of a file is given once
  ChunkSplit        byte ranges, lookbehind and overlap, continuations: implements LineFeed
KeysetListing       operators: a page behind a cursor
  CacheAside        reads through Redis, versions, breaker; every writer's invalidations

MCPromotions, MCPriceProjection, MCProjectionHistory,
MCIngestion, MCCacheAside                                       small instances for TLC
LeastElement        a lemma: a set of naturals has a least element
PromotionsProofs, PricingProofs, ParityProofs, PriceProjectionProofs,
IngestionProofs, ChunkSplitProofs, CacheProofs                  theorems
```

### PricingSql and Promotions

`ApplyDiscount`, `InWindow`, `Targets`, `Precedes` and `WinningPromotion` are the SQL, clause
by clause: `GREATEST(0, ...)`, `starts_at <= NOW() AND ends_at > NOW()`, the two targeting
branches, the `ORDER BY` and its `LIMIT 1`. Ids are naturals and are ordered like the UUID
column; a draft may take any unused id, because UUIDs are random.

Each operation of the service is one SQL statement and one action of `Promotions`. The two
EXCLUDE constraints are the guard `~Excluded` of `AssignAndPublish` and compare *ranges*. What
they promise is about *instants*; `OneActivePerTarget` says so and quantifies over time.
The check that a target product exists is merged with the update that follows it: products
are never deleted by this code. `pm.cancelled_at IS NULL` follows from the status
(`chk_cancelled`). The TypeScript validation of dates is the guard of `CreateDraft`.

### PriceProjection

| Variable | Code |
|---|---|
| `promotions`, `now` | the table; PostgreSQL's clock |
| `stored`, `row` | committed products and their columns |
| `past` | history: the listings (base price, category) a product has been given |
| `pending` | promotions committed by a request that has not queued its job yet |
| `jobs`, `scheduled` | waiting and delayed BullMQ jobs (a bag); job ids the scheduler has used |
| `worker`, `recon`, `ingest`, `creating` | each process between two of its statements |
| `faults`, `upserts` | the bounds |

*A statement is two actions.* Under READ COMMITTED an `UPDATE ... FROM resolved` computes its
prices from the snapshot taken when it starts and writes them when it has its row locks; if a
row changed meanwhile, PostgreSQL re-checks the join condition and the `FOR UPDATE` filter on
the new version but keeps the computed values. So `StartJob`, `StartRepair`,
`StartReproject` and `BeginCreate` take a snapshot and `CommitBatch`, `CommitRepair`,
`CommitReproject` and `CommitCreate` write it, and anything may commit between them. A
category batch re-reads the category of a row it waited for: `LockedBatch` takes the first
`BatchSize` rows still in the category. A statement's rows are written together. The
`NOW()` of `createProduct` is the transaction's; it is merged with its projection's snapshot.

*Jobs.* A job names its promotion; the code's job carries that promotion's target, which never
changes after publication. A job of the API is tried `MaxAttempts` times, one added by the
projector once, because `worker.ts:30` creates its queue without default options. A scheduler
job id is accepted once. Stalled jobs come back or are given up, as BullMQ decides
(`CrashWorker`, external). `IsDue` compares with a clock that may be `Skew` ahead of
PostgreSQL's.

*Left out.* Cache keys and versions (they are in `CacheAside`), the lag gauge, logging; an upsert
is of one row, since the rows of a batch only share the commit; a scheduler scan is atomic
and a failed one is a scan that has not happened.

### ProjectionHistory

Watches `PriceProjection` and guards none of its steps: `WatchedNext` is `Next` together with
what the history variables make of the step.

| Variable | Meaning |
|---|---|
| `live` | of each running statement, the rows that no statement with a later snapshot has written yet: it has the last word on them |
| `earlier` | of each running statement, the running ones that took their snapshot before it |
| `excused` | rows that a step left stale in one of four ways, until a statement with the last word writes them again |

The four ways are what the code accepts, or does without noticing: `Overwritten` (a statement
with the older snapshot commits last), `Lost` (a fault took the work that was ahead of the
row), `Missed` (a window edge that the scheduler had not scheduled changes the price) and
`Outdated` (`createProduct` commits a price that a promotion has changed meanwhile). Each is
tied to the step that does it, a commit, a fault, a tick or a creation; a cursor that passes a
row, a hand-off that is forgotten or an upsert that is not projected is none of them.
All four are the reconciler's to repair, which is `EventuallyCorrect`.

### IngestionPipeline and VendorFile

| Variable | Code |
|---|---|
| `notices`, `splitter` | the notification's queue and the splitter's position |
| `job`, `chunks` | `ingestion_jobs`, `ingestion_chunks` (entry *i* has `chunk_index` *i - 1*) |
| `msg` | the message of each chunk: unsent, visible, in flight, deleted or in the dead letter queue, with its receive count |
| `worker` | the invocation: message and receipt, position, upserted count, rejected lines |
| `landed` | history: lines whose row reached `products` |
| `errors` | rows of `ingestion_row_errors` per line |

One file is enough: jobs of different files share only `products`, and what happens there is
`PriceProjection`. A chunk is the interval of lines that *start* in its byte range; that each
line starts in exactly one range and that a continuation resumes at the next line is what
`ChunkSplit` shows. The two ways a splitter can lose the race for the
idempotency key, finding the job and failing on the unique index and retrying, have the same
outcome and are one action.

`Claim` marks a chunk processing unless it is completed. `Flush` covers the lines up to the
point where the loop flushes. After a full batch the worker looks at its clock, which is a
choice here (`AfterFlush`). `AllocateContinuation` is the transaction of
`enqueueContinuation` and `SendContinuation` its send; a worker can die in between.
`CompleteChunk` is the transaction of `completeChunk`. `worker-runner.ts` receives one message
at a time; a receipt handle that is no longer the newest may or may not delete.
`SendMessageBatch` may succeed and report failed entries, which the splitter does not read:
`SendChunks` may lose any subset, at the price of a fault.

`VendorFile` is what remains of this for whoever polls the job: the lines that are accounted
for and the job's status. `File` is the refinement mapping: a line is accounted for
(`Accounted`) when it has landed, is in `ingestion_row_errors`, or is a rejection behind
`ErrorCap` that are.

*Left out.* The attempts and error columns, `requestId`, what a row contains (so "last write
wins" for one SKU in two chunks is not visible here).

### PricingCore and PriceParity

`money.ts`, `promotion.ts` and `dynamicPricing.ts` as operators; a call that throws is
`Rejected`. Division of `BigInt`s truncates, `applyDiscount` checks its arguments and
`comparePrecedence` returns a difference, where the SQL has `div`, `GREATEST` and an `ORDER
BY`: that these never differ is the point. An amount of text is its digits. `PriceParity`
gives `resolveActivePromotion` every order of the candidates (`Fetched`), since its loop
keeps the first of equals, and adds the third copy of the rules, the read of
`findProductByIdComputed`.

### ChunkSplit and LineFeed

A file is a function from byte offsets to newline, carriage return or anything else, so that
every file up to `MaxSize` is an initial state. `Cut` is a round of `computeByteRanges`;
`Open` skips the header or, from one byte before the range, to the first newline; `NextLine`
is a round of `iterateOwnedLines` inside the buffer `readRange` fetched, with its trimmed CR,
its empty lines and its end without a newline; `HandOver` is `NextLine` followed by
`enqueueContinuation`, whose chunk starts one byte behind the start of the last line, and the
end of the worker. The variable `taken` is history: which chunk yielded which line and up to
where. Whether a line is a good row, and what is inside its quotes, is not modelled; each
chunk is processed once, redelivery being `IngestionPipeline`'s.

`LineFeed` is the module comment of `csv.ts`, "every line is processed exactly once, by
exactly one worker", as a specification of its own; `Feed` is the refinement mapping.

### KeysetListing and CacheAside

| Variable | Code |
|---|---|
| `table` | history: the states of `products`; the last one is now |
| `bumps` | Redis: a version is the number of INCRs of its scope; history: the table at each |
| `stored` | Redis: the cached entries, each as the state it was computed from |
| `breaker`, `inFlight` | `RedisCache`'s failure count, open circuit and map of promises, per process |
| `reader`, `crowd` | a request between two calls, with the walk of its client; what it is after |
| `writer` | what a writer still has to do, in the order of its code |
| `evicted`, `faults` | history: a version key was lost; the bound |

A cached value is represented by the state of the table it was computed from, so that "stale"
is a comparison and a value needs no copy. `ListProducts` computes the page from that state
when a client turns it: `limit + 1` rows, the extra one only saying that there is more. A
read is: the version (listings only), GET, and on a miss the load (joined if one is in flight
for the key), then SET; between any two of them anything may happen. `Applied`, `Dropped` and
`Answered` are the three outcomes of a Redis call: an answer resets the count, a failure may
have had its effect, an open breaker skips the call. `Threshold` failures open it and `Cool`
is the end of the cooldown (the count stays, so that one more failure opens it again).

Writers are lists of steps: a category promotion bumps its category and `ALL_SCOPE`, then its
projection commits, then the projector deletes detail keys; a product promotion deletes its
key first; `POST /products` commits, then bumps; the scheduler and the reconciler commit and
delete, and ingestion only commits. A writer may die between any two. `CacheAside` takes
*what* a commit writes as any price: which price is right is `PriceProjection`'s question.
A row is its price and its category, since the upsert of a vendor file rewrites the category
and so moves a row from one listing to another: `Upsert` gives a row any category and leaves
its price alone, and `Ingest` is the projection behind it. They are two writers, because
ingestion invalidates nothing between the two or after. A product that a vendor file inserts
is a `Create` whose writer dies behind its commit.

*Left out.* Negative entries: an id of a product that does not exist yet is a UUID no client
has. The hash of a query stands for the query. A reply of Redis and what the process does
next are one step, because a process has one connection, answered in order.

## 3. Runs

| Run | Question | Bounds |
|---|---|---|
| `promotions` | do the range constraints give one active promotion per target at every instant; is the winner determined; do the three copies of the rules agree | 3 promotions, 1 product, 1 category, 4 windows (touching, nested, one-sided, empty), clock 0..3, a discount that rounds and one larger than the price, every order of the candidates |
| `projection_chains` | does a price ever mix two promotions; do chains end | 3 products in batches of 2 (a full and a short batch), 2 promotions, 1 worker, the clock opens their windows, whose edges are scheduled or not |
| `projection_writers` | does any overlap of the writers, or a cursor, leave a wrong row behind that was not overtaken, missed or created late; can one store a price nobody ever priced | 4 products, 3 of one category in batches of 2 (a full and a short batch) and one created meanwhile, 2 workers, an ingestor that moves one to another category, a window whose edge is scheduled or not |
| `projection_reconciled` | does the reconciler repair every kind of drift; is a price ever one nobody priced | 2 products, one of them created meanwhile, sweeps that scan 2 and repair 1, a crash, failure or loss anywhere, an upsert, a window that opens without a job |
| `projection_overtaken` | *violation*: "duplicate jobs are harmless" | 2 workers, 2 promotions |
| `ingestion_exclusive` | are counters exact, does a finished job have its lines, is the file imported once, does a job finish | 2 chunks, 1 continuation, 2 workers, 2 faults, 2 receives (so the dead letter queue is reached) |
| `ingestion_redelivered` | can a line, or a rejection, be dropped by overlapping deliveries | 4 lines, 2 of them bad, in 1 chunk, `ErrorCap` 1, 2 continuations, 2 workers, 2 faults, an unparseable message |
| `ingestion_duplicate` | *violation*: "the counters cannot be double-incremented" | 2 workers, 1 lapse |
| `ingestion_splitter_retry` | *violation*: "another attempt rather than losing the notification" | 1 splitter, 1 failure |
| `split` | has each line exactly one owner, is it given in the end, is it read whole | every file of 1 to 7 bytes, ranges of 3, overlap of 1, any hand-over |
| `cache_reads` | does a bump hide what is older; do loads coalesce; does a walk over cached and fresh pages miss a product; does staleness end | 2 readers (both of details, or one turning pages of 1, with or without a bad cursor), 1 process, the listing of a category by descending price, 1 write of any kind (a price, a new product, a change of category), 3 products, 2 categories, 1 failed call, eviction or crash, a breaker that opens at once |
| `cache_bump_first` | *violation*: the order that avoids a cached stale price | the same without faults, for the listing of everything by ascending price |

Deadlock checking is off except for the cache, whose readers never end: a model stops when its bounds are used up and all work
is done, and so does the system when nobody calls it.

**Why these bounds.** Every interaction needs at most two statements over one row (one old
snapshot, one newer commit), so two workers and one of each other writer suffice; reconciler and
faults meet them in `projection_reconciled`. A chain needs a full batch, a boundary and a
short batch: three rows in twos. A reconciler needs enough rows to fill its window, so that the
cursor moves and wraps. A row that changes once, between any two calls of a reader and of a writer,
is enough for a stale entry, and one failure for each place where a call can fail; the
breaker opens at the first so that the invalidations it skips are reached. Seven bytes hold
a header, lines that start on, before and behind a boundary, a cut CR LF, an empty line, a
line longer than the overlap and a last line without a newline, in three ranges. In
ingestion, a continuation of a continuation needs two hand-offs;
a rejection held across a hand-off needs a bad line before a good one, and a cap that bites
a second one behind it;
a duplicate needs two workers; a dead letter needs as many faults as receives. Prices are odd
so that rounding matters. `MaxFaults`, `MaxUpserts`, `MaxTime`, `MaxChunks` and `Notices`
bound counters that the system does not; nothing else is cut.

**Assumptions of a specification.**

* `RunningSpec` (`projection_chains`): workers are weakly fair, for `ChainsEnd`: a running
  BullMQ worker keeps taking jobs.
* `WatchedSpec` (`projection_writers`) assumes nothing. The instance has no reconciler and no
  faults, which would make it too large (with one product less, one fault already gives 2.4 million
  states, in close to five minutes): that repairs and faults leave no other row behind is
  `NoStaleRowLeftBehind`, which has any number of them.
* `ReconciledSpec` (`projection_reconciled`): only the reconcilers are fair, a timer that keeps firing. The workers owe
  nothing, which makes `EventuallyCorrect` a statement about the safety net alone. Requests,
  the clock, upserts and faults are bounded, so "once writes stop" is reached.
* `ExclusiveSpec` (`ingestion_exclusive`): `VisibilityTimeout` (900 s) exceeds the worker's run time (300 s) and SQS
  does not deliver twice, which `01-bootstrap.sh` names as its requirement. Pollers are weakly
  fair and an unheld message reappears or is redriven. `ingestion_redelivered` drops the
  assumption.

* `ChunkSplit`'s `Spec` is weakly fair in `Next` as a whole: messages are received and
  workers go on; which goes first is open.
* `CacheAside`'s `Spec` assumes one thing: an entry that was computed from an earlier state
  of the table expires, because every SET has an EX. No reader, writer or call to Redis is
  fair, so `EventuallyFresh` is a statement about the TTL alone. It concerns runs in which
  the writes end.

### What the properties say

* `OneActivePerTarget`, `WinnerIsDetermined`: see above.
* `CoreAgreesWithSql`: `calculateEffectivePrice`, `findProductByIdComputed` and the
  projection choose the same promotion and price, for every product, instant, base price and
  order of the candidates.
* `EveryPriceExplained`: a stored price is what *some* listing of the product costs, alone or
  under *one* promotion that was published for that listing and whose window has opened.
  Old prices are allowed, invented ones are not.
* `StaleRowsAhead`: a wrong row has work ahead that will write it (a request about to queue,
  a job with a smaller cursor, the continuation about to be queued, an upsert about to be
  projected, or a running statement with the last word on it) unless it is `excused`. The
  sweeps of the reconciler do not count as work ahead, though its repairs overtake others and
  are overtaken.
* `ChainsEnd`: again and again there is nothing for a worker to do.
* `EventuallyCorrect`: once writes stop, every price becomes and stays right.
* `LinesCovered`: a good line is in the table or is owned by a chunk that is not completed.
* `RejectionsKept`: so is a bad line, with `ingestion_row_errors` for the table. Its record is
  written late, after the rest of the chunk may have been handed on; what a chunk's cap leaves
  out is behind at least `ErrorCap` lines that are there.
* `CountersMatchChunks`, `FinishedMeansLanded`: the job row tells the truth.
* `FileImported`: to whoever polls it the job is the file of `VendorFile`: lines come to
  account only while it is in processing, none is taken back, and it ends once, with every
  line accounted for; retries, redeliveries and hand-offs do not show.
* `JobFinishes`: a job ends unless a chunk has no message: never sent, or dead.
* `LineOwnership`: at every moment, a line that has been cut into a range was taken once or
  is ahead of exactly one chunk, whatever has been handed over.
* `EachLineOnce`, `EveryLineGiven`: splitting implements `LineFeed`, and gives every line.
* `ReadWhole`: a line of up to `Overlap` + 1 bytes is never truncated. (A longer one may be:
  its first bytes are taken for the row, without an error.)
* `Coalesced`: a key in flight has exactly one reader that loads it, and who joined waits for
  one. A promise left in the map would block its key for ever.
* `BumpHides`: what is stored under a version is not older than that version's bump,
  although the load that stores it may have started long before.
* `WalkSeesEachOnce`: a client that turns the pages to the end, some cached under different
  versions and some fresh, sees every product whose price and category were the same in all
  of them once if it is in range, and otherwise not at all.
* `EventuallyFresh`: once the table rests, cached answers become and stay right. It is about
  the TTL alone, which is all that bounds an invalidation that was dropped or overtaken:
  deleting every `del` and `bumpVersion` from the code would not break it, storing one kind of
  key without its TTL does.

## 4. Proofs

All theorems hold for every value of the constants, under the assumptions declared with them
(naturals where the code has naturals, ranges that cover the file).

* `PromotionsProofs`. `PromoTypeCorrect`, then `AtMostOneActive`. The invariant that is
  inductive is `NoPublishedOverlap`: publishing is the only step that adds a published row and
  its guard compares it with all others; cancelling removes one; the ranges of a row never
  change once it is published. Two rows active at one instant overlap, which gives
  `OneActivePerTarget`. `WinnerDetermined` needs the existence of a first candidate among any
  number: `FirstCandidate` takes least elements (`LeastElement!HasLeast`, from the
  well-foundedness of strict inclusion) of the age and then of the id, among the most specific
  candidates.
* `PricingProofs`. `DiscountLowers`, `DiscountParity`, `OrderParity`, `MoneyRoundTrip` and
  `FloorHolds`: arithmetic over all prices, discounts, margins and policies; the nonlinear
  products are named once so that what is left is linear.
* `ParityProofs`. `CoreAgreement`, the theorem behind "if one changes, the other must change
  with it". The loop of `resolveActivePromotion` is a recursive function; that it exists
  (`LoopExists`) and that after *n* rounds it holds the first of the active ones among the
  first *n* candidates (`RoundsFindFirst`) are shown by least counterexample. `Fetched` lists
  every promotion that targets the product, because an injection between finite sets of one
  size is a surjection (`FetchedIsTargeting`); precedence is total, so that the first is
  unique; and `DiscountParity` gives the price, for which the rows' discounts must be valid
  (`ValidDiscounts`, inductive with the type invariant).
* `PriceProjectionProofs`. `ProductsWellTyped`, `PricesAreExplained`, `ProjectionTypeCorrect`,
  `NoStaleRowLeftBehind`. A stored price is
  explained only if the prices in flight are, so `ExplainedInv` says of every process that the
  prices it is about to write are explained already, and that they are for rows that exist (or
  for the one row a creator owns). Three facts carry it: a snapshot is explained because the
  winner is a candidate and the row's listing is in `past`; an explanation survives every
  step, because listings are only added, a published promotion is never edited and a window
  that has opened stays opened; a row only receives prices that a snapshot computed for it.
  `TypeOK` adds the queues: a cursor is the last id of a full batch, which exists because the
  products stored are finitely many (`TypeInv`, `LastIsOfThem`; the catalogue is assumed
  finite). `NoStaleRowLeftBehind` is about
  `WatchedSpec`: any number of workers, reconcilers, ingestors and requests, faults and skew.
  `StaleRowsAhead` is not inductive, because a statement that is running may be about to write
  a price that is no longer right. `HistInv` adds `HandsSound`: of each row on which a
  statement has the last word, either what it is about to write is right (`WillBeRight`) or
  something later will write the row again (`Followed`), where later is the order of the
  snapshots, which is a strict order (`SnapshotsOrdered`). Besides that, prices are held only
  between a snapshot and its commit (`IdleHandsEmpty`), work is queued for published
  promotions only, whose targets no longer change (`DecidedWork`), a bag counts what it
  contains (`JobsCounted`), and where the clocks agree the job of a scheduled edge waits until
  the edge (`EdgesWait`). `CoreStep` shows that a step in which at most one statement begins
  or commits keeps `HandsSound` and `StaleRowsAhead`, under conditions that one lemma per
  action supplies: a publish, a cancel and a tick of the clock change the winner only where
  they leave work ahead (`PublishPrice`, `CancelPrice`, `TickPrice`: the winner depends on the
  set of candidates and their rows, `SamePrice`); a batch leaves out a row only when it is
  full, and then the row comes after its last one (`FirstOfCuts`); a retried job is back in
  the queue with its cursor.
* `IngestionProofs`. `IngestionTypeCorrect`, `LinesInvHolds`, `NoLineDropped`,
  `NoRejectionLost`. Neither `LinesCovered` nor `RejectionsKept` is inductive: completing a
  chunk is safe only because its worker has landed or recorded its lines or handed them on.
  `LinesInv` adds `Covers`, for any set of lines that are done with: what lies behind a
  worker's position is done or among the rejections it holds, behind the hand-off its chunk is
  `Settled` but for those, and a completed chunk is settled. `Settled` asks for a *later* open
  chunk, and a continuation's index
  is always higher than its chunk's, so that the chunks that cover for one another cannot form
  a circle; completing a chunk passes its cover on to what covers it. Recording turns what a
  worker holds into what is listed (`RecordedIsListed`): a rejection the cap leaves out has
  `ErrorCap` recorded ones before it, or the least one left out would have had room.
  `CountersMatch` and `FinishedJobsAreDone` are about `ExclusiveSpec`, of which only the
  exclusion of overlapping deliveries is used, not the fairness. `CountersInv` says that the job is created once and each message
  sent once (`SendersOK`: a message that is about to be sent is unsent, and a continuation's
  index is one that no message was sent for), that a message in flight has one holder, under
  its newest receipt (`DeliveriesOK`), so that a chunk stays open while somebody works on it
  and completing closes exactly one row: the count of closed rows and the job's counter grow
  together, and the job ends only when all are closed (`OutcomeOK`). `Covers` once more, with
  "counted" for "done", gives that the job is partial exactly when the file has a bad line.
  `PipelineImportsFile` shows under the same specification that the pipeline implements
  `VendorFile`: only a worker on an open chunk accounts for a line, and while a chunk is open
  the job is in processing (`AccountedInProcessing`); the status changes where the job is
  created and where its last chunk completes, in steps that account for nothing
  (`StatusNext`), and by then every line is accounted for (`FinishedAccounts`). A cap of at
  least 1 is assumed (it is 1000, `worker.ts:253`).
* `ChunkSplitProofs`. `SplitTypeOK`, `LinesHaveOneOwner`, `ShortLinesReadWhole` and
  `SplitImplementsFeed`, for every file, range and overlap. `SplitInv` adds `ChunksOK` to
  ownership: no range reaches behind the cut, and a reader stands on the start of a line, so
  that the newline it finds ends *its* line. Each action moves lines between "ahead of a
  chunk" and "taken", and the proof has one lemma per action that says which.
* `CacheProofs`. `LoadsCoalesce`, `BumpsHide`, `CacheTypeCorrect`, `WalksSeeEachOnce`. For
  `BumpsHide`, a key with version *v* that
  a reader holds was built after bump *v*, so what it loads later is at least as new; the
  invariant carries that through loading, joining and storing. For `WalksSeeEachOnce`,
  `PageIsInterval` says what a page is, whatever the shelf and the limit: everything found
  that does not come behind its `next` cursor, or everything found. It rests on rows having a
  first and a last (`FirstRow`, `LastRow`), on the first *n* rows being closed to the front
  (`FirstClosed`) and on the extra row being missing only if nothing is left (`NoExtraRow`).
  `WalkOK` then holds in the middle of a walk: a product that was steady so far has been seen
  once if the cursor has passed its position, and not at all otherwise; `TurnedOK` is the step
  from page to page, from *any* state of the table, so that the age of what the cache serves
  does not matter. The assumptions are those of the code: ids and prices are integers, a limit
  is at least 1 (`http/schemas.ts:25`), a token that does not parse is not a position, the
  breaker's threshold is positive. `CacheTypeCorrect` adds that the table leaves room for
  every commit that has begun (`WritersOK`), which is how its bound is kept.

*Model-checked only.* The liveness properties: `ChainsEnd`, `EventuallyCorrect`,
`JobFinishes`, `EveryLineGiven`, `EventuallyFresh`. They need fairness and `ENABLED`, which
TLAPS does not reason about. Every invariant and every refinement that a passing run checks is
also a theorem.

## 5. Where code and documentation disagree

Four statements of the repository are refuted by a run (`findings` in `PROJECT.json`):

1. *Duplicate jobs are harmless* (`scheduler.ts:16-18`). Recomputing is idempotent, but two
   recomputations can commit in the opposite order of their snapshots. The reconciler repairs
   it (`projection_reconciled`).
2. *The counters cannot be double-incremented* (`worker.ts:38-39`, `0001_init.sql:169-171`).
   The guard stops redelivery after completion, not two deliveries in progress.
3. *Another attempt rather than losing the notification* (`splitter-runner.ts:43-44`). The next
   attempt sees the idempotency key and sends nothing.
4. *The reverse order would serve a cached stale price for a full TTL*
   (`promotionService.ts:126-130`). So does this order: a listing read between the bump and
   the projection's commit is cached under the new version.

Others were met and are visible in the models, or in the code, without a run of their own:

* `productRepository.ts:125`, "the row is never visible without a correct projection": true
  of the promotions committed before `createProduct`'s projection, not of one published
  between that snapshot and the commit (`BeginCreate`, `CommitCreate`).
* `cache.ts:178-180` and `productService.ts:117-118`, "unreachable the moment its scope's
  version is bumped": `version()` is 0 when Redis does not answer, and version keys have no
  TTL but can be evicted (`allkeys-lru`), after which old numbers come back. `BumpHides`
  excludes the two, and only the TTL bounds them.
* `config.ts:30` has a `CACHE_NEGATIVE_TTL` that nothing reads: `getById` caches a miss for
  `CACHE_PRODUCT_TTL`.
* `csv.ts:17-18` says that the splitter samples the file for embedded newlines and falls back
  to one worker; the splitter never opens the file.
* `money.ts:4-5` names the ingestion Lambda as a caller of `applyDiscount`; nothing outside
  the tests calls it, `calculateEffectivePrice` or `resolveActivePromotion`.
* `server.ts:83`, "let in-flight requests finish": the server waits for connections, and a
  handler whose client has gone may still be between two calls when the pool ends.

* `apps/ingestion/src/worker.ts:135`, "nothing is reprocessed and nothing is lost". When a
  worker fails after its hand-off, the redelivered chunk still has its old `end_byte`: it and
  the continuation process the remainder and count it twice. When it fails between the
  hand-off's transaction and its send, the continuation has a row and no message and the job
  never ends (the `Unsent` case of `JobFinishes`). The lines themselves are safe either way:
  that is `LinesCovered`.
* `apps/ingestion/src/handlers.ts:66-67`, "straight to the DLQ": an unparseable message is
  reported as handled and deleted (`Ignore`).
* `scheduler.ts:59`, "every edge is seen at least twice": not for a promotion published less
  than a scan period before its edge; the scan asks for `startsAt >= now`, so it is then
  never seen.

## 6. Not modelled, and what could come next

* *Real time.* The scheduler's period against its horizon (the edge of a promotion published
  less than a scan period ahead is missed, section 5) and the length of a TTL: the models
  have an order of events and no durations. The case itself is in `projection_reconciled`,
  where `Horizon` = 0 leaves every edge without a job.
* *A queue clock ahead of PostgreSQL's, together with everything else.* `Skew` and `Horizon`
  make a delayed job run early; the reconciler's repair of it was checked for two products
  without an ingestor (`Horizon` = 2, `Skew` = 1, `ScanWindow` = 1 in
  `MCProjectionReconciled.cfg`, and no ingestor), and with one the instance has too many
  states for a run.
* *Job ids.* `IsDue` and `scheduled` take BullMQ to accept the scheduler's ids, which contain
  colons; whether a given release does is outside this repository.
* *The inside of a line.* Quoting and the fields of a row (`splitCsvLine`, `parseVendorLine`);
  hence "last write wins" for one SKU in two chunks.
* *Shutdown.* The order in which timers, workers and pools stop. What a stop interrupts is an
  action (crashes, `SweepFails`, `WriterDies`), so an order could only lose less.
* *HTTP validation and error mapping, logging and metrics, migrations, seed, bench*: no state
  that the rest depends on.

## 7. Running it

```
tlc -config MCPromotions.cfg MCPromotions.tla
tlc -config MCProjection<Run>.cfg MCPriceProjection.tla        # chains, reconciled, overtaken
tlc -config MCProjection<Run>.cfg MCProjectionHistory.tla      # writers
tlc -config MCIngestion<Run>.cfg MCIngestion.tla
tlc -config MCChunkSplit.cfg ChunkSplit.tla
tlc -config MCCache<Run>.cfg MCCacheAside.tla
tlapm PromotionsProofs.tla     # and the other modules whose name ends in Proofs
```

A run whose name is marked *violation* is expected to end in a counterexample. The
definitions marked `mutant` are altered versions of the definition below them; substituting
one breaks the property that `PROJECT.json` names for it.
