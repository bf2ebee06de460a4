-------------------------- MODULE ProjectionHistory ---------------------------
(***************************************************************************)
(* What becomes of a stale row, told with history variables that only      *)
(* watch PriceProjection: which rows a running statement still has the     *)
(* last word on, in which order the running statements took their          *)
(* snapshots, and which rows were lost from sight for a reason the code    *)
(* accepts.  Nothing here guards a step of the program.                    *)
(***************************************************************************)
EXTENDS PriceProjection

VARIABLES
  live,      \* of each running statement: the rows no later statement has written
  earlier,   \* of each running statement: those that took their snapshot before it
  excused    \* rows a step left stale in one of the ways listed at Excuses

history == <<live, earlier, excused>>

(* A hand is a process that can hold computed prices and not have          *)
(* committed them yet.                                                     *)
JobHands == {"worker"} \X Workers
IngestHands == {"ingest"} \X Ingestors
Hands == JobHands \cup IngestHands \cup ({"recon"} \X Reconcilers)

PricesIn(h) ==
  CASE h[1] = "worker" -> worker[h[2]].prices
    [] h[1] = "ingest" -> ingest[h[2]].prices
    [] h[1] = "recon"  -> recon[h[2]].prices
Holding(h) == DOMAIN PricesIn(h)
-------------------------------------------------------------------------------
(* Work that will recompute p from a snapshot still to be taken: a request *)
(* about to queue its job, a waiting job whose cursor is below p, the      *)
(* continuation about to be queued, an upsert about to be projected.       *)
Queued(p) ==
  \/ \E h \in pending : Covers(h.promo, p)
  \/ \E j \in DOMAIN jobs : Covers(j.promo, p) /\ p > j.cursor
  \/ \E w \in Workers : /\ worker[w].phase = "continue"
                        /\ Covers(worker[w].job.promo, p) /\ p > worker[w].next
  \/ \E i \in Ingestors : ingest[i].phase = "upserted" /\ ingest[i].id = p

(* The reconciler's sweeps are not counted: its repairs are a second line. *)
Ahead(p) == Queued(p) \/ \E h \in JobHands \cup IngestHands : p \in live[h]

(* The edge has a job that waits for it.                                   *)
Upcoming(e) ==
  \/ e.reason = "promotion.window.opened" /\ now < promotions[e.promo].startsAt
  \/ e.reason = "promotion.window.closed" /\ now < promotions[e.promo].endsAt
EdgeJob(e) == [promo |-> e.promo, reason |-> e.reason, cursor |-> Null, tries |-> 1]
EdgeWaits(e) == Upcoming(e) => EdgeJob(e) \in DOMAIN jobs

(* The scheduler has seen every edge the clock may reach next, and its own *)
(* clock has started none of their jobs early.                             *)
Timely ==
  /\ Horizon > 1 /\ EdgesAhead \subseteq scheduled
  /\ Skew = 0 \/ \A e \in scheduled : EdgeWaits(e)
-------------------------------------------------------------------------------
(* Excuses: the rows this step may leave stale.                            *)

(* The statement commits: every row of its hand, or of its locked batch.   *)
Written(h) ==
  IF Holding(h) = {} \/ Holding(h)' # {} \/ faults' # faults THEN {}
  ELSE IF h \in JobHands THEN LockedBatch(h[2]) ELSE Holding(h)

(* A statement with a later snapshot had written the row already.          *)
Overwritten == UNION {Written(h) \ live[h] : h \in Hands}

(* A failure, a crash or a lost job takes the work that was ahead of it.   *)
Lost == IF faults' = faults THEN {} ELSE {p \in stored : Ahead(p) /\ ~Queued(p)'}

(* Its price changes at an instant the scheduler did not see coming.       *)
Missed ==
  IF now' = now \/ Timely THEN {}
  ELSE {p \in stored : (Projected(p, row[p]))' # Projected(p, row[p]) /\ ~Queued(p)'}

(* createProduct commits a price that a promotion has changed meanwhile.   *)
Outdated == {p \in stored' \ stored : ~IsRight(p)' /\ ~Queued(p)'}

HistoryInit ==
  live = [h \in Hands |-> {}] /\ earlier = [h \in Hands |-> {}] /\ excused = {}

Watch ==
  /\ live' = [h \in Hands |->
       IF Holding(h) = {} THEN Holding(h)'
       ELSE {p \in live[h] \cap Holding(h)' :
               /\ p \notin Lost \cup Missed
               /\ \A g \in Hands : h \in earlier[g] => p \notin Written(g)}]
  /\ earlier' = [h \in Hands |->
       {g \in Hands : /\ Holding(g)' # {} /\ Holding(h)' # {}
                      /\ g \in earlier[h] \/ (Holding(g) # {} /\ Holding(h) = {})}]
  /\ excused' = (excused \ UNION {Written(h) \cap live[h] : h \in Hands})
                  \cup Overwritten \cup Lost \cup Missed \cup Outdated

WatchedInit == Init /\ HistoryInit
WatchedNext == Next /\ Watch
WatchedSpec == WatchedInit /\ [][WatchedNext]_<<vars, history>>
-------------------------------------------------------------------------------
(* However many workers, reconcilers, ingestors and requests run, and      *)
(* whatever fails: a stored row that disagrees with the promotions has     *)
(* work ahead that will write it, a job, a continuation, an upsert or a    *)
(* running statement with the last word, unless its last writer was        *)
(* overtaken, its work was lost, its edge was missed or it was created at  *)
(* a price gone old.  No cursor passes a row it leaves behind, and no      *)
(* change of a promotion or a category forgets a row                       *)
(* (projectPricesForCategoryBatch, promotionService.ts, scheduler.ts).     *)
StaleRowsAhead == \A p \in stored : ~IsRight(p) => Ahead(p) \/ p \in excused

(* Why it is inductive.  A row a statement has the last word on will be    *)
(* right when it commits, or a later snapshot is still to write it.        *)
WillBeRight(h, p) ==
  /\ PricesIn(h)[p] = Projected(p, row[p])
  /\ (h \in JobHands /\ OfCategory(worker[h[2]].job)) =>
       row[p].category = promotions[worker[h[2]].job.promo].target
Followed(h, p) ==
  Queued(p) \/ \E g \in JobHands \cup IngestHands : h \in earlier[g] /\ p \in live[g]
HandsSound ==
  \A h \in Hands : \A p \in live[h] :
    p \in Holding(h) /\ (WillBeRight(h, p) \/ Followed(h, p))

SnapshotsOrdered ==
  \A g, h \in Hands : g \in earlier[h] =>
    Holding(g) # {} /\ Holding(h) # {} /\ g # h /\ earlier[g] \subseteq earlier[h]

(* Only a statement under way holds prices.                                *)
IdleHandsEmpty ==
  /\ \A w \in Workers : worker[w].phase # "project" => worker[w].prices = <<>>
  /\ \A i \in Ingestors : ingest[i].phase # "write" => ingest[i].prices = <<>>
  /\ \A r \in Reconcilers : recon[r].phase # "write" => recon[r].prices = <<>>

JobsCounted == \A j \in DOMAIN jobs : jobs[j] \in Nat \ {0}

Decided == {"published", "cancelled"}

(* Work is only ever queued for a promotion that has been published.       *)
DecidedWork ==
  /\ \A h \in pending : promotions[h.promo].status \in Decided
  /\ \A j \in DOMAIN jobs : promotions[j.promo].status \in Decided
  /\ \A e \in scheduled : promotions[e.promo].status \in Decided
  /\ \A w \in Workers : worker[w].phase # "idle" =>
       promotions[worker[w].job.promo].status \in Decided

EdgesWait == Skew = 0 => \A e \in scheduled : EdgeWaits(e)

HistoryInv ==
  /\ SnapshotsOrdered /\ HandsSound /\ StaleRowsAhead
  /\ IdleHandsEmpty /\ JobsCounted /\ DecidedWork /\ EdgesWait /\ faults \in Nat
===============================================================================
