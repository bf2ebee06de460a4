------------------------ MODULE PriceProjectionProofs -------------------------
(***************************************************************************)
(* EveryPriceExplained for every catalogue, every number of workers,       *)
(* reconcilers, ingestors and requests, and every batch size.  The         *)
(* argument: a statement's prices are explained when its snapshot is taken *)
(* (SnapshotOK), an explanation survives every step because the promotions *)
(* it names are frozen, the clock does not go back and a listing a product *)
(* has had stays in its past (ExplanationsLast), and rows only ever        *)
(* receive such prices (WriteKeepsRows).  TypeOK follows with what bounds  *)
(* the cursors (TypeInv).                                                  *)
(*                                                                         *)
(* StaleRowsAhead holds for as many processes and faults.  Rows agree with *)
(* the promotions until something changes; a publish, a cancel or an edge  *)
(* changes the price only of rows it leaves work for (PublishPrice,        *)
(* CancelPrice, TickPrice) and a batch leaves out only rows after its      *)
(* cursor (FirstOfCuts).  Between its snapshot and its commit a statement  *)
(* vouches for the rows it has the last word on: they will be right when   *)
(* it commits, or something later will write them again (HandsSound),      *)
(* where later is the order of the snapshots (SnapshotsOrdered).  CoreStep *)
(* shows that any step that moves at most one such hand keeps these two    *)
(* and StaleRowsAhead; one lemma per action supplies its conditions.       *)
(***************************************************************************)
EXTENDS ProjectionHistory, PromotionsProofs

(* What every step does to the data explanations rest on.                  *)
PromotionsFrozen ==
  \A k \in PromotionIds : promotions[k].status \in Decided =>
    /\ promotions'[k].status \in Decided
    /\ promotions'[k].startsAt = promotions[k].startsAt
    /\ promotions'[k].targetType = promotions[k].targetType
    /\ promotions'[k].target = promotions[k].target
    /\ promotions'[k].discountType = promotions[k].discountType
    /\ promotions'[k].discountValue = promotions[k].discountValue

Grows ==
  /\ PromotionsFrozen
  /\ now \in Nat /\ now' \in Nat /\ now <= now'
  /\ promotions \in [PromotionIds -> PromotionRow]
  /\ stored \subseteq stored'
  /\ \A p \in Products : past[p] \subseteq past'[p]
-------------------------------------------------------------------------------
LEMMA DiscountedIsNat ==
  ASSUME NEW base \in Nat, NEW dtype, NEW dvalue \in Nat
  PROVE  ApplyDiscount(base, dtype, dvalue) \in Nat
<1>1. base * (10000 - dvalue) + 5000 \in Int
  OBVIOUS
<1>2. (base * (10000 - dvalue) + 5000) \div 10000 \in Int
  BY <1>1
<1> QED BY <1>2 DEF ApplyDiscount

(* A projection computed now is a price, and can be explained now.         *)
LEMMA ProjectionExplained ==
  ASSUME ProductTypeOK, NEW p \in Products, NEW l,
         l.base \in Nat, [base |-> l.base, category |-> l.category] \in past[p]
  PROVE  /\ Projected(p, l) \in Price
         /\ Explains(promotions, now, past[p], p, Projected(p, l))
<1> DEFINE k == WinningPromotion(promotions, p, l.category, now)
           old == [base |-> l.base, category |-> l.category]
<1>1. k = NoPromotion \/ k \in Candidates(promotions, p, l.category, now)
  BY DEF WinningPromotion
<1>2. Projected(p, l) = [effective |-> PriceUnder(promotions, l.base, k), active |-> k]
  BY DEF Projected
<1>3. old.base = l.base /\ old.category = l.category /\ old \in past[p]
  OBVIOUS
<1> HIDE DEF k, old
<1>4. CASE k = NoPromotion
  <2>1. PriceUnder(promotions, l.base, k) = l.base
    BY <1>4 DEF PriceUnder
  <2> QED BY <1>2, <1>3, <1>4, <2>1 DEF Explains, Price
<1>5. CASE k # NoPromotion
  <2>1. /\ k \in PromotionIds /\ promotions[k].status = "published"
        /\ InWindow(promotions[k], now) /\ Targets(promotions[k], p, l.category)
    BY <1>1, <1>5 DEF Candidates, ProductTypeOK, PromoTypeOK
  <2>2. promotions[k].startsAt <= now
    BY <2>1 DEF InWindow
  <2>3. PriceUnder(promotions, l.base, k)
          = ApplyDiscount(l.base, promotions[k].discountType, promotions[k].discountValue)
    BY <1>5 DEF PriceUnder
  <2>4. promotions[k].discountValue \in Nat
    BY <2>1 DEF ProductTypeOK, PromoTypeOK, PromotionRow
  <2>5. PriceUnder(promotions, l.base, k) \in Nat
    BY <2>3, <2>4, DiscountedIsNat
  <2> QED BY <1>2, <1>3, <1>5, <2>1, <2>2, <2>3, <2>5 DEF Explains, Price
<1> QED BY <1>4, <1>5

LEMMA ExplanationsLast ==
  ASSUME Grows, NEW p \in Products, NEW price \in Price,
         Explains(promotions, now, past[p], p, price)
  PROVE  Explains(promotions', now', past'[p], p, price)
<1>1. PICK l \in past[p] :
        IF price.active = NoPromotion THEN price.effective = l.base
        ELSE LET pm == promotions[price.active]
             IN  /\ pm.status \in {"published", "cancelled"}
                 /\ pm.startsAt <= now
                 /\ Targets(pm, p, l.category)
                 /\ price.effective = ApplyDiscount(l.base, pm.discountType, pm.discountValue)
  BY DEF Explains
<1>2. l \in past'[p]
  BY DEF Grows
<1>3. CASE price.active = NoPromotion
  BY <1>1, <1>2, <1>3 DEF Explains
<1>4. CASE price.active # NoPromotion
  <2> DEFINE k == price.active
  <2>1. k \in PromotionIds
    BY <1>4 DEF Price
  <2>2. /\ promotions[k].status \in Decided
        /\ promotions[k].startsAt <= now
        /\ Targets(promotions[k], p, l.category)
        /\ price.effective = ApplyDiscount(l.base, promotions[k].discountType, promotions[k].discountValue)
    BY <1>1, <1>4 DEF Decided
  <2>3. /\ promotions'[k].status \in Decided
        /\ promotions'[k].startsAt = promotions[k].startsAt
        /\ promotions'[k].targetType = promotions[k].targetType
        /\ promotions'[k].target = promotions[k].target
        /\ promotions'[k].discountType = promotions[k].discountType
        /\ promotions'[k].discountValue = promotions[k].discountValue
    BY <2>1, <2>2 DEF Grows, PromotionsFrozen
  <2>4. promotions'[k].startsAt <= now'
    <3>1. promotions[k].startsAt \in Nat
      BY <2>1 DEF Grows, PromotionRow
    <3> QED BY <3>1, <2>2, <2>3 DEF Grows
  <2>5. Targets(promotions'[k], p, l.category)
    BY <2>2, <2>3 DEF Targets
  <2>6. price.effective = ApplyDiscount(l.base, promotions'[k].discountType, promotions'[k].discountValue)
    BY <2>2, <2>3
  <2> QED BY <1>2, <1>4, <2>3, <2>4, <2>5, <2>6 DEF Explains, Decided
<1> QED BY <1>3, <1>4

LEMMA PricesLast ==
  ASSUME Grows, stored \subseteq Products, NEW prices, PricesOK(prices), NEW p \in DOMAIN prices
  PROVE  /\ p \in stored' /\ prices[p] \in Price
         /\ Explains(promotions', now', past'[p], p, prices[p])
<1>1. p \in stored /\ prices[p] \in Price /\ Explains(promotions, now, past[p], p, prices[p])
  BY DEF PricesOK
<1>2. p \in stored' /\ p \in Products
  BY <1>1 DEF Grows
<1> QED BY <1>1, <1>2, ExplanationsLast

LEMMA SnapshotOK ==
  ASSUME ProductTypeOK, RowsOK, NEW ids, ids \subseteq stored
  PROVE  PricesOK(Snapshot(ids))
<1> SUFFICES ASSUME NEW p \in ids
             PROVE  /\ p \in stored /\ Projected(p, row[p]) \in Price
                    /\ Explains(promotions, now, past[p], p, Projected(p, row[p]))
  BY DEF PricesOK, Snapshot
<1>1. p \in Products /\ row[p].base \in Nat
  BY DEF ProductTypeOK, Row
<1>2. [base |-> row[p].base, category |-> row[p].category] \in past[p]
  BY DEF RowsOK
<1> QED BY <1>1, <1>2, ProjectionExplained

LEMMA NoPricesOK == PricesOK(<<>>)
  BY DEF PricesOK
-------------------------------------------------------------------------------
(* What a step leaves alone stays as it should be.                         *)
LEMMA UntouchedWorkers ==
  ASSUME Grows, stored \subseteq Products, WorkersOK, worker' = worker
  PROVE  WorkersOK'
<1> SUFFICES ASSUME NEW w \in Workers, NEW p \in DOMAIN worker[w].prices
             PROVE  /\ p \in stored' /\ worker[w].prices[p] \in Price
                    /\ Explains(promotions', now', past'[p], p, worker[w].prices[p])
  BY DEF WorkersOK, PricesOK
<1>1. PricesOK(worker[w].prices)
  BY DEF WorkersOK
<1> QED BY <1>1, PricesLast

LEMMA UntouchedRecons ==
  ASSUME Grows, stored \subseteq Products, ReconsOK, recon' = recon
  PROVE  ReconsOK'
<1> SUFFICES ASSUME NEW r \in Reconcilers, NEW p \in DOMAIN recon[r].prices
             PROVE  /\ p \in stored' /\ recon[r].prices[p] \in Price
                    /\ Explains(promotions', now', past'[p], p, recon[r].prices[p])
  BY DEF ReconsOK, PricesOK, Grows
<1>1. PricesOK(recon[r].prices)
  BY DEF ReconsOK
<1> QED BY <1>1, PricesLast

LEMMA UntouchedIngests ==
  ASSUME Grows, stored \subseteq Products, IngestsOK, ingest' = ingest
  PROVE  IngestsOK'
<1> SUFFICES ASSUME NEW i \in Ingestors, NEW p \in DOMAIN ingest[i].prices
             PROVE  /\ p \in stored' /\ ingest[i].prices[p] \in Price
                    /\ Explains(promotions', now', past'[p], p, ingest[i].prices[p])
  BY DEF IngestsOK, PricesOK, Grows
<1>1. PricesOK(ingest[i].prices)
  BY DEF IngestsOK
<1> QED BY <1>1, PricesLast

LEMMA UntouchedCreators ==
  ASSUME Grows, stored \subseteq Products, CreatorsOK, creating' = creating,
         \A c \in Creators : creating[c].phase = "write" => creating[c].id \notin stored'
  PROVE  CreatorsOK'
<1> SUFFICES ASSUME NEW c \in Creators, creating[c].phase = "write"
             PROVE  /\ creating[c].id \in Products \ stored'
                    /\ creating[c].listing \in past'[creating[c].id]
                    /\ creating[c].price \in Price
                    /\ Explains(promotions', now', past'[creating[c].id], creating[c].id, creating[c].price)
  BY DEF CreatorsOK, CreatorOK
<1>1. /\ creating[c].id \in Products
      /\ creating[c].listing \in past[creating[c].id]
      /\ creating[c].price \in Price
      /\ Explains(promotions, now, past[creating[c].id], creating[c].id, creating[c].price)
  BY DEF CreatorsOK, CreatorOK
<1>2. Explains(promotions', now', past'[creating[c].id], creating[c].id, creating[c].price)
  BY <1>1, ExplanationsLast
<1> QED BY <1>1, <1>2 DEF Grows

LEMMA UntouchedRow ==
  ASSUME Grows, ProductTypeOK, RowsOK, NEW p \in stored
  PROVE  /\ [base |-> row[p].base, category |-> row[p].category] \in past'[p]
         /\ Explains(promotions', now', past'[p], p, PriceOf(row[p]))
<1>1. p \in Products /\ PriceOf(row[p]) \in Price
  BY DEF ProductTypeOK, Row, Price, PriceOf
<1>2. /\ [base |-> row[p].base, category |-> row[p].category] \in past[p]
      /\ Explains(promotions, now, past[p], p, PriceOf(row[p]))
  BY DEF RowsOK
<1> QED BY <1>1, <1>2, ExplanationsLast DEF Grows

LEMMA UntouchedRows ==
  ASSUME Grows, ProductTypeOK, RowsOK, row' = row, stored' = stored
  PROVE  RowsOK'
  BY UntouchedRow DEF RowsOK, PriceOf

(* A statement writes explained prices over rows that exist.               *)
LEMMA WriteKeepsRows ==
  ASSUME Grows, ProductTypeOK, RowsOK, stored' = stored,
         NEW prices, PricesOK(prices), NEW ids, ids \subseteq DOMAIN prices, Write(prices, ids)
  PROVE  RowsOK' /\ row' \in [Products -> Row]
<1>0. stored \subseteq Products
  BY DEF ProductTypeOK
<1>1. \A p \in ids : prices[p] \in Price /\ Explains(promotions', now', past'[p], p, prices[p])
  BY <1>0, PricesLast
<1>2. row' \in [Products -> Row]
  <2>1. row \in [Products -> Row]
    BY DEF ProductTypeOK
  <2>2. \A p \in ids : prices[p] \in Price
    BY <1>1
  <2>3. ASSUME NEW p \in Products
        PROVE  (IF p \in ids
                THEN [row[p] EXCEPT !.effective = prices[p].effective, !.active = prices[p].active]
                ELSE row[p]) \in Row
    <3>1. row[p] \in Row
      BY <2>1
    <3>2. CASE p \in ids
      BY <2>2, <3>1, <3>2 DEF Row, Price
    <3> QED BY <3>1, <3>2
  <2> QED BY <2>3 DEF Write
<1>3. ASSUME NEW p \in stored
      PROVE  /\ [base |-> row'[p].base, category |-> row'[p].category] \in past'[p]
             /\ Explains(promotions', now', past'[p], p, PriceOf(row'[p]))
  <2>1. p \in Products /\ row[p] \in Row
    BY DEF ProductTypeOK
  <2>2. row'[p].base = row[p].base /\ row'[p].category = row[p].category
    BY <2>1 DEF Write, Row
  <2>3. [base |-> row'[p].base, category |-> row'[p].category] \in past'[p]
    BY <2>2, UntouchedRow
  <2>4. CASE p \in ids
    <3>1. row'[p].effective = prices[p].effective /\ row'[p].active = prices[p].active
      BY <2>1, <2>4 DEF Write, Row
    <3>2. PriceOf(row'[p]) = prices[p]
      BY <1>1, <2>4, <3>1 DEF Price, PriceOf
    <3> QED BY <1>1, <2>3, <2>4, <3>2
  <2>5. CASE p \notin ids
    <3>1. row'[p] = row[p]
      BY <2>1, <2>5 DEF Write
    <3> QED BY <2>3, <3>1, UntouchedRow
  <2> QED BY <2>4, <2>5
<1> QED BY <1>2, <1>3 DEF RowsOK, PriceOf
-------------------------------------------------------------------------------
(* Steps of the promotions table and of the clock.                         *)
LEMMA PromotionStepGrows ==
  ASSUME ProductTypeOK, stored' = stored, past' = past,
         \/ \E k \in PromotionIds, w \in Windows, d \in Discounts : CreateDraft(k, w, d)
         \/ \E k \in PromotionIds, t \in Target : AssignAndPublish(k, t[1], t[2])
         \/ \E k \in PromotionIds : CancelPromotion(k)
         \/ Tick
         \/ UNCHANGED <<promotions, now>>
  PROVE  Grows /\ PromoTypeOK'
<1> USE DEF ProductTypeOK
<1>1. ASSUME NEW k \in PromotionIds, NEW w \in Windows, NEW d \in Discounts, CreateDraft(k, w, d)
      PROVE  Grows /\ PromoTypeOK'
  <2>1. PromoTypeOK'
    BY <1>1, DraftKeepsType
  <2>2. \A j \in PromotionIds : promotions[j].status \in Decided => promotions'[j] = promotions[j]
    BY <1>1 DEF CreateDraft, PromoTypeOK, Decided
  <2> QED BY <1>1, <2>1, <2>2 DEF Grows, PromotionsFrozen, CreateDraft, PromoTypeOK
<1>2. ASSUME NEW k \in PromotionIds, NEW t \in Target, AssignAndPublish(k, t[1], t[2])
      PROVE  Grows /\ PromoTypeOK'
  <2>1. PromoTypeOK'
    BY <1>2, PublishKeepsType
  <2>2. \A j \in PromotionIds : promotions[j].status \in Decided => promotions'[j] = promotions[j]
    BY <1>2 DEF AssignAndPublish, PromoTypeOK, Decided
  <2>3. now' = now
    BY <1>2 DEF AssignAndPublish
  <2> QED BY <2>1, <2>2, <2>3 DEF Grows, PromotionsFrozen, PromoTypeOK
<1>3. ASSUME NEW k \in PromotionIds, CancelPromotion(k)
      PROVE  Grows /\ PromoTypeOK'
  <2>1. PromoTypeOK'
    BY <1>3, CancelKeepsType
  <2>2. PromotionsFrozen
    BY <1>3 DEF CancelPromotion, PromoTypeOK, PromotionRow, Decided, PromotionsFrozen
  <2> QED BY <1>3, <2>1, <2>2 DEF Grows, CancelPromotion, PromoTypeOK
<1>4. CASE Tick
  <2>1. promotions' = promotions /\ now' = now + 1
    BY <1>4 DEF Tick
  <2> QED BY <2>1 DEF Grows, PromotionsFrozen, PromoTypeOK
<1>5. CASE UNCHANGED <<promotions, now>>
  BY <1>5 DEF Grows, PromotionsFrozen, PromoTypeOK
<1> QED BY <1>1, <1>2, <1>3, <1>4, <1>5

(* Every step, for the data explanations rest on.                          *)
LEMMA QuietStep ==
  ASSUME ExplainedInv, Grows, PromoTypeOK', UNCHANGED productVars
  PROVE  ProductTypeOK' /\ RowsOK' /\ stored \subseteq Products
  BY UntouchedRows DEF ExplainedInv, ProductTypeOK, productVars

(* Steps that touch neither products nor processes.                        *)
LEMMA PromotionStep ==
  ASSUME ExplainedInv, Grows, PromoTypeOK', UNCHANGED <<productVars, procVars>>
  PROVE  ExplainedInv'
<1>1. ProductTypeOK' /\ RowsOK' /\ stored \subseteq Products
  BY QuietStep DEF productVars
<1>2. WorkersOK' /\ ReconsOK' /\ IngestsOK'
  BY <1>1, UntouchedWorkers, UntouchedRecons, UntouchedIngests DEF procVars, ExplainedInv
<1>3. CreatorsOK'
  <2>1. \A c \in Creators : creating[c].phase = "write" => creating[c].id \notin stored'
    BY DEF ExplainedInv, CreatorsOK, CreatorOK, productVars
  <2> QED BY <1>1, <2>1, UntouchedCreators DEF procVars, ExplainedInv
<1> QED BY <1>1, <1>2, <1>3 DEF ExplainedInv

(* A worker's step that reads or writes explained prices.                  *)
LEMMA WorkerMoves ==
  ASSUME ExplainedInv, UNCHANGED <<promotions, now, stored, past>>, ProductTypeOK', RowsOK',
         NEW w \in Workers, NEW s, PricesOK(s.prices), SetWorker(w, s)
  PROVE  ExplainedInv'
<1>1. Grows /\ stored \subseteq Products
  BY PromotionStepGrows DEF ExplainedInv, ProductTypeOK
<1>2. WorkersOK'
  <2> SUFFICES ASSUME NEW v \in Workers, NEW p \in DOMAIN worker'[v].prices
               PROVE  /\ p \in stored' /\ worker'[v].prices[p] \in Price
                      /\ Explains(promotions', now', past'[p], p, worker'[v].prices[p])
    BY DEF WorkersOK, PricesOK, SetWorker, ExplainedInv
  <2>1. CASE v = w
    <3>1. worker'[v] = s
      BY <2>1 DEF SetWorker, ExplainedInv, WorkersOK
    <3> QED BY <1>1, <3>1, PricesLast
  <2>2. CASE v # w
    <3>1. worker'[v] = worker[v] /\ PricesOK(worker[v].prices)
      BY <2>2 DEF SetWorker, ExplainedInv, WorkersOK
    <3> QED BY <1>1, <3>1, PricesLast
  <2> QED BY <2>1, <2>2
<1>3. ReconsOK' /\ IngestsOK'
  BY <1>1, UntouchedRecons, UntouchedIngests DEF SetWorker, ExplainedInv
<1>4. CreatorsOK'
  BY <1>1, UntouchedCreators DEF SetWorker, ExplainedInv, CreatorsOK, CreatorOK
<1> QED BY <1>2, <1>3, <1>4 DEF ExplainedInv

LEMMA ReconMoves ==
  ASSUME ExplainedInv, UNCHANGED <<promotions, now, stored, past>>, ProductTypeOK', RowsOK',
         NEW r \in Reconcilers, NEW s, s.ids \subseteq stored, PricesOK(s.prices), SetRecon(r, s)
  PROVE  ExplainedInv'
<1>1. Grows /\ stored \subseteq Products
  BY PromotionStepGrows DEF ExplainedInv, ProductTypeOK
<1>2. ReconsOK'
  <2>1. \A v \in Reconcilers : recon'[v] = IF v = r THEN s ELSE recon[v]
    BY DEF SetRecon, ExplainedInv, ReconsOK
  <2>2. ASSUME NEW v \in Reconcilers, NEW p \in DOMAIN recon'[v].prices
        PROVE  /\ p \in stored' /\ recon'[v].prices[p] \in Price
               /\ Explains(promotions', now', past'[p], p, recon'[v].prices[p])
    <3>1. PricesOK(recon[v].prices)
      BY DEF ExplainedInv, ReconsOK
    <3>2. CASE v = r
      BY <1>1, <2>1, <3>2, PricesLast
    <3>3. CASE v # r
      BY <1>1, <2>1, <3>1, <3>3, PricesLast
    <3> QED BY <3>2, <3>3
  <2>3. \A v \in Reconcilers : recon'[v].ids \subseteq stored'
    BY <2>1 DEF ExplainedInv, ReconsOK
  <2>4. DOMAIN recon' = Reconcilers
    BY DEF SetRecon, ExplainedInv, ReconsOK
  <2> QED BY <2>2, <2>3, <2>4 DEF ReconsOK, PricesOK
<1>3. WorkersOK' /\ IngestsOK'
  BY <1>1, UntouchedWorkers, UntouchedIngests DEF SetRecon, ExplainedInv
<1>4. CreatorsOK'
  BY <1>1, UntouchedCreators DEF SetRecon, ExplainedInv, CreatorsOK, CreatorOK
<1> QED BY <1>2, <1>3, <1>4 DEF ExplainedInv

(* stored may have grown by the row an upsert inserted.                    *)
LEMMA IngestMoves ==
  ASSUME ExplainedInv, Grows, ProductTypeOK', RowsOK',
         NEW i \in Ingestors, NEW s, s.phase # "idle" => s.id \in stored',
         PricesOK(s.prices), SetIngest(i, s),
         \A c \in Creators : creating[c].phase = "write" => creating[c].id \notin stored'
  PROVE  ExplainedInv'
<1>1. stored \subseteq Products
  BY DEF ExplainedInv, ProductTypeOK
<1>2. IngestsOK'
  <2>1. \A v \in Ingestors : ingest'[v] = IF v = i THEN s ELSE ingest[v]
    BY DEF SetIngest, ExplainedInv, IngestsOK
  <2>2. ASSUME NEW v \in Ingestors, NEW p \in DOMAIN ingest'[v].prices
        PROVE  /\ p \in stored' /\ ingest'[v].prices[p] \in Price
               /\ Explains(promotions', now', past'[p], p, ingest'[v].prices[p])
    <3>1. PricesOK(ingest[v].prices)
      BY DEF ExplainedInv, IngestsOK
    <3>2. CASE v = i
      BY <1>1, <2>1, <3>2, PricesLast
    <3>3. CASE v # i
      BY <1>1, <2>1, <3>1, <3>3, PricesLast
    <3> QED BY <3>2, <3>3
  <2>3. \A v \in Ingestors : ingest'[v].phase # "idle" => ingest'[v].id \in stored'
    BY <2>1 DEF ExplainedInv, IngestsOK, Grows
  <2>4. DOMAIN ingest' = Ingestors
    BY DEF SetIngest, ExplainedInv, IngestsOK
  <2> QED BY <2>2, <2>3, <2>4 DEF IngestsOK, PricesOK
<1>3. WorkersOK' /\ ReconsOK'
  BY <1>1, UntouchedWorkers, UntouchedRecons DEF SetIngest, ExplainedInv
<1>4. CreatorsOK'
  BY <1>1, UntouchedCreators DEF SetIngest, ExplainedInv
<1> QED BY <1>2, <1>3, <1>4 DEF ExplainedInv

LEMMA CreatorMoves ==
  ASSUME ExplainedInv, Grows, ProductTypeOK', RowsOK',
         UNCHANGED <<promotions, now, worker, recon, ingest>>, CreatorsOK'
  PROVE  ExplainedInv'
<1>1. stored \subseteq Products
  BY DEF ExplainedInv, ProductTypeOK
<1> QED BY <1>1, UntouchedWorkers, UntouchedRecons, UntouchedIngests DEF ExplainedInv
-------------------------------------------------------------------------------
LEMMA InitExplained == Init => ExplainedInv
<1> SUFFICES ASSUME Init PROVE ExplainedInv
  OBVIOUS
<1>1. PromoTypeOK
  BY PromoInitInv DEF Init, PromoInv
<1>2. (CHOOSE c \in Categories : TRUE) \in Categories
  BY CategoriesAssumption
<1>3. ProductTypeOK
  <2>1. \A p \in DOMAIN Catalogue : Catalogue[p] \in Listing
    BY CatalogueAssumption DEF Listing
  <2>2. stored \subseteq Products
    BY CatalogueAssumption DEF Init
  <2>3. row \in [Products -> Row]
    BY <1>2, <2>1 DEF Init, Row, Listing
  <2>4. past \in [Products -> SUBSET Listing]
    BY <2>1 DEF Init
  <2> QED BY <1>1, <2>2, <2>3, <2>4 DEF ProductTypeOK
<1>4. RowsOK
  <2> SUFFICES ASSUME NEW p \in stored
               PROVE  /\ [base |-> row[p].base, category |-> row[p].category] \in past[p]
                      /\ Explains(promotions, now, past[p], p, PriceOf(row[p]))
    BY DEF RowsOK
  <2>1. p \in DOMAIN Catalogue /\ p \in Products /\ Catalogue[p] \in [base : Nat, category : Categories]
    BY CatalogueAssumption DEF Init
  <2>2. row[p] = [base |-> Catalogue[p].base, category |-> Catalogue[p].category,
                  effective |-> Catalogue[p].base, active |-> NoPromotion]
    BY <2>1 DEF Init
  <2>3. past[p] = {Catalogue[p]}
    BY <2>1 DEF Init
  <2>4. Catalogue[p] = [base |-> Catalogue[p].base, category |-> Catalogue[p].category]
    BY <2>1
  <2> QED BY <2>2, <2>3, <2>4 DEF Explains, PriceOf
<1>5. WorkersOK
  BY NoPricesOK DEF Init, WorkersOK, IdleWorker
<1>6. ReconsOK
  BY NoPricesOK DEF Init, ReconsOK, IdleReconAt
<1>7. IngestsOK
  BY NoPricesOK DEF Init, IngestsOK, IdleIngest
<1>8. CreatorsOK
  BY DEF Init, CreatorsOK, CreatorOK, IdleCreator
<1> QED BY <1>3, <1>4, <1>5, <1>6, <1>7, <1>8 DEF ExplainedInv

LEMMA WorkerKeepsInv ==
  ASSUME ExplainedInv, NEW w \in Workers,
         WorkerStep(w) \/ FailJob(w) \/ CrashWorker(w)
  PROVE  ExplainedInv'
<1>1. ASSUME NEW j, StartJob(w, j)
      PROVE  ExplainedInv'
  <2>1. JobIds(j) \subseteq stored
    BY DEF JobIds
  <2>2. PricesOK(Snapshot(JobIds(j)))
    BY <2>1, SnapshotOK DEF ExplainedInv
  <2>3. UNCHANGED <<promotions, now, productVars>>
    BY <1>1 DEF StartJob
  <2>4. ProductTypeOK' /\ RowsOK'
    BY <2>3, QuietStep, PromotionStepGrows DEF productVars, ExplainedInv
  <2> DEFINE s == [phase |-> "project", job |-> j, prices |-> Snapshot(JobIds(j)), next |-> Null]
  <2>5. s.prices = Snapshot(JobIds(j)) /\ SetWorker(w, s)
    BY <1>1 DEF StartJob
  <2> HIDE DEF s
  <2> QED BY <2>2, <2>3, <2>4, <2>5, WorkerMoves DEF productVars
<1>2. CASE CommitBatch(w)
  <2> DEFINE ids == LockedBatch(w)
             prices == worker[w].prices
  <2>1. UNCHANGED <<promotions, now, stored, past>> /\ Write(prices, ids)
    BY <1>2 DEF CommitBatch
  <2>2. ids \subseteq DOMAIN prices
    BY DEF LockedBatch, FirstOf
  <2>3. PricesOK(prices)
    BY DEF ExplainedInv, WorkersOK
  <2>4. Grows /\ PromoTypeOK'
    BY <2>1, PromotionStepGrows DEF ExplainedInv
  <2>5. RowsOK' /\ row' \in [Products -> Row]
    BY <2>1, <2>2, <2>3, <2>4, WriteKeepsRows DEF ExplainedInv
  <2>6. ProductTypeOK'
    BY <2>1, <2>4, <2>5 DEF ProductTypeOK, ExplainedInv
  <2>7. PICK s : s.prices = <<>> /\ SetWorker(w, s)
    BY <1>2 DEF CommitBatch
  <2> QED BY <2>1, <2>5, <2>6, <2>7, NoPricesOK, WorkerMoves
<1>3. CASE EnqueueNext(w) \/ CompleteJob(w) \/ FailJob(w) \/ CrashWorker(w)
  <2>1. UNCHANGED <<promotions, now, productVars>>
    BY <1>3 DEF EnqueueNext, CompleteJob, FailJob, CrashWorker
  <2>2. ProductTypeOK' /\ RowsOK'
    BY <2>1, QuietStep, PromotionStepGrows DEF productVars, ExplainedInv
  <2>3. PICK s : s.prices = <<>> /\ SetWorker(w, s)
    BY <1>3 DEF EnqueueNext, CompleteJob, FailJob, CrashWorker, IdleWorker
  <2> QED BY <2>1, <2>2, <2>3, NoPricesOK, WorkerMoves DEF productVars
<1> QED BY <1>1, <1>2, <1>3 DEF WorkerStep

LEMMA ReconcilerKeepsInv ==
  ASSUME ExplainedInv, NEW r \in Reconcilers, ReconcilerStep(r) \/ SweepFails(r)
  PROVE  ExplainedInv'
<1>1. CASE Sweep(r) \/ SweepFails(r)
  <2>1. UNCHANGED <<promotions, now, productVars>>
    BY <1>1 DEF Sweep, SweepFails
  <2>2. ProductTypeOK' /\ RowsOK'
    BY <2>1, QuietStep, PromotionStepGrows DEF productVars, ExplainedInv
  <2>3. PICK s : s.ids \subseteq stored /\ s.prices = <<>> /\ SetRecon(r, s)
    BY <1>1 DEF Sweep, SweepFails, IdleReconAt, StaleInWindow, FirstOf
  <2> QED BY <2>1, <2>2, <2>3, NoPricesOK, ReconMoves DEF productVars
<1>2. CASE StartRepair(r)
  <2>1. UNCHANGED <<promotions, now, productVars>>
    BY <1>2 DEF StartRepair
  <2>2. ProductTypeOK' /\ RowsOK'
    BY <2>1, QuietStep, PromotionStepGrows DEF productVars, ExplainedInv
  <2>3. PricesOK(Snapshot(recon[r].ids))
    BY SnapshotOK DEF ExplainedInv, ReconsOK
  <2>4. PICK s : s.ids = {} /\ s.prices = Snapshot(recon[r].ids) /\ SetRecon(r, s)
    BY <1>2 DEF StartRepair
  <2> QED BY <2>1, <2>2, <2>3, <2>4, ReconMoves DEF productVars
<1>3. CASE CommitRepair(r)
  <2> DEFINE prices == recon[r].prices
  <2>1. UNCHANGED <<promotions, now, stored, past>> /\ Write(prices, DOMAIN prices)
    BY <1>3 DEF CommitRepair
  <2>2. PricesOK(prices)
    BY DEF ExplainedInv, ReconsOK
  <2>3. Grows /\ PromoTypeOK'
    BY <2>1, PromotionStepGrows DEF ExplainedInv
  <2>4. RowsOK' /\ row' \in [Products -> Row]
    BY <2>1, <2>2, <2>3, WriteKeepsRows DEF ExplainedInv
  <2>5. ProductTypeOK'
    BY <2>1, <2>3, <2>4 DEF ProductTypeOK, ExplainedInv
  <2>6. PICK s : s.ids = {} /\ s.prices = <<>> /\ SetRecon(r, s)
    BY <1>3 DEF CommitRepair, IdleReconAt
  <2> QED BY <2>1, <2>4, <2>5, <2>6, NoPricesOK, ReconMoves
<1> QED BY <1>1, <1>2, <1>3 DEF ReconcilerStep

LEMMA UpsertKeepsInv ==
  ASSUME ExplainedInv, NEW i \in Ingestors, NEW p \in Products, NEW l \in Listings, Upsert(i, p, l)
  PROVE  ExplainedInv'
<1>1. promotions' = promotions /\ now' = now /\ stored' = stored \cup {p}
  BY DEF Upsert
<1>2. l \in Listing
  BY ListingsAssumption DEF Listing
<1>3. past' = [past EXCEPT ![p] = @ \cup {l}] /\ past \in [Products -> SUBSET Listing]
  BY DEF Upsert, ExplainedInv, ProductTypeOK
<1>4. Grows
  BY <1>1, <1>3 DEF Grows, PromotionsFrozen, ExplainedInv, ProductTypeOK, PromoTypeOK
<1> DEFINE new == IF p \in stored
                  THEN [row[p] EXCEPT !.base = l.base, !.category = l.category]
                  ELSE [base |-> l.base, category |-> l.category,
                        effective |-> l.base, active |-> NoPromotion]
<1>5. row' = [row EXCEPT ![p] = new] /\ row \in [Products -> Row]
  BY DEF Upsert, ExplainedInv, ProductTypeOK
<1>6. new \in Row /\ new.base = l.base /\ new.category = l.category
  BY <1>2, <1>5 DEF Row, Listing
<1>7. IF p \in stored THEN PriceOf(new) = PriceOf(row[p])
                      ELSE PriceOf(new) = [effective |-> l.base, active |-> NoPromotion]
  BY <1>5 DEF Row, PriceOf
<1> HIDE DEF new
<1>8. row'[p] = new /\ \A q \in Products \ {p} : row'[q] = row[q]
  BY <1>5
<1>9. ProductTypeOK'
  BY <1>1, <1>2, <1>3, <1>5, <1>6 DEF ProductTypeOK, ExplainedInv, PromoTypeOK
<1>10. RowsOK'
  <2> SUFFICES ASSUME NEW q \in stored'
               PROVE  /\ [base |-> row'[q].base, category |-> row'[q].category] \in past'[q]
                      /\ Explains(promotions', now', past'[q], q, PriceOf(row'[q]))
    BY DEF RowsOK
  <2>1. CASE q # p
    <3>1. q \in stored /\ row'[q] = row[q]
      BY <1>1, <1>8, <2>1 DEF ExplainedInv, ProductTypeOK
    <3> QED BY <1>4, <3>1, UntouchedRow DEF ExplainedInv
  <2>2. CASE q = p
    <3>1. l \in past'[p]
      BY <1>3
    <3>2. [base |-> row'[q].base, category |-> row'[q].category] = l
      BY <1>2, <1>6, <1>8, <2>2 DEF Listing
    <3>3. Explains(promotions', now', past'[q], q, PriceOf(row'[q]))
      <4>1. CASE p \in stored
        BY <1>4, <1>7, <1>8, <2>2, <4>1, UntouchedRow DEF ExplainedInv
      <4>2. CASE p \notin stored
        BY <1>7, <1>8, <2>2, <3>1, <4>2 DEF Explains
      <4> QED BY <4>1, <4>2
    <3> QED BY <2>2, <3>1, <3>2, <3>3
  <2> QED BY <2>1, <2>2
<1>11. PICK s : s.prices = <<>> /\ s.id = p /\ SetIngest(i, s)
  BY DEF Upsert
<1>12. \A c \in Creators : creating[c].phase = "write" => creating[c].id \notin stored'
  BY <1>1 DEF Upsert, ExplainedInv, CreatorsOK, CreatorOK
<1> QED BY <1>1, <1>4, <1>9, <1>10, <1>11, <1>12, NoPricesOK, IngestMoves

LEMMA ReprojectKeepsInv ==
  ASSUME ExplainedInv, NEW i \in Ingestors, StartReproject(i) \/ CommitReproject(i) \/ IngestCrash(i)
  PROVE  ExplainedInv'
<1>1. UNCHANGED <<promotions, now, stored, past>>
  BY DEF StartReproject, CommitReproject, IngestCrash, productVars
<1>2. Grows /\ PromoTypeOK'
  BY <1>1, PromotionStepGrows DEF ExplainedInv
<1>3. \A c \in Creators : creating[c].phase = "write" => creating[c].id \notin stored'
  BY <1>1 DEF ExplainedInv, CreatorsOK, CreatorOK
<1>4. CASE StartReproject(i)
  <2>1. ProductTypeOK' /\ RowsOK'
    BY <1>2, <1>4, QuietStep DEF StartReproject
  <2>2. {ingest[i].id} \subseteq stored
    BY <1>4 DEF StartReproject, ExplainedInv, IngestsOK
  <2>3. PricesOK(Snapshot({ingest[i].id}))
    BY <2>2, SnapshotOK DEF ExplainedInv
  <2>4. PICK s : s.id = ingest[i].id /\ s.prices = Snapshot({ingest[i].id}) /\ SetIngest(i, s)
    BY <1>4 DEF StartReproject
  <2> QED BY <1>1, <1>2, <1>3, <2>1, <2>2, <2>3, <2>4, IngestMoves
<1>5. CASE CommitReproject(i)
  <2> DEFINE prices == ingest[i].prices
  <2>1. PricesOK(prices) /\ Write(prices, DOMAIN prices)
    BY <1>5 DEF CommitReproject, ExplainedInv, IngestsOK
  <2>2. RowsOK' /\ row' \in [Products -> Row]
    BY <1>1, <1>2, <2>1, WriteKeepsRows DEF ExplainedInv
  <2>3. ProductTypeOK'
    BY <1>1, <1>2, <2>2 DEF ProductTypeOK, ExplainedInv
  <2>4. PICK s : s.phase = "idle" /\ s.prices = <<>> /\ SetIngest(i, s)
    BY <1>5 DEF CommitReproject, IdleIngest
  <2> QED BY <1>2, <1>3, <2>2, <2>3, <2>4, NoPricesOK, IngestMoves
<1>6. CASE IngestCrash(i)
  <2>1. ProductTypeOK' /\ RowsOK'
    BY <1>2, <1>6, QuietStep DEF IngestCrash
  <2>2. PICK s : s.phase = "idle" /\ s.prices = <<>> /\ SetIngest(i, s)
    BY <1>6 DEF IngestCrash, IdleIngest
  <2> QED BY <1>2, <1>3, <2>1, <2>2, NoPricesOK, IngestMoves
<1> QED BY <1>4, <1>5, <1>6

LEMMA CreatorKeepsInv ==
  ASSUME ExplainedInv, NEW c \in Creators,
         (\E p \in Products, l \in Listings : BeginCreate(c, p, l)) \/ CommitCreate(c)
  PROVE  ExplainedInv'
<1>1. ASSUME NEW p \in Products, NEW l \in Listings, BeginCreate(c, p, l)
      PROVE  ExplainedInv'
  <2>1. /\ UNCHANGED <<promotions, now, stored, row, worker, recon, ingest>>
        /\ past' = [past EXCEPT ![p] = @ \cup {l}] /\ past \in [Products -> SUBSET Listing]
        /\ p \notin stored
    BY <1>1 DEF BeginCreate, SetCreator, ExplainedInv, ProductTypeOK
  <2>2. l \in Listing
    BY ListingsAssumption DEF Listing
  <2>3. Grows
    BY <2>1 DEF Grows, PromotionsFrozen, ExplainedInv, ProductTypeOK, PromoTypeOK
  <2>4. ProductTypeOK'
    BY <2>1, <2>2 DEF ProductTypeOK, ExplainedInv, PromoTypeOK
  <2>5. RowsOK'
    BY <2>1, <2>3, UntouchedRows DEF ExplainedInv
  <2>6. l \in past'[p]
    BY <2>1
  <2>7. Projected(p, l) \in Price /\ Explains(promotions', now', past'[p], p, Projected(p, l))
    <3>1. Projected(p, l)' = Projected(p, l)
      BY <2>1 DEF Projected
    <3>2. [base |-> l.base, category |-> l.category] = l /\ l.base \in Nat
      BY <2>2 DEF Listing
    <3> DEFINE k == WinningPromotion(promotions, p, l.category, now)
    <3>3. k = NoPromotion \/ k \in Candidates(promotions, p, l.category, now)
      BY DEF WinningPromotion
    <3>4. Projected(p, l) = [effective |-> PriceUnder(promotions, l.base, k), active |-> k]
      BY DEF Projected
    <3> HIDE DEF k
    <3>5. CASE k = NoPromotion
      BY <2>6, <3>2, <3>4, <3>5 DEF PriceUnder, Explains, Price
    <3>6. CASE k # NoPromotion
      <4>1. /\ k \in PromotionIds /\ promotions[k].status = "published"
            /\ promotions[k].startsAt <= now /\ Targets(promotions[k], p, l.category)
        BY <3>3, <3>6 DEF Candidates, InWindow, ExplainedInv, ProductTypeOK, PromoTypeOK
      <4>2. PriceUnder(promotions, l.base, k)
              = ApplyDiscount(l.base, promotions[k].discountType, promotions[k].discountValue)
        BY <3>6 DEF PriceUnder
      <4>3. promotions[k].discountValue \in Nat
        BY <4>1 DEF ExplainedInv, ProductTypeOK, PromoTypeOK, PromotionRow
      <4>4. PriceUnder(promotions, l.base, k) \in Nat
        BY <3>2, <4>2, <4>3, DiscountedIsNat
      <4> QED BY <2>1, <2>6, <3>4, <3>6, <4>1, <4>2, <4>4 DEF Explains, Price
    <3> QED BY <3>5, <3>6
  <2> DEFINE s == [phase |-> "write", id |-> p, listing |-> l, price |-> Projected(p, l)]
  <2>8. s.phase = "write" /\ s.id = p /\ s.listing = l /\ s.price = Projected(p, l)
    OBVIOUS
  <2>9. /\ DOMAIN creating' = Creators
        /\ \A d \in Creators : creating'[d] = IF d = c THEN s ELSE creating[d]
    BY <1>1 DEF BeginCreate, SetCreator, ExplainedInv, CreatorsOK
  <2> HIDE DEF s
  <2>10. CreatorsOK'
    <3>1. ASSUME NEW d \in Creators, creating'[d].phase = "write"
          PROVE  /\ creating'[d].id \in Products \ stored'
                 /\ creating'[d].listing \in past'[creating'[d].id]
                 /\ creating'[d].price \in Price
                 /\ Explains(promotions', now', past'[creating'[d].id], creating'[d].id, creating'[d].price)
      <4>1. CASE d = c
        BY <2>1, <2>6, <2>7, <2>8, <2>9, <4>1
      <4>2. CASE d # c
        <5>1. /\ creating'[d] = creating[d] /\ CreatorOK(creating[d])
          BY <2>9, <4>2 DEF ExplainedInv, CreatorsOK
        <5>2. /\ creating[d].id \in Products \ stored
              /\ creating[d].listing \in past[creating[d].id]
              /\ creating[d].price \in Price
              /\ Explains(promotions, now, past[creating[d].id], creating[d].id, creating[d].price)
          BY <3>1, <5>1 DEF CreatorOK
        <5>3. Explains(promotions', now', past'[creating[d].id], creating[d].id, creating[d].price)
          BY <2>3, <5>2, ExplanationsLast
        <5> QED BY <2>1, <2>3, <5>1, <5>2, <5>3 DEF Grows
      <4> QED BY <4>1, <4>2
    <3>2. ASSUME NEW d \in Creators, NEW e \in Creators,
                 creating'[d].phase = "write", creating'[e].phase = "write",
                 creating'[d].id = creating'[e].id
          PROVE  d = e
      BY <1>1, <2>8, <2>9, <3>2 DEF BeginCreate, ExplainedInv, CreatorsOK
    <3> QED BY <2>9, <3>1, <3>2 DEF CreatorsOK, CreatorOK
  <2> QED BY <2>1, <2>3, <2>4, <2>5, <2>10, CreatorMoves
<1>2. CASE CommitCreate(c)
  <2> DEFINE new == creating[c]
             made == [base |-> new.listing.base, category |-> new.listing.category,
                      effective |-> new.price.effective, active |-> new.price.active]
  <2>1. /\ UNCHANGED <<promotions, now, past, worker, recon, ingest>>
        /\ stored' = stored \cup {new.id}
        /\ row' = [row EXCEPT ![new.id] = made] /\ row \in [Products -> Row]
    BY <1>2 DEF CommitCreate, SetCreator, ExplainedInv, ProductTypeOK
  <2>2. /\ new.id \in Products \ stored /\ new.listing \in past[new.id]
        /\ new.price \in Price
        /\ Explains(promotions, now, past[new.id], new.id, new.price)
    BY <1>2 DEF CommitCreate, ExplainedInv, CreatorsOK, CreatorOK
  <2>3. new.listing \in Listing
    BY <2>2 DEF ExplainedInv, ProductTypeOK
  <2>4. /\ made \in Row /\ PriceOf(made) = new.price
        /\ [base |-> made.base, category |-> made.category] = new.listing
    BY <2>2, <2>3 DEF Row, Price, PriceOf, Listing
  <2>5. Grows
    BY <2>1 DEF Grows, PromotionsFrozen, ExplainedInv, ProductTypeOK, PromoTypeOK
  <2> HIDE DEF made
  <2>6. ProductTypeOK'
    BY <2>1, <2>2, <2>4 DEF ProductTypeOK, ExplainedInv, PromoTypeOK
  <2>7. RowsOK'
    <3> SUFFICES ASSUME NEW q \in stored'
                 PROVE  /\ [base |-> row'[q].base, category |-> row'[q].category] \in past'[q]
                        /\ Explains(promotions', now', past'[q], q, PriceOf(row'[q]))
      BY DEF RowsOK
    <3>1. CASE q = new.id
      <4>1. row'[q] = made
        BY <2>1, <2>2, <3>1
      <4>2. past'[q] = past[new.id] /\ promotions' = promotions /\ now' = now
        BY <2>1, <3>1
      <4> QED BY <2>2, <2>4, <3>1, <4>1, <4>2
    <3>2. CASE q # new.id
      <4>1. q \in stored /\ row'[q] = row[q]
        BY <2>1, <3>2 DEF ExplainedInv, ProductTypeOK
      <4> QED BY <2>5, <4>1, UntouchedRow DEF ExplainedInv
    <3> QED BY <3>1, <3>2
  <2>8. /\ DOMAIN creating' = Creators
        /\ \A d \in Creators : creating'[d] = IF d = c THEN IdleCreator ELSE creating[d]
    BY <1>2 DEF CommitCreate, SetCreator, ExplainedInv, CreatorsOK
  <2>9. CreatorsOK'
    <3>1. \A d \in Creators : creating'[d].phase = "write" => d # c /\ creating'[d] = creating[d]
      BY <2>8 DEF IdleCreator
    <3>2. \A d \in Creators : creating'[d].phase = "write" =>
            /\ creating[d].id \in Products \ stored' /\ creating[d].id # new.id
      BY <1>2, <2>1, <3>1 DEF ExplainedInv, CreatorsOK, CreatorOK, CommitCreate
    <3>3. \A d \in Creators : creating'[d].phase = "write" =>
            /\ creating[d].listing \in past'[creating[d].id]
            /\ creating[d].price \in Price
            /\ Explains(promotions', now', past'[creating[d].id], creating[d].id, creating[d].price)
      BY <2>1, <3>1 DEF ExplainedInv, CreatorsOK, CreatorOK
    <3>4. \A d, e \in Creators :
            (creating'[d].phase = "write" /\ creating'[e].phase = "write"
               /\ creating'[d].id = creating'[e].id) => d = e
      BY <3>1 DEF ExplainedInv, CreatorsOK
    <3> QED BY <2>8, <3>1, <3>2, <3>3, <3>4 DEF CreatorsOK, CreatorOK
  <2> QED BY <2>1, <2>5, <2>6, <2>7, <2>9, CreatorMoves
<1> QED BY <1>1, <1>2

LEMMA NextExplained == ExplainedInv /\ [Next]_vars => ExplainedInv'
<1> SUFFICES ASSUME ExplainedInv, [Next]_vars PROVE ExplainedInv'
  OBVIOUS
<1>1. CASE Draft \/ ClockTick
  <2>1. UNCHANGED <<productVars, procVars>>
    BY <1>1 DEF Draft, ClockTick
  <2>2. Grows /\ PromoTypeOK'
    BY <1>1, <2>1, PromotionStepGrows DEF Draft, ClockTick, ExplainedInv, productVars
  <2> QED BY <2>1, <2>2, PromotionStep
<1>2. ASSUME NEW k \in PromotionIds, NEW t \in Target, Publish(k, t)
      PROVE  ExplainedInv'
  <2>1. UNCHANGED <<productVars, procVars>> /\ AssignAndPublish(k, t[1], t[2])
    BY <1>2 DEF Publish
  <2>2. Grows /\ PromoTypeOK'
    BY <2>1, PromotionStepGrows DEF ExplainedInv, productVars
  <2> QED BY <2>1, <2>2, PromotionStep
<1>3. ASSUME NEW k \in PromotionIds, Cancel(k)
      PROVE  ExplainedInv'
  <2>1. UNCHANGED <<productVars, procVars>> /\ CancelPromotion(k)
    BY <1>3 DEF Cancel
  <2>2. Grows /\ PromoTypeOK'
    BY <2>1, PromotionStepGrows DEF ExplainedInv, productVars
  <2> QED BY <2>1, <2>2, PromotionStep
<1>4. CASE \/ ScheduleEdges
           \/ \E h \in pending : EnqueueProjection(h) \/ ApiCrash(h)
           \/ UNCHANGED vars
  <2>1. UNCHANGED <<promotions, now, productVars, procVars>>
    BY <1>4 DEF ScheduleEdges, EnqueueProjection, ApiCrash, vars, productVars, procVars
  <2>2. Grows /\ PromoTypeOK'
    BY <2>1, PromotionStepGrows DEF ExplainedInv, productVars
  <2> QED BY <2>1, <2>2, PromotionStep
<1>5. CASE \E w \in Workers : WorkerStep(w) \/ FailJob(w) \/ CrashWorker(w)
  BY <1>5, WorkerKeepsInv
<1>6. CASE \E r \in Reconcilers : ReconcilerStep(r) \/ SweepFails(r)
  BY <1>6, ReconcilerKeepsInv
<1>7. CASE \E i \in Ingestors : \/ \E p \in Products, l \in Listings : Upsert(i, p, l)
                                \/ StartReproject(i) \/ CommitReproject(i) \/ IngestCrash(i)
  BY <1>7, UpsertKeepsInv, ReprojectKeepsInv
<1>8. CASE \E c \in Creators : \/ \E p \in Products, l \in Listings : BeginCreate(c, p, l)
                               \/ CommitCreate(c)
  BY <1>8, CreatorKeepsInv
<1> QED BY <1>1, <1>2, <1>3, <1>4, <1>5, <1>6, <1>7, <1>8 DEF Next, ProcessStep

(* The columns and the promotions table stay well typed.                   *)
THEOREM ProductsWellTyped == Spec => []ProductTypeOK
<1>1. ExplainedInv => ProductTypeOK
  BY DEF ExplainedInv
<1> QED BY InitExplained, NextExplained, <1>1, PTL DEF Spec

(* No interleaving of projections, upserts, repairs, retries and crashes   *)
(* shows a customer a price that no listing and no opened, published       *)
(* promotion of that product ever justified (priceProjection.ts).          *)
THEOREM PricesAreExplained == Spec => []EveryPriceExplained
<1>1. ExplainedInv => EveryPriceExplained
  BY DEF ExplainedInv, RowsOK, EveryPriceExplained
<1> QED BY InitExplained, NextExplained, <1>1, PTL DEF Spec
-------------------------------------------------------------------------------
LEMMA AddedJobs ==
  ASSUME NEW B, NEW S
  PROVE  DOMAIN (B (+) SetToBag(S)) = DOMAIN B \cup S
  BY DEF (+), SetToBag

LEMMA RemovedJobs ==
  ASSUME NEW B, NEW S
  PROVE  DOMAIN (B (-) SetToBag(S)) \subseteq DOMAIN B
  BY DEF (-), SetToBag

(* A finite set of ids that is not empty has a last one.                   *)
LEMMA LastIsOfThem ==
  ASSUME NEW ids \in SUBSET Products, IsFiniteSet(ids), ids # {}
  PROVE  LastOf(ids) \in ids /\ \A q \in ids : q <= LastOf(ids)
<1> DEFINE above(p) == {q \in ids : q > p}
           ranks == {Cardinality(above(p)) : p \in ids}
<1>1. \A p \in ids : p \in Nat /\ IsFiniteSet(above(p)) /\ Cardinality(above(p)) \in Nat
  <2> SUFFICES ASSUME NEW p \in ids PROVE p \in Nat /\ IsFiniteSet(above(p)) /\ Cardinality(above(p)) \in Nat
    OBVIOUS
  <2>1. IsFiniteSet(above(p))
    BY FS_Subset
  <2>2. p \in Nat
    BY ProductsAssumption
  <2>3. Cardinality(above(p)) \in Nat
    BY <2>1, FS_CardinalityType
  <2> QED BY <2>1, <2>2, <2>3
<1>2. PICK p \in ids : \A q \in ids : Cardinality(above(p)) <= Cardinality(above(q))
  <2>1. ranks \subseteq Nat /\ ranks # {}
    BY <1>1
  <2> HIDE DEF above
  <2>2. PICK m \in ranks : \A n \in ranks : m <= n
    BY <2>1, HasLeast
  <2> QED BY <2>2
<1>3. ASSUME NEW q \in ids, ~(q <= p) PROVE FALSE
  <2>1. q > p /\ q \in Nat /\ p \in Nat
    <3>1. q \in Nat /\ p \in Nat
      BY <1>1
    <3> QED BY <3>1, <1>3
  <2>2. above(q) \subseteq above(p)
    <3> SUFFICES ASSUME NEW x \in above(q) PROVE x \in ids /\ x > p
      OBVIOUS
    <3>1. x \in ids /\ x > q /\ x \in Nat
      BY <1>1
    <3> QED BY <2>1, <3>1
  <2>3. q \in above(p) /\ q \notin above(q)
    BY <2>1
  <2> HIDE DEF above
  <2>4. Cardinality(above(q)) < Cardinality(above(p))
    <3> DEFINE A == above(p)  C == above(q)
    <3>1. C # A /\ C \in SUBSET A
      BY <2>2, <2>3
    <3>2. IsFiniteSet(A) /\ Cardinality(A) \in Nat /\ Cardinality(C) \in Nat
      BY <1>1
    <3> HIDE DEF A, C
    <3>3. Cardinality(C) <= Cardinality(A) /\ Cardinality(C) # Cardinality(A)
      BY <3>1, <3>2, FS_Subset
    <3> QED BY <3>2, <3>3 DEF A, C
  <2> QED BY <1>1, <1>2, <2>4
<1> QED BY <1>3 DEF LastOf

LEMMA NextCursorIsProduct ==
  ASSUME NEW ids \in SUBSET Products, IsFiniteSet(ids), NEW n \in Nat \ {0}
  PROVE  NextCursor(ids, n) \in {Null} \cup Products
<1>1. CASE Cardinality(ids) = n
  <2>1. ids # {}
    BY <1>1, FS_EmptySet
  <2> QED BY <1>1, <2>1, LastIsOfThem DEF NextCursor
<1>2. CASE Cardinality(ids) # n
  BY <1>2 DEF NextCursor
<1> QED BY <1>1, <1>2
-------------------------------------------------------------------------------
(* The parts of QueueTypeOK, one per variable a step may change.           *)
WorkerTyped(s) ==
  /\ s.phase \in {"idle", "project", "continue", "complete"}
  /\ s.phase # "idle" => s.job \in Job
  /\ s.next \in {Null} \cup Products
  /\ s.phase = "continue" => s.next # Null
QueueTyped == pending \subseteq Handoff /\ scheduled \subseteq Handoff /\ DOMAIN jobs \subseteq Job
WorkersTyped == \A w \in Workers : WorkerTyped(worker[w])
ReconsTyped ==
  \A r \in Reconcilers : /\ recon[r].phase \in {"idle", "repair", "write"}
                         /\ recon[r].cursor \in {Null} \cup Products
IngestsTyped == \A i \in Ingestors : ingest[i].phase \in {"idle", "upserted", "write"}

(* A cursor is the last id of a full batch: ids are finite in number.      *)
TypeInv == ExplainedInv /\ QueueTypeOK /\ IsFiniteSet(stored)

LEMMA QueueTypeParts == QueueTypeOK <=> QueueTyped /\ WorkersTyped /\ ReconsTyped /\ IngestsTyped
  BY DEF QueueTypeOK, QueueTyped, WorkersTyped, WorkerTyped, ReconsTyped, IngestsTyped

LEMMA EnqueuedTyped ==
  ASSUME QueueTyped, NEW js, js \subseteq Job, Enqueue(js)
  PROVE  DOMAIN jobs' \subseteq Job
  BY AddedJobs DEF Enqueue, QueueTyped

LEMMA WorkerTypedMove ==
  ASSUME WorkersTyped, WorkersOK, NEW w \in Workers, NEW s, WorkerTyped(s), SetWorker(w, s)
  PROVE  WorkersTyped'
<1>1. \A v \in Workers : worker'[v] = IF v = w THEN s ELSE worker[v]
  BY DEF SetWorker, WorkersOK
<1>2. ASSUME NEW v \in Workers PROVE WorkerTyped(worker'[v])
  BY <1>1 DEF WorkersTyped
<1> QED BY <1>2 DEF WorkersTyped, WorkerTyped

LEMMA ReconTypedMove ==
  ASSUME ReconsTyped, ReconsOK, NEW r \in Reconcilers, NEW s, SetRecon(r, s),
         s.phase \in {"idle", "repair", "write"}, s.cursor \in {Null} \cup Products
  PROVE  ReconsTyped'
<1>1. \A v \in Reconcilers : recon'[v] = IF v = r THEN s ELSE recon[v]
  BY DEF SetRecon, ReconsOK
<1> QED BY <1>1 DEF ReconsTyped

LEMMA IngestTypedMove ==
  ASSUME IngestsTyped, IngestsOK, NEW i \in Ingestors, NEW s, SetIngest(i, s),
         s.phase \in {"idle", "upserted", "write"}
  PROVE  IngestsTyped'
<1>1. \A v \in Ingestors : ingest'[v] = IF v = i THEN s ELSE ingest[v]
  BY DEF SetIngest, IngestsOK
<1> QED BY <1>1 DEF IngestsTyped

LEMMA IdleTyped == WorkerTyped(IdleWorker)
  BY DEF WorkerTyped, IdleWorker

LEMMA RetryTyped ==
  ASSUME NEW j \in Job
  PROVE  Retry(j) \subseteq Job
<1>1. CASE j.tries > 1
  <2>1. j.tries \in 1..MaxAttempts /\ j.tries - 1 \in 1..MaxAttempts
    BY <1>1, SizesAssumption DEF Job
  <2> QED BY <1>1, <2>1 DEF Retry, Job
<1>2. CASE ~(j.tries > 1)
  BY <1>2 DEF Retry
<1> QED BY <1>1, <1>2

LEMMA FirstTriesTyped ==
  ASSUME NEW h \in Handoff, NEW n \in 1..MaxAttempts
  PROVE  [promo |-> h.promo, reason |-> h.reason, cursor |-> Null, tries |-> n] \in Job
  BY DEF Handoff, Job

(* The batch a worker locks is made of committed products.                 *)
LEMMA LockedBatchStored ==
  ASSUME ExplainedInv, IsFiniteSet(stored), NEW w \in Workers
  PROVE  LockedBatch(w) \in SUBSET Products /\ IsFiniteSet(LockedBatch(w))
<1>1. DOMAIN worker[w].prices \subseteq stored /\ stored \subseteq Products
  BY DEF ExplainedInv, WorkersOK, PricesOK, ProductTypeOK
<1>2. LockedBatch(w) \subseteq DOMAIN worker[w].prices
  BY DEF LockedBatch, FirstOf
<1> QED BY <1>1, <1>2, FS_Subset
-------------------------------------------------------------------------------
LEMMA WorkerKeepsTypes ==
  ASSUME TypeInv, NEW w \in Workers, WorkerStep(w) \/ FailJob(w) \/ CrashWorker(w)
  PROVE  QueueTyped' /\ WorkersTyped' /\ UNCHANGED <<recon, ingest>>
<1>0. QueueTyped /\ WorkersTyped /\ WorkersOK /\ 1 \in 1..MaxAttempts /\ WorkerTyped(worker[w])
  BY QueueTypeParts, SizesAssumption DEF TypeInv, ExplainedInv, WorkersTyped
<1>1. ASSUME NEW j \in BagToSet(jobs), StartJob(w, j)
      PROVE  QueueTyped' /\ WorkersTyped' /\ UNCHANGED <<recon, ingest>>
  <2> DEFINE s == [phase |-> "project", job |-> j, prices |-> Snapshot(JobIds(j)), next |-> Null]
  <2>1. DOMAIN jobs' \subseteq DOMAIN jobs
    BY <1>1, RemovedJobs DEF StartJob
  <2>2. QueueTyped'
    BY <1>0, <1>1, <2>1 DEF StartJob, QueueTyped
  <2>3. WorkerTyped(s)
    BY <1>0 DEF WorkerTyped, QueueTyped, BagToSet
  <2>4. SetWorker(w, s)
    BY <1>1 DEF StartJob
  <2> HIDE DEF s
  <2> QED BY <1>0, <2>2, <2>3, <2>4, WorkerTypedMove DEF SetWorker
<1>2. CASE CommitBatch(w)
  <2> DEFINE next == IF OfCategory(worker[w].job) THEN NextCursor(LockedBatch(w), BatchSize) ELSE Null
             s == [phase |-> IF next = Null THEN "complete" ELSE "continue",
                   job |-> worker[w].job, prices |-> <<>>, next |-> next]
  <2>1. next \in {Null} \cup Products
    BY LockedBatchStored, NextCursorIsProduct, SizesAssumption DEF TypeInv
  <2>2. SetWorker(w, s) /\ worker[w].phase = "project"
    BY <1>2 DEF CommitBatch
  <2>3. UNCHANGED queueVars
    BY <1>2 DEF CommitBatch
  <2> HIDE DEF next
  <2>4. WorkerTyped(s)
    BY <1>0, <2>1, <2>2 DEF WorkerTyped
  <2> HIDE DEF s
  <2> QED BY <1>0, <2>2, <2>3, <2>4, WorkerTypedMove DEF SetWorker, QueueTyped, queueVars
<1>3. CASE EnqueueNext(w)
  <2> DEFINE s == [phase |-> "complete", job |-> worker[w].job, prices |-> <<>>,
                   next |-> worker[w].next]
             j == [worker[w].job EXCEPT !.cursor = worker[w].next, !.tries = 1]
  <2>1. SetWorker(w, s) /\ worker[w].phase = "continue" /\ Enqueue({j}) /\ UNCHANGED <<pending, scheduled>>
    BY <1>3 DEF EnqueueNext
  <2>2. j \in Job
    BY <1>0, <2>1 DEF WorkerTyped, Job
  <2>3. WorkerTyped(s)
    BY <1>0, <2>1 DEF WorkerTyped
  <2> HIDE DEF s, j
  <2>4. DOMAIN jobs' \subseteq Job
    BY <1>0, <2>1, <2>2, EnqueuedTyped
  <2> QED BY <1>0, <2>1, <2>3, <2>4, WorkerTypedMove DEF SetWorker, QueueTyped
<1>4. CASE CompleteJob(w)
  <2>1. SetWorker(w, IdleWorker) /\ UNCHANGED queueVars
    BY <1>4 DEF CompleteJob
  <2> QED BY <1>0, <2>1, IdleTyped, WorkerTypedMove DEF SetWorker, QueueTyped, queueVars
<1>5. CASE FailJob(w) \/ CrashWorker(w)
  <2>1. /\ SetWorker(w, IdleWorker) /\ UNCHANGED <<pending, scheduled>>
        /\ worker[w].phase # "idle"
        /\ \E js \in {Retry(worker[w].job), {}, {worker[w].job}} : Enqueue(js)
    BY <1>5 DEF FailJob, CrashWorker
  <2>2. worker[w].job \in Job
    BY <1>0, <2>1 DEF WorkerTyped
  <2>3. DOMAIN jobs' \subseteq Job
    BY <1>0, <2>1, <2>2, RetryTyped, EnqueuedTyped
  <2> QED BY <1>0, <2>1, <2>3, IdleTyped, WorkerTypedMove DEF SetWorker, QueueTyped
<1> QED BY <1>1, <1>2, <1>3, <1>4, <1>5 DEF WorkerStep

LEMMA ReconcilerKeepsTypes ==
  ASSUME TypeInv, NEW r \in Reconcilers, ReconcilerStep(r) \/ SweepFails(r)
  PROVE  ReconsTyped' /\ UNCHANGED <<queueVars, worker, ingest>>
<1>0. ReconsTyped /\ ReconsOK /\ recon[r].cursor \in {Null} \cup Products
  BY QueueTypeParts DEF TypeInv, ExplainedInv, ReconsTyped
<1>1. UNCHANGED queueVars
  BY DEF ReconcilerStep, Sweep, StartRepair, CommitRepair, SweepFails
<1>2. \E s : /\ SetRecon(r, s) /\ s.phase \in {"idle", "repair", "write"}
             /\ s.cursor \in {Null} \cup Products
  <2>1. CASE Sweep(r)
    <3> DEFINE window == FirstOf(ScanWindow, {p \in stored : p > recon[r].cursor})
               ids    == StaleInWindow(window)
               s == [phase |-> IF ids = {} THEN "idle" ELSE "repair",
                     cursor |-> CursorAfter(window, recon[r].cursor), ids |-> ids, prices |-> <<>>]
    <3>1. SetRecon(r, s)
      BY <2>1 DEF Sweep
    <3>2. window \in SUBSET Products /\ IsFiniteSet(window)
      <4>1. window \subseteq stored
        BY DEF FirstOf
      <4> HIDE DEF window
      <4> QED BY <4>1, FS_Subset DEF TypeInv, ExplainedInv, ProductTypeOK
    <3>3. CursorAfter(window, recon[r].cursor) \in {Null} \cup Products
      BY <3>2, NextCursorIsProduct, SizesAssumption DEF CursorAfter
    <3> HIDE DEF window, ids
    <3>4. s.phase \in {"idle", "repair", "write"} /\ s.cursor \in {Null} \cup Products
      BY <3>3
    <3> QED BY <3>1, <3>4
  <2>2. CASE StartRepair(r)
    BY <1>0, <2>2 DEF StartRepair
  <2>3. CASE CommitRepair(r)
    BY <1>0, <2>3 DEF CommitRepair, IdleReconAt
  <2>4. CASE SweepFails(r)
    BY <1>0, <2>4 DEF SweepFails, IdleReconAt
  <2> QED BY <2>1, <2>2, <2>3, <2>4 DEF ReconcilerStep
<1>3. PICK s : /\ SetRecon(r, s) /\ s.phase \in {"idle", "repair", "write"}
               /\ s.cursor \in {Null} \cup Products
  BY <1>2
<1> QED BY <1>0, <1>1, <1>3, ReconTypedMove DEF SetRecon

LEMMA IngestKeepsTypes ==
  ASSUME TypeInv, NEW i \in Ingestors,
         \/ \E p \in Products, l \in Listings : Upsert(i, p, l)
         \/ StartReproject(i) \/ CommitReproject(i) \/ IngestCrash(i)
  PROVE  IngestsTyped' /\ UNCHANGED <<queueVars, worker, recon>> /\ IsFiniteSet(stored')
<1>0. IngestsTyped /\ IngestsOK /\ IsFiniteSet(stored)
  BY QueueTypeParts DEF TypeInv, ExplainedInv
<1>1. UNCHANGED queueVars
  BY DEF Upsert, StartReproject, CommitReproject, IngestCrash, queueVars
<1>2. \E s : SetIngest(i, s) /\ s.phase \in {"idle", "upserted", "write"}
  <2>1. ASSUME NEW p \in Products, NEW l \in Listings, Upsert(i, p, l)
        PROVE  \E s : SetIngest(i, s) /\ s.phase = "upserted"
    <3> DEFINE s == [phase |-> "upserted", id |-> p, prices |-> <<>>]
    <3>1. SetIngest(i, s)
      BY <2>1 DEF Upsert
    <3>2. s.phase = "upserted"
      OBVIOUS
    <3> HIDE DEF s
    <3> QED BY <3>1, <3>2
  <2>2. StartReproject(i) => \E s : SetIngest(i, s) /\ s.phase = "write"
    BY DEF StartReproject
  <2>3. CommitReproject(i) \/ IngestCrash(i) => \E s : SetIngest(i, s) /\ s.phase = "idle"
    BY DEF CommitReproject, IngestCrash, IdleIngest
  <2> QED BY <2>1, <2>2, <2>3
<1>3. IsFiniteSet(stored')
  <2>1. stored' = stored \/ \E p \in Products : stored' = stored \cup {p}
    BY DEF Upsert, StartReproject, CommitReproject, IngestCrash, productVars
  <2> QED BY <1>0, <2>1, FS_AddElement
<1>4. PICK s : SetIngest(i, s) /\ s.phase \in {"idle", "upserted", "write"}
  BY <1>2
<1> QED BY <1>0, <1>1, <1>3, <1>4, IngestTypedMove DEF SetIngest

LEMMA CreatorKeepsTypes ==
  ASSUME TypeInv, NEW c \in Creators,
         (\E p \in Products, l \in Listings : BeginCreate(c, p, l)) \/ CommitCreate(c)
  PROVE  UNCHANGED <<queueVars, worker, recon, ingest>> /\ IsFiniteSet(stored')
<1>1. UNCHANGED <<queueVars, worker, recon, ingest>>
  BY DEF BeginCreate, CommitCreate, SetCreator
<1>2. stored' = stored \/ \E p : stored' = stored \cup {p}
  BY DEF BeginCreate, CommitCreate
<1> QED BY <1>1, <1>2, FS_AddElement DEF TypeInv

LEMMA NextTyped == TypeInv /\ [Next]_vars => TypeInv'
<1> SUFFICES ASSUME TypeInv, [Next]_vars PROVE TypeInv'
  OBVIOUS
<1> USE DEF QueueTyped, WorkersTyped, ReconsTyped, IngestsTyped
<1>0. QueueTyped /\ WorkersTyped /\ ReconsTyped /\ IngestsTyped /\ IsFiniteSet(stored)
  BY QueueTypeParts DEF TypeInv
<1>1. ExplainedInv'
  BY NextExplained DEF TypeInv
<1>2. QueueTyped' /\ WorkersTyped' /\ ReconsTyped' /\ IngestsTyped' /\ IsFiniteSet(stored')
  <2> HIDE DEF QueueTyped, WorkersTyped, ReconsTyped, IngestsTyped
  <2>1. CASE UNCHANGED <<queueVars, procVars, stored>>
    BY <1>0, <2>1 DEF queueVars, procVars, QueueTyped, WorkersTyped, ReconsTyped, IngestsTyped
  <2>2. CASE UNCHANGED <<procVars, stored>> /\ QueueTyped'
    BY <1>0, <2>2 DEF procVars, WorkersTyped, ReconsTyped, IngestsTyped
  <2>3. ASSUME NEW w \in Workers, WorkerStep(w) \/ FailJob(w) \/ CrashWorker(w)
        PROVE  QueueTyped' /\ WorkersTyped' /\ ReconsTyped' /\ IngestsTyped' /\ IsFiniteSet(stored')
    <3>1. stored' = stored
      BY <2>3 DEF WorkerStep, StartJob, CommitBatch, EnqueueNext, CompleteJob, FailJob,
         CrashWorker, productVars
    <3> QED BY <1>0, <2>3, <3>1, WorkerKeepsTypes DEF ReconsTyped, IngestsTyped
  <2>4. ASSUME NEW r \in Reconcilers, ReconcilerStep(r) \/ SweepFails(r)
        PROVE  QueueTyped' /\ WorkersTyped' /\ ReconsTyped' /\ IngestsTyped' /\ IsFiniteSet(stored')
    <3>1. stored' = stored
      BY <2>4 DEF ReconcilerStep, Sweep, StartRepair, CommitRepair, SweepFails, productVars
    <3> QED BY <1>0, <2>4, <3>1, ReconcilerKeepsTypes DEF queueVars, QueueTyped, WorkersTyped, IngestsTyped
  <2>5. ASSUME NEW i \in Ingestors,
               \/ \E p \in Products, l \in Listings : Upsert(i, p, l)
               \/ StartReproject(i) \/ CommitReproject(i) \/ IngestCrash(i)
        PROVE  QueueTyped' /\ WorkersTyped' /\ ReconsTyped' /\ IngestsTyped' /\ IsFiniteSet(stored')
    BY <1>0, <2>5, IngestKeepsTypes DEF queueVars, QueueTyped, WorkersTyped, ReconsTyped
  <2>6. ASSUME NEW c \in Creators,
               (\E p \in Products, l \in Listings : BeginCreate(c, p, l)) \/ CommitCreate(c)
        PROVE  QueueTyped' /\ WorkersTyped' /\ ReconsTyped' /\ IngestsTyped' /\ IsFiniteSet(stored')
    BY <1>0, <2>6, CreatorKeepsTypes DEF queueVars, QueueTyped, WorkersTyped, ReconsTyped, IngestsTyped
  <2>7. CASE Draft \/ ClockTick \/ UNCHANGED vars
    <3>1. UNCHANGED <<queueVars, procVars, stored>>
      BY <2>7 DEF Draft, ClockTick, vars, queueVars, procVars, productVars
    <3> QED BY <2>1, <3>1
  <2>8. CASE ScheduleEdges
    <3> DEFINE new == EdgesAhead \ scheduled
               js == {[promo |-> e.promo, reason |-> e.reason, cursor |-> Null, tries |-> 1] : e \in new}
    <3>1. UNCHANGED <<procVars, stored, pending>> /\ scheduled' = scheduled \cup new /\ Enqueue(js)
      BY <2>8 DEF ScheduleEdges, productVars
    <3>2. new \subseteq Handoff
      BY DEF EdgesAhead, Handoff, Reasons
    <3> HIDE DEF new
    <3>3. js \subseteq Job
      BY <3>2, FirstTriesTyped, SizesAssumption
    <3> HIDE DEF js
    <3>4. DOMAIN jobs' \subseteq Job
      BY <1>0, <3>1, <3>3, EnqueuedTyped
    <3> QED BY <1>0, <2>2, <3>1, <3>2, <3>4 DEF QueueTyped
  <2>9. ASSUME NEW k \in PromotionIds, (\E t \in Target : Publish(k, t)) \/ Cancel(k)
        PROVE  QueueTyped' /\ WorkersTyped' /\ ReconsTyped' /\ IngestsTyped' /\ IsFiniteSet(stored')
    <3>1. UNCHANGED <<procVars, stored, jobs, scheduled>>
      BY <2>9 DEF Publish, Cancel, productVars
    <3>2. PICK reason \in {"promotion.published", "promotion.cancelled"} : HandOff(k, reason)
      BY <2>9 DEF Publish, Cancel
    <3>3. pending' \subseteq Handoff
      BY <1>0, <3>2 DEF HandOff, Handoff, Reasons, QueueTyped
    <3> QED BY <1>0, <2>2, <3>1, <3>3 DEF QueueTyped
  <2>10. ASSUME NEW h \in pending, EnqueueProjection(h) \/ ApiCrash(h)
         PROVE  QueueTyped' /\ WorkersTyped' /\ ReconsTyped' /\ IngestsTyped' /\ IsFiniteSet(stored')
    <3> DEFINE j == [promo |-> h.promo, reason |-> h.reason, cursor |-> Null, tries |-> MaxAttempts]
    <3>1. UNCHANGED <<procVars, stored, scheduled>> /\ pending' = pending \ {h}
      BY <2>10 DEF EnqueueProjection, ApiCrash, productVars
    <3>2. jobs' = jobs \/ Enqueue({j})
      BY <2>10 DEF EnqueueProjection, ApiCrash
    <3>3. j \in Job
      BY <1>0, FirstTriesTyped, SizesAssumption DEF QueueTyped
    <3> HIDE DEF j
    <3>4. DOMAIN jobs' \subseteq Job
      BY <1>0, <3>2, <3>3, EnqueuedTyped DEF QueueTyped
    <3> QED BY <1>0, <2>2, <3>1, <3>4 DEF QueueTyped
  <2> QED BY <2>3, <2>4, <2>5, <2>6, <2>7, <2>8, <2>9, <2>10 DEF Next, ProcessStep
<1>3. QueueTypeOK'
  BY <1>2 DEF QueueTypeOK, WorkerTyped
<1> QED BY <1>1, <1>2, <1>3 DEF TypeInv

LEMMA InitTyped == Init => TypeInv
<1> SUFFICES ASSUME Init PROVE TypeInv
  OBVIOUS
<1>1. QueueTypeOK
  BY DEF Init, QueueTypeOK, EmptyBag, SetToBag, IdleWorker, IdleReconAt, IdleIngest
<1>2. IsFiniteSet(stored)
  BY CatalogueAssumption DEF Init
<1> QED BY <1>1, <1>2, InitExplained DEF TypeInv

(* Every record the queue holds and every state a worker, a reconciler or  *)
(* an ingestor is left in is one the code knows: a job is never retried    *)
(* past its last attempt and a continuation always has a cursor.           *)
THEOREM ProjectionTypeCorrect == Spec => []TypeOK
<1>1. TypeInv => TypeOK
  BY DEF TypeInv, ExplainedInv, TypeOK
<1> QED BY InitTyped, <1>1, NextTyped, PTL DEF Spec
-------------------------------------------------------------------------------
(* The row a full batch leaves out comes after the batch's last row.       *)
LEMMA FirstOfCuts ==
  ASSUME NEW seen \in SUBSET Products, IsFiniteSet(seen), NEW n \in Nat \ {0},
         NEW p \in seen \ FirstOf(n, seen)
  PROVE  /\ NextCursor(FirstOf(n, seen), n) \in Products
         /\ p > NextCursor(FirstOf(n, seen), n)
<1> DEFINE below(q) == {r \in seen : r < q}
           ids == FirstOf(n, seen)
           out == seen \ ids
<1>1. \A q \in seen : q \in Nat \ {0}
  BY ProductsAssumption
<1>2. ASSUME NEW q \in seen
      PROVE  /\ below(q) \in SUBSET seen /\ IsFiniteSet(below(q))
             /\ Cardinality(below(q)) \in Nat /\ (q \in ids <=> Cardinality(below(q)) < n)
  <2>1. below(q) \in SUBSET seen
    OBVIOUS
  <2>2. IsFiniteSet(below(q))
    BY <2>1, FS_Subset
  <2>3. q \in ids <=> Cardinality(below(q)) < n
    BY DEF FirstOf
  <2> HIDE DEF below, ids
  <2> QED BY <2>1, <2>2, <2>3, FS_CardinalityType
<1>3. ids \in SUBSET seen /\ IsFiniteSet(ids) /\ Cardinality(ids) \in Nat
  <2>1. ids \in SUBSET seen
    BY DEF FirstOf
  <2> HIDE DEF ids
  <2> QED BY <2>1, FS_Subset, FS_CardinalityType
<1>4. ASSUME NEW x \in seen, NEW y \in seen, x < y
      PROVE  below(x) \in SUBSET below(y) /\ Cardinality(below(x)) <= Cardinality(below(y))
  <2>1. below(x) \in SUBSET below(y)
    <3> SUFFICES ASSUME NEW r \in below(x) PROVE r \in seen /\ r < y
      OBVIOUS
    <3>1. r \in seen /\ r < x
      OBVIOUS
    <3>2. r \in Nat /\ x \in Nat /\ y \in Nat
      BY <1>1, <3>1
    <3> QED BY <1>4, <3>1, <3>2
  <2> HIDE DEF below
  <2>2. IsFiniteSet(below(y))
    BY <1>2
  <2> QED BY <2>1, <2>2, FS_Subset
<1>5. ASSUME NEW x \in ids, NEW y \in out PROVE x < y
  <2>1. x \in seen /\ y \in seen /\ x \in Nat /\ y \in Nat /\ x # y
    BY <1>1, <1>3
  <2>2. Cardinality(below(x)) < n /\ ~(Cardinality(below(y)) < n)
    BY <1>2, <2>1
  <2>3. Cardinality(below(x)) \in Nat /\ Cardinality(below(y)) \in Nat
    BY <1>2, <2>1
  <2>4. y < x => Cardinality(below(y)) <= Cardinality(below(x))
    BY <1>4, <2>1
  <2> HIDE DEF below, ids, out
  <2> QED BY <2>1, <2>2, <2>3, <2>4
<1>6. p \in out
  OBVIOUS
<1>7. Cardinality(ids) >= n
  <2>1. out \in SUBSET Nat /\ out # {}
    BY <1>1, <1>6
  <2>2. PICK m \in out : \A r \in out : m <= r
    <3> HIDE DEF out
    <3> QED BY <2>1, HasLeast
  <2>3. m \in seen /\ m \notin ids /\ m \in Nat
    BY <2>1
  <2>4. below(m) \in SUBSET ids
    <3> SUFFICES ASSUME NEW r \in below(m) PROVE r \in ids
      OBVIOUS
    <3>1. r \in seen /\ r < m /\ r \in Nat
      BY <1>1
    <3>2. r \notin out
      BY <2>2, <2>3, <3>1
    <3> QED BY <3>1, <3>2
  <2>5. ~(Cardinality(below(m)) < n) /\ Cardinality(below(m)) \in Nat
    BY <1>2, <2>3
  <2> HIDE DEF below, ids
  <2>6. Cardinality(below(m)) <= Cardinality(ids)
    BY <1>3, <2>4, FS_Subset
  <2> QED BY <1>3, <2>5, <2>6
<1>8. ids # {}
  <2> HIDE DEF ids
  <2> QED BY <1>3, <1>7, FS_EmptySet
<1> DEFINE last == LastOf(ids)
<1>9. last \in ids /\ \A r \in ids : r <= last
  <2> HIDE DEF ids
  <2>1. ids \in SUBSET Products
    BY <1>3
  <2> QED BY <1>3, <1>8, <2>1, LastIsOfThem
<1>10. Cardinality(ids) <= n
  <2>1. last \in seen /\ last \in Nat /\ Cardinality(below(last)) < n
    BY <1>1, <1>2, <1>3, <1>9
  <2>2. IsFiniteSet(below(last)) /\ Cardinality(below(last)) \in Nat /\ last \notin below(last)
    BY <1>2, <2>1
  <2>3. ids \in SUBSET (below(last) \cup {last})
    <3> SUFFICES ASSUME NEW r \in ids PROVE r = last \/ (r \in seen /\ r < last)
      OBVIOUS
    <3>1. r \in seen /\ r \in Nat /\ r <= last
      BY <1>1, <1>3, <1>9
    <3> HIDE DEF last
    <3> QED BY <2>1, <3>1
  <2> DEFINE C == below(last)
  <2>4. IsFiniteSet(C) /\ Cardinality(C) \in Nat /\ last \notin C /\ Cardinality(C) < n
    BY <2>1, <2>2
  <2> HIDE DEF C, ids, last
  <2>5. IsFiniteSet(C \cup {last}) /\ Cardinality(C \cup {last}) = Cardinality(C) + 1
    BY <2>4, FS_AddElement
  <2>6. ids \in SUBSET (C \cup {last})
    BY <2>3 DEF C
  <2>7. Cardinality(ids) <= Cardinality(C \cup {last})
    BY <2>5, <2>6, FS_Subset
  <2> QED BY <1>3, <2>4, <2>5, <2>7
<1>11. NextCursor(ids, n) = last
  <2>1. Cardinality(ids) = n
    <3> HIDE DEF ids
    <3> QED BY <1>3, <1>7, <1>10
  <2> QED BY <2>1 DEF NextCursor
<1>12. last < p /\ last \in Products /\ last \in Nat /\ p \in Nat
  <2>1. last < p
    <3> HIDE DEF last, ids, out
    <3> QED BY <1>5, <1>6, <1>9
  <2> QED BY <1>1, <1>3, <1>9, <2>1
<1> HIDE DEF last
<1> QED BY <1>11, <1>12
-------------------------------------------------------------------------------
(* The price depends on the candidates and on their rows only.             *)
PriceBy(table, t, p, l) ==
  LET k == WinningPromotion(table, p, l.category, t)
  IN  [effective |-> PriceUnder(table, l.base, k), active |-> k]

SameTerms(a, b) ==
  /\ a.startsAt = b.startsAt /\ a.targetType = b.targetType
  /\ a.discountType = b.discountType /\ a.discountValue = b.discountValue

LEMMA SamePrice ==
  ASSUME NEW old, NEW new, NEW t, NEW u, NEW p, NEW l,
         Candidates(new, p, l.category, u) = Candidates(old, p, l.category, t),
         \A k \in Candidates(old, p, l.category, t) : SameTerms(new[k], old[k])
  PROVE  PriceBy(new, u, p, l) = PriceBy(old, t, p, l)
<1> DEFINE cands == Candidates(old, p, l.category, t)
           first == {k \in cands : \A j \in cands \ {k} : Precedes(old, k, j)}
           firstNow == {k \in cands : \A j \in cands \ {k} : Precedes(new, k, j)}
           w == IF first = {} THEN NoPromotion ELSE CHOOSE k \in first : TRUE
<1>1. firstNow = first
  <2> HIDE DEF cands
  <2>1. \A k, j \in cands : Precedes(new, k, j) <=> Precedes(old, k, j)
    BY DEF Precedes, SameTerms, cands
  <2> QED BY <2>1
<1>2. WinningPromotion(old, p, l.category, t) = w
  BY DEF WinningPromotion
<1>3. WinningPromotion(new, p, l.category, u) = w
  <2>1. WinningPromotion(new, p, l.category, u)
          = IF firstNow = {} THEN NoPromotion ELSE CHOOSE k \in firstNow : TRUE
    BY DEF WinningPromotion
  <2> HIDE DEF first, firstNow
  <2> QED BY <1>1, <2>1
<1>4. w = NoPromotion \/ w \in cands
  OBVIOUS
<1>5. PriceUnder(new, l.base, w) = PriceUnder(old, l.base, w)
  <2> HIDE DEF w
  <2> QED BY <1>4 DEF PriceUnder, SameTerms
<1> HIDE DEF w
<1> QED BY <1>2, <1>3, <1>5 DEF PriceBy

(* Both tables have the same rows but k's, which is cands in neither for p.  *)
LEMMA OtherRowsPrice ==
  ASSUME NEW old, NEW new, NEW t, NEW p, NEW l, NEW k, DOMAIN new = DOMAIN old,
         \A j \in DOMAIN old \ {k} : new[j] = old[j],
         k \notin Candidates(old, p, l.category, t), k \notin Candidates(new, p, l.category, t)
  PROVE  PriceBy(new, t, p, l) = PriceBy(old, t, p, l)
<1>1. Candidates(new, p, l.category, t) = Candidates(old, p, l.category, t)
  <2>1. \A j \in DOMAIN old : j # k =>
          (j \in Candidates(new, p, l.category, t) <=> j \in Candidates(old, p, l.category, t))
    BY DEF Candidates
  <2>2. /\ Candidates(new, p, l.category, t) \subseteq DOMAIN old
        /\ Candidates(old, p, l.category, t) \subseteq DOMAIN old
    BY DEF Candidates
  <2> QED BY <2>1, <2>2
<1>2. \A j \in Candidates(old, p, l.category, t) : SameTerms(new[j], old[j])
  BY DEF Candidates, SameTerms
<1> QED BY <1>1, <1>2, SamePrice

LEMMA ProjectedIsPriceBy ==
  ASSUME NEW p
  PROVE  /\ Projected(p, row[p]) = PriceBy(promotions, now, p, row[p])
         /\ (Projected(p, row[p]))' = PriceBy(promotions', now', p, row'[p])
  BY DEF Projected, PriceBy
-------------------------------------------------------------------------------
(* Each change to a promotion and each tick of the clock leaves a          *)
(* product's price alone, or leaves work ahead of its row.                 *)
PriceHolds(p) == (Projected(p, row[p]))' = Projected(p, row[p])

LEMMA DraftPrice ==
  ASSUME PromoTypeOK, NEW k \in PromotionIds, NEW w \in Windows, NEW d \in Discounts,
         CreateDraft(k, w, d), row' = row, NEW p
  PROVE  PriceHolds(p)
<1>1. /\ DOMAIN promotions' = DOMAIN promotions /\ now' = now
      /\ \A j \in DOMAIN promotions \ {k} : promotions'[j] = promotions[j]
      /\ promotions[k].status = "absent" /\ promotions'[k].status = "draft"
  BY DEF CreateDraft, PromoTypeOK
<1>2. /\ k \notin Candidates(promotions, p, row[p].category, now)
      /\ k \notin Candidates(promotions', p, row[p].category, now)
  BY <1>1 DEF Candidates
<1>3. PriceBy(promotions', now, p, row[p]) = PriceBy(promotions, now, p, row[p])
  BY <1>1, <1>2, OtherRowsPrice
<1> QED BY <1>1, <1>3, ProjectedIsPriceBy DEF PriceHolds

LEMMA PublishPrice ==
  ASSUME PromoTypeOK, NEW k \in PromotionIds, NEW type, NEW target,
         AssignAndPublish(k, type, target), row' = row, NEW p,
         ~Targets(promotions'[k], p, row[p].category)
  PROVE  PriceHolds(p)
<1>1. /\ DOMAIN promotions' = DOMAIN promotions /\ now' = now
      /\ \A j \in DOMAIN promotions \ {k} : promotions'[j] = promotions[j]
      /\ promotions[k].status = "draft"
  BY DEF AssignAndPublish, PromoTypeOK
<1>2. /\ k \notin Candidates(promotions, p, row[p].category, now)
      /\ k \notin Candidates(promotions', p, row[p].category, now)
  BY <1>1 DEF Candidates
<1>3. PriceBy(promotions', now, p, row[p]) = PriceBy(promotions, now, p, row[p])
  BY <1>1, <1>2, OtherRowsPrice
<1> QED BY <1>1, <1>3, ProjectedIsPriceBy DEF PriceHolds

LEMMA CancelPrice ==
  ASSUME PromoTypeOK, NEW k \in PromotionIds, CancelPromotion(k), row' = row, NEW p,
         ~Targets(promotions'[k], p, row[p].category)
  PROVE  PriceHolds(p)
<1>1. /\ DOMAIN promotions' = DOMAIN promotions /\ now' = now
      /\ \A j \in DOMAIN promotions \ {k} : promotions'[j] = promotions[j]
      /\ promotions'[k].status = "cancelled"
      /\ promotions'[k].targetType = promotions[k].targetType
      /\ promotions'[k].target = promotions[k].target
  BY DEF CancelPromotion, PromoTypeOK, PromotionRow
<1>2. /\ k \notin Candidates(promotions, p, row[p].category, now)
      /\ k \notin Candidates(promotions', p, row[p].category, now)
  BY <1>1 DEF Candidates, Targets
<1>3. PriceBy(promotions', now, p, row[p]) = PriceBy(promotions, now, p, row[p])
  BY <1>1, <1>2, OtherRowsPrice
<1> QED BY <1>1, <1>3, ProjectedIsPriceBy DEF PriceHolds

LEMMA TickPrice ==
  ASSUME PromoTypeOK, Tick, row' = row, NEW p,
         \A k \in PromotionIds :
           (promotions[k].status = "published" /\ Targets(promotions[k], p, row[p].category))
             => promotions[k].startsAt # now + 1 /\ promotions[k].endsAt # now + 1
  PROVE  PriceHolds(p)
<1>1. promotions' = promotions /\ now' = now + 1 /\ now \in Nat
  BY DEF Tick, PromoTypeOK
<1>2. ASSUME NEW k \in PromotionIds, promotions[k].status = "published",
             Targets(promotions[k], p, row[p].category)
      PROVE  InWindow(promotions[k], now + 1) <=> InWindow(promotions[k], now)
  <2>1. /\ promotions[k].startsAt \in Nat /\ promotions[k].endsAt \in Nat
        /\ promotions[k].startsAt # now + 1 /\ promotions[k].endsAt # now + 1
    BY <1>2 DEF PromoTypeOK, PromotionRow
  <2> QED BY <1>1, <2>1 DEF InWindow
<1>3. Candidates(promotions, p, row[p].category, now + 1) = Candidates(promotions, p, row[p].category, now)
  BY <1>2 DEF Candidates, PromoTypeOK
<1>4. PriceBy(promotions, now + 1, p, row[p]) = PriceBy(promotions, now, p, row[p])
  BY <1>3, SamePrice DEF SameTerms
<1> QED BY <1>1, <1>4, ProjectedIsPriceBy DEF PriceHolds

LEMMA SameTablePrice ==
  ASSUME UNCHANGED <<promotions, now, row>>, NEW p
  PROVE  PriceHolds(p)
  BY DEF PriceHolds, Projected
-------------------------------------------------------------------------------
(* What the promotions a step leaves decided promise to queued work.       *)
EndsFrozen ==
  \A k \in PromotionIds : promotions[k].status \in Decided => promotions'[k].endsAt = promotions[k].endsAt

LEMMA PromotionStepEnds ==
  ASSUME PromoTypeOK,
         \/ \E k \in PromotionIds, w \in Windows, d \in Discounts : CreateDraft(k, w, d)
         \/ \E k \in PromotionIds, t \in Target : AssignAndPublish(k, t[1], t[2])
         \/ \E k \in PromotionIds : CancelPromotion(k)
         \/ Tick
         \/ UNCHANGED <<promotions, now>>
  PROVE  EndsFrozen
<1>1. ASSUME NEW k \in PromotionIds, NEW w \in Windows, NEW d \in Discounts, CreateDraft(k, w, d)
      PROVE  EndsFrozen
  BY <1>1 DEF CreateDraft, PromoTypeOK, EndsFrozen, Decided
<1>2. ASSUME NEW k \in PromotionIds, NEW t \in Target, AssignAndPublish(k, t[1], t[2])
      PROVE  EndsFrozen
  BY <1>2 DEF AssignAndPublish, PromoTypeOK, EndsFrozen, Decided
<1>3. ASSUME NEW k \in PromotionIds, CancelPromotion(k)
      PROVE  EndsFrozen
  BY <1>3 DEF CancelPromotion, PromoTypeOK, PromotionRow, EndsFrozen, Decided
<1>4. CASE Tick
  BY <1>4 DEF Tick, EndsFrozen
<1>5. CASE UNCHANGED <<promotions, now>>
  BY <1>5 DEF EndsFrozen
<1> QED BY <1>1, <1>2, <1>3, <1>4, <1>5

LEMMA CoversLasts ==
  ASSUME PromotionsFrozen, NEW k \in PromotionIds, promotions[k].status \in Decided,
         NEW p, row'[p].category = row[p].category, Covers(k, p)
  PROVE  (Covers(k, p))'
  BY DEF PromotionsFrozen, Covers, Targets
-------------------------------------------------------------------------------
LEMMA CountedAdd ==
  ASSUME JobsCounted, NEW js, Enqueue(js)
  PROVE  JobsCounted' /\ DOMAIN jobs' = DOMAIN jobs \cup js
<1>1. DOMAIN jobs' = DOMAIN jobs \cup js
  BY AddedJobs DEF Enqueue
<1>2. \A j \in DOMAIN jobs' :
        jobs'[j] = (IF j \in DOMAIN jobs THEN jobs[j] ELSE 0) + (IF j \in js THEN 1 ELSE 0)
  BY DEF Enqueue, (+), SetToBag
<1>3. ASSUME NEW j \in DOMAIN jobs' PROVE jobs'[j] \in Nat \ {0}
  <2>1. j \in DOMAIN jobs => jobs[j] \in Nat \ {0}
    BY DEF JobsCounted
  <2> QED BY <1>1, <1>2, <2>1
<1> QED BY <1>1, <1>3 DEF JobsCounted

LEMMA CountedRemove ==
  ASSUME JobsCounted, NEW j, jobs' = jobs (-) SetToBag({j})
  PROVE  JobsCounted' /\ DOMAIN jobs \ {j} \subseteq DOMAIN jobs' /\ DOMAIN jobs' \subseteq DOMAIN jobs
<1> DEFINE left == [i \in DOMAIN jobs |-> IF i = j THEN jobs[i] - 1 ELSE jobs[i]]
<1>1. jobs' = [i \in {d \in DOMAIN left : left[d] > 0} |-> left[i]]
  BY DEF (-), SetToBag
<1>2. \A i \in DOMAIN jobs : jobs[i] \in Nat \ {0}
  BY DEF JobsCounted
<1>3. \A i \in DOMAIN jobs : left[i] \in Nat /\ (i # j => left[i] > 0)
  BY <1>2
<1>4. DOMAIN jobs' \subseteq DOMAIN jobs /\ \A i \in DOMAIN jobs' : jobs'[i] = left[i] /\ left[i] > 0
  BY <1>1
<1>5. DOMAIN jobs \ {j} \subseteq DOMAIN jobs'
  BY <1>1, <1>3
<1>6. \A i \in DOMAIN jobs' : jobs'[i] \in Nat \ {0}
  <2> HIDE DEF left
  <2> QED BY <1>3, <1>4
<1> QED BY <1>4, <1>5, <1>6 DEF JobsCounted
-------------------------------------------------------------------------------
(* What a step does to the hands, the queued work and the rows, as far as  *)
(* the history is concerned: m is the only hand it may move.               *)
Duty == JobHands \cup IngestHands
HandKept(h) ==
  /\ PricesIn(h)' = PricesIn(h)
  /\ h \in JobHands => worker'[h[2]].job = worker[h[2]].job
TakesSnapshot(h) == Holding(h) = {} /\ \A p \in Holding(h)' : WillBeRight(h, p)'
Steady(p) == PriceHolds(p) /\ row'[p].category = row[p].category

OneHandMoves(m) ==
  /\ \A h \in Hands \ {m} : HandKept(h)
  /\ m \in Hands => TakesSnapshot(m) \/ Holding(m)' = {} \/ HandKept(m)
ChangesQueued == \A p \in stored : Steady(p) \/ Queued(p)' \/ p \in Missed
QueuedStays(m) ==
  \A p \in stored : Queued(p) =>
    \/ Queued(p)' \/ p \in Lost
    \/ m \in Duty /\ Holding(m) = {} /\ p \in Holding(m)'
WritesOnly(m) ==
  \A p \in stored :
    PriceOf(row'[p]) = IF m \in Hands /\ p \in Written(m) THEN PricesIn(m)[p] ELSE PriceOf(row[p])
LeavesQueued(m) ==
  (m \in Duty /\ faults' = faults /\ Holding(m)' = {}) =>
    \A p \in Holding(m) \ Written(m) : Queued(p)' \/ ~WillBeRight(m, p)

Followable(m) ==
  OneHandMoves(m) /\ ChangesQueued /\ QueuedStays(m) /\ WritesOnly(m) /\ LeavesQueued(m)

HoldingsStored == \A h \in Hands : Holding(h) \subseteq stored
HandsDecided ==
  \A h \in JobHands : Holding(h) # {} =>
    /\ worker[h[2]].job.promo \in PromotionIds
    /\ promotions[worker[h[2]].job.promo].status \in Decided

Core == SnapshotsOrdered /\ HandsSound /\ StaleRowsAhead
-------------------------------------------------------------------------------
LEMMA LiveNext ==
  ASSUME Watch, NEW h \in Hands
  PROVE  /\ Holding(h) = {} => live'[h] = Holding(h)'
         /\ Holding(h) # {} => \A p : p \in live'[h] <=>
              /\ p \in live[h] /\ p \in Holding(h)' /\ p \notin Lost /\ p \notin Missed
              /\ \A g \in Hands : h \in earlier[g] => p \notin Written(g)
<1> DEFINE kept == {p \in live[h] \cap Holding(h)' :
               /\ p \notin Lost \cup Missed
               /\ \A g \in Hands : h \in earlier[g] => p \notin Written(g)}
<1>1. live'[h] = IF Holding(h) = {} THEN Holding(h)' ELSE kept
  BY DEF Watch
<1> QED BY <1>1

LEMMA EarlierNext ==
  ASSUME Watch, NEW g \in Hands, NEW h \in Hands
  PROVE  /\ earlier'[h] \subseteq Hands
         /\ g \in earlier'[h] <=>
              /\ Holding(g)' # {} /\ Holding(h)' # {}
              /\ g \in earlier[h] \/ (Holding(g) # {} /\ Holding(h) = {})
<1> DEFINE older(f) == f \in earlier[h] \/ (Holding(f) # {} /\ Holding(h) = {})
<1>1. earlier'[h] = {f \in Hands : /\ DOMAIN (PricesIn(f)') # {} /\ DOMAIN (PricesIn(h)') # {} /\ older(f)}
  BY DEF Watch, Holding, PricesIn
<1>2. g \in earlier'[h] <=> DOMAIN (PricesIn(g)') # {} /\ DOMAIN (PricesIn(h)') # {} /\ older(g)
  <2> HIDE DEF older
  <2> QED BY <1>1 DEF PricesIn
<1>3. earlier'[h] \subseteq Hands
  BY <1>1
<1> QED BY <1>2, <1>3 DEF Holding, PricesIn

LEMMA ExcusedNext ==
  ASSUME Watch, NEW p
  PROVE  /\ p \in excused /\ (\A h \in Hands : p \notin Written(h)) => p \in excused'
         /\ (\E h \in Hands : p \in Written(h) /\ p \notin live[h]) => p \in excused'
         /\ p \in Lost \cup Missed \cup Outdated => p \in excused'
<1>1. excused' = (excused \ UNION {Written(h) \cap live[h] : h \in Hands})
                  \cup Overwritten \cup Lost \cup Missed \cup Outdated
  BY DEF Watch
<1> QED BY <1>1 DEF Overwritten

LEMMA OrderKept ==
  ASSUME SnapshotsOrdered, Watch
  PROVE  SnapshotsOrdered'
<1> SUFFICES ASSUME NEW g \in Hands, NEW h \in Hands, g \in earlier'[h]
             PROVE  /\ Holding(g)' # {} /\ Holding(h)' # {} /\ g # h
                    /\ earlier'[g] \subseteq earlier'[h]
  BY DEF SnapshotsOrdered
<1>1. /\ Holding(g)' # {} /\ Holding(h)' # {}
      /\ g \in earlier[h] \/ (Holding(g) # {} /\ Holding(h) = {})
  BY EarlierNext
<1>2. Holding(g) # {} /\ g # h
  BY <1>1 DEF SnapshotsOrdered
<1>3. ASSUME NEW f \in earlier'[g] PROVE f \in earlier'[h]
  <2>0. f \in Hands
    BY EarlierNext
  <2>1. Holding(f)' # {} /\ f \in earlier[g]
    BY <1>2, <2>0, EarlierNext
  <2>2. Holding(f) # {}
    BY <2>0, <2>1 DEF SnapshotsOrdered
  <2>3. f \in earlier[h] \/ Holding(h) = {}
    BY <1>1, <2>0, <2>1 DEF SnapshotsOrdered
  <2> QED BY <1>1, <2>0, <2>1, <2>2, <2>3, EarlierNext
<1> QED BY <1>1, <1>2, <1>3

LEMMA KeptHand ==
  ASSUME NEW h, HandKept(h)
  PROVE  /\ Holding(h)' = Holding(h) /\ Written(h) = {}
  BY DEF HandKept, Holding, Written

LEMMA WrittenHeld ==
  ASSUME NEW h, h \in Hands
  PROVE  Written(h) \subseteq Holding(h) /\ (Written(h) # {} => Holding(h)' = {})
<1>1. h \in JobHands => LockedBatch(h[2]) \subseteq Holding(h)
  BY DEF LockedBatch, FirstOf, Holding, PricesIn, JobHands
<1> QED BY <1>1 DEF Written
-------------------------------------------------------------------------------
(* A live row of a statement that goes on stays live unless it is written  *)
(* by a statement that started later, or excused.                          *)
LEMMA StaysLive ==
  ASSUME Watch, NEW h \in Hands, Holding(h) # {}, HandKept(h),
         NEW p \in live[h] \cap Holding(h), p \notin Lost \cup Missed,
         \A g \in Hands : h \in earlier[g] => p \notin Written(g)
  PROVE  p \in live'[h]
  BY KeptHand, LiveNext

(* Queued work stays, moves into the snapshot just taken, or is lost.      *)
LEMMA QueuedReached ==
  ASSUME Watch, NEW m, QueuedStays(m), NEW p \in stored, Queued(p)
  PROVE  Ahead(p)' \/ p \in excused'
<1>1. CASE Queued(p)'
  BY <1>1 DEF Ahead
<1>2. CASE p \in Lost
  BY <1>2, ExcusedNext
<1>3. CASE m \in Duty /\ Holding(m) = {} /\ p \in Holding(m)'
  BY <1>3, LiveNext DEF Ahead, Duty, Hands
<1> QED BY <1>1, <1>2, <1>3 DEF QueuedStays

LEMMA OnlyMoverWrites ==
  ASSUME NEW m, OneHandMoves(m), NEW h \in Hands \ {m}
  PROVE  Written(h) = {}
  BY KeptHand DEF OneHandMoves

(* A live hand of a duty: it goes on, or the step queues or excuses its    *)
(* rows, or writes them, or leaves them to a later hand.                   *)
LEMMA LiveHandReached ==
  ASSUME Watch, SnapshotsOrdered, HandsSound, HoldingsStored,
         NEW m, Followable(m),
         NEW g \in Duty, NEW p \in live[g],
         \A k \in Hands : g \in earlier[k] => p \notin Written(k)
  PROVE  \/ Ahead(p)' \/ p \in excused' \/ p \in Written(g)
<1>0. g \in Hands /\ Duty \subseteq Hands /\ p \in Holding(g) /\ p \in stored /\ Holding(g) # {}
  BY DEF Duty, Hands, HandsSound, HoldingsStored
<1>1. CASE p \in Lost \cup Missed
  BY <1>1, ExcusedNext
<1>2. CASE p \notin Lost \cup Missed /\ HandKept(g)
  BY <1>0, <1>2, StaysLive DEF Ahead, Duty
<1>3. CASE p \notin Lost \cup Missed /\ ~HandKept(g)
  <2>1. g = m /\ Holding(m)' = {}
    BY <1>0, <1>3 DEF Followable, OneHandMoves, TakesSnapshot
  <2>2. CASE faults' # faults
    <3>1. Ahead(p)
      BY DEF Ahead, Duty
    <3>2. Queued(p)'
      BY <1>0, <1>3, <2>2, <3>1 DEF Lost
    <3> QED BY <3>2 DEF Ahead
  <2>3. CASE faults' = faults /\ p \notin Written(g)
    <3>1. Queued(p)' \/ ~WillBeRight(g, p)
      BY <1>0, <2>1, <2>3 DEF Followable, LeavesQueued
    <3>2. Queued(p)' \/ Followed(g, p)
      BY <1>0, <3>1 DEF HandsSound
    <3>3. CASE Queued(p)'
      BY <3>3 DEF Ahead
    <3>4. CASE Queued(p)
      BY <1>0, <3>4, QueuedReached DEF Followable
    <3>5. ASSUME NEW k \in Duty, g \in earlier[k], p \in live[k]
          PROVE  Ahead(p)'
      <4>1. k \in Hands /\ k # g /\ HandKept(k) /\ Holding(k) # {} /\ p \in Holding(k)
        BY <1>0, <2>1, <3>5 DEF SnapshotsOrdered, Followable, OneHandMoves, HandsSound
      <4>2. \A f \in Hands : k \in earlier[f] => g \in earlier[f]
        BY <3>5, <4>1 DEF SnapshotsOrdered
      <4>3. p \in live'[k]
        BY <1>3, <3>5, <4>1, <4>2, StaysLive
      <4> QED BY <4>3 DEF Ahead, Duty
    <3> QED BY <3>2, <3>3, <3>4, <3>5 DEF Followed, Duty
  <2> QED BY <2>2, <2>3
<1> QED BY <1>1, <1>2, <1>3

(* A hand that goes on and would have written the right price still will,  *)
(* or work is queued for the row.                                          *)
LEMMA StillRight ==
  ASSUME HandsDecided, PromotionsFrozen, NEW h \in Hands, Holding(h) # {}, HandKept(h),
         NEW p, Steady(p), WillBeRight(h, p)
  PROVE  WillBeRight(h, p)'
<1>1. PricesIn(h)'[p] = (Projected(p, row[p]))'
  BY DEF HandKept, Steady, PriceHolds, WillBeRight
<1>2. ASSUME h \in JobHands, (OfCategory(worker[h[2]].job))'
      PROVE  row'[p].category = promotions'[worker'[h[2]].job.promo].target
  <2> DEFINE k == worker[h[2]].job.promo
  <2>1. worker'[h[2]].job = worker[h[2]].job
    BY <1>2 DEF HandKept
  <2>2. k \in PromotionIds /\ promotions[k].status \in Decided
    BY <1>2 DEF HandsDecided
  <2>3. promotions'[k].targetType = promotions[k].targetType /\ promotions'[k].target = promotions[k].target
    BY <2>2 DEF PromotionsFrozen
  <2>4. promotions'[k].targetType = "category"
    BY <1>2, <2>1 DEF OfCategory
  <2>5. OfCategory(worker[h[2]].job)
    BY <2>3, <2>4 DEF OfCategory
  <2>6. row[p].category = promotions[k].target
    BY <1>2, <2>5 DEF WillBeRight
  <2> QED BY <2>1, <2>3, <2>6 DEF Steady
<1>3. (PricesIn(h)[p])' = PricesIn(h)'[p]
  OBVIOUS
<1> QED BY <1>1, <1>2, <1>3 DEF WillBeRight

LEMMA QueuedFollows ==
  ASSUME Watch, NEW m, QueuedStays(m), NEW h \in Hands, Holding(h) # {}, Holding(h)' # {},
         NEW p \in stored, p \notin Lost, Queued(p)
  PROVE  Followed(h, p)'
<1>1. CASE Queued(p)'
  BY <1>1 DEF Followed
<1>2. CASE m \in Duty /\ Holding(m) = {} /\ p \in Holding(m)'
  <2>1. p \in live'[m] /\ h \in earlier'[m]
    BY <1>2, LiveNext, EarlierNext DEF Duty, Hands
  <2> QED BY <1>2, <2>1 DEF Followed, Duty
<1> QED BY <1>1, <1>2 DEF QueuedStays

LEMMA SoundNext ==
  ASSUME Watch, SnapshotsOrdered, HandsSound, HoldingsStored, HandsDecided, PromotionsFrozen,
         NEW m, Followable(m)
  PROVE  HandsSound'
<1> SUFFICES ASSUME NEW h \in Hands, NEW p \in live'[h]
             PROVE  p \in Holding(h)' /\ (WillBeRight(h, p)' \/ Followed(h, p)')
  BY DEF HandsSound
<1>1. CASE Holding(h) = {}
  <2>1. p \in Holding(h)'
    BY <1>1, LiveNext
  <2>2. ~HandKept(h)
    BY <1>1, <2>1, KeptHand
  <2>3. TakesSnapshot(h)
    BY <2>1, <2>2 DEF Followable, OneHandMoves
  <2> QED BY <2>1, <2>3 DEF TakesSnapshot
<1>2. CASE Holding(h) # {}
  <2>1. /\ p \in live[h] /\ p \in Holding(h)' /\ p \notin Lost /\ p \notin Missed
        /\ \A g \in Hands : h \in earlier[g] => p \notin Written(g)
    BY <1>2, LiveNext
  <2>2. HandKept(h)
    BY <1>2, <2>1 DEF Followable, OneHandMoves, TakesSnapshot
  <2>3. p \in Holding(h) /\ p \in stored
    BY <2>1 DEF HandsSound, HoldingsStored
  <2>4. CASE WillBeRight(h, p)
    <3>1. CASE Steady(p)
      BY <1>2, <2>2, <2>4, <3>1, StillRight, <2>1
    <3>2. CASE ~Steady(p)
      BY <2>1, <2>3, <3>2 DEF Followable, ChangesQueued, Followed
    <3> QED BY <3>1, <3>2
  <2>5. CASE Queued(p)
    BY <1>2, <2>1, <2>3, <2>5, QueuedFollows DEF Followable
  <2>6. ASSUME NEW g \in Duty, h \in earlier[g], p \in live[g]
        PROVE  Followed(h, p)'
    <3>0. g \in Hands /\ p \notin Written(g) /\ Holding(g) # {} /\ g # h /\ p \in Holding(g)
      BY <2>1, <2>6 DEF Duty, Hands, SnapshotsOrdered, HandsSound
    <3>1. ASSUME NEW f \in Duty, h \in earlier[f], p \in live[f], HandKept(f)
          PROVE  Followed(h, p)'
      <4>1. f \in Hands /\ Holding(f) # {} /\ p \in Holding(f)
        BY <3>1 DEF Duty, Hands, SnapshotsOrdered, HandsSound
      <4>2. \A k \in Hands : f \in earlier[k] => h \in earlier[k]
        BY <3>1, <4>1 DEF SnapshotsOrdered
      <4>3. p \in live'[f]
        BY <2>1, <3>1, <4>1, <4>2, StaysLive
      <4>4. Holding(f)' # {} /\ Holding(h)' # {}
        BY <2>1, <3>1, <4>1, KeptHand
      <4>5. h \in earlier'[f]
        BY <3>1, <4>1, <4>4, EarlierNext
      <4> QED BY <3>1, <4>3, <4>5 DEF Followed, Duty
    <3>2. CASE HandKept(g)
      BY <2>6, <3>1, <3>2
    <3>3. CASE ~HandKept(g)
      <4>1. g = m /\ Holding(m)' = {}
        BY <3>0, <3>3 DEF Followable, OneHandMoves, TakesSnapshot
      <4>2. CASE faults' # faults
        <5>1. Ahead(p)
          BY <2>6 DEF Ahead, Duty
        <5>2. Queued(p)'
          BY <2>1, <2>3, <4>2, <5>1 DEF Lost
        <5> QED BY <5>2 DEF Followed
      <4>3. CASE faults' = faults
        <5>1. Queued(p)' \/ ~WillBeRight(g, p)
          BY <3>0, <4>1, <4>3, <2>6 DEF Followable, LeavesQueued
        <5>2. CASE Queued(p)'
          BY <5>2 DEF Followed
        <5>3. CASE Followed(g, p)
          <6>1. CASE Queued(p)
            BY <1>2, <2>1, <2>3, <6>1, QueuedFollows DEF Followable
          <6>2. ASSUME NEW k \in Duty, g \in earlier[k], p \in live[k]
                PROVE  Followed(h, p)'
            <7>1. k \in Hands
              BY DEF Duty, Hands
            <7>2. k # g /\ h \in earlier[k]
              BY <2>6, <3>0, <6>2, <7>1 DEF SnapshotsOrdered
            <7>3. HandKept(k)
              BY <4>1, <7>1, <7>2 DEF Followable, OneHandMoves
            <7> QED BY <3>1, <6>2, <7>2, <7>3
          <6> QED BY <5>3, <6>1, <6>2 DEF Followed, Duty
        <5> QED BY <2>6, <3>0, <5>1, <5>2, <5>3 DEF HandsSound
      <4> QED BY <4>2, <4>3
    <3> QED BY <3>2, <3>3
  <2>7. WillBeRight(h, p) \/ Followed(h, p)
    BY <2>1 DEF HandsSound
  <2> QED BY <2>1, <2>4, <2>5, <2>6, <2>7 DEF Followed, Duty
<1> QED BY <1>1, <1>2

LEMMA StaleNext ==
  ASSUME Watch, SnapshotsOrdered, HandsSound, StaleRowsAhead, HoldingsStored,
         stored \subseteq stored', NEW m, Followable(m)
  PROVE  StaleRowsAhead'
<1> SUFFICES ASSUME NEW p \in stored', ~IsRight(p)'
             PROVE  Ahead(p)' \/ p \in excused'
  BY DEF StaleRowsAhead
<1>1. CASE p \notin stored
  <2>1. Queued(p)' \/ p \in Outdated
    BY <1>1 DEF Outdated
  <2> QED BY <2>1, ExcusedNext DEF Ahead
<1>2. CASE p \in stored /\ ~Steady(p)
  BY <1>2, ExcusedNext DEF Followable, ChangesQueued, Ahead
<1>3. CASE p \in stored /\ Steady(p) /\ ~(m \in Hands /\ p \in Written(m))
  <2>1. PriceOf(row'[p]) = PriceOf(row[p])
    BY <1>3 DEF Followable, WritesOnly
  <2>2. ~IsRight(p)
    BY <1>3, <2>1 DEF IsRight, Steady, PriceHolds, PriceOf
  <2>3. \A h \in Hands : p \notin Written(h)
    BY <1>3, OnlyMoverWrites DEF Followable
  <2>4. CASE Queued(p)
    BY <1>3, <2>4, QueuedReached DEF Followable
  <2>5. CASE p \in excused
    BY <2>3, <2>5, ExcusedNext
  <2>6. ASSUME NEW g \in Duty, p \in live[g] PROVE Ahead(p)' \/ p \in excused'
    <3>1. g \in Hands
      BY DEF Duty, Hands
    <3> QED BY <2>3, <2>6, <3>1, LiveHandReached
  <2> QED BY <1>3, <2>2, <2>4, <2>5, <2>6 DEF StaleRowsAhead, Ahead, Duty
<1>4. CASE p \in stored /\ Steady(p) /\ m \in Hands /\ p \in Written(m) /\ p \notin live[m]
  BY <1>4, ExcusedNext
<1>5. CASE p \in stored /\ Steady(p) /\ m \in Hands /\ p \in Written(m) /\ p \in live[m]
  <2>1. PriceOf(row'[p]) = PricesIn(m)[p]
    BY <1>5 DEF Followable, WritesOnly
  <2>2. ~WillBeRight(m, p)
    BY <1>5, <2>1 DEF WillBeRight, IsRight, Steady, PriceHolds, PriceOf
  <2>3. Followed(m, p)
    BY <1>5, <2>2 DEF HandsSound
  <2>4. CASE Queued(p)
    BY <1>5, <2>4, QueuedReached DEF Followable
  <2>5. ASSUME NEW g \in Duty, m \in earlier[g], p \in live[g]
        PROVE  Ahead(p)' \/ p \in excused'
    <3>1. g \in Hands
      BY DEF Duty, Hands
    <3>2. g # m /\ g \notin earlier[m]
      BY <1>5, <2>5, <3>1 DEF SnapshotsOrdered
    <3>3. \A k \in Hands : g \in earlier[k] => p \notin Written(k)
      BY <3>2, OnlyMoverWrites DEF Followable
    <3>4. p \notin Written(g)
      BY <3>1, <3>2, OnlyMoverWrites DEF Followable
    <3> QED BY <2>5, <3>3, <3>4, LiveHandReached
  <2> QED BY <2>3, <2>4, <2>5 DEF Followed, Duty
<1> QED BY <1>2, <1>1, <1>3, <1>4, <1>5

LEMMA CoreStep ==
  ASSUME Watch, Core, HoldingsStored, HandsDecided, PromotionsFrozen, stored \subseteq stored',
         NEW m, Followable(m)
  PROVE  Core'
<1>1. SnapshotsOrdered'
  BY OrderKept DEF Core
<1>2. HandsSound'
  BY SoundNext DEF Core
<1>3. StaleRowsAhead'
  BY StaleNext DEF Core
<1> QED BY <1>1, <1>2, <1>3 DEF Core
-------------------------------------------------------------------------------
HistInv == TypeInv /\ HistoryInv
Rest == IdleHandsEmpty /\ JobsCounted /\ DecidedWork /\ EdgesWait /\ faults \in Nat

WorkerHand(w) == <<"worker", w>>
IngestHand(i) == <<"ingest", i>>
ReconHand(r) == <<"recon", r>>

LEMMA HandKinds ==
  /\ \A w \in Workers : /\ WorkerHand(w) \in JobHands /\ WorkerHand(w)[2] = w
                        /\ PricesIn(WorkerHand(w)) = worker[w].prices
                        /\ PricesIn(WorkerHand(w))' = worker'[w].prices
  /\ \A i \in Ingestors : /\ IngestHand(i) \in IngestHands /\ IngestHand(i) \notin JobHands
                          /\ PricesIn(IngestHand(i)) = ingest[i].prices
                          /\ PricesIn(IngestHand(i))' = ingest'[i].prices
  /\ \A r \in Reconcilers : /\ ReconHand(r) \in Hands /\ ReconHand(r) \notin Duty
                            /\ PricesIn(ReconHand(r)) = recon[r].prices
                            /\ PricesIn(ReconHand(r))' = recon'[r].prices
  /\ \A h \in Hands : \/ \E w \in Workers : h = WorkerHand(w)
                      \/ \E i \in Ingestors : h = IngestHand(i)
                      \/ \E r \in Reconcilers : h = ReconHand(r)
  /\ JobHands \cup IngestHands \subseteq Hands /\ Duty \subseteq Hands
<1>1. ASSUME NEW w \in Workers
      PROVE  /\ WorkerHand(w) \in JobHands /\ WorkerHand(w)[2] = w
             /\ PricesIn(WorkerHand(w)) = worker[w].prices
             /\ PricesIn(WorkerHand(w))' = worker'[w].prices
  BY DEF WorkerHand, JobHands, PricesIn
<1>2. ASSUME NEW i \in Ingestors
      PROVE  /\ IngestHand(i) \in IngestHands /\ IngestHand(i) \notin JobHands
             /\ PricesIn(IngestHand(i)) = ingest[i].prices
             /\ PricesIn(IngestHand(i))' = ingest'[i].prices
  BY DEF IngestHand, IngestHands, JobHands, PricesIn
<1>3. ASSUME NEW r \in Reconcilers
      PROVE  /\ ReconHand(r) \in Hands /\ ReconHand(r) \notin Duty
             /\ PricesIn(ReconHand(r)) = recon[r].prices
             /\ PricesIn(ReconHand(r))' = recon'[r].prices
  BY DEF ReconHand, Hands, Duty, IngestHands, JobHands, PricesIn
<1>4. ASSUME NEW h \in Hands
      PROVE  \/ \E w \in Workers : h = WorkerHand(w)
             \/ \E i \in Ingestors : h = IngestHand(i)
             \/ \E r \in Reconcilers : h = ReconHand(r)
  BY DEF WorkerHand, IngestHand, ReconHand, Hands, IngestHands, JobHands
<1>5. JobHands \cup IngestHands \subseteq Hands /\ Duty \subseteq Hands
  BY DEF Hands, Duty
<1> QED BY <1>1, <1>2, <1>3, <1>4, <1>5

LEMMA HandsTyped ==
  ASSUME HistInv
  PROVE  HoldingsStored /\ HandsDecided /\ Core /\ Rest
<1>0. /\ WorkersOK /\ IngestsOK /\ ReconsOK /\ WorkersTyped /\ DecidedWork /\ IdleHandsEmpty
  BY QueueTypeParts DEF HistInv, TypeInv, ExplainedInv, HistoryInv
<1>1. HoldingsStored
  <2> SUFFICES ASSUME NEW h \in Hands PROVE DOMAIN PricesIn(h) \subseteq stored
    BY DEF HoldingsStored, Holding
  <2>1. PricesOK(PricesIn(h))
    BY <1>0, HandKinds DEF WorkersOK, IngestsOK, ReconsOK
  <2> QED BY <2>1 DEF PricesOK
<1>2. HandsDecided
  <2> SUFFICES ASSUME NEW w \in Workers, Holding(WorkerHand(w)) # {}
               PROVE  /\ worker[w].job.promo \in PromotionIds
                      /\ promotions[worker[w].job.promo].status \in Decided
    BY DEF HandsDecided, JobHands, WorkerHand
  <2>1. worker[w].prices # <<>>
    BY HandKinds DEF Holding
  <2>2. worker[w].phase = "project"
    BY <1>0, <2>1 DEF IdleHandsEmpty
  <2> QED BY <1>0, <2>2 DEF WorkersTyped, WorkerTyped, DecidedWork, Job
<1> QED BY <1>1, <1>2 DEF HistInv, HistoryInv, Core, Rest

LEMMA Conclude ==
  ASSUME HistInv, TypeInv', Watch, PromotionsFrozen, stored \subseteq stored',
         NEW m, Followable(m), Rest'
  PROVE  HistInv'
<1>1. Core'
  BY HandsTyped, CoreStep
<1> QED BY <1>1 DEF HistInv, HistoryInv, Core, Rest
-------------------------------------------------------------------------------
(* Which hands a step of each process moves.                               *)
LEMMA WorkerHandMoves ==
  ASSUME TypeInv, NEW w \in Workers, NEW s, SetWorker(w, s)
  PROVE  /\ \A h \in Hands \ {WorkerHand(w)} : HandKept(h)
         /\ PricesIn(WorkerHand(w))' = s.prices /\ worker'[w] = s
         /\ \A v \in Workers \ {w} : worker'[v] = worker[v]
<1>1. DOMAIN worker = Workers
  BY DEF TypeInv, ExplainedInv, WorkersOK
<1>2. /\ worker'[w] = s /\ \A v \in Workers \ {w} : worker'[v] = worker[v]
      /\ recon' = recon /\ ingest' = ingest
  BY <1>1 DEF SetWorker
<1>3. ASSUME NEW v \in Workers \ {w} PROVE HandKept(WorkerHand(v))
  BY <1>2, HandKinds DEF HandKept
<1>4. ASSUME NEW i \in Ingestors PROVE HandKept(IngestHand(i))
  BY <1>2, HandKinds DEF HandKept
<1>5. ASSUME NEW r \in Reconcilers PROVE HandKept(ReconHand(r))
  BY <1>2, HandKinds DEF HandKept, Duty
<1> QED BY <1>2, <1>3, <1>4, <1>5, HandKinds

LEMMA IngestHandMoves ==
  ASSUME TypeInv, NEW i \in Ingestors, NEW s, SetIngest(i, s)
  PROVE  /\ \A h \in Hands \ {IngestHand(i)} : HandKept(h)
         /\ PricesIn(IngestHand(i))' = s.prices /\ ingest'[i] = s
         /\ \A v \in Ingestors \ {i} : ingest'[v] = ingest[v]
<1>1. DOMAIN ingest = Ingestors
  BY DEF TypeInv, ExplainedInv, IngestsOK
<1>2. /\ ingest'[i] = s /\ \A v \in Ingestors \ {i} : ingest'[v] = ingest[v]
      /\ recon' = recon /\ worker' = worker
  BY <1>1 DEF SetIngest
<1>3. ASSUME NEW v \in Ingestors \ {i} PROVE HandKept(IngestHand(v))
  BY <1>2, HandKinds DEF HandKept
<1>4. ASSUME NEW w \in Workers PROVE HandKept(WorkerHand(w))
  BY <1>2, HandKinds DEF HandKept
<1>5. ASSUME NEW r \in Reconcilers PROVE HandKept(ReconHand(r))
  BY <1>2, HandKinds DEF HandKept, Duty
<1> QED BY <1>2, <1>3, <1>4, <1>5, HandKinds

LEMMA ReconHandMoves ==
  ASSUME TypeInv, NEW r \in Reconcilers, NEW s, SetRecon(r, s)
  PROVE  /\ \A h \in Hands \ {ReconHand(r)} : HandKept(h)
         /\ PricesIn(ReconHand(r))' = s.prices /\ recon'[r] = s
         /\ \A v \in Reconcilers \ {r} : recon'[v] = recon[v]
<1>1. DOMAIN recon = Reconcilers
  BY DEF TypeInv, ExplainedInv, ReconsOK
<1>2. /\ recon'[r] = s /\ \A v \in Reconcilers \ {r} : recon'[v] = recon[v]
      /\ ingest' = ingest /\ worker' = worker
  BY <1>1 DEF SetRecon
<1>3. ASSUME NEW v \in Reconcilers \ {r} PROVE HandKept(ReconHand(v))
  BY <1>2, HandKinds DEF HandKept, Duty
<1>4. ASSUME NEW w \in Workers PROVE HandKept(WorkerHand(w))
  BY <1>2, HandKinds DEF HandKept
<1>5. ASSUME NEW i \in Ingestors PROVE HandKept(IngestHand(i))
  BY <1>2, HandKinds DEF HandKept
<1> QED BY <1>2, <1>3, <1>4, <1>5, HandKinds

LEMMA NoHandMoves ==
  ASSUME UNCHANGED <<worker, recon, ingest>>
  PROVE  \A h \in Hands : HandKept(h)
<1>1. ASSUME NEW w \in Workers PROVE HandKept(WorkerHand(w))
  BY HandKinds DEF HandKept
<1>2. ASSUME NEW i \in Ingestors PROVE HandKept(IngestHand(i))
  BY HandKinds DEF HandKept
<1>3. ASSUME NEW r \in Reconcilers PROVE HandKept(ReconHand(r))
  BY HandKinds DEF HandKept, Duty
<1> QED BY <1>1, <1>2, <1>3, HandKinds
-------------------------------------------------------------------------------
(* A statement that is not under way holds no prices.                      *)
LEMMA WorkerIdles ==
  ASSUME TypeInv, IdleHandsEmpty, NEW w \in Workers, NEW s, SetWorker(w, s),
         s.phase # "project" => s.prices = <<>>
  PROVE  IdleHandsEmpty'
<1>1. DOMAIN worker = Workers /\ recon' = recon /\ ingest' = ingest
  BY DEF TypeInv, ExplainedInv, WorkersOK, SetWorker
<1>2. \A v \in Workers : worker'[v] = IF v = w THEN s ELSE worker[v]
  BY <1>1 DEF SetWorker
<1> QED BY <1>1, <1>2 DEF IdleHandsEmpty

LEMMA IngestIdles ==
  ASSUME TypeInv, IdleHandsEmpty, NEW i \in Ingestors, NEW s, SetIngest(i, s),
         s.phase # "write" => s.prices = <<>>
  PROVE  IdleHandsEmpty'
<1>1. DOMAIN ingest = Ingestors /\ recon' = recon /\ worker' = worker
  BY DEF TypeInv, ExplainedInv, IngestsOK, SetIngest
<1>2. \A v \in Ingestors : ingest'[v] = IF v = i THEN s ELSE ingest[v]
  BY <1>1 DEF SetIngest
<1> QED BY <1>1, <1>2 DEF IdleHandsEmpty

LEMMA ReconIdles ==
  ASSUME TypeInv, IdleHandsEmpty, NEW r \in Reconcilers, NEW s, SetRecon(r, s),
         s.phase # "write" => s.prices = <<>>
  PROVE  IdleHandsEmpty'
<1>1. DOMAIN recon = Reconcilers /\ ingest' = ingest /\ worker' = worker
  BY DEF TypeInv, ExplainedInv, ReconsOK, SetRecon
<1>2. \A v \in Reconcilers : recon'[v] = IF v = r THEN s ELSE recon[v]
  BY <1>1 DEF SetRecon
<1> QED BY <1>1, <1>2 DEF IdleHandsEmpty
-------------------------------------------------------------------------------
(* Work queued for a row stays queued, or is the work the step takes.      *)
Continues(w, p) ==
  worker[w].phase = "continue" /\ Covers(worker[w].job.promo, p) /\ p > worker[w].next
Awaits(i, p) == ingest[i].phase = "upserted" /\ ingest[i].id = p

LEMMA QueuedMoves ==
  ASSUME HistInv, PromotionsFrozen, NEW p, row'[p].category = row[p].category, Queued(p)
  PROVE  \/ Queued(p)'
         \/ \E h \in pending \ pending' : Covers(h.promo, p)
         \/ \E j \in DOMAIN jobs \ DOMAIN jobs' : Covers(j.promo, p) /\ p > j.cursor
         \/ \E w \in Workers : worker'[w] # worker[w] /\ Continues(w, p)
         \/ \E i \in Ingestors : ingest'[i] # ingest[i] /\ Awaits(i, p)
<1>0. QueueTyped /\ WorkersTyped /\ DecidedWork
  BY QueueTypeParts DEF HistInv, HistoryInv, TypeInv
<1>1. ASSUME NEW h \in pending \cap pending', Covers(h.promo, p)
      PROVE  Queued(p)'
  <2>1. h.promo \in PromotionIds /\ promotions[h.promo].status \in Decided
    BY <1>0 DEF QueueTyped, Handoff, DecidedWork
  <2>2. (Covers(h.promo, p))'
    BY <1>1, <2>1, CoversLasts
  <2> QED BY <2>2 DEF Queued
<1>2. ASSUME NEW j \in DOMAIN jobs \cap DOMAIN jobs', Covers(j.promo, p), p > j.cursor
      PROVE  Queued(p)'
  <2>1. j.promo \in PromotionIds /\ promotions[j.promo].status \in Decided
    BY <1>0 DEF QueueTyped, Job, DecidedWork
  <2>2. (Covers(j.promo, p))'
    BY <1>2, <2>1, CoversLasts
  <2> QED BY <1>2, <2>2 DEF Queued
<1>3. ASSUME NEW w \in Workers, worker'[w] = worker[w], Continues(w, p)
      PROVE  Queued(p)'
  <2>1. PICK k : k = worker[w].job.promo
    OBVIOUS
  <2>2. k \in PromotionIds /\ promotions[k].status \in Decided /\ Covers(k, p)
    BY <1>0, <1>3, <2>1 DEF WorkersTyped, WorkerTyped, Job, DecidedWork, Continues
  <2>3. (Covers(k, p))'
    BY <2>2, CoversLasts
  <2>4. (Covers(worker[w].job.promo, p))'
    BY <1>3, <2>1, <2>3 DEF Covers
  <2> QED BY <1>3, <2>4 DEF Queued, Continues
<1>4. ASSUME NEW i \in Ingestors, ingest'[i] = ingest[i], Awaits(i, p)
      PROVE  Queued(p)'
  BY <1>4 DEF Queued, Awaits
<1> QED BY <1>1, <1>2, <1>3, <1>4 DEF Queued, Continues, Awaits

(* A fault loses what it takes: Lost says so.                              *)
LEMMA FaultLoses ==
  ASSUME HistInv, faults' = faults + 1, NEW m
  PROVE  QueuedStays(m) /\ LeavesQueued(m)
<1>1. faults' # faults
  BY DEF HistInv, HistoryInv
<1>2. \A p \in stored : Queued(p) => Queued(p)' \/ p \in Lost
  BY <1>1 DEF Lost, Ahead
<1> QED BY <1>1, <1>2 DEF QueuedStays, LeavesQueued

LEMMA SameRowsSteady ==
  ASSUME UNCHANGED <<promotions, now>>, NEW p,
         row'[p].base = row[p].base, row'[p].category = row[p].category
  PROVE  Steady(p)
  BY DEF Steady, PriceHolds, Projected

(* What the promotions a step leaves decided promise to the queue.         *)
LEMMA DecidedLasts ==
  ASSUME HistInv, PromotionsFrozen,
         \A h \in pending' \ pending : promotions'[h.promo].status \in Decided,
         \A j \in DOMAIN jobs' \ DOMAIN jobs : promotions'[j.promo].status \in Decided,
         \A e \in scheduled' \ scheduled : promotions'[e.promo].status \in Decided,
         \A w \in Workers : \/ worker'[w] = worker[w] \/ worker'[w].phase = "idle"
                            \/ promotions'[worker'[w].job.promo].status \in Decided
  PROVE  DecidedWork'
<1>0. QueueTyped /\ WorkersTyped /\ DecidedWork
  BY QueueTypeParts DEF HistInv, HistoryInv, TypeInv
<1>1. \A h \in pending' : promotions'[h.promo].status \in Decided
  BY <1>0 DEF DecidedWork, QueueTyped, Handoff, PromotionsFrozen
<1>2. \A j \in DOMAIN jobs' : promotions'[j.promo].status \in Decided
  BY <1>0 DEF DecidedWork, QueueTyped, Job, PromotionsFrozen
<1>3. \A e \in scheduled' : promotions'[e.promo].status \in Decided
  BY <1>0 DEF DecidedWork, QueueTyped, Handoff, PromotionsFrozen
<1>4. ASSUME NEW w \in Workers, worker'[w].phase # "idle"
      PROVE  promotions'[worker'[w].job.promo].status \in Decided
  <2>1. CASE worker'[w] = worker[w]
    BY <1>0, <1>4, <2>1 DEF DecidedWork, WorkersTyped, WorkerTyped, Job, PromotionsFrozen
  <2> QED BY <1>4, <2>1
<1> QED BY <1>1, <1>2, <1>3, <1>4 DEF DecidedWork

LEMMA EdgesKeepWaiting ==
  ASSUME HistInv, UNCHANGED <<promotions, now>>, scheduled' = scheduled, DOMAIN jobs \subseteq DOMAIN jobs'
  PROVE  EdgesWait'
  BY DEF HistInv, HistoryInv, EdgesWait, EdgeWaits, Upcoming, EdgeJob
-------------------------------------------------------------------------------
LEMMA StartedPromises ==
  ASSUME HistInv
  PROVE  /\ QueueTyped /\ WorkersTyped /\ WorkersOK /\ DecidedWork /\ EdgesWait /\ JobsCounted
         /\ IdleHandsEmpty /\ PromoTypeOK /\ TypeInv /\ stored \subseteq Products
         /\ row \in [Products -> Row] /\ IsFiniteSet(stored)
  BY QueueTypeParts DEF HistInv, HistoryInv, TypeInv, ExplainedInv, ProductTypeOK

(* A step that moves no hand and writes no price.                          *)
LEMMA QuietFollows ==
  ASSUME HistInv, UNCHANGED <<worker, recon, ingest>>, NEW m,
         \A p \in stored : PriceOf(row'[p]) = PriceOf(row[p]),
         ChangesQueued, QueuedStays(m)
  PROVE  Followable(m)
<1>1. \A h \in Hands : HandKept(h)
  BY NoHandMoves
<1>2. \A h \in Hands : Written(h) = {}
  BY <1>1, KeptHand
<1>3. LeavesQueued(m)
  <2> SUFFICES ASSUME m \in Duty, Holding(m)' = {} PROVE Holding(m) = {}
    BY DEF LeavesQueued
  <2>1. m \in Hands
    BY HandKinds
  <2> QED BY <1>1, <2>1, KeptHand
<1>4. OneHandMoves(m) /\ WritesOnly(m)
  BY <1>1, <1>2 DEF OneHandMoves, WritesOnly
<1> QED BY <1>3, <1>4 DEF Followable

(* A step of the promotions: it may queue work, and takes none.            *)
LEMMA PromotionStepHistory ==
  ASSUME HistInv, TypeInv', Watch, Grows, EndsFrozen,
         UNCHANGED <<stored, row, worker, recon, ingest, jobs, scheduled, faults>>,
         pending \subseteq pending',
         \A h \in pending' \ pending : promotions'[h.promo].status \in Decided,
         \A p \in stored : PriceHolds(p) \/ Queued(p)' \/ p \in Missed
  PROVE  HistInv'
<1> DEFINE m == 0
<1>0. /\ QueueTyped /\ DecidedWork /\ EdgesWait /\ PromotionsFrozen
      /\ JobsCounted /\ IdleHandsEmpty
  BY StartedPromises DEF Grows
<1>1. ChangesQueued
  BY DEF ChangesQueued, Steady
<1>2. QueuedStays(m)
  BY <1>0, QueuedMoves DEF QueuedStays
<1>3. Followable(m)
  BY <1>1, <1>2, QuietFollows
<1>4. DecidedWork'
  BY <1>0, DecidedLasts
<1>5. EdgesWait'
  <2> SUFFICES ASSUME Skew = 0, NEW e \in scheduled, Upcoming(e)'
               PROVE  Upcoming(e)
    BY <1>0 DEF EdgesWait, EdgeWaits, EdgeJob
  <2> DEFINE k == e.promo
  <2>1. k \in PromotionIds /\ promotions[k].status \in Decided
    BY <1>0 DEF QueueTyped, Handoff, DecidedWork
  <2>2. /\ promotions'[k].startsAt = promotions[k].startsAt
        /\ promotions'[k].endsAt = promotions[k].endsAt
    BY <1>0, <2>1 DEF PromotionsFrozen, EndsFrozen
  <2>3. promotions[k].startsAt \in Nat /\ promotions[k].endsAt \in Nat
    BY <2>1 DEF Grows, PromotionRow
  <2>4. now \in Nat /\ now' \in Nat /\ now <= now'
    BY DEF Grows
  <2> QED BY <2>2, <2>3, <2>4 DEF Upcoming
<1>6. JobsCounted' /\ IdleHandsEmpty' /\ (faults \in Nat)'
  BY <1>0 DEF JobsCounted, IdleHandsEmpty, HistInv, HistoryInv
<1> QED BY <1>0, <1>3, <1>4, <1>5, <1>6, Conclude DEF Rest

LEMMA PublishOrCancelHistory ==
  ASSUME HistInv, TypeInv', Watch, NEW k \in PromotionIds,
         (\E t \in Target : Publish(k, t)) \/ Cancel(k)
  PROVE  HistInv'
<1>0. PromoTypeOK
  BY StartedPromises
<1>1. /\ UNCHANGED <<stored, row, past, worker, recon, ingest, jobs, scheduled, faults>>
      /\ \/ \E t \in Target : AssignAndPublish(k, t[1], t[2])
         \/ CancelPromotion(k)
  BY DEF Publish, Cancel, productVars, procVars, NoFault, budgetVars
<1>2. Grows /\ EndsFrozen
  BY <1>0, <1>1, PromotionStepGrows, PromotionStepEnds DEF HistInv, TypeInv, ExplainedInv
<1>3. promotions'[k].status \in Decided
  <2>1. ASSUME NEW t \in Target, AssignAndPublish(k, t[1], t[2])
        PROVE  promotions'[k].status = "published"
    BY <1>0, <2>1 DEF AssignAndPublish, PromoTypeOK, PromotionRow
  <2>2. CancelPromotion(k) => promotions'[k].status = "cancelled"
    BY <1>0 DEF CancelPromotion, PromoTypeOK, PromotionRow
  <2> QED BY <1>1, <2>1, <2>2 DEF Decided
<1>4. \E reason : pending' = pending \cup {[promo |-> k, reason |-> reason]}
  BY DEF Publish, Cancel, HandOff
<1>5. PICK h : h.promo = k /\ pending' = pending \cup {h}
  <2>1. PICK reason : pending' = pending \cup {[promo |-> k, reason |-> reason]}
    BY <1>4
  <2>2. [promo |-> k, reason |-> reason].promo = k
    OBVIOUS
  <2> QED BY <2>1, <2>2
<1>6. ASSUME NEW p \in stored PROVE PriceHolds(p) \/ Queued(p)'
  <2>1. CASE Targets(promotions'[k], p, row[p].category)
    <3>1. h \in pending' /\ (Covers(h.promo, p))'
      BY <1>1, <1>5, <2>1 DEF Covers
    <3> QED BY <3>1 DEF Queued
  <2>2. CASE ~Targets(promotions'[k], p, row[p].category)
    BY <1>0, <1>1, <2>2, PublishPrice, CancelPrice
  <2> QED BY <2>1, <2>2
<1>7. pending \subseteq pending' /\ \A g \in pending' \ pending : promotions'[g.promo].status \in Decided
  BY <1>3, <1>5
<1> QED BY <1>1, <1>2, <1>6, <1>7, PromotionStepHistory

LEMMA DraftHistory ==
  ASSUME HistInv, TypeInv', Watch, Draft
  PROVE  HistInv'
<1>0. PromoTypeOK
  BY StartedPromises
<1>1. UNCHANGED <<stored, row, past, worker, recon, ingest, pending, jobs, scheduled, faults>>
  BY DEF Draft, productVars, queueVars, procVars, NoFault, budgetVars
<1>2. PICK k \in PromotionIds, w \in Windows, d \in Discounts : CreateDraft(k, w, d)
  BY DEF Draft
<1>3. Grows /\ EndsFrozen
  BY <1>0, <1>1, <1>2, PromotionStepGrows, PromotionStepEnds DEF HistInv, TypeInv, ExplainedInv
<1>4. \A p \in stored : PriceHolds(p)
  BY <1>0, <1>1, <1>2, DraftPrice
<1> QED BY <1>1, <1>3, <1>4, PromotionStepHistory

(* The clock reaches no edge the scheduler has not seen, and the job of an *)
(* edge it has seen is still there; or the rows the edge reprices are      *)
(* among those Missed.                                                     *)
LEMMA TickHistory ==
  ASSUME HistInv, TypeInv', Watch, ClockTick
  PROVE  HistInv'
<1>0. PromoTypeOK /\ EdgesWait /\ Horizon \in Nat /\ stored \subseteq Products
  BY StartedPromises, SizesAssumption
<1>1. /\ UNCHANGED <<stored, row, past, worker, recon, ingest, pending, jobs, scheduled, faults>>
      /\ Tick
  BY DEF ClockTick, productVars, queueVars, procVars, NoFault, budgetVars
<1>2. Grows /\ EndsFrozen
  BY <1>0, <1>1, PromotionStepGrows, PromotionStepEnds DEF HistInv, TypeInv, ExplainedInv
<1>3. promotions' = promotions /\ now \in Nat /\ now' = now + 1
  BY <1>0, <1>1 DEF Tick, PromoTypeOK
<1>4. ASSUME Timely, NEW p \in stored, NEW k \in PromotionIds, promotions[k].status = "published",
             Targets(promotions[k], p, row[p].category),
             promotions[k].startsAt = now + 1 \/ promotions[k].endsAt = now + 1
      PROVE  Queued(p)'
  <2>0. Horizon > 1 /\ EdgesAhead \subseteq scheduled /\ \A e \in scheduled : EdgeWaits(e)
    BY <1>0, <1>4 DEF Timely, EdgesWait
  <2>1. \E e \in EdgesAhead : e.promo = k /\ Upcoming(e)
    <3>1. CASE promotions[k].startsAt = now + 1
      <4> DEFINE e == [promo |-> k, reason |-> "promotion.window.opened"]
      <4>1. now <= promotions[k].startsAt /\ promotions[k].startsAt < now + Horizon
        BY <1>0, <1>3, <2>0, <3>1
      <4>2. e \in EdgesAhead
        BY <1>4, <4>1 DEF EdgesAhead
      <4>3. e.promo = k /\ e.reason = "promotion.window.opened" /\ now < promotions[k].startsAt
        BY <1>3, <3>1
      <4> HIDE DEF e
      <4> QED BY <4>2, <4>3 DEF Upcoming
    <3>2. CASE promotions[k].endsAt = now + 1
      <4> DEFINE e == [promo |-> k, reason |-> "promotion.window.closed"]
      <4>1. now <= promotions[k].endsAt /\ promotions[k].endsAt < now + Horizon
        BY <1>0, <1>3, <2>0, <3>2
      <4>2. e \in EdgesAhead
        BY <1>4, <4>1 DEF EdgesAhead
      <4>3. e.promo = k /\ e.reason = "promotion.window.closed" /\ now < promotions[k].endsAt
        BY <1>3, <3>2
      <4> HIDE DEF e
      <4> QED BY <4>2, <4>3 DEF Upcoming
    <3> QED BY <1>4, <3>1, <3>2
  <2>2. PICK e \in scheduled : e.promo = k /\ Upcoming(e)
    BY <2>0, <2>1
  <2> DEFINE j == EdgeJob(e)
  <2>3. j \in DOMAIN jobs' /\ j.promo = k /\ j.cursor = Null
    BY <1>1, <2>0, <2>2 DEF EdgeWaits, EdgeJob
  <2>4. p > Null
    BY <1>0, ProductsAssumption DEF Null
  <2>5. (Covers(k, p))'
    BY <1>1, <1>3, <1>4 DEF Covers
  <2> HIDE DEF j
  <2> QED BY <2>3, <2>4, <2>5 DEF Queued
<1>5. ASSUME NEW p \in stored PROVE PriceHolds(p) \/ Queued(p)' \/ p \in Missed
  <2>1. CASE Timely
    BY <1>0, <1>1, <1>4, <2>1, TickPrice
  <2>2. CASE ~Timely
    <3>1. now' # now
      BY <1>3
    <3> QED BY <2>2, <3>1 DEF Missed, PriceHolds
  <2> QED BY <2>1, <2>2
<1> QED BY <1>1, <1>2, <1>5, PromotionStepHistory
-------------------------------------------------------------------------------
(* Steps of the queue between the processes.                               *)
LEMMA QueueStepHistory ==
  ASSUME HistInv, TypeInv', Watch, UNCHANGED <<promotions, now, stored, row, worker, recon, ingest>>,
         NEW m, QueuedStays(m), JobsCounted', DecidedWork', EdgesWait', (faults \in Nat)'
  PROVE  HistInv'
<1>1. PromotionsFrozen
  BY DEF PromotionsFrozen
<1>2. ChangesQueued
  BY SameRowsSteady DEF ChangesQueued
<1>3. Followable(m)
  BY <1>2, QuietFollows
<1>4. IdleHandsEmpty'
  BY StartedPromises DEF IdleHandsEmpty
<1> QED BY <1>1, <1>3, <1>4, Conclude DEF Rest

LEMMA EnqueueHistory ==
  ASSUME HistInv, TypeInv', Watch, NEW h \in pending, EnqueueProjection(h)
  PROVE  HistInv'
<1>0. /\ QueueTyped /\ DecidedWork /\ EdgesWait /\ JobsCounted /\ stored \subseteq Products
      /\ faults \in Nat
  BY StartedPromises DEF HistInv, HistoryInv
<1> DEFINE j == [promo |-> h.promo, reason |-> h.reason, cursor |-> Null, tries |-> MaxAttempts]
           m == 0
<1>1. /\ UNCHANGED <<promotions, now, stored, row, worker, recon, ingest, faults, scheduled>>
      /\ pending' = pending \ {h} /\ Enqueue({j})
  BY DEF EnqueueProjection, productVars, procVars, NoFault, budgetVars
<1>2. j.promo = h.promo /\ j.cursor = Null
  OBVIOUS
<1> HIDE DEF j
<1>3. JobsCounted' /\ DOMAIN jobs' = DOMAIN jobs \cup {j}
  BY <1>0, <1>1, CountedAdd
<1>4. PromotionsFrozen
  BY <1>1 DEF PromotionsFrozen
<1>5. DecidedWork'
  <2>1. promotions'[j.promo].status \in Decided
    BY <1>0, <1>1, <1>2 DEF DecidedWork
  <2> QED BY <1>1, <1>3, <1>4, <2>1, DecidedLasts
<1>6. EdgesWait'
  BY <1>1, <1>3, EdgesKeepWaiting
<1>7. ASSUME NEW p \in stored, Queued(p) PROVE Queued(p)'
  <2>1. Queued(p)' \/ Covers(h.promo, p)
    BY <1>1, <1>3, <1>4, <1>7, QueuedMoves
  <2>2. p > Null
    BY <1>0, ProductsAssumption DEF Null
  <2>3. CASE Covers(h.promo, p)
    <3>1. (Covers(j.promo, p))' /\ j \in DOMAIN jobs' /\ p > j.cursor
      BY <1>1, <1>2, <1>3, <2>2, <2>3 DEF Covers
    <3> QED BY <3>1 DEF Queued
  <2> QED BY <2>1, <2>3
<1>8. QueuedStays(m)
  BY <1>7 DEF QueuedStays
<1> QED BY <1>0, <1>1, <1>3, <1>5, <1>6, <1>8, QueueStepHistory

LEMMA ApiCrashHistory ==
  ASSUME HistInv, TypeInv', Watch, NEW h \in pending, ApiCrash(h)
  PROVE  HistInv'
<1>0. DecidedWork /\ EdgesWait /\ JobsCounted /\ faults \in Nat
  BY StartedPromises DEF HistInv, HistoryInv
<1> DEFINE m == 0
<1>1. /\ UNCHANGED <<promotions, now, stored, row, worker, recon, ingest, jobs, scheduled>>
      /\ pending' = pending \ {h} /\ faults' = faults + 1
  BY DEF ApiCrash, productVars, procVars, Fault
<1>2. QueuedStays(m)
  BY <1>1, FaultLoses
<1>3. JobsCounted' /\ DecidedWork' /\ (faults \in Nat)'
  BY <1>0, <1>1 DEF JobsCounted, DecidedWork
<1>4. EdgesWait'
  BY <1>1, EdgesKeepWaiting
<1> QED BY <1>1, <1>2, <1>3, <1>4, QueueStepHistory

LEMMA SchedulerHistory ==
  ASSUME HistInv, TypeInv', Watch, ScheduleEdges
  PROVE  HistInv'
<1>0. DecidedWork /\ EdgesWait /\ JobsCounted /\ faults \in Nat
  BY StartedPromises DEF HistInv, HistoryInv
<1> DEFINE new == EdgesAhead \ scheduled
           js == {[promo |-> e.promo, reason |-> e.reason, cursor |-> Null, tries |-> 1] : e \in new}
           m == 0
<1>1. /\ UNCHANGED <<promotions, now, stored, row, worker, recon, ingest, faults, pending>>
      /\ scheduled' = scheduled \cup new /\ Enqueue(js)
  BY DEF ScheduleEdges, productVars, procVars, NoFault, budgetVars
<1>2. js = {EdgeJob(e) : e \in new}
  BY DEF EdgeJob
<1>3. \A e \in new : promotions[e.promo].status \in Decided
  BY DEF EdgesAhead, Decided
<1>4. \A j \in js : \E e \in new : j.promo = e.promo
  BY <1>2 DEF EdgeJob
<1> HIDE DEF js
<1>5. JobsCounted' /\ DOMAIN jobs' = DOMAIN jobs \cup js
  BY <1>0, <1>1, CountedAdd
<1> HIDE DEF new
<1>6. PromotionsFrozen
  BY <1>1 DEF PromotionsFrozen
<1>7. DecidedWork'
  BY <1>1, <1>3, <1>4, <1>5, <1>6, DecidedLasts
<1>8. EdgesWait'
  <2> SUFFICES ASSUME Skew = 0, NEW e \in scheduled', Upcoming(e)'
               PROVE  EdgeJob(e) \in DOMAIN jobs'
    BY DEF EdgesWait, EdgeWaits, EdgeJob
  <2>1. CASE e \in new
    BY <1>2, <1>5, <2>1
  <2>2. CASE e \in scheduled
    BY <1>0, <1>1, <1>5, <2>2 DEF EdgesWait, EdgeWaits, Upcoming
  <2> QED BY <1>1, <2>1, <2>2
<1>9. QueuedStays(m)
  BY <1>1, <1>5, <1>6, QueuedMoves DEF QueuedStays
<1> QED BY <1>0, <1>1, <1>5, <1>7, <1>8, <1>9, QueueStepHistory
-------------------------------------------------------------------------------
(* The part every step of a worker shares.                                 *)
LEMMA WorkerHistory ==
  ASSUME HistInv, TypeInv', Watch, UNCHANGED <<promotions, now, stored, pending, scheduled>>,
         NEW w \in Workers, NEW s, SetWorker(w, s),
         s.phase # "project" => s.prices = <<>>,
         s.phase = "idle" \/ promotions[s.job.promo].status \in Decided,
         TakesSnapshot(WorkerHand(w)) \/ s.prices = <<>>,
         \A p \in stored : row'[p].base = row[p].base /\ row'[p].category = row[p].category,
         WritesOnly(WorkerHand(w)), QueuedStays(WorkerHand(w)), LeavesQueued(WorkerHand(w)),
         JobsCounted', \A j \in DOMAIN jobs' \ DOMAIN jobs : promotions[j.promo].status \in Decided,
         EdgesWait', (faults \in Nat)'
  PROVE  HistInv'
<1> DEFINE m == WorkerHand(w)
<1>1. /\ \A h \in Hands \ {m} : HandKept(h)
      /\ PricesIn(m)' = s.prices /\ worker'[w] = s
      /\ \A v \in Workers \ {w} : worker'[v] = worker[v]
  BY StartedPromises, WorkerHandMoves
<1>2. TakesSnapshot(m) \/ Holding(m)' = {}
  BY <1>1 DEF Holding
<1>3. OneHandMoves(m)
  BY <1>1, <1>2 DEF OneHandMoves
<1>4. ChangesQueued
  BY SameRowsSteady DEF ChangesQueued
<1>5. Followable(m)
  BY <1>3, <1>4 DEF Followable
<1>6. PromotionsFrozen
  BY DEF PromotionsFrozen
<1>7. DecidedWork'
  <2>1. \A v \in Workers : \/ worker'[v] = worker[v] \/ worker'[v].phase = "idle"
                           \/ promotions'[worker'[v].job.promo].status \in Decided
    BY <1>1
  <2> QED BY <1>6, <2>1, DecidedLasts
<1>8. IdleHandsEmpty'
  BY StartedPromises, WorkerIdles
<1> QED BY <1>5, <1>6, <1>7, <1>8, Conclude DEF Rest

LEMMA IdleHandWritesNothing ==
  ASSUME NEW h, Holding(h) = {}, UNCHANGED row
  PROVE  WritesOnly(h) /\ LeavesQueued(h)
<1>1. Written(h) = {}
  BY DEF Written
<1> QED BY <1>1 DEF WritesOnly, LeavesQueued

LEMMA IdleWorkerHand ==
  ASSUME HistInv, NEW w \in Workers, worker[w].phase # "project"
  PROVE  Holding(WorkerHand(w)) = {}
  BY StartedPromises, HandKinds DEF IdleHandsEmpty, Holding

(* A due job is not one that waits for an edge, and the rows it is ahead   *)
(* of are in its snapshot.                                                 *)
LEMMA StartJobHistory ==
  ASSUME HistInv, TypeInv', Watch, NEW w \in Workers, NEW j \in BagToSet(jobs), StartJob(w, j)
  PROVE  HistInv'
<1>0. /\ QueueTyped /\ DecidedWork /\ EdgesWait /\ JobsCounted /\ TypeInv
      /\ stored \subseteq Products /\ PromoTypeOK /\ faults \in Nat
  BY StartedPromises DEF HistInv, HistoryInv
<1> DEFINE prices == Snapshot(JobIds(j))
           s == [phase |-> "project", job |-> j, prices |-> prices, next |-> Null]
           m == WorkerHand(w)
<1>1. /\ UNCHANGED <<promotions, now, stored, row, faults, pending, scheduled>>
      /\ worker[w].phase = "idle" /\ IsDue(j)
      /\ jobs' = jobs (-) SetToBag({j}) /\ SetWorker(w, s)
  BY DEF StartJob, productVars, NoFault, budgetVars
<1>2. /\ s.phase = "project" /\ s.job = j /\ s.prices = prices
      /\ DOMAIN prices = JobIds(j) /\ \A p \in JobIds(j) : prices[p] = Projected(p, row[p])
  BY DEF Snapshot
<1> HIDE DEF prices, s
<1>3. /\ m \in JobHands /\ m[2] = w /\ m \in Duty /\ PricesIn(m)' = prices /\ worker'[w] = s
      /\ \A v \in Workers \ {w} : worker'[v] = worker[v]
  BY <1>0, <1>1, <1>2, WorkerHandMoves, HandKinds DEF Duty
<1>4. JobsCounted' /\ DOMAIN jobs \ {j} \subseteq DOMAIN jobs' /\ DOMAIN jobs' \subseteq DOMAIN jobs
  BY <1>0, <1>1, CountedRemove
<1>5. j \in DOMAIN jobs /\ j \in Job /\ promotions[j.promo].status \in Decided
  BY <1>0 DEF BagToSet, QueueTyped, DecidedWork
<1>6. Holding(m) = {}
  BY <1>1, IdleWorkerHand
<1> HIDE DEF m
<1>7. TakesSnapshot(m)
  <2> SUFFICES ASSUME NEW p \in Holding(m)' PROVE WillBeRight(m, p)'
    BY <1>6 DEF TakesSnapshot
  <2>1. p \in JobIds(j)
    BY <1>2, <1>3 DEF Holding
  <2>2. PricesIn(m)'[p] = (Projected(p, row[p]))'
    BY <1>1, <1>2, <1>3, <2>1 DEF Projected
  <2>3. (OfCategory(worker[m[2]].job))' => row'[p].category = promotions'[worker'[m[2]].job.promo].target
    BY <1>1, <1>2, <1>3, <2>1 DEF OfCategory, JobIds
  <2> QED BY <2>2, <2>3 DEF WillBeRight
<1>8. QueuedStays(m)
  <2> SUFFICES ASSUME NEW p \in stored, Queued(p)
               PROVE  Queued(p)' \/ p \in Holding(m)'
    BY <1>3, <1>6 DEF QueuedStays
  <2>1. PromotionsFrozen /\ row'[p].category = row[p].category /\ ingest' = ingest
    BY <1>1 DEF PromotionsFrozen, SetWorker
  <2>2. \A v \in Workers : worker'[v] # worker[v] => ~Continues(v, p)
    BY <1>1, <1>3 DEF Continues
  <2>3. Queued(p)' \/ (Covers(j.promo, p) /\ p > j.cursor)
    BY <1>1, <1>4, <2>1, <2>2, QueuedMoves
  <2>4. CASE Covers(j.promo, p) /\ p > j.cursor
    <3>1. p \in JobIds(j)
      BY <2>4 DEF Covers, Targets, JobIds, OfCategory
    <3> QED BY <1>2, <1>3, <3>1 DEF Holding
  <2> QED BY <2>3, <2>4
<1>9. EdgesWait'
  <2> SUFFICES ASSUME Skew = 0, NEW e \in scheduled, Upcoming(e)
               PROVE  EdgeJob(e) \in DOMAIN jobs'
    BY <1>1 DEF EdgesWait, EdgeWaits, EdgeJob, Upcoming
  <2>1. EdgeJob(e) \in DOMAIN jobs
    BY <1>0 DEF EdgesWait, EdgeWaits
  <2>2. EdgeJob(e) # j
    <3> SUFFICES ASSUME EdgeJob(e) = j PROVE FALSE
      OBVIOUS
    <3>1. j.promo = e.promo /\ j.reason = e.reason
      BY DEF EdgeJob
    <3>2. /\ promotions[e.promo].startsAt \in Nat /\ promotions[e.promo].endsAt \in Nat /\ now \in Nat
      BY <1>0, <1>5, <3>1 DEF Job, PromoTypeOK, PromotionRow
    <3>3. /\ e.reason = "promotion.window.opened" => promotions[e.promo].startsAt <= now
          /\ e.reason = "promotion.window.closed" => promotions[e.promo].endsAt <= now
      BY <1>1, <3>1, <3>2 DEF IsDue
    <3> QED BY <3>2, <3>3 DEF Upcoming
  <2> QED BY <1>4, <2>1, <2>2
<1>10. WritesOnly(m) /\ LeavesQueued(m)
  BY <1>1, <1>6, IdleHandWritesNothing
<1>11. (faults \in Nat)' /\ \A p \in stored : row'[p].base = row[p].base /\ row'[p].category = row[p].category
  BY <1>0, <1>1
<1> QED BY <1>1, <1>2, <1>4, <1>5, <1>7, <1>8, <1>9, <1>10, <1>11, WorkerHistory DEF m

(* A batch writes the rows it locked, and what it leaves out is not of the *)
(* category any more or comes after the last row it wrote.                 *)
LEMMA CommitBatchHistory ==
  ASSUME HistInv, TypeInv', Watch, NEW w \in Workers, CommitBatch(w)
  PROVE  HistInv'
<1>0. /\ QueueTyped /\ DecidedWork /\ EdgesWait /\ JobsCounted /\ TypeInv /\ faults \in Nat
      /\ stored \subseteq Products /\ IsFiniteSet(stored) /\ row \in [Products -> Row]
      /\ WorkersTyped /\ PricesOK(worker[w].prices)
  BY StartedPromises DEF WorkersOK, HistInv, HistoryInv
<1> DEFINE old == worker[w]
           seen == DOMAIN old.prices
           ids == LockedBatch(w)
           next == IF OfCategory(old.job) THEN NextCursor(ids, BatchSize) ELSE Null
           s == [phase |-> IF next = Null THEN "complete" ELSE "continue",
                 job |-> old.job, prices |-> <<>>, next |-> next]
           m == WorkerHand(w)
<1>1. /\ UNCHANGED <<promotions, now, stored, faults, pending, jobs, scheduled>>
      /\ old.phase = "project" /\ Write(old.prices, ids) /\ SetWorker(w, s)
  BY DEF CommitBatch, queueVars, NoFault, budgetVars
<1>2. /\ s.phase = (IF next = Null THEN "complete" ELSE "continue")
      /\ s.job = old.job /\ s.next = next /\ s.prices = <<>>
  OBVIOUS
<1> HIDE DEF s
<1>3. /\ m \in JobHands /\ m[2] = w /\ m \in Hands /\ PricesIn(m)' = <<>> /\ PricesIn(m) = old.prices
      /\ worker'[w] = s /\ \A v \in Workers \ {w} : worker'[v] = worker[v]
  BY <1>0, <1>1, <1>2, WorkerHandMoves, HandKinds
<1>4. /\ seen \subseteq stored /\ old.job \in Job
      /\ promotions[old.job.promo].status \in Decided
  BY <1>0, <1>1 DEF PricesOK, WorkersTyped, WorkerTyped, DecidedWork
<1>5. ids \subseteq seen
  BY DEF LockedBatch, FirstOf
<1>6. Holding(m)' = {} /\ Holding(m) = seen /\ Written(m) = ids
  <2>1. Holding(m)' = {} /\ Holding(m) = seen
    BY <1>3 DEF Holding
  <2> QED BY <1>1, <1>3, <1>5, <2>1 DEF Written
<1> HIDE DEF m
<1>7. ASSUME NEW p \in seen \ ids, WillBeRight(m, p)
      PROVE  /\ s.phase = "continue" /\ p > s.next
             /\ Covers(old.job.promo, p)
  <2> DEFINE matching == {q \in seen : row[q].category = promotions[old.job.promo].target}
  <2>1. OfCategory(old.job) /\ ids = FirstOf(BatchSize, matching)
    BY <1>7 DEF LockedBatch
  <2>2. row[p].category = promotions[old.job.promo].target
    BY <1>3, <1>7, <2>1 DEF WillBeRight
  <2>3. matching \in SUBSET Products /\ IsFiniteSet(matching) /\ BatchSize \in Nat \ {0}
    <3>1. matching \subseteq stored
      BY <1>4
    <3> QED BY <1>0, <3>1, FS_Subset, SizesAssumption
  <2>4. NextCursor(ids, BatchSize) \in Products /\ p > NextCursor(ids, BatchSize)
    <3>1. p \in matching \ FirstOf(BatchSize, matching)
      BY <1>7, <2>1, <2>2
    <3> HIDE DEF matching
    <3> QED BY <2>1, <2>3, <3>1, FirstOfCuts
  <2>5. next = NextCursor(ids, BatchSize)
    BY <2>1
  <2> HIDE DEF next, ids
  <2>6. next # Null
    BY <2>4, <2>5, ProductsAssumption DEF Null
  <2>7. Covers(old.job.promo, p)
    BY <2>1, <2>2 DEF Covers, Targets, OfCategory
  <2> QED BY <1>2, <2>4, <2>5, <2>6, <2>7
<1> HIDE DEF ids, next
<1>8. ASSUME NEW p \in stored
      PROVE  /\ row'[p].category = row[p].category /\ row'[p].base = row[p].base
             /\ p \in ids => PriceOf(row'[p]) = old.prices[p]
             /\ p \notin ids => row'[p] = row[p]
  <2>1. p \in Products /\ row[p] \in Row
    BY <1>0
  <2>2. p \in ids => old.prices[p] \in Price
    BY <1>0, <1>5 DEF PricesOK
  <2>3. p \notin ids => row'[p] = row[p]
    BY <1>1, <2>1 DEF Write
  <2>4. p \in ids => /\ row'[p].effective = old.prices[p].effective
                     /\ row'[p].active = old.prices[p].active
    BY <1>1, <2>1 DEF Write, Row
  <2>5. row'[p].category = row[p].category /\ row'[p].base = row[p].base
    BY <1>1, <2>1 DEF Write, Row
  <2>6. p \in ids => PriceOf(row'[p]) = old.prices[p]
    BY <2>2, <2>4 DEF PriceOf, Price
  <2> QED BY <2>3, <2>5, <2>6
<1>9. WritesOnly(m)
  BY <1>3, <1>6, <1>8 DEF WritesOnly
<1>10. LeavesQueued(m)
  <2> SUFFICES ASSUME NEW p \in seen \ ids, WillBeRight(m, p) PROVE Queued(p)'
    BY <1>6 DEF LeavesQueued
  <2>1. s.phase = "continue" /\ p > s.next /\ Covers(old.job.promo, p)
    BY <1>7
  <2>2. PICK k : k = old.job.promo
    OBVIOUS
  <2>3. (Covers(k, p))'
    <3>1. row'[p].category = row[p].category /\ promotions' = promotions
      BY <1>1, <1>4, <1>8
    <3> QED BY <2>1, <2>2, <3>1 DEF Covers
  <2>4. worker'[w].phase = "continue" /\ p > worker'[w].next /\ worker'[w].job.promo = k
    BY <1>2, <1>3, <2>1, <2>2
  <2>5. (Covers(worker[w].job.promo, p))'
    BY <2>3, <2>4 DEF Covers
  <2> QED BY <2>4, <2>5 DEF Queued
<1>11. QueuedStays(m)
  <2> SUFFICES ASSUME NEW p \in stored, Queued(p) PROVE Queued(p)'
    BY DEF QueuedStays
  <2>1. PromotionsFrozen /\ row'[p].category = row[p].category /\ ingest' = ingest
    BY <1>1, <1>8 DEF PromotionsFrozen, SetWorker
  <2>2. \A v \in Workers : worker'[v] # worker[v] => ~Continues(v, p)
    BY <1>1, <1>3 DEF Continues
  <2> QED BY <1>1, <2>1, <2>2, QueuedMoves
<1>12. JobsCounted' /\ (faults \in Nat)'
  BY <1>0, <1>1 DEF JobsCounted
<1>13. EdgesWait'
  BY <1>1, EdgesKeepWaiting
<1>14. /\ \A p \in stored : row'[p].base = row[p].base /\ row'[p].category = row[p].category
       /\ \A j \in DOMAIN jobs' \ DOMAIN jobs : promotions[j.promo].status \in Decided
  BY <1>1, <1>8
<1> QED BY <1>1, <1>2, <1>4, <1>9, <1>10, <1>11, <1>12, <1>13, <1>14, WorkerHistory DEF m

LEMMA EnqueueNextHistory ==
  ASSUME HistInv, TypeInv', Watch, NEW w \in Workers, EnqueueNext(w)
  PROVE  HistInv'
<1>0. /\ DecidedWork /\ EdgesWait /\ JobsCounted /\ TypeInv /\ WorkersTyped /\ faults \in Nat
  BY StartedPromises DEF HistInv, HistoryInv
<1> DEFINE old == worker[w]
           next == [old.job EXCEPT !.cursor = old.next, !.tries = 1]
           s == [phase |-> "complete", job |-> old.job, prices |-> <<>>, next |-> old.next]
           m == WorkerHand(w)
<1>1. /\ UNCHANGED <<promotions, now, stored, row, faults, pending, scheduled>>
      /\ old.phase = "continue" /\ Enqueue({next}) /\ SetWorker(w, s)
  BY DEF EnqueueNext, productVars, NoFault, budgetVars
<1>2. old.job \in Job /\ promotions[old.job.promo].status \in Decided
  BY <1>0, <1>1 DEF WorkersTyped, WorkerTyped, DecidedWork
<1>3. /\ next.promo = old.job.promo /\ next.cursor = old.next
      /\ s.phase = "complete" /\ s.job = old.job /\ s.prices = <<>>
  BY <1>2 DEF Job
<1> HIDE DEF next, s
<1>4. PICK j : j = next
  OBVIOUS
<1>5. worker'[w] = s /\ \A v \in Workers \ {w} : worker'[v] = worker[v]
  BY <1>0, <1>1, WorkerHandMoves
<1>6. JobsCounted' /\ DOMAIN jobs' = DOMAIN jobs \cup {j}
  BY <1>0, <1>1, <1>4, CountedAdd
<1>7. EdgesWait'
  BY <1>1, <1>6, EdgesKeepWaiting
<1>8. QueuedStays(m)
  <2> SUFFICES ASSUME NEW p \in stored, Queued(p) PROVE Queued(p)'
    BY DEF QueuedStays
  <2>1. PromotionsFrozen /\ row'[p].category = row[p].category /\ ingest' = ingest
    BY <1>1 DEF PromotionsFrozen, SetWorker
  <2>2. Queued(p)' \/ Continues(w, p)
    BY <1>1, <1>5, <1>6, <2>1, QueuedMoves
  <2>3. CASE Continues(w, p)
    <3>1. Covers(j.promo, p) /\ p > j.cursor
      BY <1>3, <1>4, <2>3 DEF Continues
    <3>2. j \in DOMAIN jobs' /\ (Covers(j.promo, p))'
      BY <1>1, <1>6, <3>1 DEF Covers
    <3> QED BY <3>1, <3>2 DEF Queued
  <2> QED BY <2>2, <2>3
<1>9. WritesOnly(m) /\ LeavesQueued(m)
  <2>1. Holding(m) = {}
    BY <1>1, IdleWorkerHand
  <2> HIDE DEF m
  <2> QED BY <1>1, <2>1, IdleHandWritesNothing
<1>10. \A i \in DOMAIN jobs' \ DOMAIN jobs : promotions[i.promo].status \in Decided
  BY <1>2, <1>3, <1>4, <1>6
<1>11. (faults \in Nat)' /\ \A p \in stored : row'[p].base = row[p].base /\ row'[p].category = row[p].category
  BY <1>0, <1>1
<1> QED BY <1>1, <1>2, <1>3, <1>6, <1>7, <1>8, <1>9, <1>10, <1>11, WorkerHistory

LEMMA CompleteJobHistory ==
  ASSUME HistInv, TypeInv', Watch, NEW w \in Workers, CompleteJob(w)
  PROVE  HistInv'
<1>0. EdgesWait /\ JobsCounted /\ TypeInv /\ faults \in Nat
  BY StartedPromises DEF HistInv, HistoryInv
<1> DEFINE m == WorkerHand(w)
<1>1. /\ UNCHANGED <<promotions, now, stored, row, faults, pending, jobs, scheduled>>
      /\ worker[w].phase = "complete" /\ SetWorker(w, IdleWorker)
  BY DEF CompleteJob, productVars, queueVars, NoFault, budgetVars
<1>2. IdleWorker.phase = "idle" /\ IdleWorker.prices = <<>>
  BY DEF IdleWorker
<1>3. \A v \in Workers \ {w} : worker'[v] = worker[v]
  BY <1>0, <1>1, WorkerHandMoves
<1>4. QueuedStays(m)
  <2> SUFFICES ASSUME NEW p \in stored, Queued(p) PROVE Queued(p)'
    BY DEF QueuedStays
  <2>1. PromotionsFrozen /\ row'[p].category = row[p].category /\ ingest' = ingest
    BY <1>1 DEF PromotionsFrozen, SetWorker
  <2> QED BY <1>1, <1>3, <2>1, QueuedMoves DEF Continues
<1>5. WritesOnly(m) /\ LeavesQueued(m)
  <2>1. Holding(m) = {}
    BY <1>1, IdleWorkerHand
  <2> HIDE DEF m
  <2> QED BY <1>1, <2>1, IdleHandWritesNothing
<1>6. EdgesWait' /\ JobsCounted' /\ (faults \in Nat)'
  BY <1>0, <1>1, EdgesKeepWaiting DEF JobsCounted
<1> QED BY <1>1, <1>2, <1>4, <1>5, <1>6, WorkerHistory

(* A failed or crashed job is queued again, or lost with what it was to    *)
(* write.                                                                  *)
LEMMA WorkerFaultHistory ==
  ASSUME HistInv, TypeInv', Watch, NEW w \in Workers, FailJob(w) \/ CrashWorker(w)
  PROVE  HistInv'
<1>0. EdgesWait /\ JobsCounted /\ TypeInv /\ faults \in Nat /\ WorkersTyped /\ DecidedWork
  BY StartedPromises DEF HistInv, HistoryInv
<1> DEFINE m == WorkerHand(w)
<1>1. /\ UNCHANGED <<promotions, now, stored, row, pending, scheduled>>
      /\ worker[w].phase # "idle" /\ faults' = faults + 1 /\ SetWorker(w, IdleWorker)
  BY DEF FailJob, CrashWorker, productVars, Fault
<1>2. PICK js : Enqueue(js) /\ \A j \in js : j.promo = worker[w].job.promo
  <2>1. CASE FailJob(w)
    <3>1. worker[w].job \in Job
      BY <1>0, <1>1 DEF WorkersTyped, WorkerTyped
    <3>2. \A j \in Retry(worker[w].job) : j.promo = worker[w].job.promo
      BY <3>1 DEF Retry, Job
    <3> QED BY <2>1, <3>2 DEF FailJob
  <2>2. CASE CrashWorker(w)
    BY <2>2 DEF CrashWorker
  <2> QED BY <2>1, <2>2
<1>3. JobsCounted' /\ DOMAIN jobs' = DOMAIN jobs \cup js
  BY <1>0, <1>2, CountedAdd
<1>4. \A j \in DOMAIN jobs' \ DOMAIN jobs : promotions[j.promo].status \in Decided
  BY <1>0, <1>1, <1>2, <1>3 DEF DecidedWork
<1>5. IdleWorker.phase = "idle" /\ IdleWorker.prices = <<>>
  BY DEF IdleWorker
<1>6. QueuedStays(m) /\ LeavesQueued(m)
  BY <1>1, FaultLoses
<1>7. WritesOnly(m)
  <2>1. Written(m) = {}
    BY <1>0, <1>1 DEF Written
  <2> QED BY <1>1, <2>1 DEF WritesOnly
<1>8. EdgesWait' /\ (faults \in Nat)'
  BY <1>0, <1>1, <1>3, EdgesKeepWaiting
<1> QED BY <1>1, <1>3, <1>4, <1>5, <1>6, <1>7, <1>8, WorkerHistory
-------------------------------------------------------------------------------
(* Steps that leave the promotions, the queue and the workers alone.       *)
LEMMA QueueUntouched ==
  ASSUME HistInv, UNCHANGED <<promotions, now, pending, jobs, scheduled, worker>>
  PROVE  /\ PromotionsFrozen /\ JobsCounted' /\ DecidedWork' /\ EdgesWait'
         /\ \A p : row'[p].category = row[p].category =>
              (Queued(p) => \/ Queued(p)'
                            \/ \E i \in Ingestors : ingest'[i] # ingest[i] /\ Awaits(i, p))
<1>1. PromotionsFrozen
  BY DEF PromotionsFrozen
<1>2. JobsCounted' /\ DecidedWork'
  BY StartedPromises DEF JobsCounted, DecidedWork
<1>3. EdgesWait'
  BY EdgesKeepWaiting
<1> QED BY <1>1, <1>2, <1>3, QueuedMoves

LEMMA HandWrites ==
  ASSUME HistInv, UNCHANGED <<promotions, now, stored, faults>>, NEW h \in Hands \ JobHands,
         PricesOK(PricesIn(h)), Write(PricesIn(h), Holding(h)), Holding(h)' = {}
  PROVE  /\ WritesOnly(h) /\ LeavesQueued(h)
         /\ \A p \in stored : row'[p].base = row[p].base /\ row'[p].category = row[p].category
<1>0. stored \subseteq Products /\ row \in [Products -> Row]
  BY StartedPromises
<1>1. Written(h) = Holding(h)
  BY DEF Written
<1>2. ASSUME NEW p \in stored
      PROVE  /\ row'[p].category = row[p].category /\ row'[p].base = row[p].base
             /\ p \in Holding(h) => PriceOf(row'[p]) = PricesIn(h)[p]
             /\ p \notin Holding(h) => row'[p] = row[p]
  <2>1. p \in Products /\ row[p] \in Row
    BY <1>0
  <2>2. p \in Holding(h) => PricesIn(h)[p] \in Price
    BY DEF PricesOK, Holding
  <2>3. p \notin Holding(h) => row'[p] = row[p]
    BY <2>1 DEF Write
  <2>4. p \in Holding(h) => /\ row'[p].effective = PricesIn(h)[p].effective
                            /\ row'[p].active = PricesIn(h)[p].active
    BY <2>1 DEF Write, Row
  <2>5. row'[p].category = row[p].category /\ row'[p].base = row[p].base
    BY <2>1 DEF Write, Row
  <2>6. p \in Holding(h) => PriceOf(row'[p]) = PricesIn(h)[p]
    BY <2>2, <2>4 DEF PriceOf, Price
  <2> QED BY <2>3, <2>5, <2>6
<1> QED BY <1>1, <1>2 DEF WritesOnly, LeavesQueued

LEMMA ReconcilerHistory ==
  ASSUME HistInv, TypeInv', Watch, NEW r \in Reconcilers, ReconcilerStep(r) \/ SweepFails(r)
  PROVE  HistInv'
<1> DEFINE m == ReconHand(r)
<1>0. /\ TypeInv /\ IdleHandsEmpty /\ faults \in Nat /\ PricesOK(recon[r].prices)
      /\ m \in Hands /\ m \notin Duty /\ PricesIn(m) = recon[r].prices
  BY StartedPromises, HandKinds DEF HistInv, HistoryInv, TypeInv, ExplainedInv, ReconsOK
<1>1. /\ UNCHANGED <<promotions, now, stored, pending, jobs, scheduled, worker, ingest>>
      /\ faults' \in {faults, faults + 1}
  BY DEF ReconcilerStep, Sweep, StartRepair, CommitRepair, SweepFails, SetRecon,
     productVars, queueVars, NoFault, budgetVars, Fault
<1>2. PromotionsFrozen /\ JobsCounted' /\ DecidedWork' /\ EdgesWait' /\ (faults \in Nat)'
  BY <1>0, <1>1, QueueUntouched
<1>3. LeavesQueued(m)
  BY <1>0 DEF LeavesQueued
<1>4. ASSUME \A p \in stored : row'[p].base = row[p].base /\ row'[p].category = row[p].category,
             WritesOnly(m), NEW s, SetRecon(r, s), s.phase # "write" => s.prices = <<>>,
             TakesSnapshot(m) \/ s.prices = <<>>
      PROVE  HistInv'
  <2>1. (\A h \in Hands \ {m} : HandKept(h)) /\ PricesIn(m)' = s.prices
    BY <1>0, <1>4, ReconHandMoves
  <2>2. TakesSnapshot(m) \/ Holding(m)' = {}
    BY <1>4, <2>1 DEF Holding
  <2>3. OneHandMoves(m)
    BY <2>1, <2>2 DEF OneHandMoves
  <2>4. ChangesQueued
    BY <1>1, <1>4, SameRowsSteady DEF ChangesQueued
  <2>5. QueuedStays(m)
    BY <1>1, <1>4, QueueUntouched DEF QueuedStays
  <2>6. Followable(m)
    BY <1>3, <1>4, <2>3, <2>4, <2>5 DEF Followable
  <2>7. IdleHandsEmpty'
    BY <1>0, <1>4, ReconIdles
  <2> QED BY <1>1, <1>2, <2>6, <2>7, Conclude DEF Rest
<1>5. ASSUME row' = row, Holding(m) = {} \/ faults' # faults
      PROVE  WritesOnly(m) /\ \A p \in stored : row'[p].base = row[p].base /\ row'[p].category = row[p].category
  <2>1. Written(m) = {}
    BY <1>5 DEF Written
  <2> QED BY <1>5, <2>1 DEF WritesOnly
<1>6. recon[r].phase # "write" => Holding(m) = {}
  BY <1>0 DEF IdleHandsEmpty, Holding
<1>7. CASE Sweep(r)
  <2>1. row' = row /\ recon[r].phase = "idle"
    BY <1>7 DEF Sweep, productVars
  <2>2. \E s : SetRecon(r, s) /\ s.prices = <<>>
    BY <1>7 DEF Sweep
  <2> HIDE DEF m
  <2> QED BY <1>4, <1>5, <1>6, <2>1, <2>2
<1>8. CASE StartRepair(r)
  <2> DEFINE s == [phase |-> "write", cursor |-> recon[r].cursor, ids |-> {},
                   prices |-> Snapshot(recon[r].ids)]
  <2>1. row' = row /\ recon[r].phase = "repair" /\ SetRecon(r, s)
    BY <1>8 DEF StartRepair, productVars
  <2>2. s.phase = "write" /\ s.prices = Snapshot(recon[r].ids)
    OBVIOUS
  <2> HIDE DEF s
  <2>3. PricesIn(m)' = Snapshot(recon[r].ids) /\ Holding(m) = {}
    BY <1>0, <1>6, <2>1, <2>2, ReconHandMoves
  <2>4. m \notin JobHands
    BY <1>0 DEF Duty
  <2> HIDE DEF m
  <2>5. TakesSnapshot(m)
    <3> SUFFICES ASSUME NEW p \in Holding(m)' PROVE WillBeRight(m, p)'
      BY <2>3 DEF TakesSnapshot
    <3>1. p \in recon[r].ids
      BY <2>3 DEF Holding, Snapshot
    <3>2. PricesIn(m)'[p] = (Projected(p, row[p]))'
      BY <1>1, <2>1, <2>3, <3>1 DEF Snapshot, Projected
    <3> QED BY <2>4, <3>2 DEF WillBeRight
  <2> QED BY <1>4, <1>5, <2>1, <2>2, <2>3, <2>5
<1>9. CASE CommitRepair(r)
  <2>1. /\ Write(recon[r].prices, DOMAIN recon[r].prices) /\ faults' = faults
        /\ \E s : SetRecon(r, s) /\ s.prices = <<>>
    BY <1>9 DEF CommitRepair, NoFault, budgetVars, IdleReconAt
  <2>2. PICK s : SetRecon(r, s) /\ s.prices = <<>>
    BY <2>1
  <2>3. PricesIn(m)' = <<>>
    BY <1>0, <2>2, ReconHandMoves
  <2>4. m \in Hands \ JobHands
    BY <1>0 DEF Duty
  <2>5. Holding(m)' = {} /\ Write(PricesIn(m), Holding(m))
    BY <1>0, <2>1, <2>3 DEF Holding
  <2> HIDE DEF m
  <2>6. /\ WritesOnly(m)
        /\ \A p \in stored : row'[p].base = row[p].base /\ row'[p].category = row[p].category
    BY <1>0, <1>1, <2>1, <2>4, <2>5, HandWrites
  <2> QED BY <1>4, <2>2, <2>6
<1>10. CASE SweepFails(r)
  <2>1. row' = row /\ faults' # faults /\ \E s : SetRecon(r, s) /\ s.prices = <<>>
    BY <1>0, <1>10 DEF SweepFails, productVars, Fault, IdleReconAt
  <2> HIDE DEF m
  <2> QED BY <1>4, <1>5, <2>1
<1> QED BY <1>7, <1>8, <1>9, <1>10 DEF ReconcilerStep

(* A row an upsert touches is about to be projected; the others keep their *)
(* listing, and all keep their price.                                      *)
LEMMA UpsertHistory ==
  ASSUME HistInv, TypeInv', Watch, NEW i \in Ingestors, NEW q \in Products, NEW l \in Listings,
         Upsert(i, q, l)
  PROVE  HistInv'
<1> DEFINE s == [phase |-> "upserted", id |-> q, prices |-> <<>>]
           m == IngestHand(i)
<1>0. /\ TypeInv /\ IdleHandsEmpty /\ faults \in Nat /\ m \in Hands /\ PricesIn(m) = ingest[i].prices
      /\ stored \subseteq Products /\ row \in [Products -> Row]
  BY StartedPromises, HandKinds DEF HistInv, HistoryInv
<1>1. /\ UNCHANGED <<promotions, now, pending, jobs, scheduled, worker, recon, faults>>
      /\ stored' = stored \cup {q} /\ ingest[i].phase = "idle" /\ SetIngest(i, s)
  BY DEF Upsert, SetIngest, queueVars
<1>2. s.phase = "upserted" /\ s.id = q /\ s.prices = <<>>
  OBVIOUS
<1> HIDE DEF s
<1>3. /\ \A h \in Hands \ {m} : HandKept(h)
      /\ PricesIn(m)' = <<>> /\ ingest'[i] = s
      /\ \A v \in Ingestors \ {i} : ingest'[v] = ingest[v]
  BY <1>0, <1>1, <1>2, IngestHandMoves
<1>4. Holding(m) = {} /\ Holding(m)' = {}
  BY <1>0, <1>1, <1>3 DEF IdleHandsEmpty, Holding
<1> HIDE DEF m
<1>5. Queued(q)'
  BY <1>2, <1>3 DEF Queued
<1>6. ASSUME NEW p \in stored
      PROVE  /\ PriceOf(row'[p]) = PriceOf(row[p])
             /\ p # q => row'[p] = row[p]
  <2>1. p \in Products /\ row[p] \in Row
    BY <1>0
  <2>2. p # q => row'[p] = row[p]
    BY <2>1 DEF Upsert
  <2>3. CASE p = q
    <3>1. row' = [row EXCEPT ![q] = [@ EXCEPT !.base = l.base, !.category = l.category]]
      BY <2>3 DEF Upsert
    <3> QED BY <1>0, <2>1, <2>3, <3>1 DEF PriceOf, Row
  <2> QED BY <2>2, <2>3
<1>7. ChangesQueued
  <2> SUFFICES ASSUME NEW p \in stored, p # q PROVE Steady(p)
    BY <1>5 DEF ChangesQueued
  <2> QED BY <1>1, <1>6, SameRowsSteady
<1>8. QueuedStays(m)
  <2> SUFFICES ASSUME NEW p \in stored, Queued(p), p # q PROVE Queued(p)'
    BY <1>5 DEF QueuedStays
  <2>1. row'[p].category = row[p].category
    BY <1>6
  <2> QED BY <1>1, <1>3, <2>1, QueueUntouched DEF Awaits
<1>9. OneHandMoves(m)
  BY <1>3, <1>4 DEF OneHandMoves
<1>10. WritesOnly(m) /\ LeavesQueued(m)
  <2>1. Written(m) = {}
    BY <1>4 DEF Written
  <2> QED BY <1>4, <1>6, <2>1 DEF WritesOnly, LeavesQueued
<1>11. Followable(m)
  BY <1>7, <1>8, <1>9, <1>10 DEF Followable
<1>12. PromotionsFrozen /\ JobsCounted' /\ DecidedWork' /\ EdgesWait' /\ (faults \in Nat)'
  BY <1>0, <1>1, QueueUntouched
<1>13. IdleHandsEmpty'
  BY <1>0, <1>1, <1>2, IngestIdles
<1> QED BY <1>1, <1>11, <1>12, <1>13, Conclude DEF Rest

LEMMA ReprojectHistory ==
  ASSUME HistInv, TypeInv', Watch, NEW i \in Ingestors,
         StartReproject(i) \/ CommitReproject(i) \/ IngestCrash(i)
  PROVE  HistInv'
<1> DEFINE m == IngestHand(i)
<1>0. /\ TypeInv /\ IdleHandsEmpty /\ faults \in Nat /\ PricesOK(ingest[i].prices)
      /\ m \in Hands /\ m \in Duty /\ m \notin JobHands /\ PricesIn(m) = ingest[i].prices
  BY StartedPromises, HandKinds DEF HistInv, HistoryInv, TypeInv, ExplainedInv, IngestsOK, Duty
<1>1. /\ UNCHANGED <<promotions, now, stored, pending, jobs, scheduled, worker, recon>>
      /\ faults' \in {faults, faults + 1}
  BY DEF StartReproject, CommitReproject, IngestCrash, SetIngest,
     productVars, queueVars, NoFault, budgetVars, Fault
<1>2. PromotionsFrozen /\ JobsCounted' /\ DecidedWork' /\ EdgesWait' /\ (faults \in Nat)'
  BY <1>0, <1>1, QueueUntouched
<1>3. ASSUME \A p \in stored : row'[p].base = row[p].base /\ row'[p].category = row[p].category,
             WritesOnly(m), LeavesQueued(m), QueuedStays(m),
             NEW s, SetIngest(i, s), s.phase # "write" => s.prices = <<>>,
             TakesSnapshot(m) \/ s.prices = <<>>
      PROVE  HistInv'
  <2>1. (\A h \in Hands \ {m} : HandKept(h)) /\ PricesIn(m)' = s.prices
    BY <1>0, <1>3, IngestHandMoves
  <2>2. TakesSnapshot(m) \/ Holding(m)' = {}
    BY <1>3, <2>1 DEF Holding
  <2>3. OneHandMoves(m)
    BY <2>1, <2>2 DEF OneHandMoves
  <2>4. ChangesQueued
    BY <1>1, <1>3, SameRowsSteady DEF ChangesQueued
  <2>5. Followable(m)
    BY <1>3, <2>3, <2>4 DEF Followable
  <2>6. IdleHandsEmpty'
    BY <1>0, <1>3, IngestIdles
  <2> QED BY <1>1, <1>2, <2>5, <2>6, Conclude DEF Rest
<1>4. CASE StartReproject(i)
  <2> DEFINE s == [phase |-> "write", id |-> ingest[i].id, prices |-> Snapshot({ingest[i].id})]
  <2>1. row' = row /\ faults' = faults /\ ingest[i].phase = "upserted" /\ SetIngest(i, s)
    BY <1>4 DEF StartReproject, productVars, NoFault, budgetVars
  <2>2. s.phase = "write" /\ s.prices = Snapshot({ingest[i].id})
    OBVIOUS
  <2> HIDE DEF s
  <2>3. /\ PricesIn(m)' = Snapshot({ingest[i].id})
        /\ \A v \in Ingestors \ {i} : ingest'[v] = ingest[v]
    BY <1>0, <2>1, <2>2, IngestHandMoves
  <2>4. Holding(m) = {}
    BY <1>0, <2>1 DEF IdleHandsEmpty, Holding
  <2>5. Holding(m)' = {ingest[i].id}
    BY <2>3 DEF Holding, Snapshot
  <2> HIDE DEF m
  <2>6. TakesSnapshot(m)
    <3> SUFFICES ASSUME NEW p \in Holding(m)' PROVE WillBeRight(m, p)'
      BY <2>4 DEF TakesSnapshot
    <3>1. PricesIn(m)'[p] = (Projected(p, row[p]))'
      BY <1>1, <2>1, <2>3, <2>5 DEF Snapshot, Projected
    <3> QED BY <1>0, <3>1 DEF WillBeRight
  <2>7. QueuedStays(m)
    <3> SUFFICES ASSUME NEW p \in stored, Queued(p) PROVE Queued(p)' \/ p = ingest[i].id
      BY <1>0, <2>4, <2>5 DEF QueuedStays
    <3>1. row'[p].category = row[p].category
      BY <2>1
    <3> QED BY <1>1, <2>3, <3>1, QueueUntouched DEF Awaits
  <2>8. WritesOnly(m) /\ LeavesQueued(m)
    BY <2>1, <2>4, IdleHandWritesNothing
  <2> QED BY <1>3, <2>1, <2>2, <2>6, <2>7, <2>8
<1>5. CASE CommitReproject(i)
  <2>1. /\ Write(ingest[i].prices, DOMAIN ingest[i].prices) /\ faults' = faults
        /\ ingest[i].phase = "write" /\ \E s : SetIngest(i, s) /\ s.prices = <<>>
    BY <1>5 DEF CommitReproject, NoFault, budgetVars, IdleIngest
  <2>2. PICK s : SetIngest(i, s) /\ s.prices = <<>>
    BY <2>1
  <2>3. PricesIn(m)' = <<>> /\ \A v \in Ingestors \ {i} : ingest'[v] = ingest[v]
    BY <1>0, <2>2, IngestHandMoves
  <2>4. Holding(m)' = {} /\ Write(PricesIn(m), Holding(m))
    BY <1>0, <2>1, <2>3 DEF Holding
  <2> HIDE DEF m
  <2>5. /\ WritesOnly(m) /\ LeavesQueued(m)
        /\ \A p \in stored : row'[p].base = row[p].base /\ row'[p].category = row[p].category
    BY <1>0, <1>1, <2>1, <2>4, HandWrites
  <2>6. QueuedStays(m)
    <3> SUFFICES ASSUME NEW p \in stored, Queued(p) PROVE Queued(p)'
      BY DEF QueuedStays
    <3>1. row'[p].category = row[p].category
      BY <2>5
    <3> QED BY <1>1, <2>1, <2>3, <3>1, QueueUntouched DEF Awaits
  <2> QED BY <1>3, <2>2, <2>5, <2>6
<1>6. CASE IngestCrash(i)
  <2>1. row' = row /\ faults' = faults + 1 /\ \E s : SetIngest(i, s) /\ s.prices = <<>>
    BY <1>6 DEF IngestCrash, productVars, Fault, IdleIngest
  <2>2. PICK s : SetIngest(i, s) /\ s.prices = <<>>
    BY <2>1
  <2> HIDE DEF m
  <2>3. QueuedStays(m) /\ LeavesQueued(m)
    BY <2>1, FaultLoses
  <2>4. Written(m) = {}
    BY <1>0, <2>1 DEF Written
  <2>5. WritesOnly(m)
    BY <2>1, <2>4 DEF WritesOnly
  <2>6. \A p \in stored : row'[p].base = row[p].base /\ row'[p].category = row[p].category
    BY <2>1
  <2> QED BY <1>3, <2>2, <2>3, <2>5, <2>6
<1> QED BY <1>4, <1>5, <1>6

(* A product that is being created is not stored: no row changes.          *)
LEMMA CreatorHistory ==
  ASSUME HistInv, TypeInv', Watch, NEW c \in Creators,
         (\E p \in Products, l \in Listings : BeginCreate(c, p, l)) \/ CommitCreate(c)
  PROVE  HistInv'
<1> DEFINE m == 0
<1>0. TypeInv /\ IdleHandsEmpty /\ faults \in Nat /\ stored \subseteq Products
  BY StartedPromises DEF HistInv, HistoryInv
<1>1. /\ UNCHANGED <<promotions, now, pending, jobs, scheduled, worker, recon, ingest, faults>>
      /\ stored \subseteq stored' /\ \A p \in stored : row'[p] = row[p]
  <2>1. ASSUME NEW p \in Products, NEW l \in Listings, BeginCreate(c, p, l)
        PROVE  /\ UNCHANGED <<promotions, now, pending, jobs, scheduled, worker, recon, ingest, faults>>
               /\ stored \subseteq stored' /\ row' = row
    BY <2>1 DEF BeginCreate, SetCreator, queueVars, NoFault, budgetVars
  <2>2. ASSUME CommitCreate(c)
        PROVE  /\ UNCHANGED <<promotions, now, pending, jobs, scheduled, worker, recon, ingest, faults>>
               /\ stored \subseteq stored' /\ \A p \in stored : row'[p] = row[p]
    <3>1. creating[c].id \notin stored
      BY <1>0, <2>2 DEF CommitCreate, TypeInv, ExplainedInv, CreatorsOK, CreatorOK
    <3>2. \A p \in stored : row'[p] = row[p]
      <4>1. \A p \in Products : p # creating[c].id => row'[p] = row[p]
        BY <2>2, StartedPromises DEF CommitCreate
      <4> QED BY <1>0, <3>1, <4>1
    <3> QED BY <2>2, <3>2 DEF CommitCreate, SetCreator, queueVars, NoFault, budgetVars
  <2> QED BY <2>1, <2>2
<1>2. ChangesQueued
  BY <1>1, SameRowsSteady DEF ChangesQueued
<1>3. PromotionsFrozen /\ JobsCounted' /\ DecidedWork' /\ EdgesWait' /\ (faults \in Nat)'
  BY <1>0, <1>1, QueueUntouched
<1>4. QueuedStays(m)
  <2> SUFFICES ASSUME NEW p \in stored, Queued(p) PROVE Queued(p)'
    BY DEF QueuedStays
  <2>1. row'[p].category = row[p].category
    BY <1>1
  <2> QED BY <1>1, <2>1, QueueUntouched
<1>5. Followable(m)
  BY <1>1, <1>2, <1>4, QuietFollows
<1>6. IdleHandsEmpty'
  BY <1>0, <1>1 DEF IdleHandsEmpty
<1> QED BY <1>1, <1>3, <1>5, <1>6, Conclude DEF Rest
-------------------------------------------------------------------------------
LEMMA HistoryStarts == WatchedInit => HistInv
<1> SUFFICES ASSUME Init, HistoryInit PROVE HistInv
  BY DEF WatchedInit
<1>1. TypeInv
  BY InitTyped
<1>2. JobsCounted /\ DecidedWork /\ EdgesWait /\ IdleHandsEmpty /\ faults \in Nat
  BY DEF Init, JobsCounted, DecidedWork, EdgesWait, IdleHandsEmpty, IdleWorker, IdleIngest,
     IdleReconAt, EmptyBag, SetToBag
<1>3. SnapshotsOrdered /\ HandsSound
  BY DEF HistoryInit, SnapshotsOrdered, HandsSound
<1>4. ASSUME NEW p \in stored PROVE IsRight(p)
  <2>1. p \in DOMAIN Catalogue /\ p \in Products
    BY CatalogueAssumption DEF Init
  <2>2. row[p] = [base |-> Catalogue[p].base, category |-> Catalogue[p].category,
                  effective |-> Catalogue[p].base, active |-> NoPromotion]
    BY <2>1 DEF Init
  <2>3. Candidates(promotions, p, row[p].category, now) = {}
    BY DEF Init, PromoInit, AbsentRow, Candidates
  <2>4. WinningPromotion(promotions, p, row[p].category, now) = NoPromotion
    BY <2>3 DEF WinningPromotion
  <2>5. Projected(p, row[p]) = [effective |-> row[p].base, active |-> NoPromotion]
    BY <2>4 DEF Projected, PriceUnder
  <2> QED BY <2>2, <2>5 DEF IsRight, PriceOf
<1>5. StaleRowsAhead
  BY <1>4 DEF StaleRowsAhead
<1> QED BY <1>1, <1>2, <1>3, <1>5 DEF HistInv, HistoryInv

LEMMA HistoryLasts == HistInv /\ [WatchedNext]_<<vars, history>> => HistInv'
<1> SUFFICES ASSUME HistInv, [WatchedNext]_<<vars, history>> PROVE HistInv'
  OBVIOUS
<1>1. TypeInv'
  BY NextTyped DEF HistInv, WatchedNext
<1>2. CASE WatchedNext
  <2>0. Watch /\ Next
    BY <1>2 DEF WatchedNext
  <2>1. CASE ClockTick
    BY <1>1, <2>0, <2>1, TickHistory
  <2>2. CASE Draft \/ ScheduleEdges
    BY <1>1, <2>0, <2>2, DraftHistory, SchedulerHistory
  <2>3. CASE \E k \in PromotionIds : (\E t \in Target : Publish(k, t)) \/ Cancel(k)
    BY <1>1, <2>0, <2>3, PublishOrCancelHistory
  <2>4. CASE \E h \in pending : EnqueueProjection(h) \/ ApiCrash(h)
    BY <1>1, <2>0, <2>4, EnqueueHistory, ApiCrashHistory
  <2>5. ASSUME NEW w \in Workers, WorkerStep(w) \/ FailJob(w) \/ CrashWorker(w)
        PROVE  HistInv'
    BY <1>1, <2>0, <2>5, StartJobHistory, CommitBatchHistory, EnqueueNextHistory,
       CompleteJobHistory, WorkerFaultHistory DEF WorkerStep
  <2>6. ASSUME NEW r \in Reconcilers, ReconcilerStep(r) \/ SweepFails(r)
        PROVE  HistInv'
    BY <1>1, <2>0, <2>6, ReconcilerHistory
  <2>7. ASSUME NEW i \in Ingestors, NEW p \in Products, NEW l \in Listings, Upsert(i, p, l)
        PROVE  HistInv'
    BY <1>1, <2>0, <2>7, UpsertHistory
  <2>8. ASSUME NEW i \in Ingestors, StartReproject(i) \/ CommitReproject(i) \/ IngestCrash(i)
        PROVE  HistInv'
    BY <1>1, <2>0, <2>8, ReprojectHistory
  <2>9. ASSUME NEW c \in Creators,
               (\E p \in Products, l \in Listings : BeginCreate(c, p, l)) \/ CommitCreate(c)
        PROVE  HistInv'
    BY <1>1, <2>0, <2>9, CreatorHistory
  <2> QED BY <2>0, <2>1, <2>2, <2>3, <2>4, <2>5, <2>6, <2>7, <2>8, <2>9 DEF Next, ProcessStep
<1>3. CASE UNCHANGED <<vars, history>>
  <2>1. /\ UNCHANGED <<promotions, now, stored, row, pending, jobs, scheduled,
                       worker, recon, ingest, faults>>
        /\ UNCHANGED <<live, earlier, excused>>
    BY <1>3 DEF vars, history
  <2>2. JobsCounted' /\ DecidedWork' /\ EdgesWait' /\ IdleHandsEmpty' /\ (faults \in Nat)'
    BY <2>1 DEF HistInv, HistoryInv, JobsCounted, DecidedWork, EdgesWait, EdgeWaits, EdgeJob,
       Upcoming, IdleHandsEmpty
  <2>3. \A h : PricesIn(h)' = PricesIn(h) /\ Holding(h)' = Holding(h)
    BY <2>1 DEF PricesIn, Holding
  <2>4. \A p : /\ Queued(p)' <=> Queued(p)
               /\ IsRight(p)' <=> IsRight(p)
               /\ (Projected(p, row[p]))' = Projected(p, row[p])
    BY <2>1 DEF Queued, Covers, IsRight, Projected
  <2>5. \A h, p : WillBeRight(h, p)' <=> WillBeRight(h, p)
    BY <2>1 DEF WillBeRight, PricesIn, Projected, OfCategory
  <2>6. SnapshotsOrdered'
    BY <2>1 DEF HistInv, HistoryInv, SnapshotsOrdered, Holding, PricesIn
  <2>7. HandsSound'
    <3> SUFFICES ASSUME NEW h \in Hands, NEW p \in live[h]
                 PROVE  p \in Holding(h)' /\ (WillBeRight(h, p)' \/ Followed(h, p)')
      BY <2>1 DEF HandsSound
    <3>1. p \in Holding(h) /\ (WillBeRight(h, p) \/ Followed(h, p))
      BY DEF HistInv, HistoryInv, HandsSound
    <3> QED BY <2>1, <2>3, <2>4, <2>5, <3>1 DEF Followed
  <2>8. StaleRowsAhead'
    <3> SUFFICES ASSUME NEW p \in stored, ~IsRight(p)' PROVE Ahead(p)' \/ p \in excused
      BY <2>1 DEF StaleRowsAhead
    <3>1. Ahead(p) \/ p \in excused
      BY <2>4 DEF HistInv, HistoryInv, StaleRowsAhead
    <3> QED BY <2>1, <2>4, <3>1 DEF Ahead
  <2> QED BY <1>1, <2>2, <2>6, <2>7, <2>8 DEF HistInv, HistoryInv
<1> QED BY <1>2, <1>3

(* A row whose price disagrees with the promotions table has work ahead    *)
(* that will write it, a request about to queue its job, a job whose       *)
(* cursor is below it, a continuation, an upsert about to be projected or  *)
(* a statement whose snapshot no later commit has outdone, unless it is in *)
(* excused: its last writer was overtaken by an older snapshot, a fault    *)
(* took its work, its edge was not scheduled or it was created at a price  *)
(* gone old.  For any number of workers, reconcilers, ingestors, requests, *)
(* faults and any skew: what promotionService.ts queues, scheduler.ts      *)
(* schedules and projectPricesForCategoryBatch pages through leaves no     *)
(* other row behind.                                                       *)
THEOREM NoStaleRowLeftBehind == WatchedSpec => []StaleRowsAhead
<1>1. HistInv => StaleRowsAhead
  BY DEF HistInv, HistoryInv
<1> QED BY HistoryStarts, HistoryLasts, <1>1, PTL DEF WatchedSpec
===============================================================================
