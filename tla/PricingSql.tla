------------------------------ MODULE PricingSql ------------------------------
(***************************************************************************)
(* The pricing rules that live in PostgreSQL: the function apply_discount  *)
(* of the first migration and the sub-query RESOLVE_WINNING_PROMOTION that *)
(* every projection statement joins to a product.  A promotion table is a  *)
(* function from promotion ids (naturals, ordered like the UUID column) to *)
(* rows; timestamps are integers.                                          *)
(***************************************************************************)
EXTENDS Integers

NoPromotion == 0           \* SQL NULL in products.active_promotion_id

ApplyDiscount(base, dtype, dvalue) ==
  LET price == IF dtype = "percentage"
                 THEN (base * (10000 - dvalue) + 5000) \div 10000
                 ELSE base - dvalue
  IN  IF price < 0 THEN 0 ELSE price

(* The EXCLUDE constraints compare tstzrange(starts_at, ends_at, '[)').    *)
RangesOverlapStartOnly(a, b) == a.startsAt <= b.startsAt /\ b.startsAt < a.endsAt  \* mutant

RangesOverlap(a, b) == a.startsAt < b.endsAt /\ b.startsAt < a.endsAt

InWindowFromAnyTime(pm, t) == t < pm.endsAt                 \* mutant: starts_at not compared

InWindow(pm, t) == pm.startsAt <= t /\ t < pm.endsAt

Targets(pm, p, category) ==
  \/ pm.targetType = "product"  /\ pm.target = p
  \/ pm.targetType = "category" /\ pm.target = category

(* ORDER BY (target_type = 'product') DESC, starts_at DESC, id ASC         *)
PrecedesByStart(table, a, b) ==                           \* mutant: specificity ignored
  \/ table[a].startsAt > table[b].startsAt
  \/ table[a].startsAt = table[b].startsAt /\ a < b

Precedes(table, a, b) ==
  \/ table[a].targetType = "product" /\ table[b].targetType = "category"
  \/ /\ table[a].targetType = table[b].targetType
     /\ \/ table[a].startsAt > table[b].startsAt
        \/ table[a].startsAt = table[b].startsAt /\ a < b

Candidates(table, p, category, t) ==
  {k \in DOMAIN table : /\ table[k].status = "published"
                        /\ InWindow(table[k], t)
                        /\ Targets(table[k], p, category)}

(* LIMIT 1: the first candidate of the order, NULL when there is none.     *)
WinningPromotion(table, p, category, t) ==
  LET live  == Candidates(table, p, category, t)
      first == {k \in live : \A j \in live \ {k} : Precedes(table, k, j)}
  IN  IF first = {} THEN NoPromotion ELSE CHOOSE k \in first : TRUE

(* The CASE of every projection statement, EXPECTED_PRICE included.        *)
PriceUnder(table, base, k) ==
  IF k = NoPromotion THEN base
  ELSE ApplyDiscount(base, table[k].discountType, table[k].discountValue)
===============================================================================
