------------------------------ MODULE PriceParity ------------------------------
(***************************************************************************)
(* The two implementations of the pricing rules, side by side over the     *)
(* promotions table.                                                       *)
(***************************************************************************)
EXTENDS Promotions, PricingCore

CONSTANT BasePrices

ASSUME BasePricesAssumption == BasePrices \subseteq 0..MaxPriceCents
ASSUME FiniteTableAssumption == IsFiniteSet(PromotionIds)

(* The published promotions that target a product, in any order.           *)
Fetched(p, c) ==
  LET targeting == {k \in PromotionIds : promotions[k].status = "published"
                                         /\ Targets(promotions[k], p, c)}
  IN  {s \in [1..Cardinality(targeting) -> targeting] :
         \A i, j \in DOMAIN s : i # j => s[i] # s[j]}

(* findProductByIdComputed, the third copy of the rules: the price resolved *)
(* by the read, which the benchmark compares with the stored one.          *)
Computed(base, p, c, t) ==
  LET live == {k \in PromotionIds : /\ promotions[k].status = "published"
                                   /\ promotions[k].startsAt <= t /\ promotions[k].endsAt > t
                                   /\ <<promotions[k].targetType, promotions[k].target>>
                                        \in {<<"product", p>>, <<"category", c>>}}
      pr   == {k \in live : \A j \in live \ {k} : Precedes(promotions, k, j)}
  IN  IF pr = {} THEN [activePromotion |-> NoPromotion, effectivePrice |-> base]
      ELSE LET k == CHOOSE k \in pr : TRUE
           IN  [activePromotion |-> k,
                effectivePrice  |-> ApplyDiscount(base, promotions[k].discountType,
                                                  promotions[k].discountValue)]

(* "This ordering must stay identical to the ORDER BY of the LATERAL       *)
(* subquery in the projection SQL", and the two discounts "must agree      *)
(* bit-for-bit": in every state of the table, at every instant and in      *)
(* whatever order the candidates come, the loop of resolveActivePromotion, *)
(* the sub-query of a projection and the one of the computed read choose   *)
(* the same promotion and give the same price.                             *)
CoreAgreesWithSql ==
  \A p \in Products, c \in Categories, t \in 0..MaxTime, base \in BasePrices :
    LET k     == WinningPromotion(promotions, p, c, t)
        price == [activePromotion |-> k, effectivePrice |-> PriceUnder(promotions, base, k)]
    IN  /\ Computed(base, p, c, t) = price
        /\ \A candidates \in Fetched(p, c) :
             calculateEffectivePrice(base, promotions, candidates, t) = price
===============================================================================
