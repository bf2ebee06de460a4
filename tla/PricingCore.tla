------------------------------ MODULE PricingCore ------------------------------
(***************************************************************************)
(* @modaco/core: the pricing rules in TypeScript.  money.ts and            *)
(* promotion.ts decide again what the SQL of PricingSql decides, and say   *)
(* that the two must agree; dynamicPricing.ts turns a vendor's price into  *)
(* a base price.  A call that throws, or returns an error, is Rejected.    *)
(***************************************************************************)
EXTENDS PricingSql, Sequences

CONSTANTS
  MaxPriceCents,  \* MAX_PRICE_CENTS
  Rejected

ASSUME PriceBoundAssumption == MaxPriceCents \in Nat /\ Rejected \notin Int

ValidPrice(cents) == cents \in 0..MaxPriceCents

(* An amount as the API writes and reads it: "149.99" is 149 and <<9, 9>>, *)
(* and one digit or none behind the point stands for tenths, or zero.      *)
formatCents(cents) ==
  IF ValidPrice(cents)
  THEN [major |-> cents \div 100, fraction |-> <<(cents % 100) \div 10, cents % 10>>]
  ELSE Rejected

Minor(fraction) ==
  CASE Len(fraction) = 0 -> 0
    [] Len(fraction) = 1 -> 10 * fraction[1]
    [] Len(fraction) = 2 -> 10 * fraction[1] + fraction[2]

parseCents(text) ==
  LET cents == text.major * 100 + Minor(text.fraction)
  IN  IF ValidPrice(cents) THEN cents ELSE Rejected

(* Division of BigInts truncates towards zero.                             *)
Truncated(a, b) == IF a >= 0 THEN a \div b ELSE -((-a) \div b)

applyDiscount(base, dtype, dvalue) ==
  CASE ~ValidPrice(base) -> Rejected
    [] dtype = "percentage" ->
         IF dvalue \in 0..10000 THEN Truncated(base * (10000 - dvalue) + 5000, 10000) ELSE Rejected
    [] dtype = "fixed" ->
         IF dvalue >= 0 THEN (IF base > dvalue THEN base - dvalue ELSE 0) ELSE Rejected

isActiveAt(pm, t) == pm.startsAt <= t /\ t < pm.endsAt

(* Negative where a wins.                                                  *)
Level(pm) == IF pm.targetType = "product" THEN 0 ELSE 1
compareByStart(table, a, b) ==                    \* mutant: specificity ignored
  IF table[a].startsAt # table[b].startsAt THEN table[b].startsAt - table[a].startsAt ELSE a - b
comparePrecedence(table, a, b) ==
  IF Level(table[a]) # Level(table[b]) THEN Level(table[a]) - Level(table[b])
  ELSE IF table[a].startsAt # table[b].startsAt THEN table[b].startsAt - table[a].startsAt
  ELSE a - b

(* The loop over the candidates, in the order the caller has them.         *)
resolveActivePromotion(table, candidates, t) ==
  LET winner[n \in 0..Len(candidates)] ==
        IF n = 0 THEN NoPromotion
        ELSE LET c == candidates[n]  best == winner[n - 1]
             IN  IF /\ isActiveAt(table[c], t)
                    /\ best = NoPromotion \/ comparePrecedence(table, c, best) < 0
                 THEN c ELSE best
  IN  winner[Len(candidates)]

calculateEffectivePrice(base, table, candidates, t) ==
  LET k == resolveActivePromotion(table, candidates, t)
  IN  [activePromotion |-> k,
       effectivePrice  |-> IF k = NoPromotion THEN base
                           ELSE applyDiscount(base, table[k].discountType, table[k].discountValue)]
-------------------------------------------------------------------------------
(* Half-up, in exact arithmetic.                                           *)
scaleByBps(cents, bps) == (cents * (10000 + bps) + 5000) \div 10000

roundUpToNinetyNine(cents) == (cents \div 100) * 100 + 99

Larger(a, b) == IF a >= b THEN a ELSE b

(* A row is a vendor's price and stock, and whether its SKU, name and      *)
(* category are well-formed; a policy gives the margin of the row's        *)
(* category.                                                               *)
validateVendorRow(row) ==
  row.wellFormed /\ row.vendorPrice \in 1..MaxPriceCents /\ row.stock >= 0

applyDynamicPricing(row, policy) ==
  LET price == Larger(scaleByBps(row.vendorPrice, policy.margin),
                      scaleByBps(row.vendorPrice, policy.minMarkup))
      shown == IF policy.charm THEN roundUpToNinetyNine(price) ELSE price
  IN  IF validateVendorRow(row) /\ shown <= MaxPriceCents THEN shown ELSE Rejected
===============================================================================
