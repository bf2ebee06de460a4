----------------------------- MODULE PricingProofs -----------------------------
(***************************************************************************)
(* Proofs about the pricing rules, for all prices, discounts and policies. *)
(***************************************************************************)
EXTENDS PricingCore, TLAPS

LEMMA Product == \A a, b \in Nat : a * b \in Nat
  OBVIOUS

(* A share of a price, rounded half-up, is at most the price.              *)
LEMMA RoundedShare ==
  ASSUME NEW base \in Nat, NEW n \in Nat, n <= base * 10000
  PROVE  (n + 5000) \div 10000 \in 0..base
  OBVIOUS

(* No discount raises a price or makes it negative: apply_discount, for    *)
(* every price and every discount that chk_percentage_bounds lets in.      *)
THEOREM DiscountLowers ==
  ASSUME NEW base \in Nat, NEW dtype \in {"percentage", "fixed"}, NEW dvalue \in Nat,
         dtype = "percentage" => dvalue <= 10000
  PROVE  ApplyDiscount(base, dtype, dvalue) \in 0..base
<1>1. CASE dtype = "percentage"
  <2>1. PICK n \in Nat : n = base * (10000 - dvalue)
    BY <1>1, Product
  <2>2. PICK off \in Nat : off = base * dvalue
    BY Product
  <2>3. n + off = base * 10000
    BY <2>1, <2>2
  <2>4. (n + 5000) \div 10000 \in 0..base
    BY <2>3, RoundedShare
  <2> QED
    BY <1>1, <2>1, <2>4 DEF ApplyDiscount
<1>2. CASE dtype = "fixed"
  BY <1>2 DEF ApplyDiscount
<1> QED
  BY <1>1, <1>2

(* applyDiscount and apply_discount "must agree bit-for-bit": truncation   *)
(* and GREATEST, or the checks that throw, never tell them apart.          *)
THEOREM DiscountParity ==
  ASSUME NEW base \in 0..MaxPriceCents, NEW dtype \in {"percentage", "fixed"}, NEW dvalue \in Nat,
         dtype = "percentage" => dvalue <= 10000
  PROVE  applyDiscount(base, dtype, dvalue) = ApplyDiscount(base, dtype, dvalue)
<1>1. CASE dtype = "percentage"
  <2>1. base \in Nat /\ dvalue \in 0..10000
    BY <1>1, PriceBoundAssumption
  <2>2. PICK n \in Nat : n = base * (10000 - dvalue)
    BY <2>1, Product
  <2>3. PICK x \in Nat : x = n + 5000
    OBVIOUS
  <2>4. applyDiscount(base, dtype, dvalue) = Truncated(x, 10000)
    BY <1>1, <2>1, <2>2, <2>3 DEF applyDiscount, ValidPrice
  <2>5. ApplyDiscount(base, dtype, dvalue) = x \div 10000
    BY <1>1, <2>2, <2>3 DEF ApplyDiscount
  <2> QED
    BY <2>4, <2>5 DEF Truncated
<1>2. CASE dtype = "fixed"
  BY <1>2, PriceBoundAssumption DEF applyDiscount, ApplyDiscount, ValidPrice
<1> QED
  BY <1>1, <1>2

(* comparePrecedence orders promotions as the ORDER BY of                  *)
(* RESOLVE_WINNING_PROMOTION does.                                         *)
THEOREM OrderParity ==
  ASSUME NEW table, NEW a \in DOMAIN table, NEW b \in DOMAIN table, a \in Nat, b \in Nat,
         table[a].targetType \in {"product", "category"}, table[a].startsAt \in Int,
         table[b].targetType \in {"product", "category"}, table[b].startsAt \in Int
  PROVE  comparePrecedence(table, a, b) < 0 <=> Precedes(table, a, b)
  BY DEF comparePrecedence, Level, Precedes

(* An amount that the API has formatted is parsed back to itself: nothing  *)
(* is lost at the boundary between cents and text.                         *)
THEOREM MoneyRoundTrip ==
  ASSUME NEW cents \in 0..MaxPriceCents
  PROVE  parseCents(formatCents(cents)) = cents
<1> DEFINE tens == (cents % 100) \div 10
           ones == cents % 10
<1>1. cents \in Nat
  BY PriceBoundAssumption
<1>2. (cents \div 100) * 100 + (10 * tens + ones) = cents
  BY <1>1
<1>3. formatCents(cents) = [major |-> cents \div 100, fraction |-> <<tens, ones>>]
  BY DEF formatCents, ValidPrice
<1>4. Minor(<<tens, ones>>) = 10 * tens + ones
  BY <1>1 DEF Minor
<1> HIDE DEF tens, ones
<1> QED
  BY <1>2, <1>3, <1>4 DEF parseCents, ValidPrice

LEMMA ScaleRaises ==
  ASSUME NEW cents \in Nat, NEW bps \in Nat
  PROVE  scaleByBps(cents, bps) \in Nat /\ scaleByBps(cents, bps) >= cents
<1>1. PICK extra \in Nat : extra = cents * bps
  BY Product
<1>2. cents * (10000 + bps) = cents * 10000 + extra
  BY <1>1
<1>3. scaleByBps(cents, bps) = (cents * 10000 + extra + 5000) \div 10000
  BY <1>2 DEF scaleByBps
<1> QED
  BY <1>3

LEMMA CharmRaises ==
  ASSUME NEW cents \in Nat
  PROVE  /\ roundUpToNinetyNine(cents) \in Nat /\ roundUpToNinetyNine(cents) >= cents
         /\ roundUpToNinetyNine(cents) % 100 = 99
  BY DEF roundUpToNinetyNine

(* "Rounding runs last and only ever moves the price up, so it cannot      *)
(* breach the floor": a price that applyDynamicPricing gives is one the    *)
(* database takes, is at least the vendor's price and its minimum markup,  *)
(* and ends in .99 where the policy says so.                               *)
THEOREM FloorHolds ==
  ASSUME NEW row, NEW policy, policy.margin \in Nat, policy.minMarkup \in Nat,
         policy.charm \in BOOLEAN, applyDynamicPricing(row, policy) # Rejected
  PROVE  LET price == applyDynamicPricing(row, policy)
         IN  /\ price \in 0..MaxPriceCents
             /\ price >= row.vendorPrice
             /\ price >= scaleByBps(row.vendorPrice, policy.minMarkup)
             /\ policy.charm => price % 100 = 99
<1> DEFINE withMargin == scaleByBps(row.vendorPrice, policy.margin)
           floor == scaleByBps(row.vendorPrice, policy.minMarkup)
           price == Larger(withMargin, floor)
           shown == IF policy.charm THEN roundUpToNinetyNine(price) ELSE price
<1>1. /\ validateVendorRow(row) /\ shown <= MaxPriceCents
      /\ applyDynamicPricing(row, policy) = shown
  BY DEF applyDynamicPricing
<1>2. row.vendorPrice \in Nat
  BY <1>1, PriceBoundAssumption DEF validateVendorRow
<1>3. withMargin \in Nat /\ floor \in Nat /\ floor >= row.vendorPrice
  BY <1>2, ScaleRaises
<1> HIDE DEF withMargin, floor
<1>4. price \in Nat /\ price >= floor
  BY <1>3 DEF Larger
<1> HIDE DEF price
<1>5. shown \in Nat /\ shown >= price /\ (policy.charm => shown % 100 = 99)
  BY <1>4, CharmRaises
<1> HIDE DEF shown
<1>6. shown \in 0..MaxPriceCents /\ shown >= floor /\ shown >= row.vendorPrice
  BY <1>1, <1>2, <1>3, <1>4, <1>5, PriceBoundAssumption
<1> QED
  BY <1>1, <1>5, <1>6 DEF floor
===============================================================================
