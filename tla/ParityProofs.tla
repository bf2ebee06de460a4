----------------------------- MODULE ParityProofs -----------------------------
(***************************************************************************)
(* Proof that the TypeScript rules and the SQL rules agree, in every state *)
(* of the promotions table.                                                *)
(***************************************************************************)
EXTENDS PriceParity, PromotionsProofs, PricingProofs, SequenceTheorems

(* One round of the loop of resolveActivePromotion.                        *)
Round(table, candidates, t, n, best) ==
  IF n = 0 THEN NoPromotion
  ELSE IF /\ isActiveAt(table[candidates[n]], t)
          /\ best = NoPromotion \/ comparePrecedence(table, candidates[n], best) < 0
       THEN candidates[n] ELSE best

IsLoop(f, N, table, candidates, t) ==
  f = [n \in 0..N |-> Round(table, candidates, t, n, f[n - 1])]

(* The recursive function of the loop exists: if not, there is a least     *)
(* number of rounds without one, and the function for one round fewer      *)
(* extends to it.                                                          *)
LEMMA LoopExists ==
  ASSUME NEW N \in Nat, NEW table, NEW candidates, NEW t
  PROVE  \E f : IsLoop(f, N, table, candidates, t)
<1> DEFINE bad == {m \in Nat : ~\E f : IsLoop(f, m, table, candidates, t)}
<1> SUFFICES ASSUME bad # {} PROVE FALSE
  OBVIOUS
<1>1. PICK m \in bad : \A n \in bad : m <= n
  BY HasLeast
<1>2. CASE m = 0
  <2> DEFINE f == [n \in 0..0 |-> NoPromotion]
  <2>1. IsLoop(f, 0, table, candidates, t)
    BY DEF IsLoop, Round
  <2> QED BY <1>1, <1>2, <2>1
<1>3. CASE m # 0
  <2>1. m - 1 \in Nat /\ m - 1 \notin bad
    BY <1>1, <1>3
  <2>2. PICK f : IsLoop(f, m - 1, table, candidates, t)
    BY <2>1
  <2> DEFINE g == [n \in 0..m |-> IF n = m THEN Round(table, candidates, t, m, f[m - 1]) ELSE f[n]]
  <2>3. ASSUME NEW n \in 0..m PROVE g[n] = Round(table, candidates, t, n, g[n - 1])
    <3>1. CASE n = m
      BY <3>1, <1>3
    <3>2. CASE n # m
      <4>1. n \in 0..(m - 1)
        BY <3>2
      <4>2. f[n] = Round(table, candidates, t, n, f[n - 1])
        BY <4>1, <2>2 DEF IsLoop
      <4>3. CASE n = 0
        BY <4>2, <4>3, <3>2 DEF Round
      <4>4. CASE n # 0
        <5>1. n - 1 \in 0..m /\ n - 1 # m
          BY <4>4
        <5>2. g[n - 1] = f[n - 1]
          BY <5>1
        <5> QED BY <4>2, <5>2, <3>2
      <4> QED BY <4>3, <4>4
    <3> QED BY <3>1, <3>2
  <2>4. IsLoop(g, m, table, candidates, t)
    <3>1. [n \in 0..m |-> g[n]] = [n \in 0..m |-> Round(table, candidates, t, n, g[n - 1])]
      BY <2>3
    <3>2. g = [n \in 0..m |-> g[n]]
      OBVIOUS
    <3> HIDE DEF g
    <3> QED BY <3>1, <3>2 DEF IsLoop
  <2> QED BY <1>1, <2>4
<1> QED BY <1>2, <1>3

LEMMA LoopValue ==
  ASSUME NEW table, NEW candidates, NEW t, Len(candidates) \in Nat
  PROVE  \E f : /\ IsLoop(f, Len(candidates), table, candidates, t)
                /\ resolveActivePromotion(table, candidates, t) = f[Len(candidates)]
<1> DEFINE f == CHOOSE f : IsLoop(f, Len(candidates), table, candidates, t)
<1>1. IsLoop(f, Len(candidates), table, candidates, t)
  BY LoopExists
<1>2. resolveActivePromotion(table, candidates, t) = f[Len(candidates)]
  BY DEF resolveActivePromotion, IsLoop, Round
<1> QED BY <1>1, <1>2

(* Precedence is a strict total order of the promotions with a target.     *)
LEMMA PrecedesTransitive ==
  ASSUME NEW table, NEW a, NEW b, NEW c, a \in Nat, b \in Nat, c \in Nat,
         \A k \in {a, b, c} : table[k].startsAt \in Int,
         Precedes(table, a, b), Precedes(table, b, c)
  PROVE  Precedes(table, a, c)
  BY DEF Precedes

LEMMA PrecedesTotal ==
  ASSUME NEW table, NEW a, NEW b, a \in Nat, b \in Nat, a # b,
         \A k \in {a, b} : /\ table[k].targetType \in {"product", "category"}
                           /\ table[k].startsAt \in Int
  PROVE  (Precedes(table, a, b) <=> ~Precedes(table, b, a))
  BY DEF Precedes

(* After n rounds the winner is the first of the active promotions among   *)
(* the first n candidates.                                                 *)
FirstOfRounds(w, n, table, candidates, t) ==
  IF \A i \in 1..n : ~isActiveAt(table[candidates[i]], t)
  THEN w = NoPromotion
  ELSE \E i \in 1..n :
         /\ w = candidates[i] /\ isActiveAt(table[w], t)
         /\ \A j \in 1..n : isActiveAt(table[candidates[j]], t) =>
              candidates[j] = w \/ Precedes(table, w, candidates[j])

LEMMA RoundsFindFirst ==
  ASSUME NEW table, NEW candidates, NEW t, NEW N \in Nat, NEW f,
         IsLoop(f, N, table, candidates, t),
         \A i \in 1..N : /\ candidates[i] \in Nat \ {NoPromotion}
                         /\ candidates[i] \in DOMAIN table
                         /\ table[candidates[i]].targetType \in {"product", "category"}
                         /\ table[candidates[i]].startsAt \in Int
  PROVE  FirstOfRounds(f[N], N, table, candidates, t)
<1> DEFINE bad == {n \in 0..N : ~FirstOfRounds(f[n], n, table, candidates, t)}
<1> SUFFICES ASSUME bad # {} PROVE FALSE
  OBVIOUS
<1>0. bad \in SUBSET Nat
  OBVIOUS
<1>1. PICK n \in bad : \A k \in bad : n <= k
  BY <1>0, HasLeast
<1>2. f[n] = Round(table, candidates, t, n, f[n - 1]) /\ n \in 0..N
  BY <1>1 DEF IsLoop
<1>3. CASE n = 0
  BY <1>1, <1>2, <1>3 DEF Round, FirstOfRounds
<1>4. CASE n # 0
  <2> DEFINE c == candidates[n]
             best == f[n - 1]
             active(k) == isActiveAt(table[k], t)
  <2>1. n - 1 \in 0..N /\ FirstOfRounds(best, n - 1, table, candidates, t)
    BY <1>1, <1>2, <1>4
  <2>2. n \in 1..N /\ 1..n = (1..(n - 1)) \cup {n} /\ n \in 1..n
    BY <1>2, <1>4
  <2>3. CASE ~active(c)
    <3>1. f[n] = best
      BY <2>3, <1>2, <1>4 DEF Round
    <3> QED BY <3>1, <2>1, <2>2, <2>3, <1>1 DEF FirstOfRounds
  <2>4. CASE active(c) /\ \A i \in 1..(n - 1) : ~active(candidates[i])
    <3>1. best = NoPromotion
      BY <2>1, <2>4 DEF FirstOfRounds
    <3>2. f[n] = c
      BY <3>1, <2>4, <1>2, <1>4 DEF Round
    <3>3. FirstOfRounds(c, n, table, candidates, t)
      BY <2>2, <2>4 DEF FirstOfRounds
    <3> QED BY <3>2, <3>3, <1>1
  <2>5. CASE active(c) /\ \E i \in 1..(n - 1) : active(candidates[i])
    <3>1. PICK i \in 1..(n - 1) :
            /\ best = candidates[i] /\ active(best)
            /\ \A j \in 1..(n - 1) : active(candidates[j]) =>
                 candidates[j] = best \/ Precedes(table, best, candidates[j])
      BY <2>1, <2>5 DEF FirstOfRounds
    <3>2. /\ best \in Nat \ {NoPromotion} /\ best \in DOMAIN table
          /\ table[best].targetType \in {"product", "category"} /\ table[best].startsAt \in Int
          /\ c \in Nat \ {NoPromotion} /\ c \in DOMAIN table
          /\ table[c].targetType \in {"product", "category"} /\ table[c].startsAt \in Int
      BY <3>1, <2>2
    <3>3. comparePrecedence(table, c, best) < 0 <=> Precedes(table, c, best)
      BY <3>2, OrderParity
    <3>4. CASE Precedes(table, c, best)
      <4>1. f[n] = c
        BY <3>3, <3>4, <2>5, <1>2, <1>4 DEF Round
      <4>2. ASSUME NEW j \in 1..n, active(candidates[j])
            PROVE  candidates[j] = c \/ Precedes(table, c, candidates[j])
        <5>1. CASE j = n
          BY <5>1
        <5>2. CASE j \in 1..(n - 1) /\ candidates[j] = best
          BY <5>2, <3>4
        <5>3. CASE j \in 1..(n - 1) /\ candidates[j] # best
          <6>1. candidates[j] \in Nat /\ table[candidates[j]].startsAt \in Int
            BY <5>3, <2>2
          <6>2. Precedes(table, best, candidates[j])
            BY <5>3, <4>2, <3>1
          <6> QED BY <6>1, <6>2, <3>2, <3>4, PrecedesTransitive
        <5> QED BY <5>1, <5>2, <5>3, <2>2
      <4>3. FirstOfRounds(c, n, table, candidates, t)
        BY <4>2, <2>2, <2>5 DEF FirstOfRounds
      <4> QED BY <4>1, <4>3, <1>1
    <3>5. CASE ~Precedes(table, c, best)
      <4>1. f[n] = best
        BY <3>2, <3>3, <3>5, <2>5, <1>2, <1>4 DEF Round
      <4>2. c = best \/ Precedes(table, best, c)
        BY <3>2, <3>5, PrecedesTotal
      <4>3. i \in 1..n /\ \A j \in 1..n : active(candidates[j]) =>
                 candidates[j] = best \/ Precedes(table, best, candidates[j])
        BY <4>2, <3>1, <2>2
      <4>4. FirstOfRounds(best, n, table, candidates, t)
        BY <4>3, <3>1 DEF FirstOfRounds
      <4> QED BY <4>1, <4>4, <1>1
    <3> QED BY <3>4, <3>5
  <2> QED BY <2>3, <2>4, <2>5
<1> QED BY <1>3, <1>4

-------------------------------------------------------------------------------
(* The discount of every row is one a draft may have (chk_percentage_bounds). *)
ValidDiscounts ==
  \A k \in PromotionIds :
    promotions[k].discountType = "percentage" => promotions[k].discountValue <= 10000

LEMMA DiscountsStayValid ==
  ASSUME PromoTypeOK, ValidDiscounts, [PromoNext]_promoVars
  PROVE  ValidDiscounts'
<1>1. ASSUME NEW k \in PromotionIds, NEW w \in Windows, NEW d \in Discounts, CreateDraft(k, w, d)
      PROVE  ValidDiscounts'
  <2>1. d.discountType = "percentage" => d.discountValue <= 10000
    BY DiscountsAssumption
  <2> QED BY <1>1, <2>1 DEF CreateDraft, ValidDiscounts, PromoTypeOK
<1>2. ASSUME NEW k \in PromotionIds, NEW t \in Target, AssignAndPublish(k, t[1], t[2])
      PROVE  ValidDiscounts'
  BY <1>2 DEF AssignAndPublish, ValidDiscounts, PromoTypeOK, PromotionRow
<1>3. ASSUME NEW k \in PromotionIds, CancelPromotion(k)
      PROVE  ValidDiscounts'
  BY <1>3 DEF CancelPromotion, ValidDiscounts, PromoTypeOK, PromotionRow
<1>4. CASE promotions' = promotions
  BY <1>4 DEF ValidDiscounts
<1> QED BY <1>1, <1>2, <1>3, <1>4 DEF PromoNext, Tick, promoVars

Targeting(p, c) ==
  {k \in PromotionIds : promotions[k].status = "published" /\ Targets(promotions[k], p, c)}

LEMMA SameLength ==
  ASSUME NEW m \in Nat, NEW n \in Nat, 1..m = 1..n
  PROVE  m = n
<1>1. CASE m < n
  <2>1. n \in 1..n /\ n \notin 1..m
    BY <1>1
  <2> QED BY <2>1
<1>2. CASE n < m
  <2>1. m \in 1..m /\ m \notin 1..n
    BY <1>2
  <2> QED BY <2>1
<1> QED BY <1>1, <1>2

(* The candidates that are fetched are all the published promotions that   *)
(* target the product: a list of n different elements of a set of n has    *)
(* them all.                                                               *)
LEMMA FetchedIsTargeting ==
  ASSUME NEW p, NEW c, NEW s \in Fetched(p, c)
  PROVE  /\ Len(s) \in Nat /\ \A i \in 1..Len(s) : s[i] \in Targeting(p, c)
         /\ \A k \in Targeting(p, c) : \E i \in 1..Len(s) : s[i] = k
<1> DEFINE T == Targeting(p, c)
           N == Cardinality(T)
<1>1. IsFiniteSet(T)
  BY FiniteTableAssumption, FS_Subset DEF Targeting
<1>2. N \in Nat
  BY <1>1, FS_CardinalityType
<1>3. s \in [1..N -> T] /\ \A i, j \in DOMAIN s : i # j => s[i] # s[j]
  BY DEF Fetched, Targeting
<1> HIDE DEF T, N
<1>4. Len(s) = N
  <2>1. s \in Seq(T)
    BY <1>2, <1>3, SeqDef
  <2>2. DOMAIN s = 1..Len(s) /\ Len(s) \in Nat
    BY <2>1, LenProperties
  <2>3. DOMAIN s = 1..N
    BY <1>3
  <2> QED BY <2>2, <2>3, <1>2, SameLength
<1>5. s \in Injection(1..N, T)
  BY <1>3 DEF Injection, IsInjective
<1>6. IsFiniteSet(1..N) /\ Cardinality(1..N) = N
  BY <1>2, FS_Interval
<1>7. s \in Surjection(1..N, T)
  <2>1. Cardinality(1..N) = Cardinality(T)
    BY <1>6 DEF N
  <2> QED BY <1>1, <1>5, <2>1, FS_Injection
<1>8. \A k \in T : \E i \in 1..N : s[i] = k
  BY <1>7 DEF Surjection
<1> QED BY <1>2, <1>3, <1>4, <1>8 DEF T

(* The first of the active candidates is the promotion the sub-query picks. *)
LEMMA FirstIsWinner ==
  ASSUME PromoTypeOK, NEW p \in Products, NEW c \in Categories, NEW t \in Nat, NEW w,
         w \in Candidates(promotions, p, c, t),
         \A j \in Candidates(promotions, p, c, t) \ {w} : Precedes(promotions, w, j)
  PROVE  w = WinningPromotion(promotions, p, c, t)
<1> DEFINE live == Candidates(promotions, p, c, t)
           first == {k \in live : \A j \in live \ {k} : Precedes(promotions, k, j)}
           win == WinningPromotion(promotions, p, c, t)
<1>1. \A k \in live : /\ k \in Nat /\ promotions[k].startsAt \in Int
                      /\ promotions[k].targetType \in {"product", "category"}
  BY LiveRows
<1>2. w \in first
  OBVIOUS
<1>3. win \in first
  BY <1>2 DEF WinningPromotion
<1> HIDE DEF live, win
<1>4. CASE w # win
  <2>1. Precedes(promotions, w, win) /\ Precedes(promotions, win, w)
    BY <1>2, <1>3, <1>4
  <2> QED BY <2>1, <1>1, <1>2, <1>3, <1>4, PrecedesTotal
<1> QED BY <1>4 DEF win

(* The loop over the candidates picks the same promotion.                  *)
LEMMA LoopFindsWinner ==
  ASSUME PromoTypeOK, NEW p \in Products, NEW c \in Categories, NEW t \in Nat,
         NEW s \in Fetched(p, c)
  PROVE  resolveActivePromotion(promotions, s, t) = WinningPromotion(promotions, p, c, t)
<1> DEFINE N == Len(s)
           live == Candidates(promotions, p, c, t)
           w == resolveActivePromotion(promotions, s, t)
<1>1. /\ N \in Nat /\ \A i \in 1..N : s[i] \in Targeting(p, c)
      /\ \A k \in Targeting(p, c) : \E i \in 1..N : s[i] = k
  BY FetchedIsTargeting
<1>2. \A k \in Targeting(p, c) :
        /\ k \in Nat \ {NoPromotion} /\ k \in DOMAIN promotions
        /\ promotions[k].targetType \in {"product", "category"}
        /\ promotions[k].startsAt \in Int
        /\ isActiveAt(promotions[k], t) <=> k \in live
  BY PromotionsAssumption
     DEF Targeting, Targets, PromoTypeOK, PromotionRow, Candidates, isActiveAt, InWindow
<1>3. live \subseteq Targeting(p, c)
  BY DEF Targeting, Candidates, PromoTypeOK
<1>4. PICK f : IsLoop(f, N, promotions, s, t) /\ w = f[N]
  BY <1>1, LoopValue
<1> HIDE DEF N, w, live
<1>5. FirstOfRounds(w, N, promotions, s, t)
  BY <1>1, <1>2, <1>4, RoundsFindFirst
<1>6. CASE live = {}
  <2>1. w = NoPromotion
    BY <1>1, <1>2, <1>5, <1>6 DEF FirstOfRounds
  <2> QED BY <2>1, <1>6 DEF WinningPromotion, w, live
<1>7. CASE live # {}
  <2>1. \E i \in 1..N : isActiveAt(promotions[s[i]], t)
    BY <1>1, <1>2, <1>3, <1>7
  <2>2. /\ w \in live
        /\ \A j \in 1..N : isActiveAt(promotions[s[j]], t) =>
             s[j] = w \/ Precedes(promotions, w, s[j])
    BY <1>1, <1>2, <1>5, <2>1 DEF FirstOfRounds
  <2>3. \A j \in live \ {w} : Precedes(promotions, w, j)
    BY <2>2, <1>1, <1>2, <1>3
  <2> QED BY <2>2, <2>3, FirstIsWinner DEF w, live
<1> QED BY <1>6, <1>7

(* The read that computes a price picks the same promotion, for it writes  *)
(* down the same set of candidates and the same order.                     *)
LEMMA ComputedIsProjected ==
  ASSUME PromoTypeOK, NEW p \in Products, NEW c \in Categories, NEW t \in Nat, NEW base
  PROVE  Computed(base, p, c, t) =
           [activePromotion |-> WinningPromotion(promotions, p, c, t),
            effectivePrice  |-> PriceUnder(promotions, base, WinningPromotion(promotions, p, c, t))]
<1> DEFINE live == {k \in PromotionIds :
                      /\ promotions[k].status = "published"
                      /\ promotions[k].startsAt <= t /\ promotions[k].endsAt > t
                      /\ <<promotions[k].targetType, promotions[k].target>>
                           \in {<<"product", p>>, <<"category", c>>}}
           first == {k \in live : \A j \in live \ {k} : Precedes(promotions, k, j)}
           win == CHOOSE k \in first : TRUE
<1>1. live = Candidates(promotions, p, c, t)
  BY DEF PromoTypeOK, PromotionRow, Candidates, InWindow, Targets
<1>2. WinningPromotion(promotions, p, c, t) = IF first = {} THEN NoPromotion ELSE win
  <2> DEFINE sql == {k \in Candidates(promotions, p, c, t) :
                       \A j \in Candidates(promotions, p, c, t) \ {k} : Precedes(promotions, k, j)}
  <2>1. WinningPromotion(promotions, p, c, t) =
          IF sql = {} THEN NoPromotion ELSE CHOOSE k \in sql : TRUE
    BY DEF WinningPromotion
  <2>2. sql = first
    BY <1>1
  <2> HIDE DEF sql, first
  <2> QED BY <2>1, <2>2
<1>3. Computed(base, p, c, t) =
        IF first = {} THEN [activePromotion |-> NoPromotion, effectivePrice |-> base]
        ELSE [activePromotion |-> win,
              effectivePrice |-> ApplyDiscount(base, promotions[win].discountType,
                                               promotions[win].discountValue)]
  BY DEF Computed
<1>4. first # {} => win # NoPromotion
  BY <1>1, LiveRows
<1> HIDE DEF first, win
<1> QED BY <1>2, <1>3, <1>4 DEF PriceUnder

(* The three copies of the rules agree: in every state that the promotion  *)
(* service can bring the table to, at every instant and for every base     *)
(* price, calculateEffectivePrice gives, whatever the order of its         *)
(* candidates, the promotion and the price of the sub-query.               *)
THEOREM CoreAgreement == PromoSpec => []CoreAgreesWithSql
<1> DEFINE Inv == PromoInv /\ ValidDiscounts
<1>1. PromoInit => Inv
  BY PromoInitInv DEF PromoInit, ValidDiscounts, AbsentRow
<1>2. Inv /\ [PromoNext]_promoVars => Inv'
  BY PromoStepInv, DiscountsStayValid DEF PromoInv
<1>3. Inv => CoreAgreesWithSql
  <2> SUFFICES ASSUME PromoTypeOK, ValidDiscounts,
                      NEW p \in Products, NEW c \in Categories, NEW t \in Nat,
                      NEW base \in 0..MaxPriceCents, NEW s \in Fetched(p, c)
               PROVE  calculateEffectivePrice(base, promotions, s, t) = Computed(base, p, c, t)
    BY ComputedIsProjected, MaxTimeAssumption, BasePricesAssumption
       DEF PromoInv, CoreAgreesWithSql
  <2> DEFINE w == WinningPromotion(promotions, p, c, t)
  <2>1. resolveActivePromotion(promotions, s, t) = w
    BY LoopFindsWinner
  <2>2. CASE w = NoPromotion
    BY <2>1, <2>2, ComputedIsProjected DEF calculateEffectivePrice, PriceUnder
  <2>3. CASE w # NoPromotion
    <3>1. w \in Candidates(promotions, p, c, t)
      BY <2>3 DEF WinningPromotion
    <3>2. /\ promotions[w].discountType \in {"percentage", "fixed"}
          /\ promotions[w].discountValue \in Nat
          /\ promotions[w].discountType = "percentage" => promotions[w].discountValue <= 10000
      BY <3>1, LiveRows DEF PromoTypeOK, PromotionRow, ValidDiscounts
    <3>3. applyDiscount(base, promotions[w].discountType, promotions[w].discountValue)
            = ApplyDiscount(base, promotions[w].discountType, promotions[w].discountValue)
      BY <3>2, DiscountParity
    <3> HIDE DEF w
    <3> QED BY <2>1, <2>3, <3>3, ComputedIsProjected
            DEF calculateEffectivePrice, PriceUnder, w
  <2> QED BY <2>2, <2>3
<1> QED BY <1>1, <1>2, <1>3, PTL DEF PromoSpec
===============================================================================
