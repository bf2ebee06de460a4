--------------------------- MODULE PromotionsProofs ---------------------------
(***************************************************************************)
(* Proofs about the promotions table.  The inductive invariant is the type *)
(* invariant with NoPublishedOverlap: publishing is the only statement     *)
(* that adds a published row, and it is refused when the row would overlap *)
(* one with the same target.                                               *)
(***************************************************************************)
EXTENDS Promotions, LeastElement, TLAPS

PromoInv == PromoTypeOK /\ NoPublishedOverlap

LEMMA PromoInitInv == PromoInit => PromoInv
  BY PromotionsAssumption DEF PromoInit, PromoInv, PromoTypeOK, NoPublishedOverlap,
     PromotionRow, AbsentRow

LEMMA DraftKeepsType ==
  ASSUME PromoTypeOK, NEW k \in PromotionIds, NEW w \in Windows, NEW d \in Discounts,
         CreateDraft(k, w, d)
  PROVE  PromoTypeOK'
<1>1. w.startsAt \in Nat /\ w.endsAt \in Nat
  BY WindowsAssumption
<1>2. d.discountType \in {"percentage", "fixed"} /\ d.discountValue \in Nat
  BY DiscountsAssumption
<1> DEFINE new == [status |-> "draft", startsAt |-> w.startsAt, endsAt |-> w.endsAt,
                   discountType |-> d.discountType, discountValue |-> d.discountValue,
                   targetType |-> "none", target |-> NoPromotion]
<1>3. new \in PromotionRow
  BY <1>1, <1>2 DEF PromotionRow
<1>4. promotions' = [promotions EXCEPT ![k] = new] /\ now' = now
  BY DEF CreateDraft
<1> HIDE DEF new
<1> QED BY <1>3, <1>4 DEF PromoTypeOK

LEMMA PublishKeepsType ==
  ASSUME PromoTypeOK, NEW k \in PromotionIds, NEW t \in Target, AssignAndPublish(k, t[1], t[2])
  PROVE  PromoTypeOK'
<1>1. t[1] \in {"product", "category"} /\ t[2] \in Products \cup Categories
  BY DEF Target
<1>2. promotions[k] \in PromotionRow
  BY DEF PromoTypeOK
<1> DEFINE new == [promotions[k] EXCEPT !.status = "published", !.targetType = t[1], !.target = t[2]]
<1>3. new \in PromotionRow
  BY <1>1, <1>2 DEF PromotionRow
<1>4. promotions' = [promotions EXCEPT ![k] = new] /\ now' = now
  BY DEF AssignAndPublish
<1> HIDE DEF new
<1> QED BY <1>3, <1>4 DEF PromoTypeOK

LEMMA CancelKeepsType ==
  ASSUME PromoTypeOK, NEW k \in PromotionIds, CancelPromotion(k)
  PROVE  PromoTypeOK'
  BY DEF PromoTypeOK, CancelPromotion, PromotionRow

LEMMA PromoStepInv == PromoInv /\ [PromoNext]_promoVars => PromoInv'
<1> SUFFICES ASSUME PromoInv, [PromoNext]_promoVars PROVE PromoInv'
  OBVIOUS
<1> USE DEF PromoInv, NoPublishedOverlap, RangesOverlap
<1>1. ASSUME NEW k \in PromotionIds, NEW w \in Windows, NEW d \in Discounts, CreateDraft(k, w, d)
      PROVE  PromoInv'
  <2>1. PromoTypeOK'
    BY <1>1, DraftKeepsType
  <2>2. \A i \in PromotionIds : promotions'[i].status = "published" => i # k /\ promotions'[i] = promotions[i]
    BY <1>1 DEF CreateDraft, PromoTypeOK
  <2> QED BY <2>1, <2>2
<1>2. ASSUME NEW k \in PromotionIds, NEW t \in Target, AssignAndPublish(k, t[1], t[2])
      PROVE  PromoInv'
  <2>1. PromoTypeOK'
    BY <1>2, PublishKeepsType
  <2>2. \A i \in PromotionIds \ {k} : promotions'[i] = promotions[i]
    BY <1>2 DEF AssignAndPublish, PromoTypeOK
  <2>3. /\ promotions'[k].targetType = t[1] /\ promotions'[k].target = t[2]
        /\ promotions'[k].startsAt = promotions[k].startsAt
        /\ promotions'[k].endsAt = promotions[k].endsAt
    BY <1>2 DEF AssignAndPublish, PromoTypeOK, PromotionRow
  <2>4. ~Excluded(k, t[1], t[2])
    BY <1>2 DEF AssignAndPublish
  <2>5. ASSUME NEW i \in PromotionIds, NEW j \in PromotionIds, i # j,
               promotions'[i].status = "published", promotions'[j].status = "published",
               promotions'[i].targetType = promotions'[j].targetType,
               promotions'[i].target = promotions'[j].target
        PROVE  ~RangesOverlap(promotions'[i], promotions'[j])
    BY <2>2, <2>3, <2>4, <2>5 DEF Excluded
  <2> QED BY <2>1, <2>5
<1>3. ASSUME NEW k \in PromotionIds, CancelPromotion(k)
      PROVE  PromoInv'
  <2>1. PromoTypeOK'
    BY <1>3, CancelKeepsType
  <2>2. \A i \in PromotionIds : promotions'[i].status = "published" => i # k /\ promotions'[i] = promotions[i]
    BY <1>3 DEF CancelPromotion, PromoTypeOK, PromotionRow
  <2> QED BY <2>1, <2>2
<1>4. CASE Tick
  BY <1>4, MaxTimeAssumption DEF Tick, PromoTypeOK
<1>5. CASE UNCHANGED promoVars
  BY <1>5 DEF promoVars, PromoTypeOK
<1> QED BY <1>1, <1>2, <1>3, <1>4, <1>5 DEF PromoNext

(* The type of the promotions table and the clock is an invariant.         *)
THEOREM PromoTypeCorrect == PromoSpec => []PromoTypeOK
<1>1. PromoInv => PromoTypeOK
  BY DEF PromoInv
<1> QED BY PromoInitInv, PromoStepInv, <1>1, PTL DEF PromoSpec

(* Two ranges that share an instant overlap, so the range comparison of    *)
(* the constraints settles every instant: at most one published promotion  *)
(* per target is active at any time (the business rule of 0001_init.sql).  *)
THEOREM AtMostOneActive == PromoSpec => []OneActivePerTarget
<1>1. PromoInv => OneActivePerTarget
  <2> SUFFICES ASSUME PromoInv, NEW t \in 0..MaxTime, NEW i \in PromotionIds, NEW j \in PromotionIds,
                      promotions[i].status = "published", InWindow(promotions[i], t),
                      promotions[j].status = "published", InWindow(promotions[j], t),
                      promotions[i].targetType = promotions[j].targetType,
                      promotions[i].target = promotions[j].target,
                      i # j
               PROVE  FALSE
    BY DEF OneActivePerTarget
  <2>1. t \in Int /\ promotions[i].startsAt \in Int /\ promotions[i].endsAt \in Int
        /\ promotions[j].startsAt \in Int /\ promotions[j].endsAt \in Int
    BY DEF PromoInv, PromoTypeOK, PromotionRow
  <2>2. RangesOverlap(promotions[i], promotions[j])
    BY <2>1 DEF InWindow, RangesOverlap
  <2> QED BY <2>2 DEF PromoInv, NoPublishedOverlap
<1> QED BY PromoInitInv, PromoStepInv, <1>1, PTL DEF PromoSpec

LEMMA LiveRows ==
  ASSUME PromoTypeOK, NEW p \in Products, NEW c \in Categories, NEW t \in Nat,
         NEW k \in Candidates(promotions, p, c, t)
  PROVE  /\ k \in PromotionIds /\ k \in Nat /\ k # NoPromotion
         /\ promotions[k].status = "published" /\ InWindow(promotions[k], t)
         /\ promotions[k].startsAt \in Nat /\ promotions[k].endsAt \in Nat
         /\ t - promotions[k].startsAt \in Nat
         /\ promotions[k].targetType \in {"product", "category"}
         /\ promotions[k].targetType = "product" => promotions[k].target = p
  BY PromotionsAssumption DEF Candidates, Targets, InWindow, PromoTypeOK, PromotionRow

(* The first of the candidates: the most specific ones, among them those   *)
(* that started last, and among those the least id.                        *)
LEMMA FirstCandidate ==
  ASSUME PromoTypeOK, NEW p \in Products, NEW c \in Categories, NEW t \in Nat,
         Candidates(promotions, p, c, t) # {}
  PROVE  \E k \in Candidates(promotions, p, c, t) :
           \A j \in Candidates(promotions, p, c, t) \ {k} : Precedes(promotions, k, j)
<1> DEFINE live == Candidates(promotions, p, c, t)
           specific == {k \in live : promotions[k].targetType = "product"}
           top == IF specific = {} THEN live ELSE specific
           age(k) == t - promotions[k].startsAt
           ages == {age(k) : k \in top}
<1>1. \A k \in live : /\ k \in Nat /\ age(k) \in Nat /\ promotions[k].startsAt \in Nat
                      /\ promotions[k].targetType \in {"product", "category"}
  BY LiveRows
<1>2. live # {}
  OBVIOUS
<1> HIDE DEF live
<1>3. /\ top # {} /\ top \subseteq live
      /\ \A k, j \in top : promotions[k].targetType = promotions[j].targetType
      /\ \A k \in top, j \in live \ top : Precedes(promotions, k, j)
  BY <1>1, <1>2 DEF Precedes
<1> HIDE DEF top
<1>4. ages \subseteq Nat /\ ages # {}
  BY <1>1, <1>3
<1>5. PICK m \in ages : \A n \in ages : m <= n
  BY <1>4, HasLeast
<1> DEFINE latest == {k \in top : age(k) = m}
<1>6. latest \subseteq Nat /\ latest # {}
  BY <1>1, <1>3
<1>7. PICK k \in latest : \A j \in latest : k <= j
  BY <1>6, HasLeast
<1>8. ASSUME NEW j \in live \ {k} PROVE Precedes(promotions, k, j)
  <2>1. CASE j \notin top
    BY <2>1, <1>3
  <2>2. CASE j \in top /\ age(j) # m
    <3>1. age(k) = m /\ age(j) \in ages /\ m <= age(j) /\ k \in live
      BY <2>2, <1>3, <1>5
    <3>2. age(k) < age(j) /\ age(k) \in Nat /\ age(j) \in Nat
      BY <3>1, <2>2, <1>1
    <3>3. promotions[k].startsAt > promotions[j].startsAt
      BY <3>1, <3>2, <1>1
    <3> QED BY <3>3, <2>2, <1>3 DEF Precedes
  <2>3. CASE j \in latest
    <3>1. k < j /\ k \in live
      BY <2>3, <1>1, <1>3, <1>7
    <3>2. age(k) = age(j)
      BY <2>3
    <3>3. promotions[k].startsAt = promotions[j].startsAt
      BY <3>1, <3>2, <1>1
    <3> QED BY <3>1, <3>3, <2>3, <1>3 DEF Precedes
  <2> QED BY <2>1, <2>2, <2>3
<1>9. k \in live
  BY <1>3
<1> QED BY <1>8, <1>9 DEF live

(* The sub-query's choice is determined: it finds a promotion whenever one *)
(* applies, and no product-level promotion ever loses to a category-wide   *)
(* one or ties with another.                                               *)
THEOREM WinnerDetermined == PromoSpec => []WinnerIsDetermined
<1>1. PromoInv => WinnerIsDetermined
  <2> SUFFICES ASSUME PromoInv, NEW p \in Products, NEW c \in Categories, NEW t \in 0..MaxTime
               PROVE  LET live == Candidates(promotions, p, c, t)
                          w    == WinningPromotion(promotions, p, c, t)
                      IN  /\ live # {} => w \in live
                          /\ (\E k \in live : promotions[k].targetType = "product")
                               => /\ promotions[w].targetType = "product"
                                  /\ \A k \in live : promotions[k].targetType = "product" => k = w
    BY DEF WinnerIsDetermined
  <2> DEFINE live == Candidates(promotions, p, c, t)
             w    == WinningPromotion(promotions, p, c, t)
             first == {k \in live : \A j \in live \ {k} : Precedes(promotions, k, j)}
  <2>1. PromoTypeOK /\ t \in Nat
    BY MaxTimeAssumption DEF PromoInv
  <2>2. ASSUME live # {} PROVE w \in first
    <3>1. first # {}
      BY <2>1, <2>2, FirstCandidate
    <3>2. w = CHOOSE k \in first : TRUE
      BY <3>1 DEF WinningPromotion
    <3> QED BY <3>1, <3>2
  <2>3. ASSUME NEW k \in live, promotions[k].targetType = "product"
        PROVE  /\ promotions[w].targetType = "product"
               /\ k = w
    <3>1. w \in live /\ (k # w => Precedes(promotions, w, k))
      BY <2>2, <2>3
    <3>2. promotions[w].targetType = "product"
      BY <3>1, <2>3 DEF Precedes
    <3>3. /\ promotions[k].target = promotions[w].target
          /\ k \in PromotionIds /\ w \in PromotionIds
          /\ promotions[k].status = "published" /\ InWindow(promotions[k], t)
          /\ promotions[w].status = "published" /\ InWindow(promotions[w], t)
          /\ promotions[k].startsAt \in Nat /\ promotions[k].endsAt \in Nat
          /\ promotions[w].startsAt \in Nat /\ promotions[w].endsAt \in Nat
      BY <3>1, <3>2, <2>1, <2>3, LiveRows
    <3>4. RangesOverlap(promotions[k], promotions[w])
      BY <3>3, <2>1 DEF InWindow, RangesOverlap
    <3> QED BY <3>2, <3>3, <3>4, <2>3 DEF PromoInv, NoPublishedOverlap
  <2> HIDE DEF w, live
  <2> QED BY <2>2, <2>3 DEF live, w
<1> QED BY PromoInitInv, PromoStepInv, <1>1, PTL DEF PromoSpec
===============================================================================
