------------------------------ MODULE Promotions ------------------------------
(***************************************************************************)
(* The promotions table: createDraft, assignAndPublish and cancel of the   *)
(* promotion service, with the constraints PostgreSQL enforces on it.      *)
(* Each is one SQL statement, so each is one action.  Whether a promotion  *)
(* is active is derived from the clock, never stored.                      *)
(***************************************************************************)
EXTENDS PricingSql, FiniteSets

CONSTANTS
  Products,       \* product ids, ordered like the UUID column
  Categories,
  PromotionIds,
  Windows,        \* the [startsAt, endsAt] pairs a caller may submit
  Discounts,      \* the [discountType, discountValue] pairs a caller may submit
  MaxTime         \* bound on the clock

ASSUME ProductsAssumption == Products \subseteq Nat \ {0}
ASSUME CategoriesAssumption == Categories # {}
ASSUME PromotionsAssumption == PromotionIds \subseteq Nat \ {NoPromotion}
ASSUME WindowsAssumption == Windows \subseteq [startsAt : Nat, endsAt : Nat]
ASSUME DiscountsAssumption ==
  \A d \in Discounts :
    /\ d \in [discountType : {"percentage", "fixed"}, discountValue : Nat \ {0}]
    /\ d.discountType = "percentage" => d.discountValue <= 10000
ASSUME MaxTimeAssumption == MaxTime \in Nat

VARIABLES promotions, now

promoVars == <<promotions, now>>

(* A product target and a category target, as POST .../assign takes them.  *)
Target == ({"product"} \X Products) \cup ({"category"} \X Categories)

(* "absent" is an id no row has yet; a draft has no target (chk_target).   *)
PromotionRow ==
  [status : {"absent", "draft", "published", "cancelled"},
   startsAt : Nat, endsAt : Nat,
   discountType : {"percentage", "fixed"}, discountValue : Nat,
   targetType : {"none", "product", "category"},
   target : {NoPromotion} \cup Products \cup Categories]

AbsentRow ==
  [status |-> "absent", startsAt |-> 0, endsAt |-> 0,
   discountType |-> "fixed", discountValue |-> 0,
   targetType |-> "none", target |-> NoPromotion]

PromoTypeOK ==
  /\ promotions \in [PromotionIds -> PromotionRow]
  /\ now \in Nat

PromoInit ==
  /\ promotions = [k \in PromotionIds |-> AbsentRow]
  /\ now = 0

(* The id is a random UUID: any unused id, whatever its place in the order. *)
CreateDraft(k, window, discount) ==
  /\ promotions[k].status = "absent"
  /\ window.startsAt < window.endsAt
  /\ promotions' = [promotions EXCEPT ![k] =
       [status |-> "draft", startsAt |-> window.startsAt, endsAt |-> window.endsAt,
        discountType |-> discount.discountType, discountValue |-> discount.discountValue,
        targetType |-> "none", target |-> NoPromotion]]
  /\ now' = now

(* Another published row for the same target whose range overlaps k's.     *)
Excluded(k, targetType, target) ==
  \E j \in PromotionIds \ {k} :
    /\ promotions[j].status = "published"
    /\ promotions[j].targetType = targetType
    /\ promotions[j].target = target
    /\ RangesOverlap(promotions[j], promotions[k])

AssignAndPublish(k, targetType, target) ==
  /\ promotions[k].status = "draft"
  /\ ~Excluded(k, targetType, target)
  /\ promotions' = [promotions EXCEPT ![k].status = "published",
                                      ![k].targetType = targetType,
                                      ![k].target = target]
  /\ now' = now

CancelPromotion(k) ==
  /\ promotions[k].status = "published"
  /\ promotions' = [promotions EXCEPT ![k].status = "cancelled"]
  /\ now' = now

(* PostgreSQL's clock.                                                     *)
Tick ==
  /\ now < MaxTime
  /\ now' = now + 1
  /\ promotions' = promotions

PromoNext ==
  \/ \E k \in PromotionIds, w \in Windows, d \in Discounts : CreateDraft(k, w, d)
  \/ \E k \in PromotionIds, t \in Target : AssignAndPublish(k, t[1], t[2])
  \/ \E k \in PromotionIds : CancelPromotion(k)
  \/ Tick

PromoSpec == PromoInit /\ [][PromoNext]_promoVars

(* The business rule of the first migration, "a product can have at most   *)
(* one active promotion at a time", at each of its two levels: whatever    *)
(* the clock reads, no two promotions that are active then have the same   *)
(* target.  The constraints compare ranges at publish time; this is what   *)
(* they promise about every instant.                                       *)
OneActivePerTarget ==
  \A t \in 0..MaxTime, i, j \in PromotionIds :
    /\ promotions[i].status = "published" /\ InWindow(promotions[i], t)
    /\ promotions[j].status = "published" /\ InWindow(promotions[j], t)
    /\ promotions[i].targetType = promotions[j].targetType
    /\ promotions[i].target = promotions[j].target
    => i = j

(* What the EXCLUDE constraints leave true of the table itself.            *)
NoPublishedOverlap ==
  \A i, j \in PromotionIds :
    /\ i # j
    /\ promotions[i].status = "published" /\ promotions[j].status = "published"
    /\ promotions[i].targetType = promotions[j].targetType
    /\ promotions[i].target = promotions[j].target
    => ~RangesOverlap(promotions[i], promotions[j])

(* The promotion a projection picks for a product is determined: at any    *)
(* instant either nothing covers the product, or exactly one candidate     *)
(* precedes all the others and it is a product-level one if there is any.  *)
WinnerIsDetermined ==
  \A p \in Products, c \in Categories, t \in 0..MaxTime :
    LET live == Candidates(promotions, p, c, t)
        w    == WinningPromotion(promotions, p, c, t)
    IN  /\ live # {} => w \in live
        /\ (\E k \in live : promotions[k].targetType = "product")
             => /\ promotions[w].targetType = "product"
                /\ \A k \in live : promotions[k].targetType = "product" => k = w
===============================================================================
