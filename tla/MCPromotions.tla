----------------------------- MODULE MCPromotions -----------------------------
(* Three promotions over one product and one category, with windows that   *)
(* touch, nest, and overlap on one side only, and prices whose discount    *)
(* has to be rounded or would be negative.                                 *)
EXTENDS PriceParity

MCWindows == {[startsAt |-> 0, endsAt |-> 2], [startsAt |-> 1, endsAt |-> 3],
              [startsAt |-> 2, endsAt |-> 3], [startsAt |-> 1, endsAt |-> 1]}
MCDiscounts == {[discountType |-> "percentage", discountValue |-> 5000],
                [discountType |-> "fixed", discountValue |-> 500]}
===============================================================================
