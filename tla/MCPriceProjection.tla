-------------------------- MODULE MCPriceProjection ---------------------------
(* Small catalogues, windows and discounts for PriceProjection: half of an *)
(* odd price needs rounding, and a window may open while the clock runs.   *)
EXTENDS PriceProjection

CONSTANTS shoes, bags

Plain == [base |-> 101, category |-> shoes]
Dear  == [base |-> 151, category |-> shoes]
Moved == [base |-> 101, category |-> bags]

OneShoe    == (1 :> Plain)
TwoShoes   == [p \in {1, 2} |-> Plain]
ThreeShoes == [p \in {1, 2, 3} |-> Plain]
DearOnly   == {Dear}
MovedOnly  == {Moved}
NoListings == {}

Open      == {[startsAt |-> 0, endsAt |-> 2]}
LaterOnly == {[startsAt |-> 1, endsAt |-> 2]}
MuchLater == {[startsAt |-> 1, endsAt |-> 3]}
Half == {[discountType |-> "percentage", discountValue |-> 5000]}
===============================================================================
