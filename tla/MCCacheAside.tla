----------------------------- MODULE MCCacheAside -----------------------------
(* Two shirts and a third to be created, and bags, which a vendor file may *)
(* turn a shirt into; a listing, of everything by ascending price or of    *)
(* the shirts by descending price, with one product to a page; and two     *)
(* readers: both of details, or one of the listing, from the start or from *)
(* a bad cursor.                                                           *)
EXTENDS CacheAside, TLC

CONSTANTS shirts, bags, r1, r2

FourNames == <<shirts, shirts, shirts, bags>>
Shirt     == [price |-> 1, category |-> shirts]
TwoPriced == <<Shirt, Shirt>>
Cheapest  == {[scope |-> All, sort |-> "asc", min |-> 0, max |-> 9, limit |-> 1]}
Shirts    == {[scope |-> shirts, sort |-> "desc", min |-> 0, max |-> 9, limit |-> 1]}

Viewers   == {r1 :> "detail" @@ r2 :> "detail"}
Lister(t) == {r1 :> t @@ r2 :> "nothing"}
AnyCrowd  == Viewers \cup Lister(Start) \cup Lister(Malformed)
===============================================================================
