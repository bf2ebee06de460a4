----------------------------- MODULE KeysetListing ----------------------------
(***************************************************************************)
(* listProducts: a page of the products in a price range, in the order of  *)
(* (effective price, id), behind a cursor.  A shelf is the products table  *)
(* as one statement sees it: a function from the ids of the rows that      *)
(* exist to their effective price and category.                            *)
(***************************************************************************)
EXTENDS Integers, FiniteSets

CONSTANTS
  Category,   \* the category each product id is created in
  All,        \* the scope of a listing without a category
  Start,      \* no cursor
  Malformed,  \* a cursor that does not decode
  End         \* nextCursor is null

ASSUME CatalogAssumption == DOMAIN Category \subseteq Int /\ IsFiniteSet(DOMAIN Category)

Position(shelf, p) == <<shelf[p].price, p>>
Less(a, b) == a[1] < b[1] \/ (a[1] = b[1] /\ a[2] < b[2])

Comes(sort, a, b) == IF sort = "asc" THEN Less(a, b) ELSE Less(b, a)

(* decodeCursor: a token that does not parse is no cursor, not an error.   *)
DecodeCursor(token) == IF token = Malformed THEN Start ELSE token

Listed(shelf, q, p) ==
  /\ q.scope \in {All, shelf[p].category}
  /\ q.min <= shelf[p].price /\ shelf[p].price <= q.max

Found(shelf, q, cursor) ==
  {p \in DOMAIN shelf : /\ Listed(shelf, q, p)
                        /\ cursor # Start => Comes(q.sort, cursor, Position(shelf, p))}

First(shelf, q, found, n) ==
  {p \in found : Cardinality({o \in found :
                   Comes(q.sort, Position(shelf, o), Position(shelf, p))}) < n}
LastPosition(shelf, q, rows) ==
  Position(shelf, CHOOSE p \in rows : \A o \in rows \ {p} :
                    Comes(q.sort, Position(shelf, o), Position(shelf, p)))

NextCursorAtExtra(shelf, q, rows, items) ==       \* mutant: behind the row that is not shown
  IF rows # items THEN LastPosition(shelf, q, rows) ELSE End
NextCursor(shelf, q, rows, items) ==
  IF rows # items THEN LastPosition(shelf, q, items) ELSE End

(* The first `limit` products, read as limit + 1 rows: the extra row says  *)
(* that there is another page, which starts behind this page's last item.  *)
ListProducts(shelf, q, cursor) ==
  LET found == Found(shelf, q, cursor)
      rows  == First(shelf, q, found, q.limit + 1)
      items == First(shelf, q, rows, q.limit)
  IN  [items |-> items, next |-> NextCursor(shelf, q, rows, items)]
===============================================================================
