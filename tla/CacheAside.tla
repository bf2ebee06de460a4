------------------------------ MODULE CacheAside ------------------------------
(***************************************************************************)
(* The product reads of the API through Redis, and everything that         *)
(* invalidates what they cache.  Each API process has a circuit breaker    *)
(* and a map of the loads in flight; a listing's key carries the version   *)
(* of its scope, a product's key is deleted by name.  Every call to Redis  *)
(* may fail, with or without its effect, and none of them is retried.      *)
(*                                                                         *)
(* The table is the sequence of its states; a cached value is the state it *)
(* was computed from.  One connection per process answers in the order it  *)
(* is asked, so a reply and what the process does with it are one step.    *)
(***************************************************************************)
EXTENDS KeysetListing, Sequences

CONSTANTS
  Shelf0,     \* the products table at the start
  Prices,     \* the effective prices a projection may give
  Newcomers,  \* ids of products to be created
  Queries,    \* the listings asked for: scope, sort, min, max and limit
  Readers, Apis, Writers,
  Crowds,     \* what each reader may be after: "detail", "nothing", or the listing
              \* from a first cursor, Start or Malformed
  Threshold,  \* CIRCUIT_FAILURE_THRESHOLD
  MaxStates,  \* bound on the states of the table
  MaxFaults   \* bound on failed calls, evictions and crashes

VARIABLES
  table,      \* the states of the products table; the last one is now
  bumps,      \* per scope, the state of the table at each INCR of its version
  stored,     \* Redis: key to the table's state the value was computed from
  breaker, inFlight,
  crowd, reader, writer,
  evicted,    \* history: a version key has been evicted
  faults

vars == <<table, bumps, stored, breaker, inFlight, crowd, reader, writer, evicted, faults>>

Categories == {Category[p] : p \in DOMAIN Category}
Row == [price : Prices, category : Categories]
Scopes == {All} \cup Categories
Now == table[Len(table)]
Version(scope) == Len(bumps[scope])

Tokens == {Start, Malformed}
NoWalk == [query |-> CHOOSE q \in Queries : TRUE, token |-> End,
           seen |-> [p \in DOMAIN Category |-> 0], used |-> {}]
NoKey == <<>>

ASSUME CacheAssumption ==
  Apis # {} /\ Queries # {} /\ \A q \in Queries : q.scope \in Scopes /\ q.limit \in Nat \ {0}
ASSUME ShelfAssumption ==
  /\ Prices \subseteq Int /\ DOMAIN Shelf0 \cup Newcomers \subseteq DOMAIN Category
  /\ \A p \in DOMAIN Shelf0 : Shelf0[p] \in Row
ASSUME TokensAssumption ==
  Start # Malformed /\ End \notin Tokens /\ \A t \in Tokens \cup {End} : t \notin Int \X Int
ASSUME CacheBoundsAssumption ==
  {Threshold, MaxStates} \subseteq Nat \ {0} /\ MaxFaults \in Nat /\ IsFiniteSet(Writers)

IdleReader == [phase |-> "idle", api |-> CHOOSE i \in Apis : TRUE, key |-> NoKey,
               value |-> 0, walk |-> NoWalk]

Init ==
  /\ table = <<Shelf0>> /\ bumps = [s \in Scopes |-> <<>>] /\ stored = <<>>
  /\ breaker = [i \in Apis |-> [failures |-> 0, open |-> FALSE]]
  /\ inFlight = [i \in Apis |-> {}]
  /\ crowd \in Crowds /\ reader = [r \in Readers |-> IdleReader] /\ writer = [w \in Writers |-> <<>>]
  /\ evicted = FALSE /\ faults = 0

Fault == faults < MaxFaults /\ faults' = faults + 1
-------------------------------------------------------------------------------
(* RedisCache's calls.                                                     *)

Answered(i) ==
  /\ ~breaker[i].open
  /\ breaker' = [breaker EXCEPT ![i].failures = 0]
  /\ UNCHANGED faults

Skipped(i) == breaker[i].open /\ UNCHANGED <<breaker, faults>>

Failed(i) ==
  /\ ~breaker[i].open
  /\ LET n == breaker[i].failures + 1
     IN  breaker' = [breaker EXCEPT ![i] =
                       [failures |-> IF n < Threshold THEN n ELSE Threshold,
                        open |-> n >= Threshold]]
  /\ Fault

(* A write that fails may have been applied.                               *)
Applied(i) == Answered(i) \/ Failed(i)
Dropped(i) == Skipped(i) \/ Failed(i)

(* The cooldown ends; the count of failures stays.                         *)
Cool(i) ==
  /\ breaker[i].open
  /\ breaker' = [breaker EXCEPT ![i].open = FALSE]
  /\ UNCHANGED <<table, bumps, stored, inFlight, reader, writer, evicted, crowd, faults>>

(* TTL, or eviction under memory pressure.                                 *)
ExpireDetail(k) ==                                \* mutant: listings are stored without a TTL
  /\ k \in DOMAIN stored /\ Len(k) = 2
  /\ stored' = [j \in DOMAIN stored \ {k} |-> stored[j]]
  /\ UNCHANGED <<table, bumps, breaker, inFlight, reader, writer, evicted, crowd, faults>>

Expire(k) ==
  /\ k \in DOMAIN stored
  /\ stored' = [j \in DOMAIN stored \ {k} |-> stored[j]]
  /\ UNCHANGED <<table, bumps, breaker, inFlight, reader, writer, evicted, crowd, faults>>

EvictVersion(scope) ==
  /\ bumps[scope] # <<>> /\ Fault
  /\ bumps' = [bumps EXCEPT ![scope] = <<>>] /\ evicted' = TRUE
  /\ UNCHANGED <<table, stored, breaker, inFlight, reader, writer, crowd>>
-------------------------------------------------------------------------------
(* Reads.                                                                  *)

productCacheKey(p) == <<"product", p>>

listCacheKey(q, version, token) == <<"list", q, version, token>>

IsList(k) == Len(k) = 4
SetReader(r, s) == reader' = [reader EXCEPT ![r] = s]
Quiet == UNCHANGED <<table, bumps, writer, evicted, crowd>>

(* getById, of an id that the client has from an answer.                   *)
AskDetail(r, i, p) ==
  /\ reader[r].phase = "idle" /\ reader[r].walk.token = End
  /\ SetReader(r, [IdleReader EXCEPT !.phase = "get", !.api = i, !.key = productCacheKey(p)])
  /\ Quiet /\ UNCHANGED <<stored, breaker, inFlight, faults>>

(* list: the first page of a walk, or the page behind the last one's       *)
(* nextCursor.                                                             *)
AskFirstPage(r, i, q, token) ==
  /\ reader[r].phase = "idle" /\ reader[r].walk.token = End
  /\ SetReader(r, [reader[r] EXCEPT !.phase = "version", !.api = i,
                                    !.walk = [NoWalk EXCEPT !.query = q, !.token = token]])
  /\ Quiet /\ UNCHANGED <<stored, breaker, inFlight, faults>>

AskNextPage(r, i) ==
  /\ reader[r].phase = "idle" /\ reader[r].walk.token # End
  /\ SetReader(r, [reader[r] EXCEPT !.phase = "version", !.api = i])
  /\ Quiet /\ UNCHANGED <<stored, breaker, inFlight, faults>>

ReadVersionUnset(r) ==                            \* mutant: no version where none was read
  LET i == reader[r].api  walk == reader[r].walk
      Key(v) == listCacheKey(walk.query, v, walk.token)
  IN  /\ reader[r].phase = "version"
      /\ \/ /\ Answered(i)
            /\ SetReader(r, [reader[r] EXCEPT !.phase = "get",
                                              !.key = Key(Version(walk.query.scope))])
         \/ /\ Dropped(i)
            /\ SetReader(r, [reader[r] EXCEPT !.phase = "get", !.key = Key(End)])
      /\ Quiet /\ UNCHANGED <<stored, inFlight>>

(* version() is 0 where it was not answered.                               *)
ReadVersion(r) ==
  LET i == reader[r].api  walk == reader[r].walk
      Key(v) == listCacheKey(walk.query, v, walk.token)
  IN  /\ reader[r].phase = "version"
      /\ \/ /\ Answered(i)
            /\ SetReader(r, [reader[r] EXCEPT !.phase = "get",
                                              !.key = Key(Version(walk.query.scope))])
         \/ /\ Dropped(i)
            /\ SetReader(r, [reader[r] EXCEPT !.phase = "get", !.key = Key(0)])
      /\ Quiet /\ UNCHANGED <<stored, inFlight>>

(* What a client does with a page.                                         *)
Turned(walk, n) ==
  LET page == ListProducts(table[n], walk.query, DecodeCursor(walk.token))
  IN  [walk EXCEPT !.token = page.next, !.used = @ \cup {n},
                   !.seen = [p \in DOMAIN @ |->
                     IF p \in page.items /\ @[p] < 2 THEN @[p] + 1 ELSE @[p]]]

(* A request is answered with the value computed from state n.             *)
Served(s, n) ==
  [s EXCEPT !.phase = "idle", !.key = NoKey, !.value = 0,
            !.walk = IF IsList(s.key) THEN Turned(@, n) ELSE @]

Hit(r) ==
  /\ reader[r].phase = "get"
  /\ Answered(reader[r].api) /\ reader[r].key \in DOMAIN stored
  /\ SetReader(r, Served(reader[r], stored[reader[r].key]))
  /\ Quiet /\ UNCHANGED <<stored, inFlight>>

MissAlways(r) ==                                  \* mutant: no coalescing
  LET i == reader[r].api  k == reader[r].key
  IN  /\ reader[r].phase = "get"
      /\ (Answered(i) /\ k \notin DOMAIN stored) \/ Dropped(i)
      /\ SetReader(r, [reader[r] EXCEPT !.phase = "loading"])
      /\ inFlight' = [inFlight EXCEPT ![i] = @ \cup {k}]
      /\ Quiet /\ UNCHANGED stored

(* A miss joins the load in flight for its key, or starts one.             *)
Miss(r) ==
  LET i == reader[r].api  k == reader[r].key
  IN  /\ reader[r].phase = "get"
      /\ (Answered(i) /\ k \notin DOMAIN stored) \/ Dropped(i)
      /\ SetReader(r, [reader[r] EXCEPT !.phase = IF k \in inFlight[i] THEN "joined"
                                                                       ELSE "loading"])
      /\ inFlight' = [inFlight EXCEPT ![i] = @ \cup {k}]
      /\ Quiet /\ UNCHANGED stored

Load(r) ==
  /\ reader[r].phase = "loading"
  /\ SetReader(r, [reader[r] EXCEPT !.phase = "storing", !.value = Len(table)])
  /\ Quiet /\ UNCHANGED <<stored, breaker, inFlight, faults>>

(* The readers that share r's promise.                                     *)
Sharing(r) ==
  {x \in Readers : /\ reader[x].phase \in {"joined", "loading", "storing"}
                   /\ reader[x].api = reader[r].api /\ reader[x].key = reader[r].key}
Release(r) == inFlight' = [inFlight EXCEPT ![reader[r].api] = @ \ {reader[r].key}]

(* The database refuses; every request that shares the load gets its error. *)
LoadFails(r) ==
  /\ reader[r].phase = "loading" /\ Fault
  /\ reader' = [x \in Readers |-> IF x \in Sharing(r) THEN IdleReader ELSE reader[x]]
  /\ Release(r)
  /\ Quiet /\ UNCHANGED <<stored, breaker>>

With(k, n) == [j \in DOMAIN stored \cup {k} |-> IF j = k THEN n ELSE stored[j]]

VersionNow(k) == IF IsList(k) THEN listCacheKey(k[2], Version(k[2].scope), k[4]) ELSE k
StoreAtNow(r) ==                                  \* mutant: the version is read again
  LET i == reader[r].api
  IN  /\ reader[r].phase = "storing"
      /\ \/ Applied(i) /\ stored' = With(VersionNow(reader[r].key), reader[r].value)
         \/ Dropped(i) /\ UNCHANGED stored
      /\ reader' = [x \in Readers |-> IF x \in Sharing(r) THEN Served(reader[x], reader[r].value)
                                                          ELSE reader[x]]
      /\ Release(r)
      /\ Quiet

(* The value is stored if Redis lets us, and every request that shares the *)
(* load is answered.                                                       *)
Store(r) ==
  LET i == reader[r].api
  IN  /\ reader[r].phase = "storing"
      /\ \/ Applied(i) /\ stored' = With(reader[r].key, reader[r].value)
         \/ Dropped(i) /\ UNCHANGED stored
      /\ reader' = [x \in Readers |-> IF x \in Sharing(r) THEN Served(reader[x], reader[r].value)
                                                          ELSE reader[x]]
      /\ Release(r)
      /\ Quiet
-------------------------------------------------------------------------------
(* Writes: what is still to be done of one, in order.                      *)

Bump(i, scope) == [do |-> "bump", api |-> i, on |-> scope]
Del(i, p)      == [do |-> "del", api |-> i, on |-> p]
Table(p)       == [do |-> "table", on |-> p]
Move(p)        == [do |-> "move", on |-> p]
Purge(p)       == [do |-> "purge", on |-> p]

Commits == {"table", "move"}
WillCommit(w) == \E j \in DOMAIN writer[w] : writer[w][j].do \in Commits
Begin(w, todo) ==
  /\ writer[w] = <<>> /\ Len(table) + Cardinality({x \in Writers : WillCommit(x)}) < MaxStates
  /\ writer' = [writer EXCEPT ![w] = todo]
  /\ UNCHANGED <<table, bumps, stored, breaker, inFlight, reader, evicted, crowd, faults>>

(* assignAndPublish and cancel, behind their commit: invalidate, enqueue,  *)
(* and the projector's job.                                                *)
PromoteCategory(w, i, p) ==
  Begin(w, <<Bump(i, Now[p].category), Bump(i, All), Table(p), Purge(p)>>)
PromoteProduct(w, i, p) ==
  Begin(w, <<Del(i, p), Bump(i, Now[p].category), Bump(i, All), Table(p), Purge(p)>>)

(* POST /products.                                                         *)
Create(w, i, p) ==
  /\ p \notin DOMAIN Now /\ \A x \in Writers : \A j \in DOMAIN writer[x] : writer[x][j] # Table(p)
  /\ Begin(w, <<Table(p), Bump(i, Category[p]), Bump(i, All)>>)

(* A scheduled edge or a repair.                                           *)
Reproject(w, p) == Begin(w, <<Table(p), Purge(p)>>)

(* The two statements of a batch of a vendor file: the upsert, which       *)
(* leaves the price of a row alone and may give it another category, and   *)
(* the projection.  They are two writers, because nothing is invalidated   *)
(* between them or after.                                                  *)
Upsert(w, p) == Begin(w, <<Move(p)>>)
Ingest(w, p) == Begin(w, <<Table(p)>>)

Step(w, what) ==
  /\ writer[w] # <<>> /\ Head(writer[w]).do = what
  /\ writer' = [writer EXCEPT ![w] = Tail(@)]
  /\ UNCHANGED <<inFlight, reader>>

BumpVersion(w) ==
  /\ Step(w, "bump")
  /\ LET i == Head(writer[w]).api  scope == Head(writer[w]).on
     IN  \/ Applied(i) /\ bumps' = [bumps EXCEPT ![scope] = Append(@, Len(table))]
         \/ Dropped(i) /\ UNCHANGED bumps
  /\ UNCHANGED <<table, stored, evicted, crowd>>

Without(p) == [j \in DOMAIN stored \ {productCacheKey(p)} |-> stored[j]]

DelDetail(w) ==
  /\ Step(w, "del")
  /\ LET i == Head(writer[w]).api
     IN  \/ Applied(i) /\ stored' = Without(Head(writer[w]).on)
         \/ Dropped(i) /\ UNCHANGED stored
  /\ UNCHANGED <<table, bumps, evicted, crowd>>

(* A statement commits that inserts a row, prices one or moves one to      *)
(* another category.                                                       *)
CategoryOf(p) == IF p \in DOMAIN Now THEN Now[p].category ELSE Category[p]
NowWith(p, r) == [x \in DOMAIN Now \cup {p} |-> IF x = p THEN r ELSE Now[x]]

Commit(w) ==
  /\ Step(w, "table")
  /\ LET p == Head(writer[w]).on
     IN  \E price \in Prices :
           table' = Append(table, NowWith(p, [price |-> price, category |-> CategoryOf(p)]))
  /\ UNCHANGED <<bumps, stored, breaker, evicted, crowd, faults>>

CommitUpsert(w) ==
  /\ Step(w, "move")
  /\ LET p == Head(writer[w]).on
     IN  \E price \in Prices, c \in Categories :
           /\ p \in DOMAIN Now => price = Now[p].price
           /\ table' = Append(table, NowWith(p, [price |-> price, category |-> c]))
  /\ UNCHANGED <<bumps, stored, breaker, evicted, crowd, faults>>

(* The pipeline of DELs of the projector and the reconciler, which does    *)
(* not look at its results and has no breaker.                             *)
PurgeDetail(w) ==
  /\ Step(w, "purge")
  /\ \/ stored' = Without(Head(writer[w]).on) /\ UNCHANGED faults
     \/ stored' = stored /\ Fault
  /\ UNCHANGED <<table, bumps, breaker, evicted, crowd>>

WriterDies(w) ==
  /\ writer[w] # <<>> /\ Fault
  /\ writer' = [writer EXCEPT ![w] = <<>>]
  /\ UNCHANGED <<table, bumps, stored, breaker, inFlight, reader, evicted, crowd>>
-------------------------------------------------------------------------------
Ask(r) == \E i \in Apis :
  \/ crowd[r] = "detail" /\ \E p \in DOMAIN Now : AskDetail(r, i, p)
  \/ crowd[r] \in Tokens /\ \E q \in Queries : AskFirstPage(r, i, q, crowd[r])
  \/ AskNextPage(r, i)
Answer(r) == ReadVersion(r) \/ Hit(r) \/ Miss(r) \/ Load(r) \/ Store(r)

StartWrite(w) ==
  \/ \E p \in DOMAIN Now : Reproject(w, p) \/ Upsert(w, p) \/ Ingest(w, p)
  \/ \E i \in Apis : \/ \E p \in DOMAIN Now : PromoteCategory(w, i, p) \/ PromoteProduct(w, i, p)
                     \/ \E p \in Newcomers : Create(w, i, p)
Write(w) == BumpVersion(w) \/ DelDetail(w) \/ Commit(w) \/ CommitUpsert(w) \/ PurgeDetail(w)

Next ==
  \/ \E r \in Readers : Ask(r) \/ Answer(r) \/ LoadFails(r)
  \/ \E w \in Writers : StartWrite(w) \/ Write(w) \/ WriterDies(w)
  \/ \E i \in Apis : Cool(i)
  \/ \E k \in DOMAIN stored : Expire(k)
  \/ \E s \in Scopes : EvictVersion(s)

(* Every value is stored with a TTL: one that was computed from an earlier *)
(* state of the table is gone in the end.  Nothing else is assumed.        *)
Fairness ==
  /\ WF_vars(\E k \in DOMAIN stored : stored[k] < Len(table) /\ Expire(k))
Spec == Init /\ [][Next]_vars /\ Fairness
-------------------------------------------------------------------------------
Positions == Prices \X DOMAIN Category
Keys == ({"product"} \X DOMAIN Category) \cup ({"list"} \X Queries \X Nat \X (Tokens \cup Positions))
WalkType == [query : Queries, token : Tokens \cup {End} \cup Positions,
             seen : [DOMAIN Category -> 0..2], used : SUBSET DOMAIN table]
Todo == [do : {"bump"}, api : Apis, on : Scopes] \cup [do : {"del"}, api : Apis, on : DOMAIN Category]
        \cup [do : Commits \cup {"purge"}, on : DOMAIN Category]

TypeOK ==
  /\ Len(table) \in 1..MaxStates
  /\ \A n \in DOMAIN table : \A p \in DOMAIN table[n] : p \in DOMAIN Category /\ table[n][p] \in Row
  /\ \A s \in Scopes : bumps[s] \in Seq(1..Len(table))
  /\ DOMAIN stored \subseteq Keys /\ \A k \in DOMAIN stored : stored[k] \in 1..Len(table)
  /\ breaker \in [Apis -> [failures : 0..Threshold, open : BOOLEAN]]
  /\ inFlight \in [Apis -> SUBSET Keys]
  /\ \A r \in Readers :
       /\ reader[r].phase \in {"idle", "version", "get", "joined", "loading", "storing"}
       /\ reader[r].api \in Apis /\ reader[r].key \in Keys \cup {NoKey}
       /\ reader[r].value \in 0..Len(table) /\ reader[r].walk \in WalkType
  /\ writer \in [Writers -> Seq(Todo)]
  /\ faults \in 0..MaxFaults

(* One load per key and process: a key is in flight exactly while one      *)
(* reader loads or stores it, and whoever joined waits for such a load     *)
(* (getOrLoad, "collapses them to one query per key per process").         *)
Leads(r, i, k) ==
  reader[r].phase \in {"loading", "storing"} /\ reader[r].api = i /\ reader[r].key = k
Coalesced ==
  /\ \A i \in Apis : \A k \in inFlight[i] :
       \E r \in Readers : Leads(r, i, k) /\ \A x \in Readers : Leads(x, i, k) => x = r
  /\ \A r \in Readers : reader[r].phase \in {"joined", "loading", "storing"} =>
       reader[r].key \in inFlight[reader[r].api]

(* A bump hides what was cached before it: what is stored under a version  *)
(* was computed from the table as it was at that version's bump, or later, *)
(* however long the load took and whatever calls failed (listCacheKey,     *)
(* "The old entries become unreachable immediately").                      *)
BumpHides ==
  ~evicted => \A k \in DOMAIN stored :
    IsList(k) /\ k[3] > 0 => k[3] <= Version(k[2].scope) /\ bumps[k[2].scope][k[3]] <= stored[k]

(* Through cached and fresh pages of different ages, a client that turns   *)
(* the pages of a listing to the end sees every product whose price and    *)
(* category did not change exactly once, and no such product that was      *)
(* never in range (listProducts, "stable against concurrent writes").      *)
Steady(walk, p) ==
  \E r \in Row : \A n \in walk.used : p \in DOMAIN table[n] /\ table[n][p] = r
WalkSeesEachOnce ==
  \A r \in Readers :
    LET walk == reader[r].walk
    IN  walk.token = End /\ walk.used # {} =>
          \A p \in DOMAIN Category : Steady(walk, p) =>
            walk.seen[p] = IF \A n \in walk.used : Listed(table[n], walk.query, p) THEN 1 ELSE 0

(* What a key stands for in state n of the table.                          *)
Content(k, n) ==
  IF IsList(k) THEN ListProducts(table[n], k[2], DecodeCursor(k[4]))
  ELSE table[n][k[2]]
Current(k) == Content(k, stored[k]) = Content(k, Len(table))

(* When the table has stopped changing, every cached answer becomes right  *)
(* and stays right, whichever invalidations were lost or overtaken.        *)
EventuallyFresh ==
  <>[](\A w \in Writers : writer[w] = <<>>) => <>[](\A k \in DOMAIN stored : Current(k))

(* #invalidateAndReproject bumps first because the reverse order "would    *)
(* serve a *cached* stale price for a full TTL after the data was already  *)
(* correct": once every write is done, and each change of the table had    *)
(* its bump, no listing that a client can reach is out of date.            *)
BumpedMeansListed ==
  (faults = 0 /\ \A w \in Writers : writer[w] = <<>>) =>
    \A k \in DOMAIN stored :
      IsList(k) /\ k[3] = Version(k[2].scope) /\ k[3] + 1 = Len(table) => Current(k)
===============================================================================
