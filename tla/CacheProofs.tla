------------------------------ MODULE CacheProofs ------------------------------
(***************************************************************************)
(* Proofs about CacheAside: a load is never duplicated in a process, what  *)
(* was computed before a bump is not found after it, every variable has    *)
(* its type, and a client that turns the pages of a listing to the end     *)
(* sees every product that does not change exactly once.                   *)
(***************************************************************************)
EXTENDS CacheAside, LeastElement

Phases == {"idle", "version", "get", "joined", "loading", "storing"}

(* The shape of a reader, as far as the arguments need it.                 *)
IsReader(s) ==
  s \in [phase : Phases, api : Apis, key : {s.key}, value : {s.value}, walk : {s.walk}]

ReadersOK ==
  /\ reader = [r \in Readers |-> reader[r]] /\ \A r \in Readers : IsReader(reader[r])
  /\ inFlight = [i \in Apis |-> inFlight[i]]

CoalescedInv == ReadersOK /\ Coalesced

(* A reader that is sure of no load: it neither leads nor shares one.      *)
Free(s) == s.phase \in {"idle", "version", "get"}

LEMMA IdleIsReader == IsReader(IdleReader) /\ Free(IdleReader)
  BY CacheAssumption DEF IsReader, IdleReader, Free, Phases

LEMMA ServedIsReader ==
  ASSUME NEW s, IsReader(s), NEW n
  PROVE  IsReader(Served(s, n)) /\ Free(Served(s, n))
  BY DEF IsReader, Served, Free, Phases

(* A step of one reader between phases without a load changes nothing for  *)
(* the loads.                                                              *)
LEMMA FreeStep ==
  ASSUME CoalescedInv, UNCHANGED inFlight, NEW r \in Readers, Free(reader[r]),
         NEW s, IsReader(s), Free(s), SetReader(r, s)
  PROVE  CoalescedInv'
<1>1. reader' = [reader EXCEPT ![r] = s]
  BY DEF SetReader
<1>2. reader'[r] = s /\ \A x \in Readers : x # r => reader'[x] = reader[x]
  BY <1>1 DEF CoalescedInv, ReadersOK
<1>3. ReadersOK'
  BY <1>1, <1>2 DEF CoalescedInv, ReadersOK, IsReader
<1>4. \A x \in Readers : \A i, k : Leads(x, i, k)' <=> Leads(x, i, k)
  BY <1>2 DEF Leads, Free
<1>5. Coalesced'
  BY <1>2, <1>4 DEF CoalescedInv, Coalesced, Free
<1> QED
  BY <1>3, <1>5 DEF CoalescedInv

(* The end of a load: its key is released, and everyone who shared it is   *)
(* free.                                                                   *)
LEMMA ReleaseStep ==
  ASSUME CoalescedInv, NEW r \in Readers, reader[r].phase \in {"loading", "storing"}, Release(r),
         reader' = [x \in Readers |-> reader'[x]],
         \A x \in Sharing(r) : IsReader(reader'[x]) /\ Free(reader'[x]),
         \A x \in Readers \ Sharing(r) : reader'[x] = reader[x]
  PROVE  CoalescedInv'
<1> DEFINE i0 == reader[r].api
           k0 == reader[r].key
<1>0. IsReader(reader[r]) /\ i0 \in Apis
  BY DEF CoalescedInv, ReadersOK, IsReader
<1>1. inFlight' = [inFlight EXCEPT ![i0] = @ \ {k0}]
  BY DEF Release
<1>2. \A i \in Apis : inFlight'[i] = IF i = i0 THEN inFlight[i] \ {k0} ELSE inFlight[i]
  BY <1>1 DEF CoalescedInv, ReadersOK
<1>3. ReadersOK'
  <2>1. \A x \in Readers : IsReader(reader'[x])
    BY DEF CoalescedInv, ReadersOK
  <2>2. inFlight' = [i \in Apis |-> inFlight'[i]]
    BY <1>1 DEF CoalescedInv, ReadersOK
  <2> QED
    BY <2>1, <2>2 DEF ReadersOK, IsReader
<1>4. \A x \in Sharing(r) : ~(reader'[x].phase \in {"joined", "loading", "storing"})
  BY DEF Free
<1>5. ASSUME NEW i \in Apis, NEW k \in inFlight'[i]
      PROVE  \E y \in Readers : Leads(y, i, k)' /\ \A x \in Readers : Leads(x, i, k)' => x = y
  <2>1. k \in inFlight[i] /\ ~(i = i0 /\ k = k0)
    BY <1>2, <1>5
  <2>2. PICK y \in Readers : Leads(y, i, k) /\ \A x \in Readers : Leads(x, i, k) => x = y
    BY <2>1 DEF CoalescedInv, Coalesced
  <2>3. y \notin Sharing(r)
    BY <2>1, <2>2 DEF Sharing, Leads
  <2>4. Leads(y, i, k)'
    BY <2>2, <2>3 DEF Leads
  <2>5. \A x \in Readers : Leads(x, i, k)' => x = y
    BY <2>2, <1>4 DEF Leads
  <2> QED
    BY <2>4, <2>5
<1>6. ASSUME NEW x \in Readers, reader'[x].phase \in {"joined", "loading", "storing"}
      PROVE  reader'[x].key \in inFlight'[reader'[x].api]
  <2>1. x \notin Sharing(r) /\ reader'[x] = reader[x]
    BY <1>4, <1>6
  <2>2. reader[x].key \in inFlight[reader[x].api] /\ reader[x].api \in Apis
    BY <2>1, <1>6 DEF CoalescedInv, Coalesced, ReadersOK, IsReader
  <2>3. ~(reader[x].api = i0 /\ reader[x].key = k0)
    BY <2>1, <1>6 DEF Sharing
  <2> QED
    BY ZenonT(60), <2>1, <2>2, <2>3, <1>2
<1> QED
  BY <1>3, <1>5, <1>6 DEF CoalescedInv, Coalesced

LEMMA MissCoalesced ==
  ASSUME CoalescedInv, NEW r \in Readers, Miss(r)
  PROVE  CoalescedInv'
<1> DEFINE i0 == reader[r].api
           k0 == reader[r].key
           new == IF k0 \in inFlight[i0] THEN "joined" ELSE "loading"
<1>0. reader[r].phase = "get" /\ IsReader(reader[r]) /\ i0 \in Apis
  BY DEF Miss, CoalescedInv, ReadersOK, IsReader
<1>1. /\ reader' = [reader EXCEPT ![r] = [reader[r] EXCEPT !.phase = new]]
      /\ inFlight' = [inFlight EXCEPT ![i0] = @ \cup {k0}]
  BY DEF Miss, SetReader
<1>2. /\ IsReader(reader'[r])
      /\ reader'[r].phase = new /\ reader'[r].api = i0 /\ reader'[r].key = k0
      /\ \A x \in Readers : x # r => reader'[x] = reader[x]
  BY <1>0, <1>1 DEF CoalescedInv, ReadersOK, IsReader, Phases
<1>3. \A i \in Apis : inFlight'[i] = IF i = i0 THEN inFlight[i] \cup {k0} ELSE inFlight[i]
  BY <1>1 DEF CoalescedInv, ReadersOK
<1>4. ReadersOK'
  <2>1. reader' = [x \in Readers |-> reader'[x]] /\ inFlight' = [i \in Apis |-> inFlight'[i]]
    BY <1>1 DEF CoalescedInv, ReadersOK
  <2>2. \A x \in Readers : IsReader(reader'[x])
    BY <1>2 DEF CoalescedInv, ReadersOK
  <2> QED
    BY <2>1, <2>2 DEF ReadersOK, IsReader
<1>5. ASSUME NEW x \in Readers, reader'[x].phase \in {"joined", "loading", "storing"}
      PROVE  reader'[x].key \in inFlight'[reader'[x].api]
  <2>1. CASE x = r
    BY <2>1, <1>0, <1>2, <1>3
  <2>2. CASE x # r
    <3>1. reader[x].key \in inFlight[reader[x].api] /\ reader[x].api \in Apis
      BY <2>2, <1>2, <1>5 DEF CoalescedInv, Coalesced, ReadersOK, IsReader
    <3> QED
      BY <3>1, <2>2, <1>2, <1>3
  <2> QED
    BY <2>1, <2>2
<1>6. ASSUME NEW i \in Apis, NEW k \in inFlight'[i]
      PROVE  \E y \in Readers : Leads(y, i, k)' /\ \A x \in Readers : Leads(x, i, k)' => x = y
  <2>1. CASE k \in inFlight[i]
    <3>1. PICK y \in Readers : Leads(y, i, k) /\ \A x \in Readers : Leads(x, i, k) => x = y
      BY <2>1 DEF CoalescedInv, Coalesced
    <3>2. ~Leads(r, i, k)'
      BY <2>1, <1>2 DEF Leads
    <3>3. \A x \in Readers : Leads(x, i, k)' <=> Leads(x, i, k)
      BY <3>2, <1>0, <1>2 DEF Leads
    <3> QED
      BY <3>1, <3>3
  <2>2. CASE k \notin inFlight[i]
    <3>1. i = i0 /\ k = k0
      BY <2>2, <1>3, <1>6
    <3>2. Leads(r, i, k)'
      BY <3>1, <2>2, <1>2 DEF Leads
    <3>3. \A x \in Readers : x # r => ~Leads(x, i, k)
      BY <2>2 DEF CoalescedInv, Coalesced, Leads
    <3>4. \A x \in Readers : Leads(x, i, k)' => x = r
      BY <3>3, <1>2 DEF Leads
    <3> QED
      BY <3>2, <3>4
  <2> QED
    BY <2>1, <2>2
<1> QED
  BY <1>4, <1>5, <1>6 DEF CoalescedInv, Coalesced

LEMMA LoadCoalesced ==
  ASSUME CoalescedInv, NEW r \in Readers, Load(r)
  PROVE  CoalescedInv'
<1>0. reader[r].phase = "loading" /\ IsReader(reader[r])
  BY DEF Load, CoalescedInv, ReadersOK
<1>1. /\ reader' = [reader EXCEPT ![r] = [reader[r] EXCEPT !.phase = "storing", !.value = Len(table)]]
      /\ inFlight' = inFlight
  BY DEF Load, SetReader
<1>2. /\ IsReader(reader'[r]) /\ reader'[r].phase = "storing"
      /\ reader'[r].api = reader[r].api /\ reader'[r].key = reader[r].key
      /\ \A x \in Readers : x # r => reader'[x] = reader[x]
  BY <1>0, <1>1 DEF CoalescedInv, ReadersOK, IsReader, Phases
<1>3. ReadersOK'
  <2>1. reader' = [x \in Readers |-> reader'[x]] /\ inFlight' = [i \in Apis |-> inFlight'[i]]
    BY <1>1 DEF CoalescedInv, ReadersOK
  <2>2. \A x \in Readers : IsReader(reader'[x])
    BY <1>2 DEF CoalescedInv, ReadersOK
  <2> QED
    BY <2>1, <2>2 DEF ReadersOK, IsReader
<1>4. \A x \in Readers : \A i, k : Leads(x, i, k)' <=> Leads(x, i, k)
  BY <1>0, <1>2 DEF Leads
<1>5. \A x \in Readers :
        /\ reader'[x].phase \in {"joined", "loading", "storing"} =>
             reader[x].phase \in {"joined", "loading", "storing"}
        /\ reader'[x].key = reader[x].key /\ reader'[x].api = reader[x].api
  BY <1>0, <1>2
<1> QED
  BY <1>1, <1>3, <1>4, <1>5 DEF CoalescedInv, Coalesced

(* Whatever leaves the readers and the loads alone keeps the invariant.    *)
LEMMA CoalescedFrame ==
  ASSUME CoalescedInv, UNCHANGED <<reader, inFlight>>
  PROVE  CoalescedInv'
  BY DEF CoalescedInv, ReadersOK, Coalesced, IsReader, Leads

LEMMA AskCoalesced ==
  ASSUME CoalescedInv, NEW r \in Readers, Ask(r)
  PROVE  CoalescedInv'
<1>1. Free(reader[r]) /\ IsReader(reader[r])
  BY DEF Ask, AskDetail, AskFirstPage, AskNextPage, CoalescedInv, ReadersOK, Free
<1>2. PICK i \in Apis :
        \/ \E p \in DOMAIN Now : AskDetail(r, i, p)
        \/ \E q \in Queries : AskFirstPage(r, i, q, crowd[r])
        \/ AskNextPage(r, i)
  BY DEF Ask
<1>3. ASSUME NEW p \in DOMAIN Now, AskDetail(r, i, p) PROVE CoalescedInv'
  <2> DEFINE s == [IdleReader EXCEPT !.phase = "get", !.api = i, !.key = productCacheKey(p)]
  <2>1. IsReader(s) /\ Free(s)
    BY IdleIsReader DEF IsReader, Free, Phases
  <2>2. SetReader(r, s) /\ UNCHANGED inFlight
    BY <1>3 DEF AskDetail
  <2> HIDE DEF s
  <2> QED
    BY <2>1, <2>2, <1>1, FreeStep
<1>4. ASSUME NEW q \in Queries, AskFirstPage(r, i, q, crowd[r]) PROVE CoalescedInv'
  <2> DEFINE walk == [NoWalk EXCEPT !.query = q, !.token = crowd[r]]
             s == [reader[r] EXCEPT !.phase = "version", !.api = i, !.walk = walk]
  <2>1. SetReader(r, s) /\ UNCHANGED inFlight
    BY <1>4 DEF AskFirstPage
  <2> HIDE DEF walk
  <2>2. IsReader(s) /\ Free(s)
    BY <1>1 DEF IsReader, Free, Phases
  <2> HIDE DEF s
  <2> QED
    BY <2>1, <2>2, <1>1, FreeStep
<1>5. ASSUME AskNextPage(r, i) PROVE CoalescedInv'
  <2> DEFINE s == [reader[r] EXCEPT !.phase = "version", !.api = i]
  <2>1. SetReader(r, s) /\ UNCHANGED inFlight
    BY <1>5 DEF AskNextPage
  <2>2. IsReader(s) /\ Free(s)
    BY <1>1 DEF IsReader, Free, Phases
  <2> HIDE DEF s
  <2> QED
    BY <2>1, <2>2, <1>1, FreeStep
<1> QED
  BY <1>2, <1>3, <1>4, <1>5

LEMMA ReadVersionCoalesced ==
  ASSUME CoalescedInv, NEW r \in Readers, ReadVersion(r)
  PROVE  CoalescedInv'
<1> DEFINE s(k) == [reader[r] EXCEPT !.phase = "get", !.key = k]
<1>1. Free(reader[r]) /\ IsReader(reader[r])
  BY DEF ReadVersion, CoalescedInv, ReadersOK, Free
<1>2. PICK k : SetReader(r, s(k)) /\ UNCHANGED inFlight
  BY DEF ReadVersion
<1>3. IsReader(s(k)) /\ Free(s(k))
  BY <1>1 DEF IsReader, Free, Phases
<1> HIDE DEF s
<1> QED
  BY <1>1, <1>2, <1>3, FreeStep

LEMMA HitCoalesced ==
  ASSUME CoalescedInv, NEW r \in Readers, Hit(r)
  PROVE  CoalescedInv'
<1> DEFINE s == Served(reader[r], stored[reader[r].key])
<1>1. Free(reader[r]) /\ IsReader(reader[r])
  BY DEF Hit, CoalescedInv, ReadersOK, Free
<1>2. SetReader(r, s) /\ UNCHANGED inFlight
  BY DEF Hit
<1>3. IsReader(s) /\ Free(s)
  BY <1>1, ServedIsReader
<1> HIDE DEF s
<1> QED
  BY <1>1, <1>2, <1>3, FreeStep

LEMMA StoreCoalesced ==
  ASSUME CoalescedInv, NEW r \in Readers, Store(r) \/ LoadFails(r)
  PROVE  CoalescedInv'
<1> DEFINE s(x) == IF Store(r) THEN Served(reader[x], reader[r].value) ELSE IdleReader
<1>1. reader[r].phase \in {"loading", "storing"} /\ Release(r)
  BY DEF Store, LoadFails
<1>2. reader' = [x \in Readers |-> IF x \in Sharing(r) THEN s(x) ELSE reader[x]]
  BY DEF Store, LoadFails
<1>3. \A x \in Readers : IsReader(s(x)) /\ Free(s(x))
  BY ServedIsReader, IdleIsReader DEF CoalescedInv, ReadersOK
<1>4. Sharing(r) \subseteq Readers
  BY DEF Sharing
<1> HIDE DEF s
<1>5. /\ reader' = [x \in Readers |-> reader'[x]]
      /\ \A x \in Sharing(r) : IsReader(reader'[x]) /\ Free(reader'[x])
      /\ \A x \in Readers \ Sharing(r) : reader'[x] = reader[x]
  BY <1>2, <1>3, <1>4
<1> QED
  BY <1>1, <1>5, ReleaseStep

LEMMA CoalescedInit == Init => CoalescedInv
<1> SUFFICES ASSUME Init PROVE CoalescedInv
  OBVIOUS
<1>1. reader = [r \in Readers |-> IdleReader] /\ inFlight = [i \in Apis |-> {}]
  BY DEF Init
<1>2. \A r \in Readers : IsReader(reader[r]) /\ Free(reader[r])
  BY <1>1, IdleIsReader
<1>3. ReadersOK
  BY <1>1, <1>2 DEF ReadersOK
<1>4. Coalesced
  BY <1>1, <1>2 DEF Coalesced, Free
<1> QED
  BY <1>3, <1>4 DEF CoalescedInv

LEMMA CoalescedNext == CoalescedInv /\ [Next]_vars => CoalescedInv'
<1> SUFFICES ASSUME CoalescedInv, [Next]_vars PROVE CoalescedInv'
  OBVIOUS
<1>1. ASSUME NEW r \in Readers, Ask(r) \/ Answer(r) \/ LoadFails(r) PROVE CoalescedInv'
  BY <1>1, AskCoalesced, ReadVersionCoalesced, HitCoalesced, MissCoalesced, LoadCoalesced,
     StoreCoalesced DEF Answer
<1>2. ASSUME NEW w \in Writers, StartWrite(w) \/ Write(w) \/ WriterDies(w) PROVE CoalescedInv'
  <2>1. UNCHANGED <<reader, inFlight>>
    BY <1>2 DEF StartWrite, Reproject, Upsert, Ingest, PromoteCategory, PromoteProduct, Create, Begin,
                Write, BumpVersion, DelDetail, Commit, CommitUpsert, PurgeDetail, Step, WriterDies
  <2> QED
    BY <2>1, CoalescedFrame
<1>3. ASSUME NEW i \in Apis, Cool(i) PROVE CoalescedInv'
  BY <1>3, CoalescedFrame DEF Cool
<1>4. ASSUME NEW k \in DOMAIN stored, Expire(k) PROVE CoalescedInv'
  BY <1>4, CoalescedFrame DEF Expire
<1>5. ASSUME NEW s \in Scopes, EvictVersion(s) PROVE CoalescedInv'
  BY <1>5, CoalescedFrame DEF EvictVersion
<1>6. CASE UNCHANGED vars
  BY <1>6, CoalescedFrame DEF vars
<1> QED
  BY <1>1, <1>2, <1>3, <1>4, <1>5, <1>6 DEF Next

(* One load per key and process, and nobody waits for a load that is not   *)
(* there: getOrLoad, for any number of readers and processes, whatever     *)
(* calls to Redis or to the database fail.                                 *)
THEOREM LoadsCoalesce == Spec => []Coalesced
<1>1. Spec => []CoalescedInv
  BY CoalescedInit, CoalescedNext, PTL DEF Spec
<1>2. CoalescedInv => Coalesced
  BY DEF CoalescedInv
<1> QED
  BY <1>1, <1>2, PTL
-------------------------------------------------------------------------------
(* What a bump hides.                                                      *)

IsWalk(walk) ==
  walk \in [query : Queries, token : {walk.token}, seen : {walk.seen}, used : {walk.used}]
KeyOK(k) == IsList(k) => k[2].scope \in Scopes /\ k[3] \in Nat
Versioned(k) == IsList(k) /\ k[3] > 0

(* A reader with a versioned key has a version that was reached, and what  *)
(* it is about to store is no older than that version's bump.              *)
Sound(s) ==
  /\ KeyOK(s.key) /\ IsWalk(s.walk)
  /\ ~evicted /\ Versioned(s.key) =>
       /\ s.key[3] <= Version(s.key[2].scope)
       /\ s.phase = "storing" => bumps[s.key[2].scope][s.key[3]] <= s.value

TableOK ==
  /\ 1 \in 1..Len(table)
  /\ table \in Seq({table[n] : n \in DOMAIN table})
  /\ bumps \in [Scopes -> Seq(1..Len(table))]

HidesInv ==
  /\ TableOK
  /\ \A r \in Readers : Sound(reader[r])
  /\ \A k \in DOMAIN stored : KeyOK(k)
  /\ BumpHides

LEMMA SeqElements ==
  ASSUME NEW S, NEW q \in Seq(S)
  PROVE  /\ Len(q) \in Nat
         /\ \A j \in 1..Len(q) : q[j] \in S
         /\ \A T : S \subseteq T => q \in Seq(T)
  OBVIOUS

LEMMA BumpsAt ==
  ASSUME TableOK, NEW scope \in Scopes
  PROVE  /\ Len(table) \in Nat /\ Version(scope) \in Nat
         /\ \A j \in 1..Version(scope) : bumps[scope][j] \in 1..Len(table)
<1>1. bumps[scope] \in Seq(1..Len(table))
  BY DEF TableOK
<1>2. Len(table) \in Nat
  BY SeqElements DEF TableOK
<1> QED
  BY <1>1, <1>2, SeqElements DEF Version

LEMMA QueryScope == \A q \in Queries : q.scope \in Scopes
  BY CacheAssumption

LEMMA KeyShapes ==
  /\ KeyOK(NoKey) /\ ~IsList(NoKey)
  /\ \A p : KeyOK(productCacheKey(p)) /\ ~IsList(productCacheKey(p))
  /\ \A q, v, t : /\ listCacheKey(q, v, t)[2] = q /\ listCacheKey(q, v, t)[3] = v
                  /\ IsList(listCacheKey(q, v, t))
  BY DEF KeyOK, IsList, NoKey, productCacheKey, listCacheKey

LEMMA NoWalkOK == IsWalk(NoWalk)
  BY CacheAssumption DEF IsWalk, NoWalk

LEMMA IdleSound == Sound(IdleReader)
<1>1. IdleReader.key = NoKey /\ IdleReader.walk = NoWalk
  BY DEF IdleReader
<1> QED
  BY <1>1, NoWalkOK, KeyShapes DEF Sound, Versioned

LEMMA ServedSound ==
  ASSUME NEW s, IsReader(s), IsWalk(s.walk), NEW n
  PROVE  Sound(Served(s, n))
<1> DEFINE turned == IF IsList(s.key) THEN Turned(s.walk, n) ELSE s.walk
<1>1. IsWalk(turned)
  BY DEF IsWalk, Turned
<1> HIDE DEF turned
<1>2. Served(s, n) = [s EXCEPT !.phase = "idle", !.key = NoKey, !.value = 0, !.walk = turned]
  BY DEF Served, turned
<1>3. Served(s, n).key = NoKey /\ Served(s, n).walk = turned
  BY <1>2 DEF IsReader
<1> QED
  BY <1>1, <1>3, KeyShapes DEF Sound, Versioned

(* A step of the readers that leaves the table, the versions and Redis.    *)
LEMMA SoundStep ==
  ASSUME HidesInv, UNCHANGED <<table, bumps, evicted, stored>>,
         \A x \in Readers : Sound(reader'[x])
  PROVE  HidesInv'
<1>1. \A x \in Readers : Sound(reader[x])'
  BY DEF Sound, Version
<1> QED
  BY <1>1 DEF HidesInv, TableOK, BumpHides, Version, KeyOK

LEMMA SetReaderSound ==
  ASSUME HidesInv, CoalescedInv, UNCHANGED <<table, bumps, evicted, stored>>,
         NEW r \in Readers, NEW s, Sound(s), SetReader(r, s)
  PROVE  HidesInv'
<1>1. \A x \in Readers : reader'[x] = IF x = r THEN s ELSE reader[x]
  BY DEF SetReader, CoalescedInv, ReadersOK
<1>2. \A x \in Readers : Sound(reader'[x])
  BY <1>1 DEF HidesInv
<1> QED
  BY <1>2, SoundStep

LEMMA AskHides ==
  ASSUME HidesInv, CoalescedInv, NEW r \in Readers, Ask(r)
  PROVE  HidesInv'
<1>1. Sound(reader[r]) /\ IsReader(reader[r])
  BY DEF HidesInv, CoalescedInv, ReadersOK
<1>2. PICK i \in Apis :
        \/ \E p \in DOMAIN Now : AskDetail(r, i, p)
        \/ \E q \in Queries : AskFirstPage(r, i, q, crowd[r])
        \/ AskNextPage(r, i)
  BY DEF Ask
<1>3. ASSUME NEW p \in DOMAIN Now, AskDetail(r, i, p) PROVE HidesInv'
  <2> DEFINE s == [IdleReader EXCEPT !.phase = "get", !.api = i, !.key = productCacheKey(p)]
  <2>1. s.key = productCacheKey(p) /\ s.walk = NoWalk
    BY DEF IdleReader
  <2>2. SetReader(r, s) /\ UNCHANGED <<table, bumps, evicted, stored>>
    BY <1>3 DEF AskDetail, Quiet
  <2> HIDE DEF s
  <2>3. Sound(s)
    BY <2>1, KeyShapes, NoWalkOK DEF Sound, Versioned
  <2> QED
    BY <2>2, <2>3, SetReaderSound
<1>4. ASSUME NEW q \in Queries, AskFirstPage(r, i, q, crowd[r]) PROVE HidesInv'
  <2> DEFINE walk == [NoWalk EXCEPT !.query = q, !.token = crowd[r]]
             s == [reader[r] EXCEPT !.phase = "version", !.api = i, !.walk = walk]
  <2>1. SetReader(r, s) /\ UNCHANGED <<table, bumps, evicted, stored>>
    BY <1>4 DEF AskFirstPage, Quiet
  <2>2. IsWalk(walk)
    BY NoWalkOK DEF IsWalk
  <2> HIDE DEF walk
  <2>3. s.key = reader[r].key /\ s.walk = walk /\ s.phase = "version"
    BY <1>1 DEF IsReader
  <2> HIDE DEF s
  <2>4. Sound(s)
    BY <2>2, <2>3, <1>1 DEF Sound
  <2> QED
    BY <2>1, <2>4, SetReaderSound
<1>5. ASSUME AskNextPage(r, i) PROVE HidesInv'
  <2> DEFINE s == [reader[r] EXCEPT !.phase = "version", !.api = i]
  <2>1. SetReader(r, s) /\ UNCHANGED <<table, bumps, evicted, stored>>
    BY <1>5 DEF AskNextPage, Quiet
  <2>2. s.key = reader[r].key /\ s.walk = reader[r].walk /\ s.phase = "version"
    BY <1>1 DEF IsReader
  <2> HIDE DEF s
  <2>3. Sound(s)
    BY <2>2, <1>1 DEF Sound
  <2> QED
    BY <2>1, <2>3, SetReaderSound
<1> QED
  BY <1>2, <1>3, <1>4, <1>5

LEMMA ReadVersionHides ==
  ASSUME HidesInv, CoalescedInv, NEW r \in Readers, ReadVersion(r)
  PROVE  HidesInv'
<1> DEFINE walk == reader[r].walk
           s(k) == [reader[r] EXCEPT !.phase = "get", !.key = k]
<1>1. Sound(reader[r]) /\ IsReader(reader[r])
  BY DEF HidesInv, CoalescedInv, ReadersOK
<1>2. PICK v \in {0, Version(walk.query.scope)} : SetReader(r, s(listCacheKey(walk.query, v, walk.token)))
  BY DEF ReadVersion
<1>3. UNCHANGED <<table, bumps, evicted, stored>>
  BY DEF ReadVersion, Quiet
<1>4. walk.query.scope \in Scopes
  BY <1>1, QueryScope DEF Sound, IsWalk
<1>5. Version(walk.query.scope) \in Nat
  BY <1>4, BumpsAt DEF HidesInv
<1> DEFINE k == listCacheKey(walk.query, v, walk.token)
<1>6. s(k).key = k /\ s(k).walk = walk /\ s(k).phase = "get"
  BY <1>1 DEF IsReader
<1>7. k[2] = walk.query /\ k[3] = v
  BY KeyShapes
<1> HIDE DEF s, k
<1>8. Sound(s(k))
  BY <1>1, <1>2, <1>4, <1>5, <1>6, <1>7 DEF Sound, KeyOK
<1> QED
  BY <1>2, <1>3, <1>8, SetReaderSound DEF k

LEMMA HitHides ==
  ASSUME HidesInv, CoalescedInv, NEW r \in Readers, Hit(r)
  PROVE  HidesInv'
<1> DEFINE s == Served(reader[r], stored[reader[r].key])
<1>1. Sound(reader[r]) /\ IsReader(reader[r])
  BY DEF HidesInv, CoalescedInv, ReadersOK
<1>2. SetReader(r, s) /\ UNCHANGED <<table, bumps, evicted, stored>>
  BY DEF Hit, Quiet
<1>3. Sound(s)
  BY <1>1, ServedSound DEF Sound
<1> HIDE DEF s
<1> QED
  BY <1>2, <1>3, SetReaderSound

LEMMA MissHides ==
  ASSUME HidesInv, CoalescedInv, NEW r \in Readers, Miss(r)
  PROVE  HidesInv'
<1> DEFINE new == IF reader[r].key \in inFlight[reader[r].api] THEN "joined" ELSE "loading"
           s == [reader[r] EXCEPT !.phase = new]
<1>1. Sound(reader[r]) /\ IsReader(reader[r])
  BY DEF HidesInv, CoalescedInv, ReadersOK
<1>2. SetReader(r, s) /\ UNCHANGED <<table, bumps, evicted, stored>>
  BY DEF Miss, Quiet
<1>3. new # "storing"
  OBVIOUS
<1> HIDE DEF new
<1>4. s.key = reader[r].key /\ s.walk = reader[r].walk /\ s.phase = new
  BY <1>1 DEF IsReader
<1> HIDE DEF s
<1>5. Sound(s)
  BY <1>1, <1>3, <1>4 DEF Sound
<1> QED
  BY <1>2, <1>5, SetReaderSound

LEMMA LoadHides ==
  ASSUME HidesInv, CoalescedInv, NEW r \in Readers, Load(r)
  PROVE  HidesInv'
<1> DEFINE s == [reader[r] EXCEPT !.phase = "storing", !.value = Len(table)]
           k == reader[r].key
<1>1. Sound(reader[r]) /\ IsReader(reader[r])
  BY DEF HidesInv, CoalescedInv, ReadersOK
<1>2. SetReader(r, s) /\ UNCHANGED <<table, bumps, evicted, stored>>
  BY DEF Load, Quiet
<1>3. s.key = k /\ s.walk = reader[r].walk /\ s.phase = "storing" /\ s.value = Len(table)
  BY <1>1 DEF IsReader
<1>4. ASSUME ~evicted, Versioned(k)
      PROVE  k[3] <= Version(k[2].scope) /\ bumps[k[2].scope][k[3]] <= Len(table)
  <2>1. k[2].scope \in Scopes /\ k[3] \in Nat /\ k[3] > 0 /\ k[3] <= Version(k[2].scope)
    BY <1>1, <1>4 DEF Sound, Versioned, KeyOK
  <2> DEFINE scope == k[2].scope
  <2> HIDE DEF scope, k
  <2>2. /\ Len(table) \in Nat /\ Version(scope) \in Nat
        /\ \A j \in 1..Version(scope) : bumps[scope][j] \in 1..Len(table)
    BY <2>1, BumpsAt DEF HidesInv, scope
  <2>3. bumps[scope][k[3]] \in 1..Len(table)
    BY <2>1, <2>2 DEF scope
  <2> QED
    BY <2>1, <2>2, <2>3 DEF scope
<1> HIDE DEF s
<1>5. Sound(s)
  BY <1>1, <1>3, <1>4 DEF Sound
<1> QED
  BY <1>2, <1>5, SetReaderSound

(* Whoever shared the load is served or gets its error.                    *)
LEMMA ReleaseSound ==
  ASSUME HidesInv, CoalescedInv, NEW r \in Readers, Store(r) \/ LoadFails(r)
  PROVE  \A x \in Readers : Sound(reader'[x])
<1> DEFINE s(x) == IF Store(r) THEN Served(reader[x], reader[r].value) ELSE IdleReader
<1>1. reader' = [x \in Readers |-> IF x \in Sharing(r) THEN s(x) ELSE reader[x]]
  BY DEF Store, LoadFails
<1>2. \A x \in Readers : Sound(reader[x]) /\ IsReader(reader[x])
  BY DEF HidesInv, CoalescedInv, ReadersOK
<1>3. \A x \in Readers : Sound(s(x))
  BY <1>2, ServedSound, IdleSound DEF Sound
<1> HIDE DEF s
<1> QED
  BY <1>1, <1>2, <1>3

LEMMA StoreHides ==
  ASSUME HidesInv, CoalescedInv, NEW r \in Readers, Store(r)
  PROVE  HidesInv'
<1> DEFINE key == reader[r].key
<1>1. Sound(reader[r]) /\ reader[r].phase = "storing"
  BY DEF HidesInv, Store
<1>2. UNCHANGED <<table, bumps, evicted>>
  BY DEF Store, Quiet
<1>3. CASE UNCHANGED stored
  BY <1>2, <1>3, ReleaseSound, SoundStep
<1>4. CASE stored' = With(key, reader[r].value)
  <2>1. /\ DOMAIN stored' = DOMAIN stored \cup {key}
        /\ \A k \in DOMAIN stored' : stored'[k] = IF k = key THEN reader[r].value ELSE stored[k]
    BY <1>4 DEF With
  <2>2. \A k \in DOMAIN stored' : KeyOK(k)
    BY <1>1, <2>1 DEF Sound, HidesInv
  <2>3. BumpHides'
    <3> SUFFICES ASSUME ~evicted, NEW k \in DOMAIN stored', IsList(k), k[3] > 0
                 PROVE  k[3] <= Version(k[2].scope) /\ bumps[k[2].scope][k[3]] <= stored'[k]
      BY <1>2 DEF BumpHides, Version
    <3>1. CASE k = key
      BY <3>1, <1>1, <2>1 DEF Sound, Versioned
    <3>2. CASE k # key
      BY <3>2, <2>1 DEF HidesInv, BumpHides
    <3> QED
      BY <3>1, <3>2
  <2>4. \A x \in Readers : Sound(reader[x])'
    BY <1>2, ReleaseSound DEF Sound, Version
  <2>5. TableOK'
    BY <1>2 DEF HidesInv, TableOK
  <2>6. \A k \in DOMAIN stored' : KeyOK(k)'
    BY <2>2 DEF KeyOK
  <2> QED
    BY <2>3, <2>4, <2>5, <2>6 DEF HidesInv
<1> QED
  BY <1>3, <1>4 DEF Store

(* Entries that go away, with the table, the versions and the readers      *)
(* left alone.                                                             *)
LEMMA ForgetHides ==
  ASSUME HidesInv, UNCHANGED <<table, bumps, evicted, reader>>,
         DOMAIN stored' \subseteq DOMAIN stored,
         \A k \in DOMAIN stored' : stored'[k] = stored[k]
  PROVE  HidesInv'
<1>1. \A x \in Readers : Sound(reader[x])'
  BY DEF HidesInv, Sound, Version
<1>2. BumpHides'
  BY DEF HidesInv, BumpHides, Version
<1>3. TableOK'
  BY DEF HidesInv, TableOK
<1> QED
  BY <1>1, <1>2, <1>3 DEF HidesInv, KeyOK

LEMMA CommitHides ==
  ASSUME HidesInv, NEW w \in Writers, Commit(w) \/ CommitUpsert(w)
  PROVE  HidesInv'
<1>1. UNCHANGED <<bumps, stored, evicted, reader>>
  BY DEF Commit, CommitUpsert, Step
<1>2. PICK row : table' = Append(table, row)
  BY DEF Commit, CommitUpsert
<1> DEFINE S == {table[n] : n \in DOMAIN table}
<1>3. table \in Seq(S) /\ Len(table) \in Nat
  BY DEF HidesInv, TableOK
<1>4. table \in Seq(S \cup {row})
  BY <1>3
<1>5. /\ Len(table') = Len(table) + 1 /\ DOMAIN table' = 1..Len(table) + 1
      /\ \A n \in 1..Len(table) + 1 : table'[n] = IF n = Len(table) + 1 THEN row ELSE table[n]
      /\ table' \in Seq(S \cup {row})
  <2> HIDE DEF S
  <2> QED
    BY <1>2, <1>4
<1>6. table' \in Seq({table'[n] : n \in DOMAIN table'})
  BY <1>5
<1>7. bumps' \in [Scopes -> Seq(1..Len(table'))]
  <2>1. bumps = [x \in Scopes |-> bumps[x]] /\ \A s \in Scopes : bumps[s] \in Seq(1..Len(table))
    BY DEF HidesInv, TableOK
  <2>2. 1..Len(table) \subseteq 1..Len(table')
    BY <1>3, <1>5
  <2>3. \A s \in Scopes : bumps[s] \in Seq(1..Len(table'))
    BY <2>1, <2>2, SeqElements
  <2> DEFINE T == Seq(1..Len(table'))
  <2> HIDE DEF T
  <2>4. \A s \in Scopes : bumps[s] \in T
    BY <2>3 DEF T
  <2>5. bumps \in [Scopes -> T]
    BY <2>1, <2>4
  <2> QED
    BY <1>1, <2>5 DEF T
<1>8. \A x \in Readers : Sound(reader[x])'
  BY <1>1 DEF HidesInv, Sound, Version
<1>9. BumpHides'
  BY <1>1 DEF HidesInv, BumpHides, Version
<1> QED
  BY <1>1, <1>3, <1>5, <1>6, <1>7, <1>8, <1>9 DEF HidesInv, TableOK, KeyOK

LEMMA BumpHidesStep ==
  ASSUME HidesInv, NEW w \in Writers, BumpVersion(w)
  PROVE  HidesInv'
<1> DEFINE scope == Head(writer[w]).on
<1>1. UNCHANGED <<table, stored, evicted, reader>>
  BY DEF BumpVersion, Step
<1>2. CASE UNCHANGED bumps
  BY <1>1, <1>2, ForgetHides
<1>3. CASE bumps' = [bumps EXCEPT ![scope] = Append(@, Len(table))]
  <2> HIDE DEF scope
  <2>1. ASSUME NEW s \in Scopes
        PROVE  /\ bumps'[s] \in Seq(1..Len(table)) /\ Version(s) <= Version(s)'
               /\ \A j \in 1..Version(s) : bumps'[s][j] = bumps[s][j]
    <3>1. /\ Len(table) \in Nat /\ Version(s) \in Nat /\ bumps[s] \in Seq(1..Len(table))
      BY BumpsAt DEF HidesInv, TableOK
    <3>2. CASE s = scope
      <4>1. bumps'[s] = Append(bumps[s], Len(table))
        BY <1>3, <3>2 DEF HidesInv, TableOK
      <4>2. 1 \in 1..Len(table)
        BY DEF HidesInv, TableOK
      <4>3. Len(table) \in 1..Len(table)
        BY <3>1, <4>2
      <4> QED
        BY <3>1, <4>1, <4>3 DEF Version
    <3>3. CASE s # scope
      BY <1>3, <3>1, <3>3 DEF HidesInv, TableOK, Version
    <3> QED
      BY <3>2, <3>3
  <2>2. TableOK'
    <3> DEFINE T == Seq(1..Len(table))
    <3>1. bumps' = [s \in Scopes |-> bumps'[s]]
      BY <1>3 DEF HidesInv, TableOK
    <3>2. \A s \in Scopes : bumps'[s] \in T
      BY <2>1
    <3> HIDE DEF T
    <3>3. bumps' \in [Scopes -> T]
      BY <3>1, <3>2
    <3> QED
      BY <1>1, <3>3 DEF HidesInv, TableOK, T
  <2>3. ASSUME NEW x \in Readers
        PROVE  Sound(reader[x])'
    <3>0. PICK k : k = reader[x].key
      OBVIOUS
    <3>1. Sound(reader[x])
      BY DEF HidesInv
    <3>2. CASE ~evicted /\ Versioned(k)
      <4>1. k[2].scope \in Scopes /\ k[3] \in Nat /\ k[3] > 0 /\ k[3] <= Version(k[2].scope)
        BY <3>0, <3>1, <3>2 DEF Sound, Versioned, KeyOK
      <4>2. /\ Version(k[2].scope) \in Nat /\ Version(k[2].scope)' \in Nat
            /\ Version(k[2].scope) <= Version(k[2].scope)'
            /\ \A j \in 1..Version(k[2].scope) : bumps'[k[2].scope][j] = bumps[k[2].scope][j]
        BY SMTT(30), <2>1, <4>1, BumpsAt, SeqElements DEF HidesInv, Version
      <4>3. k[3] <= Version(k[2].scope)' /\ bumps'[k[2].scope][k[3]] = bumps[k[2].scope][k[3]]
        BY <4>1, <4>2
      <4> QED
        BY <1>1, <3>0, <3>1, <3>2, <4>3 DEF Sound, Version
    <3>3. CASE evicted \/ ~Versioned(k)
      BY <1>1, <3>0, <3>1, <3>3 DEF Sound
    <3> QED
      BY <3>2, <3>3
  <2>4. BumpHides'
    <3> SUFFICES ASSUME ~evicted, NEW k \in DOMAIN stored, IsList(k), k[3] > 0
                 PROVE  k[3] <= Version(k[2].scope)' /\ bumps'[k[2].scope][k[3]] <= stored[k]
      BY <1>1 DEF BumpHides, Version
    <3>1. k[2].scope \in Scopes /\ k[3] \in Nat
      BY DEF HidesInv, KeyOK
    <3>2. k[3] <= Version(k[2].scope) /\ bumps[k[2].scope][k[3]] <= stored[k]
      BY DEF HidesInv, BumpHides
    <3>3. /\ Version(k[2].scope) \in Nat /\ Version(k[2].scope)' \in Nat
          /\ Version(k[2].scope) <= Version(k[2].scope)'
          /\ \A j \in 1..Version(k[2].scope) : bumps'[k[2].scope][j] = bumps[k[2].scope][j]
      BY SMTT(30), <2>1, <3>1, BumpsAt, SeqElements DEF HidesInv, Version
    <3>4. k[3] <= Version(k[2].scope)' /\ bumps'[k[2].scope][k[3]] = bumps[k[2].scope][k[3]]
      BY <3>1, <3>2, <3>3
    <3> QED
      BY <3>2, <3>4
  <2> QED
    BY <1>1, <2>2, <2>3, <2>4 DEF HidesInv, KeyOK
<1> QED
  BY <1>2, <1>3 DEF BumpVersion

LEMMA EvictHides ==
  ASSUME HidesInv, NEW scope \in Scopes, EvictVersion(scope)
  PROVE  HidesInv'
<1>1. UNCHANGED <<table, stored, reader>> /\ evicted' = TRUE
  BY DEF EvictVersion
<1>2. bumps' \in [Scopes -> Seq(1..Len(table))]
  BY DEF EvictVersion, HidesInv, TableOK
<1>3. \A x \in Readers : Sound(reader[x])'
  BY <1>1 DEF HidesInv, Sound
<1> QED
  BY <1>1, <1>2, <1>3 DEF HidesInv, TableOK, BumpHides, KeyOK

LEMMA HidesInit == Init => HidesInv
<1> SUFFICES ASSUME Init PROVE HidesInv
  OBVIOUS
<1>1. /\ table = <<Shelf0>> /\ bumps = [s \in Scopes |-> <<>>] /\ stored = <<>>
      /\ reader = [r \in Readers |-> IdleReader]
  BY DEF Init
<1>2. TableOK
  BY <1>1 DEF TableOK
<1>3. \A r \in Readers : Sound(reader[r])
  BY <1>1, IdleSound
<1>4. DOMAIN stored = {}
  BY <1>1
<1> QED
  BY <1>2, <1>3, <1>4 DEF HidesInv, BumpHides

LEMMA HidesNext == HidesInv /\ CoalescedInv /\ [Next]_vars => HidesInv'
<1> SUFFICES ASSUME HidesInv, CoalescedInv, [Next]_vars PROVE HidesInv'
  OBVIOUS
<1>1. ASSUME NEW r \in Readers, Ask(r) \/ Answer(r) PROVE HidesInv'
  BY <1>1, AskHides, ReadVersionHides, HitHides, MissHides, LoadHides, StoreHides DEF Answer
<1>2. ASSUME NEW r \in Readers, LoadFails(r) PROVE HidesInv'
  BY <1>2, ReleaseSound, SoundStep DEF LoadFails, Quiet
<1>3. ASSUME NEW w \in Writers, StartWrite(w) \/ WriterDies(w) PROVE HidesInv'
  <2>1. UNCHANGED <<table, bumps, stored, evicted, reader>>
    BY <1>3 DEF StartWrite, Reproject, Upsert, Ingest, PromoteCategory, PromoteProduct, Create, Begin,
                WriterDies
  <2> QED
    BY <2>1, ForgetHides
<1>4. ASSUME NEW w \in Writers, DelDetail(w) \/ PurgeDetail(w) PROVE HidesInv'
  <2>1. UNCHANGED <<table, bumps, evicted, reader>>
    BY <1>4 DEF DelDetail, PurgeDetail, Step
  <2>2. UNCHANGED stored \/ \E p : stored' = Without(p)
    BY <1>4 DEF DelDetail, PurgeDetail
  <2>3. /\ DOMAIN stored' \subseteq DOMAIN stored
        /\ \A k \in DOMAIN stored' : stored'[k] = stored[k]
    BY <2>2 DEF Without
  <2> QED
    BY <2>1, <2>3, ForgetHides
<1>5. ASSUME NEW w \in Writers, BumpVersion(w) \/ Commit(w) \/ CommitUpsert(w) PROVE HidesInv'
  BY <1>5, BumpHidesStep, CommitHides
<1>6. ASSUME NEW i \in Apis, Cool(i) PROVE HidesInv'
  BY <1>6, ForgetHides DEF Cool
<1>7. ASSUME NEW k \in DOMAIN stored, Expire(k) PROVE HidesInv'
  BY <1>7, ForgetHides DEF Expire
<1>8. ASSUME NEW s \in Scopes, EvictVersion(s) PROVE HidesInv'
  BY <1>8, EvictHides
<1>9. CASE UNCHANGED vars
  BY <1>9, ForgetHides DEF vars
<1> QED
  BY <1>1, <1>2, <1>3, <1>4, <1>5, <1>6, <1>7, <1>8, <1>9 DEF Next, Write

(* A bump of a version hides what was cached before it: what is found      *)
(* under a version was computed from the table as it was at that version's *)
(* bump, or later, for any number of readers, processes and writers.       *)
THEOREM BumpsHide == Spec => []BumpHides
<1>1. Spec => [](HidesInv /\ CoalescedInv)
  BY HidesInit, HidesNext, CoalescedInit, CoalescedNext, PTL DEF Spec
<1>2. HidesInv => BumpHides
  BY DEF HidesInv
<1> QED
  BY <1>1, <1>2, PTL
-------------------------------------------------------------------------------
(* A page of a listing.                                                    *)
IsShelf(shelf) == \A p \in DOMAIN shelf : p \in DOMAIN Category /\ shelf[p].price \in Int

LEMMA ShelfFinite ==
  ASSUME NEW shelf, IsShelf(shelf), NEW S, S \subseteq DOMAIN shelf
  PROVE  IsFiniteSet(S) /\ Cardinality(S) \in Nat
<1>1. S \in SUBSET DOMAIN Category
  BY DEF IsShelf
<1> QED BY <1>1, FS_Subset, FS_CardinalityType, CatalogAssumption

LEMMA ComesIsOrder ==
  ASSUME NEW sort, NEW shelf, IsShelf(shelf), NEW x \in DOMAIN shelf, NEW y \in DOMAIN shelf
  PROVE  /\ ~Comes(sort, Position(shelf, x), Position(shelf, x))
         /\ x # y => \/ Comes(sort, Position(shelf, x), Position(shelf, y))
                     \/ Comes(sort, Position(shelf, y), Position(shelf, x))
         /\ ~(/\ Comes(sort, Position(shelf, x), Position(shelf, y))
              /\ Comes(sort, Position(shelf, y), Position(shelf, x)))
BY CatalogAssumption DEF IsShelf, Comes, Less, Position

LEMMA ComesTransitive ==
  ASSUME NEW sort, NEW a \in Int \X Int, NEW b \in Int \X Int, NEW c \in Int \X Int,
         Comes(sort, a, b), Comes(sort, b, c)
  PROVE  Comes(sort, a, c)
BY DEF Comes, Less

LEMMA PositionType ==
  ASSUME NEW shelf, IsShelf(shelf), NEW x \in DOMAIN shelf
  PROVE  Position(shelf, x) \in Int \X Int
BY CatalogAssumption DEF IsShelf, Position

Earlier(shelf, q, S, p) == {o \in S : Comes(q.sort, Position(shelf, o), Position(shelf, p))}

(* Rows have a first and a last one.                                       *)
LEMMA FirstRow ==
  ASSUME NEW shelf, IsShelf(shelf), NEW q, NEW S, S \subseteq DOMAIN shelf, S # {}
  PROVE  \E p \in S : \A o \in S \ {p} : Comes(q.sort, Position(shelf, p), Position(shelf, o))
<1> DEFINE rank(p) == Cardinality(Earlier(shelf, q, S, p))
           ranks == {rank(p) : p \in S}
<1>1. \A p \in S : IsFiniteSet(Earlier(shelf, q, S, p)) /\ rank(p) \in Nat
  BY ShelfFinite DEF Earlier
<1>2. PICK m \in ranks : \A n \in ranks : m <= n
  <2>1. ranks \in SUBSET Nat /\ ranks # {}
    BY <1>1
  <2> HIDE DEF ranks
  <2> QED BY <2>1, HasLeast
<1>3. PICK p \in S : \A o \in S : rank(p) <= rank(o)
  BY <1>2
<1> SUFFICES ASSUME NEW o \in S, o # p, ~Comes(q.sort, Position(shelf, p), Position(shelf, o))
             PROVE  FALSE
  BY <1>3
<1>4. Comes(q.sort, Position(shelf, o), Position(shelf, p))
  BY ComesIsOrder
<1>5. Earlier(shelf, q, S, o) \subseteq Earlier(shelf, q, S, p)
  <2> SUFFICES ASSUME NEW x \in S, Comes(q.sort, Position(shelf, x), Position(shelf, o))
               PROVE  Comes(q.sort, Position(shelf, x), Position(shelf, p))
    BY DEF Earlier
  <2>1. /\ Position(shelf, x) \in Int \X Int /\ Position(shelf, o) \in Int \X Int
        /\ Position(shelf, p) \in Int \X Int
    BY PositionType
  <2> QED BY <1>4, <2>1, ComesTransitive
<1>6. o \in Earlier(shelf, q, S, p) /\ o \notin Earlier(shelf, q, S, o)
  BY <1>4, ComesIsOrder DEF Earlier
<1>7. rank(o) < rank(p)
  <2>1. rank(o) <= rank(p) /\ rank(o) # rank(p)
    BY <1>1, <1>5, <1>6, FS_Subset
  <2> QED BY <1>1, <2>1
<1> QED BY <1>1, <1>3, <1>7

LEMMA LastRow ==
  ASSUME NEW shelf, IsShelf(shelf), NEW q, NEW S, S \subseteq DOMAIN shelf, S # {}
  PROVE  \E p \in S : \A o \in S \ {p} : Comes(q.sort, Position(shelf, o), Position(shelf, p))
<1> DEFINE back == [sort |-> IF q.sort = "asc" THEN "desc" ELSE "asc"]
<1>1. \A a, b : Comes(back.sort, a, b) = Comes(q.sort, b, a)
  BY DEF Comes
<1>2. \E p \in S : \A o \in S \ {p} : Comes(back.sort, Position(shelf, p), Position(shelf, o))
  <2> HIDE DEF back
  <2> QED BY FirstRow
<1> QED BY <1>1, <1>2

(* The first n rows: nothing is in front of them but others of them.       *)
LEMMA FirstClosed ==
  ASSUME NEW shelf, IsShelf(shelf), NEW q, NEW S, S \subseteq DOMAIN shelf, NEW n \in Nat
  PROVE  /\ \A p \in First(shelf, q, S, n) :
              Earlier(shelf, q, S, p) \subseteq First(shelf, q, S, n)
         /\ First(shelf, q, S, n) \subseteq S
<1> SUFFICES ASSUME NEW p \in First(shelf, q, S, n), NEW o \in Earlier(shelf, q, S, p)
             PROVE  o \in First(shelf, q, S, n)
  BY DEF First
<1>1. p \in S /\ o \in S /\ Cardinality(Earlier(shelf, q, S, p)) < n
  BY DEF First, Earlier
<1>2. Earlier(shelf, q, S, o) \subseteq Earlier(shelf, q, S, p)
  <2> SUFFICES ASSUME NEW x \in S, Comes(q.sort, Position(shelf, x), Position(shelf, o))
               PROVE  Comes(q.sort, Position(shelf, x), Position(shelf, p))
    BY DEF Earlier
  <2>1. /\ Position(shelf, x) \in Int \X Int /\ Position(shelf, o) \in Int \X Int
        /\ Position(shelf, p) \in Int \X Int
    BY <1>1, PositionType
  <2> QED BY <2>1, ComesTransitive DEF Earlier
<1>3. /\ IsFiniteSet(Earlier(shelf, q, S, p)) /\ Cardinality(Earlier(shelf, q, S, p)) \in Nat
      /\ Cardinality(Earlier(shelf, q, S, o)) \in Nat
  BY <1>1, ShelfFinite DEF Earlier
<1>4. Cardinality(Earlier(shelf, q, S, o)) < n
  <2>1. Cardinality(Earlier(shelf, q, S, o)) <= Cardinality(Earlier(shelf, q, S, p))
    BY <1>2, <1>3, FS_Subset
  <2> QED BY <1>1, <1>3, <2>1
<1> QED BY <1>1, <1>4 DEF First, Earlier

(* The page is cut from limit + 1 rows, and is the first limit of all.     *)
LEMMA ItemsAreFirst ==
  ASSUME NEW shelf, IsShelf(shelf), NEW q, NEW S, S \subseteq DOMAIN shelf, NEW n \in Nat
  PROVE  First(shelf, q, First(shelf, q, S, n + 1), n) = First(shelf, q, S, n)
<1> DEFINE rows == First(shelf, q, S, n + 1)
<1>1. \A p \in rows : Earlier(shelf, q, rows, p) = Earlier(shelf, q, S, p)
  <2>1. n + 1 \in Nat
    OBVIOUS
  <2>2. rows \subseteq S /\ \A p \in rows : Earlier(shelf, q, S, p) \subseteq rows
    BY <2>1, FirstClosed
  <2> HIDE DEF rows
  <2> QED BY <2>2 DEF Earlier
<1>2. First(shelf, q, S, n) \subseteq rows
  <2>1. \A p \in S : Cardinality(Earlier(shelf, q, S, p)) \in Nat
    BY ShelfFinite DEF Earlier
  <2> QED BY <2>1 DEF First, Earlier
<1>3. rows \subseteq S
  BY DEF First
<1>4. \A p : p \in First(shelf, q, rows, n) <=>
               p \in rows /\ Cardinality(Earlier(shelf, q, rows, p)) < n
  BY DEF First, Earlier
<1>5. \A p : p \in First(shelf, q, S, n) <=>
               p \in S /\ Cardinality(Earlier(shelf, q, S, p)) < n
  BY DEF First, Earlier
<1> HIDE DEF rows
<1> QED BY <1>1, <1>2, <1>3, <1>4, <1>5 DEF rows

(* If the extra row is not there, nothing is.                              *)
LEMMA NoExtraRow ==
  ASSUME NEW shelf, IsShelf(shelf), NEW q, NEW S, S \subseteq DOMAIN shelf, NEW n \in Nat,
         First(shelf, q, S, n + 1) = First(shelf, q, S, n)
  PROVE  First(shelf, q, S, n) = S
<1> DEFINE items == First(shelf, q, S, n)
           out == S \ items
<1> SUFFICES ASSUME out # {} PROVE FALSE
  BY FirstClosed
<1>1. PICK x \in out : \A o \in out \ {x} : Comes(q.sort, Position(shelf, x), Position(shelf, o))
  <2> HIDE DEF items
  <2> QED BY FirstRow
<1> DEFINE E == Earlier(shelf, q, S, x)
<1>2. x \in S /\ E \subseteq items /\ E \subseteq DOMAIN shelf
  <2>1. \A o \in E : o \in S /\ o # x /\ ~Comes(q.sort, Position(shelf, x), Position(shelf, o))
    BY ComesIsOrder DEF Earlier
  <2> HIDE DEF items, E
  <2> QED BY <1>1, <2>1
<1>3. IsFiniteSet(E) /\ Cardinality(E) \in Nat
  BY <1>2, ShelfFinite
<1>4. Cardinality(E) >= n + 1
  <2>1. x \notin First(shelf, q, S, n + 1)
    OBVIOUS
  <2>2. ~(Cardinality(E) < n + 1)
    BY <1>2, <2>1 DEF First, Earlier
  <2> HIDE DEF E
  <2> QED BY <1>3, <2>2
<1>5. E # {}
  BY <1>3, <1>4, FS_EmptySet
<1>6. PICK m \in E : \A o \in E \ {m} : Comes(q.sort, Position(shelf, o), Position(shelf, m))
  <2> HIDE DEF E
  <2> QED BY <1>2, <1>5, LastRow
<1>7. E \ {m} \subseteq Earlier(shelf, q, S, m)
  BY <1>6 DEF Earlier
<1>8. Cardinality(E \ {m}) = Cardinality(E) - 1
  <2> HIDE DEF E
  <2> QED BY <1>3, <1>6, FS_RemoveElement
<1>9. IsFiniteSet(Earlier(shelf, q, S, m)) /\ Cardinality(Earlier(shelf, q, S, m)) \in Nat
  BY ShelfFinite DEF Earlier
<1>10. Cardinality(E \ {m}) <= Cardinality(Earlier(shelf, q, S, m))
  <2> HIDE DEF E
  <2> QED BY <1>7, <1>9, FS_Subset
<1>11. Cardinality(Earlier(shelf, q, S, m)) < n
  BY <1>2, <1>6 DEF First, Earlier
<1> HIDE DEF E
<1> QED BY <1>3, <1>4, <1>8, <1>9, <1>10, <1>11

(* What a client may rely on: a page is everything found up to its cursor, *)
(* or everything found.                                                    *)
LEMMA PageIsInterval ==
  ASSUME NEW shelf, IsShelf(shelf), NEW q, q.limit \in Nat \ {0}, NEW cursor
  PROVE  LET page  == ListProducts(shelf, q, cursor)
             found == Found(shelf, q, cursor)
         IN  /\ page.items \subseteq found
             /\ \/ page.next = End /\ page.items = found
                \/ /\ \E p \in page.items : page.next = Position(shelf, p)
                   /\ \A p \in found : p \in page.items <=>
                                         ~Comes(q.sort, page.next, Position(shelf, p))
<1> DEFINE n     == q.limit
           found == Found(shelf, q, cursor)
           rows  == First(shelf, q, found, n + 1)
           items == First(shelf, q, found, n)
           page  == ListProducts(shelf, q, cursor)
<1>1. found \subseteq DOMAIN shelf /\ n \in Nat /\ n > 0
  BY DEF Found
<1>2. page = [items |-> items, next |-> NextCursor(shelf, q, rows, items)]
  <2>1. First(shelf, q, rows, n) = items
    BY <1>1, ItemsAreFirst
  <2> HIDE DEF items
  <2> QED BY <2>1 DEF ListProducts
<1>3. items \subseteq found /\ \A p \in items : Earlier(shelf, q, found, p) \subseteq items
  BY <1>1, FirstClosed
<1>4. CASE rows = items
  <2>1. items = found
    BY <1>1, <1>4, NoExtraRow
  <2> HIDE DEF items, rows
  <2> QED BY <1>2, <1>4, <2>1 DEF NextCursor
<1>5. CASE rows # items
  <2>1. rows \subseteq found /\ found # {}
    <3>1. rows \subseteq found
      BY DEF First
    <3> HIDE DEF rows, items
    <3> QED BY <1>3, <1>5, <3>1
  <2>2. items # {}
    <3>1. PICK p \in found : \A o \in found \ {p} : Comes(q.sort, Position(shelf, p), Position(shelf, o))
      <4> HIDE DEF found
      <4> QED BY <1>1, <2>1, FirstRow
    <3>2. Earlier(shelf, q, found, p) = {}
      BY <1>1, <3>1, ComesIsOrder DEF Earlier
    <3>3. Cardinality(Earlier(shelf, q, found, p)) < n
      BY <1>1, <3>2, FS_EmptySet
    <3> QED BY <3>1, <3>3 DEF First, Earlier
  <2> DEFINE IsLast(p) == \A o \in items \ {p} : Comes(q.sort, Position(shelf, o), Position(shelf, p))
             last == CHOOSE p \in items : IsLast(p)
  <2>3. \E p \in items : IsLast(p)
    <3>1. items \subseteq DOMAIN shelf
      BY <1>1, <1>3
    <3> HIDE DEF items
    <3> QED BY <2>2, <3>1, LastRow
  <2>4. last \in items /\ IsLast(last)
    <3> HIDE DEF IsLast, items
    <3> QED BY <2>3
  <2>5. page.next = Position(shelf, last) /\ page.items = items
    <3>1. page.next = LastPosition(shelf, q, items) /\ page.items = items
      <4> HIDE DEF rows, items
      <4> QED BY <1>2, <1>5 DEF NextCursor
    <3> QED BY <3>1 DEF LastPosition
  <2> HIDE DEF last
  <2>6. ASSUME NEW p \in found
        PROVE  p \in items <=> ~Comes(q.sort, Position(shelf, last), Position(shelf, p))
    <3>1. last \in DOMAIN shelf /\ p \in DOMAIN shelf
      BY <1>1, <1>3, <2>4
    <3>2. CASE p = last
      BY <2>4, <3>1, <3>2, ComesIsOrder
    <3>3. CASE p # last /\ p \in items
      <4>1. Comes(q.sort, Position(shelf, p), Position(shelf, last))
        BY <2>4, <3>3
      <4> QED BY <3>1, <3>3, <4>1, ComesIsOrder
    <3>4. CASE p \notin items
      <4>1. ~Comes(q.sort, Position(shelf, p), Position(shelf, last))
        BY <1>3, <2>4, <3>4 DEF Earlier
      <4>2. p # last
        BY <2>4, <3>4
      <4> QED BY <3>1, <3>4, <4>1, <4>2, ComesIsOrder
    <3> QED BY <3>2, <3>3, <3>4
  <2> HIDE DEF items, found, page
  <2> QED BY <1>3, <2>4, <2>5, <2>6 DEF found, page
<1> QED BY <1>4, <1>5
-------------------------------------------------------------------------------
(* The listing as a client walks it: whatever pages of whatever age are    *)
(* served, a client sees each product that does not change exactly once.   *)

(* What makes it inductive: a product that was steady so far has been seen *)
(* once if the cursor is not in front of it, and not at all otherwise.     *)
WalkOK(walk) ==
  /\ walk.used = {} =>
       walk.token \in Tokens \cup {End} /\ \A p \in DOMAIN Category : walk.seen[p] = 0
  /\ walk.used # {} =>
       /\ walk.token \notin Tokens
       /\ \A p \in DOMAIN Category, row \in Row :
            (\A n \in walk.used : p \in DOMAIN table[n] /\ table[n][p] = row) =>
              walk.seen[p] = IF /\ \A n \in walk.used : Listed(table[n], walk.query, p)
                                /\ \/ walk.token = End
                                   \/ ~Comes(walk.query.sort, walk.token, <<row.price, p>>)
                             THEN 1 ELSE 0

(* A request for a page has a cursor, and what is cached or loaded has a   *)
(* key.                                                                    *)
Asking(s) == s.phase = "version" \/ IsList(s.key)
Keyed(s) == s.phase \in {"get", "joined", "loading", "storing"}
ReaderOK(s) ==
  /\ s.phase \in Phases /\ s.api \in Apis /\ s.key \in Keys \cup {NoKey}
  /\ s.value \in 0..Len(table) /\ s.walk \in WalkType
  /\ Asking(s) => s.walk.token # End
  /\ Keyed(s) => s.key \in Keys
  /\ s.phase = "storing" => s.value \in 1..Len(table)
  /\ WalkOK(s.walk)

RowsOK ==
  /\ TableOK
  /\ \A n \in DOMAIN table : \A p \in DOMAIN table[n] : p \in DOMAIN Category /\ table[n][p] \in Row

LEMMA TableIndex ==
  ASSUME TableOK
  PROVE  Len(table) \in Nat /\ DOMAIN table = 1..Len(table) /\ Len(table) \in DOMAIN table
<1>1. Len(table) \in Nat /\ DOMAIN table = 1..Len(table)
  BY DEF TableOK
<1>2. 1 \in 1..Len(table)
  BY DEF TableOK
<1> QED BY <1>1, <1>2

(* The tokens, the end and the positions differ.                           *)
LEMMA TokenShapes ==
  /\ Positions \subseteq Int \X Int
  /\ \A t \in Positions : t \notin Tokens \cup {End} /\ DecodeCursor(t) = t /\ t # Start
  /\ \A t \in Tokens : t # End /\ DecodeCursor(t) = Start
<1>1. Positions \subseteq Int \X Int
  BY ShelfAssumption, CatalogAssumption DEF Positions
<1>2. \A t \in Positions : t \notin Tokens \cup {End}
  BY <1>1, TokensAssumption
<1>3. \A t \in Positions : DecodeCursor(t) = t /\ t # Start
  BY <1>2 DEF DecodeCursor, Tokens
<1>4. \A t \in Tokens : t # End /\ DecodeCursor(t) = Start
  BY TokensAssumption DEF DecodeCursor, Tokens
<1> QED BY <1>1, <1>2, <1>3, <1>4

LEMMA RowIsShelf ==
  ASSUME RowsOK, NEW n \in DOMAIN table
  PROVE  IsShelf(table[n])
BY ShelfAssumption DEF RowsOK, IsShelf, Row

(* A further page, from any state of the table, keeps the client's record  *)
(* of the walk right.                                                      *)
LEMMA TurnedOK ==
  ASSUME RowsOK, NEW walk \in WalkType, walk.token # End, WalkOK(walk), NEW n \in DOMAIN table
  PROVE  Turned(walk, n) \in WalkType /\ WalkOK(Turned(walk, n))
<1> DEFINE shelf  == table[n]
           q      == walk.query
           cursor == DecodeCursor(walk.token)
           found  == Found(shelf, q, cursor)
           page   == ListProducts(shelf, q, cursor)
           seen   == [p \in DOMAIN walk.seen |->
                       IF p \in page.items /\ walk.seen[p] < 2 THEN walk.seen[p] + 1 ELSE walk.seen[p]]
           next   == Turned(walk, n)
<1>1. /\ q \in Queries /\ walk.token \in Tokens \cup Positions
      /\ walk.seen \in [DOMAIN Category -> 0..2] /\ walk.used \subseteq DOMAIN table
  BY DEF WalkType
<1>2. q.limit \in Nat \ {0} /\ IsShelf(shelf)
  BY <1>1, CacheAssumption, RowIsShelf
<1>3. /\ page.items \subseteq found
      /\ \/ page.next = End /\ page.items = found
         \/ /\ \E p \in page.items : page.next = Position(shelf, p)
            /\ \A p \in found : p \in page.items <=> ~Comes(q.sort, page.next, Position(shelf, p))
  <2> HIDE DEF shelf, q, cursor
  <2> QED BY <1>2, PageIsInterval
<1>4. next = [query |-> q, token |-> page.next, seen |-> seen, used |-> walk.used \cup {n}]
  <2>1. walk = [query |-> walk.query, token |-> walk.token, seen |-> walk.seen, used |-> walk.used]
    BY DEF WalkType
  <2>2. next = [walk EXCEPT !.token = page.next, !.used = @ \cup {n}, !.seen = seen]
    BY DEF Turned
  <2> HIDE DEF next, page, seen
  <2> QED BY <2>1, <2>2
<1>5. found \subseteq DOMAIN shelf
  BY DEF Found
<1>6. \A p \in DOMAIN shelf : p \in DOMAIN Category /\ shelf[p] \in Row
  BY DEF RowsOK
<1>6a. \A p \in DOMAIN shelf : Position(shelf, p) \in Positions
  BY <1>6 DEF Positions, Position, Row
<1>7. page.next = End \/ page.next \in Positions
  <2> HIDE DEF page, shelf, found
  <2> QED BY <1>3, <1>5, <1>6a
<1>8. seen \in [DOMAIN Category -> 0..2]
  BY <1>1
<1>9. next \in WalkType
  <2> HIDE DEF next, page, seen, q
  <2> QED BY <1>1, <1>4, <1>7, <1>8 DEF WalkType
<1> DEFINE Same(p, row) == \A m \in walk.used : p \in DOMAIN table[m] /\ table[m][p] = row
<1>10. ASSUME NEW p \in DOMAIN Category, NEW row \in Row, p \in DOMAIN shelf, shelf[p] = row,
              Same(p, row)
       PROVE  seen[p] = IF /\ Listed(shelf, q, p)
                           /\ \/ page.next = End
                              \/ ~Comes(q.sort, page.next, <<row.price, p>>)
                        THEN 1 ELSE 0
  <2> DEFINE at == <<row.price, p>>
  <2>1. Position(shelf, p) = at /\ at \in Positions
    <3>1. Position(shelf, p) = at
      BY <1>10 DEF Position
    <3> HIDE DEF at, shelf
    <3> QED BY <1>10, <1>6a, <3>1
  <2>2. p \in found <=> Listed(shelf, q, p) /\ (cursor # Start => Comes(q.sort, cursor, at))
    BY <1>10, <2>1 DEF Found
  <2>3. p \in page.items <=> p \in found /\ (page.next = End \/ ~Comes(q.sort, page.next, at))
    <3> HIDE DEF page, found, at
    <3>1. CASE page.next = End /\ page.items = found
      BY <3>1
    <3>2. CASE \E o \in page.items : page.next = Position(shelf, o)
      <4>1. page.next # End
        <5>1. page.next \in Positions
          <6> HIDE DEF shelf
          <6> QED BY <1>3, <1>5, <1>6a, <3>2 DEF page, found
        <5> QED BY <5>1, TokenShapes
      <4> QED BY <4>1, <1>3, <2>1
    <3> QED BY <1>3, <3>1, <3>2
  <2>4. seen[p] = IF p \in page.items /\ walk.seen[p] < 2 THEN walk.seen[p] + 1 ELSE walk.seen[p]
    BY <1>1
  <2>5. CASE walk.used = {}
    <3>1. walk.token \in Tokens /\ walk.seen[p] = 0
      BY <1>1, <2>5 DEF WalkOK
    <3>2. cursor = Start
      BY <3>1, TokenShapes
    <3> HIDE DEF page, found, at, cursor, q, shelf, seen
    <3> QED BY <2>2, <2>3, <2>4, <3>1, <3>2 DEF at
  <2>6. CASE walk.used # {}
    <3>1. walk.token \in Positions
      BY <1>1, <2>6 DEF WalkOK
    <3>2. cursor = walk.token /\ cursor # Start
      BY <3>1, TokenShapes
    <3>3. \A m \in walk.used : Listed(table[m], q, p) <=> Listed(shelf, q, p)
      BY <1>10 DEF Listed
    <3>4. walk.seen[p] = IF Listed(shelf, q, p) /\ ~Comes(q.sort, walk.token, at) THEN 1 ELSE 0
      <4>1. walk.seen[p] = IF /\ \A m \in walk.used : Listed(table[m], q, p)
                              /\ \/ walk.token = End
                                 \/ ~Comes(q.sort, walk.token, <<row.price, p>>)
                           THEN 1 ELSE 0
        BY <1>10, <2>6 DEF WalkOK
      <4>2. (\A m \in walk.used : Listed(table[m], q, p)) <=> Listed(shelf, q, p)
        BY <2>6, <3>3
      <4> HIDE DEF shelf, q
      <4> QED BY <4>1, <4>2
    <3>5. ASSUME page.next # End, Comes(q.sort, page.next, at) PROVE Comes(q.sort, cursor, at)
      <4>1. PICK o \in page.items : page.next = Position(shelf, o)
        BY <1>3, <3>5
      <4>2. o \in found /\ Comes(q.sort, cursor, page.next)
        BY <1>3, <3>2, <4>1 DEF Found
      <4>3. page.next \in Int \X Int /\ cursor \in Int \X Int /\ at \in Int \X Int
        BY <1>7, <2>1, <3>1, <3>2, <3>5, TokenShapes
      <4> HIDE DEF page, cursor, at, q
      <4> QED BY <3>5, <4>2, <4>3, ComesTransitive
    <3> HIDE DEF page, found, at, cursor, q, shelf, seen
    <3> QED BY <2>2, <2>3, <2>4, <3>2, <3>4, <3>5 DEF at
  <2> QED BY <2>5, <2>6
<1>11. WalkOK(next)
  <2>1. next.query = q /\ next.token = page.next /\ next.seen = seen /\ next.used = walk.used \cup {n}
    <3> HIDE DEF next, page, seen, q
    <3> QED BY <1>4
  <2>2. next.used # {} /\ next.token \notin Tokens
    <3>1. page.next \notin Tokens
      <4> HIDE DEF page
      <4> QED BY <1>7, TokenShapes
    <3> HIDE DEF next, page
    <3> QED BY <2>1, <3>1
  <2>3. ASSUME NEW p \in DOMAIN Category, NEW row \in Row,
               \A m \in next.used : p \in DOMAIN table[m] /\ table[m][p] = row
        PROVE  next.seen[p] = IF /\ \A m \in next.used : Listed(table[m], next.query, p)
                                 /\ \/ next.token = End
                                    \/ ~Comes(next.query.sort, next.token, <<row.price, p>>)
                              THEN 1 ELSE 0
    <3>1. p \in DOMAIN shelf /\ shelf[p] = row /\ Same(p, row)
      <4> HIDE DEF next
      <4> QED BY <2>1, <2>3
    <3>2. \A m \in next.used : Listed(table[m], q, p) <=> Listed(shelf, q, p)
      <4> HIDE DEF next
      <4> QED BY <2>3, <3>1 DEF Listed
    <3>3. (\A m \in next.used : Listed(table[m], q, p)) <=> Listed(shelf, q, p)
      <4> HIDE DEF next, q
      <4> QED BY <2>1, <3>2
    <3>4. seen[p] = IF /\ Listed(shelf, q, p)
                       /\ \/ page.next = End
                          \/ ~Comes(q.sort, page.next, <<row.price, p>>)
                    THEN 1 ELSE 0
      <4> HIDE DEF seen, page, Same
      <4> QED BY <1>10, <3>1
    <3> HIDE DEF next, page, seen, q, shelf
    <3> QED BY <2>1, <3>3, <3>4
  <2> HIDE DEF next
  <2> QED BY <2>2, <2>3 DEF WalkOK
<1> QED BY <1>9, <1>11

LEMMA NoWalkStarts == NoWalk \in WalkType /\ NoWalk.token = End /\ WalkOK(NoWalk)
  BY CacheAssumption DEF NoWalk, WalkType, WalkOK, Tokens

LEMMA KeyKinds ==
  /\ NoKey \notin Keys /\ ~IsList(NoKey)
  /\ \A p \in DOMAIN Category : productCacheKey(p) \in Keys /\ ~IsList(productCacheKey(p))
  /\ \A q \in Queries, v \in Nat, t \in Tokens \cup Positions :
       listCacheKey(q, v, t) \in Keys /\ IsList(listCacheKey(q, v, t))
  BY DEF Keys, NoKey, IsList, productCacheKey, listCacheKey

LEMMA IdleOK ==
  ASSUME TableOK
  PROVE  ReaderOK(IdleReader)
<1>1. /\ IdleReader.phase = "idle" /\ IdleReader.key = NoKey /\ IdleReader.value = 0
      /\ IdleReader.walk = NoWalk /\ IdleReader.api \in Apis
  BY CacheAssumption DEF IdleReader
<1>2. 0 \in 0..Len(table)
  BY TableIndex
<1> QED BY <1>1, <1>2, NoWalkStarts, KeyKinds DEF ReaderOK, Asking, Keyed, Phases

LEMMA ServedOK ==
  ASSUME RowsOK, NEW s, IsReader(s), ReaderOK(s), NEW n \in DOMAIN table
  PROVE  ReaderOK(Served(s, n))
<1> DEFINE turned == IF IsList(s.key) THEN Turned(s.walk, n) ELSE s.walk
<1>1. turned \in WalkType /\ WalkOK(turned)
  BY TurnedOK DEF ReaderOK, Asking
<1> HIDE DEF turned
<1>2. Served(s, n) = [s EXCEPT !.phase = "idle", !.key = NoKey, !.value = 0, !.walk = turned]
  BY DEF Served, turned
<1>3. /\ Served(s, n).phase = "idle" /\ Served(s, n).key = NoKey /\ Served(s, n).value = 0
      /\ Served(s, n).walk = turned /\ Served(s, n).api = s.api
  BY <1>2 DEF IsReader
<1>4. 0 \in 0..Len(table)
  BY TableIndex DEF RowsOK
<1> QED BY <1>1, <1>3, <1>4, KeyKinds DEF ReaderOK, Asking, Keyed, Phases

ReadsOK ==
  /\ \A r \in Readers : ReaderOK(reader[r])
  /\ DOMAIN stored \subseteq Keys /\ \A k \in DOMAIN stored : stored[k] \in 1..Len(table)
  /\ inFlight \in [Apis -> SUBSET Keys]

(* A step of the readers, with the table left alone.                       *)
LEMMA ReadersStep ==
  ASSUME UNCHANGED table, \A x \in Readers : ReaderOK(reader'[x]),
         DOMAIN stored' \subseteq Keys, \A k \in DOMAIN stored' : stored'[k] \in 1..Len(table),
         inFlight' \in [Apis -> SUBSET Keys]
  PROVE  ReadsOK'
<1>1. \A x \in Readers : ReaderOK(reader[x])'
  BY DEF ReaderOK, WalkOK, WalkType
<1> QED BY <1>1 DEF ReadsOK

LEMMA SetReaderOK ==
  ASSUME ReadsOK, CoalescedInv, UNCHANGED <<table, stored, inFlight>>,
         NEW r \in Readers, NEW s, ReaderOK(s), SetReader(r, s)
  PROVE  ReadsOK'
<1>1. \A x \in Readers : reader'[x] = IF x = r THEN s ELSE reader[x]
  BY DEF SetReader, CoalescedInv, ReadersOK
<1>2. \A x \in Readers : ReaderOK(reader'[x])
  BY <1>1 DEF ReadsOK
<1> QED BY <1>2, ReadersStep DEF ReadsOK

LEMMA AskOK ==
  ASSUME ReadsOK, RowsOK, CoalescedInv, NEW r \in Readers, Ask(r)
  PROVE  ReadsOK'
<1>1. ReaderOK(reader[r]) /\ IsReader(reader[r]) /\ TableOK
  BY DEF ReadsOK, CoalescedInv, ReadersOK, RowsOK
<1>2. PICK i \in Apis :
        \/ \E p \in DOMAIN Now : AskDetail(r, i, p)
        \/ crowd[r] \in Tokens /\ \E q \in Queries : AskFirstPage(r, i, q, crowd[r])
        \/ AskNextPage(r, i)
  BY DEF Ask
<1>3. ASSUME NEW p \in DOMAIN Now, AskDetail(r, i, p) PROVE ReadsOK'
  <2> DEFINE s == [IdleReader EXCEPT !.phase = "get", !.api = i, !.key = productCacheKey(p)]
  <2>1. /\ s.phase = "get" /\ s.key = productCacheKey(p) /\ s.walk = NoWalk /\ s.api = i
        /\ s.value = 0
    BY DEF IdleReader
  <2>2. SetReader(r, s) /\ UNCHANGED <<table, stored, inFlight>>
    BY <1>3 DEF AskDetail, Quiet
  <2>3. p \in DOMAIN Category
    BY <1>1, TableIndex DEF RowsOK, Now
  <2>4. 0 \in 0..Len(table)
    BY <1>1, TableIndex
  <2> HIDE DEF s
  <2>5. ReaderOK(s)
    BY <2>1, <2>3, <2>4, KeyKinds, NoWalkStarts DEF ReaderOK, Asking, Keyed, Phases
  <2> QED BY <2>2, <2>5, SetReaderOK
<1>4. ASSUME crowd[r] \in Tokens, NEW q \in Queries, AskFirstPage(r, i, q, crowd[r]) PROVE ReadsOK'
  <2> DEFINE walk == [NoWalk EXCEPT !.query = q, !.token = crowd[r]]
             s == [reader[r] EXCEPT !.phase = "version", !.api = i, !.walk = walk]
  <2>1. SetReader(r, s) /\ UNCHANGED <<table, stored, inFlight>>
    BY <1>4 DEF AskFirstPage, Quiet
  <2>2. walk \in WalkType /\ WalkOK(walk) /\ walk.token # End
    <3>1. /\ walk \in WalkType /\ walk.query = q /\ walk.token = crowd[r]
          /\ walk.seen = NoWalk.seen /\ walk.used = NoWalk.used
      <4>1. PICK t \in Tokens : t = crowd[r]
        BY <1>4
      <4>2. PICK z \in WalkType : z = NoWalk
        BY NoWalkStarts
      <4>3. PICK u : u = walk
        OBVIOUS
      <4>4. u = [z EXCEPT !.query = q, !.token = t]
        BY <4>1, <4>2, <4>3
      <4>5. u \in WalkType /\ u.query = q /\ u.token = t /\ u.seen = z.seen /\ u.used = z.used
        <5> HIDE DEF walk
        <5> QED BY <4>4 DEF WalkType
      <4> HIDE DEF walk
      <4> QED BY <4>1, <4>2, <4>3, <4>5
    <3>2. NoWalk.used = {} /\ \A p \in DOMAIN Category : NoWalk.seen[p] = 0
      BY NoWalkStarts DEF NoWalk
    <3> HIDE DEF walk
    <3> QED BY <1>4, <3>1, <3>2, TokenShapes DEF WalkOK
  <2> HIDE DEF walk
  <2>3. /\ s.key = reader[r].key /\ s.walk = walk /\ s.phase = "version" /\ s.api = i
        /\ s.value = reader[r].value
    BY <1>1 DEF IsReader
  <2> HIDE DEF s
  <2>4. ReaderOK(s)
    BY <2>2, <2>3, <1>1 DEF ReaderOK, Asking, Keyed, Phases
  <2> QED BY <2>1, <2>4, SetReaderOK
<1>5. ASSUME AskNextPage(r, i) PROVE ReadsOK'
  <2> DEFINE s == [reader[r] EXCEPT !.phase = "version", !.api = i]
  <2>1. SetReader(r, s) /\ UNCHANGED <<table, stored, inFlight>> /\ reader[r].walk.token # End
    BY <1>5 DEF AskNextPage, Quiet
  <2>2. /\ s.key = reader[r].key /\ s.walk = reader[r].walk /\ s.phase = "version" /\ s.api = i
        /\ s.value = reader[r].value
    BY <1>1 DEF IsReader
  <2> HIDE DEF s
  <2>3. ReaderOK(s)
    BY <2>1, <2>2, <1>1 DEF ReaderOK, Asking, Keyed, Phases
  <2> QED BY <2>1, <2>3, SetReaderOK
<1> QED
  BY <1>2, <1>3, <1>4, <1>5

LEMMA ReadVersionOK ==
  ASSUME ReadsOK, HidesInv, CoalescedInv, NEW r \in Readers, ReadVersion(r)
  PROVE  ReadsOK'
<1> DEFINE walk == reader[r].walk
           s(k) == [reader[r] EXCEPT !.phase = "get", !.key = k]
<1>1. ReaderOK(reader[r]) /\ IsReader(reader[r]) /\ reader[r].phase = "version"
  BY DEF ReadsOK, CoalescedInv, ReadersOK, ReadVersion
<1>2. PICK v \in {0, Version(walk.query.scope)} : SetReader(r, s(listCacheKey(walk.query, v, walk.token)))
  BY DEF ReadVersion
<1>3. UNCHANGED <<table, stored, inFlight>>
  BY DEF ReadVersion, Quiet
<1>4. walk.query \in Queries /\ walk.token \in Tokens \cup Positions
  BY <1>1 DEF ReaderOK, WalkType, Asking
<1>5. v \in Nat
  BY <1>4, QueryScope, BumpsAt DEF HidesInv
<1> DEFINE k == listCacheKey(walk.query, v, walk.token)
<1>6. /\ s(k).key = k /\ s(k).walk = walk /\ s(k).phase = "get" /\ s(k).api = reader[r].api
      /\ s(k).value = reader[r].value
  BY <1>1 DEF IsReader
<1>7. k \in Keys
  BY <1>4, <1>5, KeyKinds
<1>8. walk.token # End
  BY <1>1 DEF ReaderOK, Asking
<1> HIDE DEF s, k
<1>9. ReaderOK(s(k))
  BY <1>1, <1>6, <1>7, <1>8 DEF ReaderOK, Asking, Keyed, Phases
<1> QED
  BY <1>2, <1>3, <1>9, SetReaderOK DEF k

LEMMA HitOK ==
  ASSUME ReadsOK, RowsOK, CoalescedInv, NEW r \in Readers, Hit(r)
  PROVE  ReadsOK'
<1> DEFINE n == stored[reader[r].key]
           s == Served(reader[r], n)
<1>1. SetReader(r, s) /\ UNCHANGED <<table, stored, inFlight>>
  BY DEF Hit, Quiet
<1>2. n \in DOMAIN table
  BY TableIndex DEF Hit, ReadsOK, RowsOK
<1>3. ReaderOK(s)
  BY <1>2, ServedOK DEF ReadsOK, CoalescedInv, ReadersOK
<1> HIDE DEF s
<1> QED BY <1>1, <1>3, SetReaderOK

LEMMA MissOK ==
  ASSUME ReadsOK, CoalescedInv, NEW r \in Readers, Miss(r)
  PROVE  ReadsOK'
<1> DEFINE new == IF reader[r].key \in inFlight[reader[r].api] THEN "joined" ELSE "loading"
           s == [reader[r] EXCEPT !.phase = new]
<1>1. ReaderOK(reader[r]) /\ IsReader(reader[r]) /\ reader[r].phase = "get"
  BY DEF ReadsOK, CoalescedInv, ReadersOK, Miss
<1>2. /\ SetReader(r, s) /\ UNCHANGED <<table, stored>>
      /\ inFlight' = [inFlight EXCEPT ![reader[r].api] = @ \cup {reader[r].key}]
  BY DEF Miss, Quiet
<1>3. reader[r].key \in Keys /\ reader[r].api \in Apis
  BY <1>1 DEF ReaderOK, Keyed
<1>4. inFlight' \in [Apis -> SUBSET Keys]
  BY <1>2, <1>3 DEF ReadsOK
<1>5. new \in {"joined", "loading"}
  OBVIOUS
<1> HIDE DEF new
<1>6. /\ s.key = reader[r].key /\ s.walk = reader[r].walk /\ s.phase = new
      /\ s.api = reader[r].api /\ s.value = reader[r].value
  BY <1>1 DEF IsReader
<1> HIDE DEF s
<1>7. ReaderOK(s)
  BY <1>1, <1>3, <1>5, <1>6 DEF ReaderOK, Asking, Keyed, Phases
<1>8. \A x \in Readers : ReaderOK(reader'[x])
  BY <1>2, <1>7 DEF ReadsOK, SetReader, CoalescedInv, ReadersOK
<1> QED BY <1>2, <1>4, <1>8, ReadersStep DEF ReadsOK

LEMMA LoadOK ==
  ASSUME ReadsOK, RowsOK, CoalescedInv, NEW r \in Readers, Load(r)
  PROVE  ReadsOK'
<1> DEFINE s == [reader[r] EXCEPT !.phase = "storing", !.value = Len(table)]
<1>1. ReaderOK(reader[r]) /\ IsReader(reader[r]) /\ reader[r].phase = "loading"
  BY DEF ReadsOK, CoalescedInv, ReadersOK, Load
<1>2. SetReader(r, s) /\ UNCHANGED <<table, stored, inFlight>>
  BY DEF Load, Quiet
<1>3. /\ s.key = reader[r].key /\ s.walk = reader[r].walk /\ s.phase = "storing"
      /\ s.api = reader[r].api /\ s.value = Len(table)
  BY <1>1 DEF IsReader
<1>4. Len(table) \in 1..Len(table) /\ Len(table) \in 0..Len(table)
  BY TableIndex DEF RowsOK
<1> HIDE DEF s
<1>5. ReaderOK(s)
  BY <1>1, <1>3, <1>4 DEF ReaderOK, Asking, Keyed, Phases
<1> QED BY <1>2, <1>5, SetReaderOK

LEMMA StoreOK ==
  ASSUME ReadsOK, RowsOK, CoalescedInv, NEW r \in Readers, Store(r) \/ LoadFails(r)
  PROVE  ReadsOK'
<1> DEFINE s(x) == IF Store(r) THEN Served(reader[x], reader[r].value) ELSE IdleReader
           key == reader[r].key
<1>1. reader' = [x \in Readers |-> IF x \in Sharing(r) THEN s(x) ELSE reader[x]]
  BY DEF Store, LoadFails
<1>2. \A x \in Readers : ReaderOK(reader[x]) /\ IsReader(reader[x])
  BY DEF ReadsOK, CoalescedInv, ReadersOK
<1>3. Store(r) => reader[r].value \in DOMAIN table /\ key \in Keys
  BY <1>2, TableIndex DEF Store, ReaderOK, Keyed, RowsOK
<1>4. \A x \in Readers : ReaderOK(s(x))
  BY <1>2, <1>3, ServedOK, IdleOK DEF RowsOK
<1>5. \A x \in Readers : ReaderOK(reader'[x])
  <2> HIDE DEF s
  <2> QED BY <1>1, <1>2, <1>4
<1>6. inFlight' \in [Apis -> SUBSET Keys]
  <2>1. inFlight' = [inFlight EXCEPT ![reader[r].api] = @ \ {key}]
    BY DEF Store, LoadFails, Release
  <2> QED BY <2>1 DEF ReadsOK
<1>7. UNCHANGED table
  BY DEF Store, LoadFails, Quiet
<1>8. CASE UNCHANGED stored
  BY <1>5, <1>6, <1>7, <1>8, ReadersStep DEF ReadsOK
<1>9. CASE Store(r) /\ stored' = With(key, reader[r].value)
  <2>1. /\ DOMAIN stored' = DOMAIN stored \cup {key}
        /\ \A k \in DOMAIN stored' : stored'[k] = IF k = key THEN reader[r].value ELSE stored[k]
    BY <1>9 DEF With
  <2>2. reader[r].value \in 1..Len(table)
    BY <1>3, <1>9, TableIndex DEF RowsOK
  <2>3. DOMAIN stored' \subseteq Keys /\ \A k \in DOMAIN stored' : stored'[k] \in 1..Len(table)
    BY <1>3, <1>9, <2>1, <2>2 DEF ReadsOK
  <2> QED BY <1>5, <1>6, <1>7, <2>3, ReadersStep
<1> QED BY <1>8, <1>9 DEF Store, LoadFails

(* The table only grows, and what has been read stays where it was.        *)
LEMMA GrowOK ==
  ASSUME ReadsOK, TableOK, TableOK', UNCHANGED <<reader, inFlight>>,
         Len(table) <= Len(table'), \A n \in DOMAIN table : table'[n] = table[n],
         DOMAIN stored' \subseteq DOMAIN stored, \A k \in DOMAIN stored' : stored'[k] = stored[k]
  PROVE  ReadsOK'
<1>1. /\ Len(table) \in Nat /\ DOMAIN table = 1..Len(table)
      /\ Len(table') \in Nat /\ DOMAIN table' = 1..Len(table')
  BY TableIndex DEF TableOK
<1>2. DOMAIN table \subseteq DOMAIN table'
  BY <1>1
<1>3. ASSUME NEW r \in Readers PROVE ReaderOK(reader[r])'
  <2>1. PICK s : s = reader[r]
    OBVIOUS
  <2>2. ReaderOK(s) /\ reader'[r] = s
    BY <2>1 DEF ReadsOK
  <2>3. /\ s.walk.query \in Queries /\ s.walk.token \in Tokens \cup {End} \cup Positions
        /\ s.walk.seen \in [DOMAIN Category -> 0..2] /\ s.walk.used \subseteq DOMAIN table
        /\ s.walk = [query |-> s.walk.query, token |-> s.walk.token,
                     seen |-> s.walk.seen, used |-> s.walk.used]
    BY <2>2 DEF ReaderOK, WalkType
  <2>4. (s.walk \in WalkType)'
    BY <1>2, <2>3 DEF WalkType
  <2>5. \A n \in s.walk.used : table'[n] = table[n]
    BY <2>3
  <2>6. WalkOK(s.walk)'
    <3> USE DEF WalkOK
    <3>1. WalkOK(s.walk)
      BY <2>2 DEF ReaderOK
    <3> QED BY <2>5, <3>1
  <2>7. s.value \in 0..Len(table') /\ (s.phase = "storing" => s.value \in 1..Len(table'))
    BY <1>1, <2>2 DEF ReaderOK
  <2> QED BY <2>2, <2>4, <2>6, <2>7 DEF ReaderOK, Asking, Keyed
<1>4. \A k \in DOMAIN stored' : stored'[k] \in 1..Len(table')
  BY <1>1 DEF ReadsOK
<1> QED BY <1>3, <1>4 DEF ReadsOK
-------------------------------------------------------------------------------
(* The breakers and the faults.                                            *)
BreakersOK ==
  /\ breaker \in [Apis -> [failures : 0..Threshold, open : BOOLEAN]]
  /\ faults \in 0..MaxFaults

LEMMA FaultBound ==
  ASSUME BreakersOK, Fault
  PROVE  faults' \in 0..MaxFaults
BY CacheBoundsAssumption DEF BreakersOK, Fault

LEMMA CallOK ==
  ASSUME BreakersOK, NEW i \in Apis, Answered(i) \/ Skipped(i) \/ Failed(i)
  PROVE  BreakersOK'
<1>1. CASE Answered(i)
  <2>1. 0 \in 0..Threshold
    BY CacheBoundsAssumption
  <2> QED BY <1>1, <2>1 DEF Answered, BreakersOK
<1>2. CASE Skipped(i)
  BY <1>2 DEF Skipped, BreakersOK
<1>3. CASE Failed(i)
  <2> DEFINE n == breaker[i].failures + 1
             new == [failures |-> IF n < Threshold THEN n ELSE Threshold, open |-> n >= Threshold]
  <2>1. Threshold \in Nat /\ n \in Nat
    BY CacheBoundsAssumption DEF BreakersOK
  <2>2. (IF n < Threshold THEN n ELSE Threshold) \in 0..Threshold
    BY <2>1
  <2>3. new \in [failures : 0..Threshold, open : BOOLEAN]
    BY <2>2
  <2>4. breaker' = [breaker EXCEPT ![i] = new] /\ Fault
    BY <1>3 DEF Failed
  <2> HIDE DEF new
  <2>5. breaker' \in [Apis -> [failures : 0..Threshold, open : BOOLEAN]]
    BY <2>3, <2>4 DEF BreakersOK
  <2> QED BY <2>4, <2>5, FaultBound DEF BreakersOK
<1> QED BY <1>1, <1>2, <1>3

LEMMA BreakersFrame ==
  ASSUME BreakersOK, UNCHANGED breaker, UNCHANGED faults \/ Fault
  PROVE  BreakersOK'
BY FaultBound DEF BreakersOK

(* The writers: what is still to be done of a write commits once, and room *)
(* for every commit to come is kept.                                       *)
OneTable(todo) ==
  \A i, j \in DOMAIN todo : todo[i].do \in Commits /\ todo[j].do \in Commits => i = j
Pending == {w \in Writers : WillCommit(w)}
WritersOK ==
  /\ RowsOK
  /\ writer \in [Writers -> Seq(Todo)] /\ \A w \in Writers : OneTable(writer[w])
  /\ Len(table) + Cardinality(Pending) <= MaxStates

LEMMA PendingFinite ==
  /\ IsFiniteSet(Pending) /\ Cardinality(Pending) \in Nat
  /\ \A S : S \subseteq Pending => IsFiniteSet(S) /\ Cardinality(S) <= Cardinality(Pending)
<1>1. Pending \subseteq Writers
  BY DEF Pending
<1>2. IsFiniteSet(Pending)
  BY <1>1, CacheBoundsAssumption, FS_Subset
<1> QED BY <1>2, FS_CardinalityType, FS_Subset

LEMMA TodoKinds ==
  /\ \A i \in Apis, s \in Scopes : Bump(i, s) \in Todo /\ Bump(i, s).do = "bump"
  /\ \A i \in Apis, p \in DOMAIN Category : Del(i, p) \in Todo /\ Del(i, p).do = "del"
  /\ \A p \in DOMAIN Category : /\ Table(p) \in Todo /\ Table(p).do \in Commits
                                 /\ Move(p) \in Todo /\ Move(p).do \in Commits
                                 /\ Purge(p) \in Todo /\ Purge(p).do = "purge"
BY DEF Todo, Commits, Bump, Del, Table, Move, Purge

LEMMA TodoShape ==
  ASSUME NEW t \in Todo
  PROVE  /\ t.do \in Commits => t.on \in DOMAIN Category
         /\ t.do \in {"bump", "del"} => t.api \in Apis
BY DEF Todo, Commits

(* What is known of any sequence of work.                                  *)
LEMMA TailKnown ==
  ASSUME NEW S, NEW q \in Seq(S), q # <<>>
  PROVE  /\ Head(q) = q[1] /\ 1 \in DOMAIN q /\ q[1] \in S
         /\ Tail(q) \in Seq(S)
         /\ \A j \in DOMAIN Tail(q) : j + 1 \in DOMAIN q /\ Tail(q)[j] = q[j + 1]
OBVIOUS

(* A write that is put down leaves at most as many commits to come.        *)
LEMMA LessTodo ==
  ASSUME WritersOK, TableOK', UNCHANGED table, NEW w \in Writers, NEW todo \in Seq(Todo),
         writer' = [writer EXCEPT ![w] = todo], OneTable(todo),
         \A j \in DOMAIN todo : todo[j].do \in Commits => WillCommit(w)
  PROVE  WritersOK'
<1>1. writer' \in [Writers -> Seq(Todo)]
  <2> DEFINE T == Seq(Todo)
  <2> HIDE DEF T
  <2>1. writer \in [Writers -> T] /\ todo \in T
    BY DEF WritersOK, T
  <2>2. writer' \in [Writers -> T]
    BY <2>1
  <2> QED BY <2>2 DEF T
<1>2. \A x \in Writers : writer'[x] = IF x = w THEN todo ELSE writer[x]
  BY DEF WritersOK
<1>3. \A x \in Writers : OneTable(writer[x])'
  BY <1>2 DEF WritersOK, OneTable
<1>4. Pending' \subseteq Pending
  BY <1>2 DEF Pending, WillCommit
<1>5. Cardinality(Pending') <= Cardinality(Pending) /\ Cardinality(Pending') \in Nat
  BY <1>4, PendingFinite, FS_CardinalityType
<1>6. Len(table) \in Nat /\ MaxStates \in Nat /\ Cardinality(Pending) \in Nat
  BY TableIndex, PendingFinite, CacheBoundsAssumption DEF WritersOK, RowsOK
<1>7. Len(table') + Cardinality(Pending') <= MaxStates
  BY <1>5, <1>6 DEF WritersOK
<1> QED BY <1>1, <1>3, <1>7 DEF WritersOK, RowsOK

LEMMA BeginOK ==
  ASSUME WritersOK, TableOK', NEW w \in Writers, NEW todo \in Seq(Todo), OneTable(todo),
         Begin(w, todo)
  PROVE  WritersOK'
<1>1. UNCHANGED table /\ writer' = [writer EXCEPT ![w] = todo] /\ writer[w] = <<>>
  BY DEF Begin
<1>2. Len(table) + Cardinality(Pending) < MaxStates
  BY DEF Begin, Pending
<1>3. \A x \in Writers : writer'[x] = IF x = w THEN todo ELSE writer[x]
  BY <1>1 DEF WritersOK
<1>4. writer' \in [Writers -> Seq(Todo)]
  <2> DEFINE T == Seq(Todo)
  <2> HIDE DEF T
  <2>1. writer \in [Writers -> T] /\ todo \in T
    BY DEF WritersOK, T
  <2>2. writer' \in [Writers -> T]
    BY <1>1, <2>1
  <2> QED BY <2>2 DEF T
<1>5. \A x \in Writers : OneTable(writer[x])'
  BY <1>3 DEF WritersOK, OneTable
<1>6. Pending' \subseteq Pending \cup {w}
  BY <1>3 DEF Pending, WillCommit
<1>7. /\ IsFiniteSet(Pending \cup {w}) /\ Cardinality(Pending \cup {w}) \in Nat
      /\ Cardinality(Pending \cup {w}) <= Cardinality(Pending) + 1
  <2>1. Cardinality(Pending \cup {w}) = IF w \in Pending THEN Cardinality(Pending)
                                                        ELSE Cardinality(Pending) + 1
    BY PendingFinite, FS_AddElement
  <2>2. IsFiniteSet(Pending \cup {w})
    BY PendingFinite, FS_AddElement
  <2> QED BY <2>1, <2>2, PendingFinite
<1>8. Cardinality(Pending') \in Nat /\ Cardinality(Pending') <= Cardinality(Pending \cup {w})
  <2>1. IsFiniteSet(Pending')
    BY <1>6, <1>7, FS_Subset
  <2> QED BY <1>6, <1>7, <2>1, FS_Subset, FS_CardinalityType
<1>9. Len(table) \in Nat /\ MaxStates \in Nat /\ Cardinality(Pending) \in Nat
  BY TableIndex, PendingFinite, CacheBoundsAssumption DEF WritersOK, RowsOK
<1>10. Len(table') + Cardinality(Pending') <= MaxStates
  BY <1>1, <1>2, <1>7, <1>8, <1>9
<1> QED BY <1>1, <1>4, <1>5, <1>10 DEF WritersOK, RowsOK

LEMMA StartWriteOK ==
  ASSUME WritersOK, TableOK', NEW w \in Writers, StartWrite(w)
  PROVE  WritersOK'
<1>1. DOMAIN Now \subseteq DOMAIN Category /\ Newcomers \subseteq DOMAIN Category
  BY TableIndex, ShelfAssumption DEF WritersOK, RowsOK, Now
<1>2. /\ \A p \in DOMAIN Now : Now[p].category \in Scopes
      /\ \A p \in DOMAIN Category : Category[p] \in Scopes
      /\ All \in Scopes
  BY TableIndex DEF WritersOK, RowsOK, Row, Now, Scopes, Categories
<1>3. PICK p \in DOMAIN Category, i \in Apis :
        \/ Reproject(w, p) \/ Upsert(w, p) \/ Ingest(w, p)
        \/ p \in DOMAIN Now /\ (PromoteCategory(w, i, p) \/ PromoteProduct(w, i, p))
        \/ Create(w, i, p)
  BY <1>1, CacheAssumption DEF StartWrite
<1> DEFINE c == IF p \in DOMAIN Now THEN Now[p].category ELSE Category[p]
           b == Bump(i, c)
           a == Bump(i, All)
           d == Del(i, p)
           t == Table(p)
           m == Move(p)
           u == Purge(p)
<1>4. /\ b \in Todo /\ a \in Todo /\ d \in Todo /\ t \in Todo /\ m \in Todo /\ u \in Todo
      /\ b.do = "bump" /\ a.do = "bump" /\ d.do = "del" /\ u.do = "purge"
      /\ t.do \in Commits /\ m.do \in Commits /\ {"bump", "del", "purge"} \cap Commits = {}
  <2>1. c \in Scopes
    BY <1>2
  <2> HIDE DEF c
  <2> QED BY <1>2, <2>1, TodoKinds DEF Commits
<1>5. \/ Begin(w, <<t, u>>) \/ Begin(w, <<t>>) \/ Begin(w, <<m>>) \/ Begin(w, <<b, a, t, u>>)
      \/ Begin(w, <<d, b, a, t, u>>) \/ Begin(w, <<t, b, a>>)
  BY <1>3 DEF Reproject, Upsert, Ingest, PromoteCategory, PromoteProduct, Create
<1> HIDE DEF b, a, d, t, m, u
<1>6. /\ <<t, u>> \in Seq(Todo) /\ <<t>> \in Seq(Todo) /\ <<m>> \in Seq(Todo)
      /\ <<b, a, t, u>> \in Seq(Todo)
      /\ <<d, b, a, t, u>> \in Seq(Todo) /\ <<t, b, a>> \in Seq(Todo)
  BY <1>4
<1>7. /\ OneTable(<<t, u>>) /\ OneTable(<<t>>) /\ OneTable(<<m>>) /\ OneTable(<<b, a, t, u>>)
      /\ OneTable(<<d, b, a, t, u>>) /\ OneTable(<<t, b, a>>)
  BY <1>4 DEF OneTable
<1> QED BY <1>5, <1>6, <1>7, BeginOK

(* The work behind the first step of a write.                              *)
LEMMA TailTodo ==
  ASSUME WritersOK, NEW w \in Writers, writer[w] # <<>>
  PROVE  /\ Tail(writer[w]) \in Seq(Todo) /\ OneTable(Tail(writer[w]))
         /\ Head(writer[w]) \in Todo
         /\ \A j \in DOMAIN Tail(writer[w]) : Tail(writer[w])[j].do \in Commits => WillCommit(w)
         /\ Head(writer[w]).do \in Commits =>
              WillCommit(w) /\ \A j \in DOMAIN Tail(writer[w]) : Tail(writer[w])[j].do \notin Commits
<1> DEFINE q == writer[w]
<1>1. q \in Seq(Todo) /\ OneTable(q)
  BY DEF WritersOK
<1>2. /\ Head(q) = q[1] /\ 1 \in DOMAIN q /\ q[1] \in Todo /\ Tail(q) \in Seq(Todo)
      /\ \A j \in DOMAIN Tail(q) : j \in Nat \ {0} /\ j + 1 \in DOMAIN q /\ Tail(q)[j] = q[j + 1]
  <2> HIDE DEF q
  <2>1. DOMAIN Tail(q) \subseteq Nat \ {0}
    BY <1>1, q # <<>> DEF q
  <2> QED BY <1>1, <2>1, TailKnown DEF q
<1>3. OneTable(Tail(q))
  <2> SUFFICES ASSUME NEW j \in DOMAIN Tail(q), NEW k \in DOMAIN Tail(q),
                      Tail(q)[j].do \in Commits, Tail(q)[k].do \in Commits
               PROVE  j = k
    BY DEF OneTable
  <2>1. j + 1 = k + 1
    BY <1>1, <1>2 DEF OneTable
  <2> QED BY <1>2, <2>1
<1>4. \A j \in DOMAIN Tail(q) : Tail(q)[j].do \in Commits => WillCommit(w)
  BY <1>2 DEF WillCommit
<1>5. ASSUME Head(q).do \in Commits
      PROVE  WillCommit(w) /\ \A j \in DOMAIN Tail(q) : Tail(q)[j].do \notin Commits
  <2>1. WillCommit(w)
    BY <1>2, <1>5 DEF WillCommit
  <2>2. \A j \in DOMAIN Tail(q) : j + 1 # 1
    BY <1>2
  <2> QED BY <1>1, <1>2, <1>5, <2>1, <2>2 DEF OneTable
<1> QED BY <1>2, <1>3, <1>4, <1>5

LEMMA CommitOK ==
  ASSUME WritersOK, TableOK', NEW w \in Writers, Commit(w) \/ CommitUpsert(w)
  PROVE  /\ WritersOK' /\ Len(table) <= Len(table')
         /\ \A n \in DOMAIN table : table'[n] = table[n]
<1> DEFINE p == Head(writer[w]).on
<1>1. /\ writer[w] # <<>> /\ Head(writer[w]).do \in Commits
      /\ writer' = [writer EXCEPT ![w] = Tail(writer[w])]
  BY DEF Commit, CommitUpsert, Step, Commits
<1> DEFINE shelf(r) == [x \in DOMAIN Now \cup {p} |-> IF x = p THEN r ELSE Now[x]]
           S == {table[n] : n \in DOMAIN table}
<1>3. table \in Seq(S) /\ Len(table) \in Nat /\ DOMAIN table = 1..Len(table)
  BY TableIndex DEF WritersOK, RowsOK, TableOK
<1>4. p \in DOMAIN Category
  <2>1. PICK t \in Todo : t = Head(writer[w])
    BY <1>1, TailTodo
  <2> QED BY <1>1, <2>1, TodoShape
<1>5. \A x \in DOMAIN Now : x \in DOMAIN Category /\ Now[x] \in Row
  BY TableIndex DEF WritersOK, RowsOK, Now
<1>6. PICK r \in Row : table' = Append(table, shelf(r))
  <2>1. CASE Commit(w)
    <3>1. PICK price \in Prices :
            table' = Append(table, NowWith(p, [price |-> price, category |-> CategoryOf(p)]))
      BY <2>1 DEF Commit
    <3>2. CategoryOf(p) \in Categories
      BY <1>4, <1>5 DEF CategoryOf, Row, Categories
    <3>3. [price |-> price, category |-> CategoryOf(p)] \in Row
      BY <3>2 DEF Row
    <3> QED BY <3>1, <3>3 DEF NowWith
  <2>2. CASE CommitUpsert(w)
    <3>1. PICK price \in Prices, c \in Categories :
            table' = Append(table, NowWith(p, [price |-> price, category |-> c]))
      BY <2>2 DEF CommitUpsert
    <3>2. [price |-> price, category |-> c] \in Row
      BY DEF Row
    <3> QED BY <3>1, <3>2 DEF NowWith
  <2> QED BY <2>1, <2>2
<1> DEFINE row == shelf(r)
<1>6a. \A x \in DOMAIN row : x \in DOMAIN Category /\ row[x] \in Row
  BY <1>4, <1>5
<1>6b. table' = Append(table, row)
  BY <1>6
<1> HIDE DEF row, S, p
<1>7. /\ Len(table') = Len(table) + 1 /\ DOMAIN table' = 1..Len(table) + 1
      /\ \A n \in 1..Len(table) + 1 : table'[n] = IF n = Len(table) + 1 THEN row ELSE table[n]
  <2>1. table \in Seq(S \cup {row})
    BY <1>3
  <2> QED BY <1>6b, <2>1
<1>8. Len(table) <= Len(table') /\ \A n \in DOMAIN table : table'[n] = table[n]
  BY <1>3, <1>7
<1>9. RowsOK'
  <2> SUFFICES ASSUME NEW n \in DOMAIN table'
               PROVE  \A x \in DOMAIN table'[n] : x \in DOMAIN Category /\ table'[n][x] \in Row
    BY DEF RowsOK
  <2>1. CASE n = Len(table) + 1
    BY <1>3, <1>6a, <1>7, <2>1
  <2>2. CASE n # Len(table) + 1
    <3>1. n \in DOMAIN table /\ table'[n] = table[n]
      BY <1>3, <1>7, <2>2
    <3> QED BY <3>1 DEF WritersOK, RowsOK
  <2> QED BY <2>1, <2>2
<1> DEFINE todo == Tail(writer[w])
<1>10. /\ todo \in Seq(Todo) /\ OneTable(todo) /\ WillCommit(w)
       /\ \A j \in DOMAIN todo : todo[j].do \notin Commits
  BY <1>1, TailTodo
<1>11. writer' = [writer EXCEPT ![w] = todo]
  BY <1>1
<1> HIDE DEF todo
<1>12. \A x \in Writers : writer'[x] = IF x = w THEN todo ELSE writer[x]
  BY <1>11 DEF WritersOK
<1>13. writer' \in [Writers -> Seq(Todo)]
  <2> DEFINE T == Seq(Todo)
  <2> HIDE DEF T
  <2>1. writer \in [Writers -> T] /\ todo \in T
    BY <1>10 DEF WritersOK, T
  <2>2. writer' \in [Writers -> T]
    BY <1>11, <2>1
  <2> QED BY <2>2 DEF T
<1>14. \A x \in Writers : OneTable(writer[x])'
  BY <1>10, <1>12 DEF WritersOK, OneTable
<1>15. Pending' \subseteq Pending \ {w} /\ w \in Pending
  BY <1>10, <1>12 DEF Pending, WillCommit
<1>16. /\ Cardinality(Pending \ {w}) = Cardinality(Pending) - 1 /\ IsFiniteSet(Pending \ {w})
       /\ Cardinality(Pending \ {w}) \in Nat
  BY <1>15, PendingFinite, FS_RemoveElement, FS_CardinalityType
<1>17. Cardinality(Pending') \in Nat /\ Cardinality(Pending') <= Cardinality(Pending \ {w})
  <2>1. IsFiniteSet(Pending')
    BY <1>15, <1>16, FS_Subset
  <2> QED BY <1>15, <1>16, <2>1, FS_Subset, FS_CardinalityType
<1>18. MaxStates \in Nat /\ Cardinality(Pending) \in Nat
  BY PendingFinite, CacheBoundsAssumption
<1>19. Len(table') + Cardinality(Pending') <= MaxStates
  BY <1>3, <1>7, <1>16, <1>17, <1>18 DEF WritersOK
<1> QED BY <1>8, <1>9, <1>13, <1>14, <1>19 DEF WritersOK

LEMMA WritersNext ==
  ASSUME WritersOK, TableOK', [Next]_vars
  PROVE  WritersOK'
<1>1. ASSUME NEW w \in Writers, StartWrite(w) PROVE WritersOK'
  BY <1>1, StartWriteOK
<1>2. ASSUME NEW w \in Writers, Commit(w) \/ CommitUpsert(w) PROVE WritersOK'
  BY <1>2, CommitOK
<1>3. ASSUME NEW w \in Writers, BumpVersion(w) \/ DelDetail(w) \/ PurgeDetail(w) PROVE WritersOK'
  <2>1. UNCHANGED table /\ writer[w] # <<>> /\ writer' = [writer EXCEPT ![w] = Tail(writer[w])]
    BY <1>3 DEF BumpVersion, DelDetail, PurgeDetail, Step
  <2> QED BY <2>1, TailTodo, LessTodo
<1>4. ASSUME NEW w \in Writers, WriterDies(w) PROVE WritersOK'
  <2>1. UNCHANGED table /\ writer' = [writer EXCEPT ![w] = <<>>]
    BY <1>4 DEF WriterDies
  <2>2. <<>> \in Seq(Todo) /\ DOMAIN <<>> = {}
    OBVIOUS
  <2> QED BY <2>1, <2>2, LessTodo DEF OneTable
<1>5. ASSUME UNCHANGED <<table, writer>> PROVE WritersOK'
  BY <1>5 DEF WritersOK, RowsOK, Pending, WillCommit, OneTable
<1>6. ASSUME NEW r \in Readers, Ask(r) \/ Answer(r) \/ LoadFails(r) PROVE UNCHANGED <<table, writer>>
  BY <1>6 DEF Ask, AskDetail, AskFirstPage, AskNextPage, Answer, ReadVersion, Hit, Miss, Load, Store,
              LoadFails, Quiet
<1>7. ASSUME \/ \E i \in Apis : Cool(i)
             \/ \E k \in DOMAIN stored : Expire(k)
             \/ \E s \in Scopes : EvictVersion(s)
             \/ UNCHANGED vars
      PROVE  UNCHANGED <<table, writer>>
  BY <1>7 DEF Cool, Expire, EvictVersion, vars
<1> QED
  BY <1>1, <1>2, <1>3, <1>4, <1>5, <1>6, <1>7 DEF Next, Write

LEMMA BreakersNext ==
  ASSUME BreakersOK, WritersOK, CoalescedInv, [Next]_vars
  PROVE  BreakersOK'
<1>1. ASSUME NEW r \in Readers, Ask(r) \/ Load(r) PROVE BreakersOK'
  <2>1. UNCHANGED <<breaker, faults>>
    BY <1>1 DEF Ask, AskDetail, AskFirstPage, AskNextPage, Load
  <2> QED BY <2>1, BreakersFrame
<1>2. ASSUME NEW r \in Readers, ReadVersion(r) \/ Hit(r) \/ Miss(r) \/ Store(r) PROVE BreakersOK'
  <2> DEFINE i == reader[r].api
  <2>1. i \in Apis
    BY DEF CoalescedInv, ReadersOK, IsReader
  <2>2. Answered(i) \/ Skipped(i) \/ Failed(i)
    BY <1>2 DEF ReadVersion, Hit, Miss, Store, Applied, Dropped
  <2> HIDE DEF i
  <2> QED BY <2>1, <2>2, CallOK
<1>3. ASSUME NEW r \in Readers, LoadFails(r) PROVE BreakersOK'
  BY <1>3, BreakersFrame DEF LoadFails
<1>4. ASSUME NEW w \in Writers, StartWrite(w) \/ Commit(w) \/ CommitUpsert(w) \/ PurgeDetail(w) \/ WriterDies(w)
      PROVE  BreakersOK'
  <2>1. UNCHANGED breaker /\ (UNCHANGED faults \/ Fault)
    BY <1>4 DEF StartWrite, Reproject, Upsert, Ingest, PromoteCategory, PromoteProduct, Create, Begin,
                Commit, CommitUpsert, PurgeDetail, WriterDies
  <2> QED BY <2>1, BreakersFrame
<1>5. ASSUME NEW w \in Writers, BumpVersion(w) \/ DelDetail(w) PROVE BreakersOK'
  <2> DEFINE i == Head(writer[w]).api
  <2>1. i \in Apis
    <3>1. writer[w] # <<>> /\ Head(writer[w]).do \in {"bump", "del"}
      BY <1>5 DEF BumpVersion, DelDetail, Step
    <3>2. PICK t \in Todo : t = Head(writer[w])
      BY <3>1, TailTodo
    <3> QED BY <3>1, <3>2, TodoShape
  <2>2. Answered(i) \/ Skipped(i) \/ Failed(i)
    BY <1>5 DEF BumpVersion, DelDetail, Applied, Dropped
  <2> HIDE DEF i
  <2> QED BY <2>1, <2>2, CallOK
<1>6. ASSUME NEW i \in Apis, Cool(i) PROVE BreakersOK'
  BY <1>6 DEF Cool, BreakersOK
<1>7. ASSUME \/ \E k \in DOMAIN stored : Expire(k)
             \/ \E s \in Scopes : EvictVersion(s)
             \/ UNCHANGED vars
      PROVE  UNCHANGED breaker /\ (UNCHANGED faults \/ Fault)
  BY <1>7 DEF Expire, EvictVersion, vars
<1> QED
  BY <1>1, <1>2, <1>3, <1>4, <1>5, <1>6, <1>7, BreakersFrame DEF Next, Write, Answer

LEMMA ReadsNext ==
  ASSUME ReadsOK, WritersOK, HidesInv, CoalescedInv, TableOK', [Next]_vars
  PROVE  ReadsOK'
<1>1. RowsOK /\ TableOK
  BY DEF WritersOK, HidesInv
<1>2. ASSUME NEW r \in Readers, Ask(r) \/ Answer(r) \/ LoadFails(r) PROVE ReadsOK'
  BY <1>1, <1>2, AskOK, ReadVersionOK, HitOK, MissOK, LoadOK, StoreOK DEF Answer
<1>3. ASSUME NEW w \in Writers, Commit(w) \/ CommitUpsert(w) PROVE ReadsOK'
  <2>1. UNCHANGED <<reader, inFlight, stored>>
    BY <1>3 DEF Commit, CommitUpsert, Step
  <2> QED BY <1>1, <1>3, <2>1, CommitOK, GrowOK
<1>4. ASSUME UNCHANGED <<table, reader, inFlight>>, DOMAIN stored' \subseteq DOMAIN stored,
             \A k \in DOMAIN stored' : stored'[k] = stored[k]
      PROVE  ReadsOK'
  BY <1>1, <1>4, GrowOK, TableIndex
<1>5. ASSUME NEW w \in Writers, StartWrite(w) \/ WriterDies(w) \/ BumpVersion(w) PROVE ReadsOK'
  <2>1. UNCHANGED <<table, reader, inFlight, stored>>
    BY <1>5 DEF StartWrite, Reproject, Upsert, Ingest, PromoteCategory, PromoteProduct, Create, Begin,
                WriterDies, BumpVersion, Step
  <2> QED BY <1>4, <2>1
<1>6. ASSUME NEW w \in Writers, DelDetail(w) \/ PurgeDetail(w) PROVE ReadsOK'
  <2>1. UNCHANGED <<table, reader, inFlight>>
    BY <1>6 DEF DelDetail, PurgeDetail, Step
  <2>2. UNCHANGED stored \/ \E p : stored' = Without(p)
    BY <1>6 DEF DelDetail, PurgeDetail
  <2>3. DOMAIN stored' \subseteq DOMAIN stored /\ \A k \in DOMAIN stored' : stored'[k] = stored[k]
    BY <2>2 DEF Without
  <2> QED BY <1>4, <2>1, <2>3
<1>7. ASSUME \/ \E i \in Apis : Cool(i)
             \/ \E k \in DOMAIN stored : Expire(k)
             \/ \E s \in Scopes : EvictVersion(s)
             \/ UNCHANGED vars
      PROVE  ReadsOK'
  <2>1. UNCHANGED <<table, reader, inFlight>>
    BY <1>7 DEF Cool, Expire, EvictVersion, vars
  <2>2. DOMAIN stored' \subseteq DOMAIN stored /\ \A k \in DOMAIN stored' : stored'[k] = stored[k]
    BY <1>7 DEF Cool, Expire, EvictVersion, vars
  <2> QED BY <1>4, <2>1, <2>2
<1> QED
  BY <1>2, <1>3, <1>5, <1>6, <1>7 DEF Next, Write

CacheInv == ReadsOK /\ WritersOK /\ BreakersOK

LEMMA CacheInit == Init => CacheInv
<1> SUFFICES ASSUME Init PROVE CacheInv
  OBVIOUS
<1>1. /\ table = <<Shelf0>> /\ stored = <<>> /\ reader = [r \in Readers |-> IdleReader]
      /\ inFlight = [i \in Apis |-> {}] /\ writer = [w \in Writers |-> <<>>] /\ faults = 0
      /\ breaker = [i \in Apis |-> [failures |-> 0, open |-> FALSE]]
  BY DEF Init
<1>2. TableOK
  BY HidesInit DEF HidesInv
<1>3. ReadsOK
  BY <1>1, <1>2, IdleOK DEF ReadsOK
<1>4. BreakersOK
  <2>1. 0 \in 0..Threshold /\ 0 \in 0..MaxFaults
    BY CacheBoundsAssumption
  <2> QED BY <1>1, <2>1 DEF BreakersOK
<1>5. RowsOK
  <2>1. \A n \in DOMAIN table : table[n] = Shelf0
    BY <1>1
  <2>2. \A p \in DOMAIN Shelf0 : p \in DOMAIN Category /\ Shelf0[p] \in Row
    BY ShelfAssumption
  <2> QED BY <1>2, <2>1, <2>2 DEF RowsOK
<1>6. \A w \in Writers : writer[w] = <<>>
  BY <1>1
<1>7. Pending = {}
  BY <1>6 DEF Pending, WillCommit
<1>8. Len(table) + Cardinality(Pending) <= MaxStates
  <2>1. Len(table) = 1 /\ Cardinality(Pending) = 0
    BY <1>1, <1>7, FS_EmptySet
  <2> QED BY <2>1, CacheBoundsAssumption
<1>9. writer \in [Writers -> Seq(Todo)] /\ \A w \in Writers : OneTable(writer[w])
  <2>1. <<>> \in Seq(Todo) /\ OneTable(<<>>)
    BY DEF OneTable
  <2> QED BY <1>1, <1>6, <2>1
<1> QED BY <1>3, <1>4, <1>5, <1>8, <1>9 DEF CacheInv, WritersOK

LEMMA CacheNext ==
  CacheInv /\ (HidesInv /\ CoalescedInv) /\ (HidesInv /\ CoalescedInv)' /\ [Next]_vars => CacheInv'
  BY ReadsNext, WritersNext, BreakersNext DEF CacheInv, HidesInv

LEMMA CacheInvHolds == Spec => [](CacheInv /\ HidesInv)
  BY CacheInit, CacheNext, HidesInit, HidesNext, CoalescedInit, CoalescedNext, PTL DEF Spec

LEMMA CacheInvType == CacheInv /\ HidesInv => TypeOK
<1> SUFFICES ASSUME CacheInv, HidesInv PROVE TypeOK
  OBVIOUS
<1>1. Len(table) \in 1..MaxStates
  <2>1. Len(table) \in Nat /\ Len(table) \in DOMAIN table /\ DOMAIN table = 1..Len(table)
    BY TableIndex DEF HidesInv
  <2>2. Len(table) + Cardinality(Pending) <= MaxStates /\ Cardinality(Pending) \in Nat
    BY PendingFinite DEF CacheInv, WritersOK
  <2> QED BY <2>1, <2>2, CacheBoundsAssumption
<1>2. \A s \in Scopes : bumps[s] \in Seq(1..Len(table))
  BY DEF HidesInv, TableOK
<1>3. /\ DOMAIN stored \subseteq Keys /\ \A k \in DOMAIN stored : stored[k] \in 1..Len(table)
      /\ inFlight \in [Apis -> SUBSET Keys]
  BY DEF CacheInv, ReadsOK
<1>4. \A r \in Readers :
        /\ reader[r].phase \in {"idle", "version", "get", "joined", "loading", "storing"}
        /\ reader[r].api \in Apis /\ reader[r].key \in Keys \cup {NoKey}
        /\ reader[r].value \in 0..Len(table) /\ reader[r].walk \in WalkType
  BY DEF CacheInv, ReadsOK, ReaderOK, Phases
<1> QED
  BY <1>1, <1>2, <1>3, <1>4 DEF CacheInv, WritersOK, RowsOK, BreakersOK, TypeOK

(* Every variable of the reads and writes through Redis has its type: no   *)
(* key without a version, no entry from a state the table was never in, no *)
(* breaker counting beyond its threshold (RedisCache.get,                  *)
(* RedisCache.version).                                                    *)
THEOREM CacheTypeCorrect == Spec => []TypeOK
  BY CacheInvHolds, CacheInvType, PTL

(* A client that turns the pages of a listing to the end sees every        *)
(* product whose price and category did not change exactly once, and none  *)
(* of them that was never in range (listProducts, "stable against          *)
(* concurrent writes"), whichever of its pages came from the cache,        *)
(* however old, for any catalogue, prices, limits, readers, processes and  *)
(* writers.                                                                *)
THEOREM WalksSeeEachOnce == Spec => []WalkSeesEachOnce
<1>1. CacheInv => WalkSeesEachOnce
  <2> SUFFICES ASSUME CacheInv, NEW r \in Readers,
                      reader[r].walk.token = End, reader[r].walk.used # {},
                      NEW p \in DOMAIN Category, Steady(reader[r].walk, p)
               PROVE  reader[r].walk.seen[p] =
                        IF \A n \in reader[r].walk.used : Listed(table[n], reader[r].walk.query, p)
                        THEN 1 ELSE 0
    BY DEF WalkSeesEachOnce
  <2>1. WalkOK(reader[r].walk)
    BY DEF CacheInv, ReadsOK, ReaderOK
  <2>2. PICK row \in Row :
          \A n \in reader[r].walk.used : p \in DOMAIN table[n] /\ table[n][p] = row
    BY DEF Steady
  <2> QED BY <2>1, <2>2 DEF WalkOK
<1> QED BY <1>1, CacheInvHolds, PTL
===============================================================================
