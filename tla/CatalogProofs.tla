----------------------------- MODULE CatalogProofs -----------------------------
(***************************************************************************)
(* Proofs about Catalog and Seed, for any tenants, requests and fixtures:  *)
(* the types, the unique skus, the cursor of a walk, and what of each      *)
(* tenant stands at every step of a run of the seed that nobody disturbs.  *)
(***************************************************************************)
EXTENDS Seed, SequenceTheorems, FiniteSetTheorems, WellFoundedInduction, TLAPS

-------------------------------------------------------------------------------
(* The program of the seed *)

N == Len(Attributes)

LEMMA AttributesType == N \in Nat /\ \A k \in 1 .. N : Attributes[k] \in Codes
BY SeedAssumption DEF N

Deeds ==
  {"delete-index", "bulk", "bind", "reset", "wipe-products", "wipe-definitions",
   "insert-definition", "insert-products", "wipe-prices", "wipe-config",
   "insert-config", "insert-prices", "define", "create", "price"}

StepRecord == [does : Deeds, code : Codes \union {Unsaid}]

LEMMA PlainSteps ==
  ASSUME NEW names \in Seq(Deeds)
  PROVE  /\ Plain(names) \in Seq(StepRecord) /\ Len(Plain(names)) = Len(names)
         /\ \A k \in 1 .. Len(names) : Plain(names)[k].does = names[k]
<1>1. \A k \in 1 .. Len(names) : names[k] \in Deeds
  OBVIOUS
<1>2. Plain(names) = [k \in 1 .. Len(names) |-> [does |-> names[k], code |-> Unsaid]]
  BY DEF Plain
<1>3. \A k \in 1 .. Len(names) : Plain(names)[k] \in StepRecord
  BY <1>1, <1>2 DEF StepRecord
<1> QED
  BY <1>2, <1>3

LEMMA AttributeSteps ==
  ASSUME NEW does \in Deeds
  PROVE  /\ ForEachAttribute(does) \in Seq(StepRecord) /\ Len(ForEachAttribute(does)) = N
         /\ \A k \in 1 .. N : /\ ForEachAttribute(does)[k].does = does
                              /\ ForEachAttribute(does)[k].code = Attributes[k]
<1>1. ForEachAttribute(does) = [k \in 1 .. N |-> [does |-> does, code |-> Attributes[k]]]
  BY SeedAssumption DEF ForEachAttribute, N
<1>2. \A k \in 1 .. N : ForEachAttribute(does)[k] \in StepRecord
  BY <1>1, AttributesType DEF StepRecord
<1> QED
  BY <1>1, <1>2, AttributesType

LEMMA IndexLoop ==
  /\ IndexSteps \in Seq(StepRecord) /\ Len(IndexSteps) = 2
  /\ IndexSteps[1].does = "delete-index" /\ IndexSteps[2].does = "bulk"
<1> DEFINE names == <<"delete-index", "bulk">>
<1>1. /\ names \in Seq(Deeds) /\ Len(names) = 2
      /\ names[1] = "delete-index" /\ names[2] = "bulk"
  BY DEF Deeds
<1>2. IndexSteps = Plain(names)
  BY DEF IndexSteps
<1> HIDE DEF names
<1> QED
  BY <1>1, <1>2, PlainSteps

LEMMA PricingLoop ==
  /\ PricingSteps \in Seq(StepRecord) /\ Len(PricingSteps) = 6
  /\ PricingSteps[1].does = "bind" /\ PricingSteps[2].does = "wipe-prices"
  /\ PricingSteps[3].does = "wipe-config" /\ PricingSteps[4].does = "insert-config"
  /\ PricingSteps[5].does = "insert-prices" /\ PricingSteps[6].does = "reset"
<1> DEFINE names ==
  <<"bind", "wipe-prices", "wipe-config", "insert-config", "insert-prices", "reset">>
<1>1. names \in Seq(Deeds) /\ Len(names) = 6
  BY DEF Deeds
<1>2. /\ names[1] = "bind" /\ names[2] = "wipe-prices" /\ names[3] = "wipe-config"
      /\ names[4] = "insert-config" /\ names[5] = "insert-prices" /\ names[6] = "reset"
  OBVIOUS
<1>3. PricingSteps = Plain(names)
  BY DEF PricingSteps
<1> HIDE DEF names
<1> QED
  BY <1>1, <1>2, <1>3, PlainSteps

LEMMA CatalogLoop ==
  /\ CatalogSteps \in Seq(StepRecord) /\ Len(CatalogSteps) = N + 5
  /\ CatalogSteps[1].does = "bind" /\ CatalogSteps[2].does = "wipe-products"
  /\ CatalogSteps[3].does = "wipe-definitions"
  /\ \A k \in 4 .. N + 3 : /\ CatalogSteps[k].does = "insert-definition"
                           /\ CatalogSteps[k].code = Attributes[k - 3]
  /\ CatalogSteps[N + 4].does = "insert-products" /\ CatalogSteps[N + 5].does = "reset"
<1> DEFINE before == <<"bind", "wipe-products", "wipe-definitions">>
<1> DEFINE after == <<"insert-products", "reset">>
<1> DEFINE a == Plain(before)
<1> DEFINE b == ForEachAttribute("insert-definition")
<1> DEFINE c == Plain(after)
<1>1. /\ a \in Seq(StepRecord) /\ Len(a) = 3
      /\ a[1].does = "bind" /\ a[2].does = "wipe-products" /\ a[3].does = "wipe-definitions"
  <2>1. /\ before \in Seq(Deeds) /\ Len(before) = 3
        /\ before[1] = "bind" /\ before[2] = "wipe-products" /\ before[3] = "wipe-definitions"
    BY DEF Deeds
  <2> HIDE DEF before
  <2> QED
    BY <2>1, PlainSteps
<1>2. /\ b \in Seq(StepRecord) /\ Len(b) = N
      /\ \A k \in 1 .. N : b[k].does = "insert-definition" /\ b[k].code = Attributes[k]
  <2>1. "insert-definition" \in Deeds /\ "define" \in Deeds
    BY DEF Deeds
  <2> QED
    BY <2>1, AttributeSteps
<1>3. /\ c \in Seq(StepRecord) /\ Len(c) = 2
      /\ c[1].does = "insert-products" /\ c[2].does = "reset"
  <2>1. /\ after \in Seq(Deeds) /\ Len(after) = 2
        /\ after[1] = "insert-products" /\ after[2] = "reset"
    BY DEF Deeds
  <2> HIDE DEF after
  <2> QED
    BY <2>1, PlainSteps
<1>4. CatalogSteps = (a \o b) \o c
  BY DEF CatalogSteps
<1> HIDE DEF a, b, c
<1>0. N \in Nat
  BY AttributesType
<1>5. /\ a \o b \in Seq(StepRecord) /\ Len(a \o b) = N + 3
      /\ \A k \in 1 .. N + 3 : (a \o b)[k] = IF k <= 3 THEN a[k] ELSE b[k - 3]
  <2>1. /\ a \o b \in Seq(StepRecord) /\ Len(a \o b) = Len(a) + Len(b)
        /\ \A k \in 1 .. Len(a) + Len(b) :
             (a \o b)[k] = IF k <= Len(a) THEN a[k] ELSE b[k - Len(a)]
    <3>1. a \in Seq(StepRecord) /\ b \in Seq(StepRecord)
      BY <1>1, <1>2
    <3> QED
      BY <3>1, ConcatProperties
  <2> QED
    BY <1>0, <1>1, <1>2, <2>1
<1>6. /\ CatalogSteps \in Seq(StepRecord) /\ Len(CatalogSteps) = N + 5
      /\ \A k \in 1 .. N + 5 :
           CatalogSteps[k] = IF k <= N + 3 THEN (a \o b)[k] ELSE c[k - (N + 3)]
  <2> DEFINE d == a \o b
  <2> HIDE DEF d
  <2>1. d \in Seq(StepRecord) /\ Len(d) = N + 3 /\ CatalogSteps = d \o c
    BY <1>4, <1>5 DEF d
  <2>2. /\ d \o c \in Seq(StepRecord) /\ Len(d \o c) = Len(d) + Len(c)
        /\ \A k \in 1 .. Len(d) + Len(c) :
             (d \o c)[k] = IF k <= Len(d) THEN d[k] ELSE c[k - Len(d)]
    BY <1>3, <2>1, ConcatProperties
  <2>3. /\ CatalogSteps \in Seq(StepRecord) /\ Len(CatalogSteps) = N + 5
        /\ \A k \in 1 .. N + 5 : CatalogSteps[k] = IF k <= N + 3 THEN d[k] ELSE c[k - (N + 3)]
    BY <1>0, <1>3, <2>1, <2>2
  <2> QED
    BY <2>3 DEF d
<1>7. /\ CatalogSteps[1] = a[1] /\ CatalogSteps[2] = a[2] /\ CatalogSteps[3] = a[3]
      /\ \A k \in 4 .. N + 3 : CatalogSteps[k] = b[k - 3]
      /\ CatalogSteps[N + 4] = c[1] /\ CatalogSteps[N + 5] = c[2]
  <2>1. /\ CatalogSteps[1] = (a \o b)[1] /\ CatalogSteps[2] = (a \o b)[2]
        /\ CatalogSteps[3] = (a \o b)[3]
        /\ \A k \in 4 .. N + 3 : CatalogSteps[k] = (a \o b)[k]
        /\ CatalogSteps[N + 4] = c[1] /\ CatalogSteps[N + 5] = c[2]
    <3>1. ASSUME NEW k \in 1 .. N + 3 PROVE CatalogSteps[k] = (a \o b)[k]
      <4>1. k \in 1 .. N + 5 /\ k <= N + 3
        BY <1>0
      <4> QED
        BY <1>6, <4>1
    <3>2. ASSUME NEW k \in {N + 4, N + 5} PROVE CatalogSteps[k] = c[k - (N + 3)]
      <4>1. k \in 1 .. N + 5 /\ ~(k <= N + 3)
        BY <1>0
      <4> QED
        BY <1>6, <4>1
    <3>3. (N + 4) - (N + 3) = 1 /\ (N + 5) - (N + 3) = 2
      BY <1>0
    <3>4. 1 \in 1 .. N + 3 /\ 2 \in 1 .. N + 3 /\ 3 \in 1 .. N + 3
      BY <1>0
    <3>5. \A k \in 4 .. N + 3 : k \in 1 .. N + 3
      BY <1>0
    <3> QED
      BY <3>1, <3>2, <3>3, <3>4, <3>5
  <2>2. /\ (a \o b)[1] = a[1] /\ (a \o b)[2] = a[2] /\ (a \o b)[3] = a[3]
        /\ \A k \in 4 .. N + 3 : (a \o b)[k] = b[k - 3]
    BY <1>0, <1>5
  <2> QED
    BY <2>1, <2>2
<1>8. \A k \in 4 .. N + 3 : k - 3 \in 1 .. N
  BY <1>0
<1> QED
  BY <1>0, <1>1, <1>2, <1>3, <1>6, <1>7, <1>8

LEMMA ApiLoop ==
  /\ ApiSteps \in Seq(StepRecord) /\ Len(ApiSteps) = N + 2
  /\ \A k \in 1 .. N : ApiSteps[k].does = "define" /\ ApiSteps[k].code = Attributes[k]
  /\ ApiSteps[N + 1].does = "create" /\ ApiSteps[N + 2].does = "price"
<1> DEFINE a == ForEachAttribute("define")
<1> DEFINE last == <<"create", "price">>
<1> DEFINE b == Plain(last)
<1>1. /\ a \in Seq(StepRecord) /\ Len(a) = N
      /\ \A k \in 1 .. N : a[k].does = "define" /\ a[k].code = Attributes[k]
  <2>1. "insert-definition" \in Deeds /\ "define" \in Deeds
    BY DEF Deeds
  <2> QED
    BY <2>1, AttributeSteps
<1>2. /\ b \in Seq(StepRecord) /\ Len(b) = 2
      /\ b[1].does = "create" /\ b[2].does = "price"
  <2>1. last \in Seq(Deeds) /\ Len(last) = 2 /\ last[1] = "create" /\ last[2] = "price"
    BY DEF Deeds
  <2> HIDE DEF last
  <2> QED
    BY <2>1, PlainSteps
<1>3. ApiSteps = a \o b
  BY DEF ApiSteps
<1> HIDE DEF a, b
<1>4. /\ ApiSteps \in Seq(StepRecord) /\ Len(ApiSteps) = N + 2
      /\ \A k \in 1 .. N + 2 : ApiSteps[k] = IF k <= N THEN a[k] ELSE b[k - N]
  <2>1. /\ a \o b \in Seq(StepRecord) /\ Len(a \o b) = Len(a) + Len(b)
        /\ \A k \in 1 .. Len(a) + Len(b) :
             (a \o b)[k] = IF k <= Len(a) THEN a[k] ELSE b[k - Len(a)]
    <3>1. a \in Seq(StepRecord) /\ b \in Seq(StepRecord)
      BY <1>1, <1>2
    <3> QED
      BY <3>1, ConcatProperties
  <2>2. N \in Nat
    BY AttributesType
  <2> QED
    BY <1>1, <1>2, <1>3, <2>1, <2>2
<1>5. /\ \A k \in 1 .. N : ApiSteps[k] = a[k]
      /\ ApiSteps[N + 1] = b[1] /\ ApiSteps[N + 2] = b[2]
  BY <1>4, AttributesType
<1> QED
  BY <1>1, <1>2, <1>4, <1>5

-------------------------------------------------------------------------------
(* Requests *)

Labels ==
  {"idle", "over", "validate", "look", "insert", "previous", "write", "remove",
   "publish", "page", "seek", "define", "upsert"}

Kinds == {"create", "update", "delete", "define", "price", "list"}

\* At each await, what the request asks for and what it has of it.
Asked(r) ==
  /\ op[r].kind \in {"update", "delete", "price"} => op[r].id \in Ids
  /\ op[r].kind = "create" => op[r].sku # Unsaid
  /\ op[r].kind \in {"create", "define"} => op[r].codes # {Unsaid}
  /\ pc[r] \in {"validate", "look"} => op[r].kind \in {"create", "update"}
  /\ pc[r] = "validate" /\ op[r].kind = "create" => renames[r]
  /\ pc[r] = "insert" => op[r].kind = "create"
  /\ pc[r] \in {"previous", "write"} => op[r].kind = "update"
  /\ pc[r] = "remove" => op[r].kind = "delete"
  /\ pc[r] \in {"seek", "define"} => op[r].kind = "define"
  /\ pc[r] = "upsert" => op[r].kind = "price"
  /\ pc[r] = "page" => op[r].kind = "list"
  /\ pc[r] = "publish" => op[r].kind # "list"
  /\ pc[r] = "publish" /\ op[r].kind = "create" => op[r].id \in Ids
  /\ pc[r] \notin {"idle", "over"} => reply[r] = 0
  /\ reply[r] = 201 /\ op[r].kind = "create" => op[r].id \in Ids

\* The call the seed waits for is that of its step, and a price is for the
\* product that was created just before.
Calls ==
  /\ run <= acts
  /\ Running => run # 0
  /\ hand # Nobody => At(op[hand].kind)
  /\ loop = 4 /\ step = N + 2 => saved \in Ids

Requested == pc \in [Requests -> Labels] /\ \A r \in Requests : Asked(r)

TypeInv == TypeOK /\ Requested /\ Calls

-------------------------------------------------------------------------------
(* The listing *)

Ascending(pages) ==
  \A m, n \in DOMAIN pages : m < n => \A i \in pages[m], j \in pages[n] : i < j

Shown(pages) == UNION {pages[n] : n \in DOMAIN pages}

\* What a listing has met so far: of the products that were there all the time,
\* those up to its cursor.
Met(r) ==
  /\ there[r] \subseteq RowsOf(op[r].tenant)
  /\ op[r].kind # "list" => there[r] = {}
  /\ pc[r] = "page" /\ op[r].id = Unsaid => seen[r] = <<>>
  /\ pc[r] = "page" /\ op[r].id # Unsaid =>
       /\ Ascending(seen[r])
       /\ \A i \in Shown(seen[r]) : i <= op[r].id
       /\ \A i \in there[r] : i <= op[r].id => i \in Shown(seen[r])
  /\ op[r].kind = "list" /\ reply[r] = 200 =>
       Ascending(seen[r]) /\ there[r] \subseteq Shown(seen[r])

Listed == \A r \in Requests : Met(r)

-------------------------------------------------------------------------------
(* Where the seed is *)

LEMMA LoopsType ==
  ASSUME NEW l \in 1 .. 4
  PROVE  /\ Loops[l] \in Seq(StepRecord) /\ Len(Loops[l]) \in Nat /\ Len(Loops[l]) >= 2
         /\ Len(Loops[l]) = IF l = 1 THEN 2 ELSE IF l = 2 THEN N + 5
                           ELSE IF l = 3 THEN 6 ELSE N + 2
<1>0. N \in Nat
  BY AttributesType
<1>1. /\ Loops[1] = IndexSteps /\ Loops[2] = CatalogSteps
      /\ Loops[3] = PricingSteps /\ Loops[4] = ApiSteps
  BY DEF Loops
<1>2. l = 1 \/ l = 2 \/ l = 3 \/ l = 4
  OBVIOUS
<1>3. CASE l = 1
  <2>1. Loops[l] = IndexSteps
    BY <1>1, <1>3
  <2>2. Loops[l] \in Seq(StepRecord) /\ Len(Loops[l]) = 2
    BY <2>1, IndexLoop
  <2> QED
    BY <1>3, <2>2
<1>4. CASE l = 2
  BY <1>0, <1>1, <1>4, CatalogLoop
<1>5. CASE l = 3
  <2>1. Loops[l] = PricingSteps
    BY <1>1, <1>5
  <2>2. Loops[l] \in Seq(StepRecord) /\ Len(Loops[l]) = 6
    BY <2>1, PricingLoop
  <2> QED
    BY <1>5, <2>2
<1>6. CASE l = 4
  BY <1>0, <1>1, <1>6, ApiLoop
<1> QED
  BY <1>2, <1>3, <1>4, <1>5, <1>6

\* What main does at each place.
LEMMA Places ==
  /\ Loops[1][1].does = "delete-index" /\ Loops[1][2].does = "bulk"
  /\ Loops[2][1].does = "bind" /\ Loops[2][2].does = "wipe-products"
  /\ Loops[2][3].does = "wipe-definitions"
  /\ \A k \in 4 .. N + 3 : /\ Loops[2][k].does = "insert-definition"
                           /\ Loops[2][k].code = Attributes[k - 3]
  /\ Loops[2][N + 4].does = "insert-products" /\ Loops[2][N + 5].does = "reset"
  /\ Loops[3][1].does = "bind" /\ Loops[3][2].does = "wipe-prices"
  /\ Loops[3][3].does = "wipe-config" /\ Loops[3][4].does = "insert-config"
  /\ Loops[3][5].does = "insert-prices" /\ Loops[3][6].does = "reset"
  /\ \A k \in 1 .. N : Loops[4][k].does = "define" /\ Loops[4][k].code = Attributes[k]
  /\ Loops[4][N + 1].does = "create" /\ Loops[4][N + 2].does = "price"
<1>1. /\ Loops[1] = IndexSteps /\ Loops[2] = CatalogSteps
      /\ Loops[3] = PricingSteps /\ Loops[4] = ApiSteps
  BY DEF Loops
<1> QED
  BY <1>1, IndexLoop, CatalogLoop, PricingLoop, ApiLoop

SeedTypeOK ==
  /\ loop \in 0 .. 5 /\ turn \in 1 .. Len(Fixtures)
  /\ step \in 1 .. (IF Running THEN Len(Loops[loop]) ELSE 1)

LEMMA FixturesType == Len(Fixtures) \in Nat \ {0} /\ Fixtures \in Seq(Tenants)
<1>1. Fixtures \in Seq(Tenants) /\ Len(Fixtures) \in Nat
  BY SeedAssumption
<1>2. PICK t \in Tenants : TRUE
  BY CatalogAssumption
<1>3. \E n \in DOMAIN Fixtures : Fixtures[n] = t
  BY SeedAssumption
<1>4. DOMAIN Fixtures = 1 .. Len(Fixtures)
  BY <1>1
<1> QED
  BY <1>1, <1>3, <1>4

LEMMA TenantType == ASSUME SeedTypeOK PROVE Tenant \in Tenants
BY FixturesType DEF SeedTypeOK, Tenant

\* Each deed has its place in the loops.
LEMMA Deed ==
  ASSUME SeedTypeOK
  PROVE  /\ At("delete-index") <=> loop = 1 /\ step = 1
         /\ At("bulk") <=> loop = 1 /\ step = 2
         /\ At("bind") <=> loop \in {2, 3} /\ step = 1
         /\ At("wipe-products") <=> loop = 2 /\ step = 2
         /\ At("wipe-definitions") <=> loop = 2 /\ step = 3
         /\ At("insert-definition") <=> loop = 2 /\ step \in 4 .. N + 3
         /\ At("insert-products") <=> loop = 2 /\ step = N + 4
         /\ At("wipe-prices") <=> loop = 3 /\ step = 2
         /\ At("wipe-config") <=> loop = 3 /\ step = 3
         /\ At("insert-config") <=> loop = 3 /\ step = 4
         /\ At("insert-prices") <=> loop = 3 /\ step = 5
         /\ At("reset") <=> (loop = 2 /\ step = N + 5) \/ (loop = 3 /\ step = 6)
         /\ At("define") <=> loop = 4 /\ step \in 1 .. N
         /\ At("create") <=> loop = 4 /\ step = N + 1
         /\ At("price") <=> loop = 4 /\ step = N + 2
<1>0. N \in Nat
  BY AttributesType
<1> DEFINE does == Loops[loop][step].does
<1>1. CASE ~Running
  BY <1>1 DEF At, Running
<1>2. CASE loop = 1
  <2>1. step \in {1, 2}
    <3>1. step \in 1 .. Len(Loops[1])
      BY <1>2 DEF SeedTypeOK, Running
    <3>2. Len(Loops[1]) = 2
      BY LoopsType
    <3> QED
      BY <3>1, <3>2
  <2>2. \/ step = 1 /\ does = "delete-index"
        \/ step = 2 /\ does = "bulk"
    <3>1. Loops[1][1].does = "delete-index" /\ Loops[1][2].does = "bulk"
      BY Places
    <3> QED
      BY <1>2, <2>1, <3>1
  <2> HIDE DEF does
  <2> QED
    BY <1>0, <1>2, <2>2 DEF At, Running, does
<1>3. CASE loop = 2
  <2>1. step \in 1 .. N + 5
    BY <1>3, LoopsType DEF SeedTypeOK, Running
  <2>2. \/ step = 1 /\ does = "bind"
        \/ step = 2 /\ does = "wipe-products"
        \/ step = 3 /\ does = "wipe-definitions"
        \/ step \in 4 .. N + 3 /\ does = "insert-definition"
        \/ step = N + 4 /\ does = "insert-products"
        \/ step = N + 5 /\ does = "reset"
    BY <1>0, <1>3, <2>1, Places
  <2>3. \A d : At(d) <=> does = d
    BY <1>3 DEF At, Running
  <2> HIDE DEF does
  <2>4. CASE step \in 1 .. 3
    BY <1>0, <1>3, <2>2, <2>3, <2>4
  <2>5. CASE step \in 4 .. N + 3
    BY <1>0, <1>3, <2>2, <2>3, <2>5
  <2>6. CASE step \in N + 4 .. N + 5
    <3>1. CASE step = N + 4
      BY <1>0, <1>3, <2>2, <2>3, <3>1
    <3>2. CASE step = N + 5
      BY <1>0, <1>3, <2>2, <2>3, <3>2
    <3> QED
      BY <1>0, <2>6, <3>1, <3>2
  <2> QED
    BY <1>0, <2>1, <2>4, <2>5, <2>6
<1>4. CASE loop = 3
  <2>1. step \in 1 .. 6
    <3>1. step \in 1 .. Len(Loops[3])
      BY <1>4 DEF SeedTypeOK, Running
    <3>2. Len(Loops[3]) = 6
      BY LoopsType
    <3> QED
      BY <3>1, <3>2
  <2>2. \/ step = 1 /\ does = "bind"
        \/ step = 2 /\ does = "wipe-prices"
        \/ step = 3 /\ does = "wipe-config"
        \/ step = 4 /\ does = "insert-config"
        \/ step = 5 /\ does = "insert-prices"
        \/ step = 6 /\ does = "reset"
    <3>1. /\ Loops[3][1].does = "bind" /\ Loops[3][2].does = "wipe-prices"
          /\ Loops[3][3].does = "wipe-config" /\ Loops[3][4].does = "insert-config"
          /\ Loops[3][5].does = "insert-prices" /\ Loops[3][6].does = "reset"
      BY Places
    <3>2. \/ step = 1 \/ step = 2 \/ step = 3 \/ step = 4 \/ step = 5 \/ step = 6
      BY <2>1
    <3> QED
      BY <1>4, <3>1, <3>2
  <2> HIDE DEF does
  <2> QED
    BY <1>0, <1>4, <2>1, <2>2 DEF At, Running, does
<1>5. CASE loop = 4
  <2>1. step \in 1 .. N + 2
    BY <1>5, LoopsType DEF SeedTypeOK, Running
  <2>2. \/ step \in 1 .. N /\ does = "define"
        \/ step = N + 1 /\ does = "create"
        \/ step = N + 2 /\ does = "price"
    BY <1>0, <1>5, <2>1, Places
  <2> HIDE DEF does
  <2> QED
    BY <1>0, <1>5, <2>1, <2>2 DEF At, Running, does
<1> QED
  BY <1>1, <1>2, <1>3, <1>4, <1>5 DEF SeedTypeOK, Running

LEMMA Advances ==
  ASSUME SeedTypeOK, Running, Advance
  PROVE  SeedTypeOK'
<1>1. /\ Len(Loops[loop]) \in Nat /\ Len(Fixtures) \in Nat \ {0}
      /\ loop \in 1 .. 4 /\ step \in 1 .. Len(Loops[loop]) /\ turn \in 1 .. Len(Fixtures)
  BY LoopsType, FixturesType DEF SeedTypeOK, Running
<1>2. CASE step < Len(Loops[loop])
  BY <1>1, <1>2 DEF Advance, SeedTypeOK, Running
<1>3. CASE ~(step < Len(Loops[loop]))
  <2>1. step' = 1 /\ loop' \in 1 .. 5 /\ turn' \in 1 .. Len(Fixtures)
    BY <1>1, <1>3 DEF Advance
  <2>2. Running' => Len(Loops[loop']) >= 2 /\ Len(Loops[loop']) \in Nat
    BY LoopsType DEF Running
  <2>3. step' \in 1 .. (IF Running' THEN Len(Loops[loop']) ELSE 1)
    BY <2>1, <2>2
  <2> QED
    BY <2>1, <2>3 DEF SeedTypeOK
<1> QED
  BY <1>2, <1>3

-------------------------------------------------------------------------------
(* What the actions of a request keep *)

Statuses == {0, 200, 201, 204, 400, 404, 409, 500}

TablesOK ==
  /\ row \in [Ids -> Product \union {NoRow}]
  /\ defined \in [Tenants -> SUBSET Codes]
  /\ priced \subseteq Tenants \X Ids
  /\ index \in [Tenants -> SUBSET Ids]
  /\ \A e \in news : e.tenant \in Tenants /\ e.id \in Ids /\ e.keep \in BOOLEAN
  /\ there \in [Requests -> SUBSET Ids]

RequestsOK ==
  /\ pc \in [Requests -> Labels]
  /\ op \in [Requests -> Operation]
  /\ renames \in [Requests -> BOOLEAN]
  /\ reply \in [Requests -> Statuses]
  /\ seen \in [Requests -> Seq(SUBSET Ids)]

CatalogInv ==
  TablesOK /\ RequestsOK /\ acts \in 0 .. MaxActs /\ \A r \in Requests : Asked(r)

LEMMA CatalogInvType == CatalogInv <=> CatalogTypeOK /\ Requested
<1>1. CatalogInv => CatalogTypeOK /\ Requested
  BY DEF CatalogInv, TablesOK, RequestsOK, CatalogTypeOK, Requested, Asked, Statuses
<1>2. CatalogTypeOK /\ Requested => CatalogInv
  BY DEF CatalogInv, TablesOK, RequestsOK, CatalogTypeOK, Requested, Statuses
<1> QED
  BY <1>1, <1>2

\* What a step of r leaves to the other requests.
Alone(r) ==
  \A q \in Requests \ {r} :
    /\ pc'[q] = pc[q] /\ op'[q] = op[q] /\ renames'[q] = renames[q]
    /\ reply'[q] = reply[q] /\ seen'[q] = seen[q]

LEMMA OthersAsked ==
  ASSUME NEW r, Alone(r), \A q \in Requests : Asked(q)
  PROVE  \A q \in Requests \ {r} : Asked(q)'
BY DEF Alone, Asked

LEMMA OperationType ==
  ASSUME NEW o \in Operation
  PROVE  /\ o.kind \in Kinds /\ o.tenant \in Tenants /\ o.sku \in Skus \union {Unsaid}
         /\ o.codes \subseteq Codes \/ o.codes = {Unsaid}
         /\ o.id \in Ids \union {Unsaid}
<1>1. /\ o.kind \in Kinds /\ o.tenant \in Tenants /\ o.sku \in Skus \union {Unsaid}
      /\ o.codes \in (SUBSET Codes) \union {{Unsaid}}
      /\ o.id \in Ids \union {Unsaid}
  BY DEF Operation, Kinds
<1> QED
  BY <1>1

LEMMA Goes ==
  ASSUME RequestsOK, NEW r \in Requests, NEW l \in Labels, Goto(r, l)
  PROVE  /\ pc' \in [Requests -> Labels] /\ pc'[r] = l
         /\ \A q \in Requests \ {r} : pc'[q] = pc[q]
BY DEF RequestsOK, Goto

LEMMA Answers ==
  ASSUME RequestsOK, NEW r \in Requests, NEW status \in Statuses, Answer(r, status)
  PROVE  /\ pc' \in [Requests -> Labels] /\ pc'[r] = "over"
         /\ reply' \in [Requests -> Statuses] /\ reply'[r] = status
         /\ \A q \in Requests \ {r} : pc'[q] = pc[q] /\ reply'[q] = reply[q]
<1>1. "over" \in Labels
  BY DEF Labels
<1>2. Goto(r, "over")
  BY DEF Answer
<1>3. /\ reply' \in [Requests -> Statuses] /\ reply'[r] = status
      /\ \A q \in Requests \ {r} : reply'[q] = reply[q]
  BY DEF Answer, RequestsOK
<1> QED
  BY <1>1, <1>2, <1>3, Goes

LEMMA Refused ==
  ASSUME RequestsOK, NEW r \in Requests, NEW status \in Statuses, NEW l \in Labels,
         NEW refused, Unless(r, refused, status, l)
  PROVE  /\ pc' \in [Requests -> Labels] /\ reply' \in [Requests -> Statuses]
         /\ \A q \in Requests \ {r} : pc'[q] = pc[q] /\ reply'[q] = reply[q]
         /\ \/ pc'[r] = "over" /\ reply'[r] = status
            \/ pc'[r] = l /\ reply'[r] = reply[r]
<1>1. CASE refused
  <2>1. Answer(r, status)
    BY <1>1 DEF Unless
  <2> QED
    BY <2>1, Answers
<1>2. CASE ~refused
  <2>1. Goto(r, l) /\ reply' = reply
    BY <1>2 DEF Unless
  <2> QED
    BY <2>1, Goes DEF RequestsOK
<1> QED
  BY <1>1, <1>2

LEMMA PutType ==
  ASSUME TablesOK, NEW rows \in [Ids -> Product \union {NoRow}], Put(rows)
  PROVE  row' \in [Ids -> Product \union {NoRow}] /\ there' \in [Requests -> SUBSET Ids]
BY DEF TablesOK, Put

Served(r) ==
  /\ TablesOK' /\ RequestsOK' /\ Asked(r)' /\ Alone(r)
  /\ op'[r].kind = op[r].kind /\ op'[r].tenant = op[r].tenant /\ acts' = acts

LEMMA ValidateServed ==
  ASSUME CatalogInv, NEW r \in Requests, Validate(r) PROVE Served(r)
<1> DEFINE label == IF renames[r] THEN "look" ELSE "write"
<1>1. label \in Labels /\ 400 \in Statuses
  BY DEF Labels, Statuses
<1>2. /\ pc' \in [Requests -> Labels] /\ reply' \in [Requests -> Statuses]
      /\ \A q \in Requests \ {r} : pc'[q] = pc[q] /\ reply'[q] = reply[q]
      /\ \/ pc'[r] = "over" /\ reply'[r] = 400
         \/ pc'[r] = label /\ reply'[r] = reply[r]
  BY <1>1, Refused DEF CatalogInv, Validate
<1>3. UNCHANGED <<row, defined, priced, index, news, op, renames, seen, there, acts>>
  BY DEF Validate, tables
<1>4. pc[r] = "validate" /\ Asked(r) /\ op[r] \in Operation
  BY DEF Validate, CatalogInv, RequestsOK
<1>5. Asked(r)'
  BY <1>2, <1>3, <1>4 DEF Asked
<1>6. TablesOK' /\ RequestsOK'
  BY <1>2, <1>3 DEF CatalogInv, TablesOK, RequestsOK
<1> QED
  BY <1>2, <1>3, <1>5, <1>6 DEF Served, Alone

LEMMA LookServed ==
  ASSUME CatalogInv, NEW r \in Requests, Look(r) PROVE Served(r)
<1> DEFINE label == IF op[r].kind = "create" THEN "insert" ELSE "write"
<1>1. label \in Labels /\ 409 \in Statuses
  BY DEF Labels, Statuses
<1>2. /\ pc' \in [Requests -> Labels] /\ reply' \in [Requests -> Statuses]
      /\ \A q \in Requests \ {r} : pc'[q] = pc[q] /\ reply'[q] = reply[q]
      /\ \/ pc'[r] = "over" /\ reply'[r] = 409
         \/ pc'[r] = label /\ reply'[r] = reply[r]
  BY <1>1, Refused DEF CatalogInv, Look
<1>3. UNCHANGED <<row, defined, priced, index, news, op, renames, seen, there, acts>>
  BY DEF Look, tables
<1>4. pc[r] = "look" /\ Asked(r)
  BY DEF Look, CatalogInv
<1>5. Asked(r)'
  BY <1>2, <1>3, <1>4 DEF Asked
<1>6. TablesOK' /\ RequestsOK'
  BY <1>2, <1>3 DEF CatalogInv, TablesOK, RequestsOK
<1> QED
  BY <1>2, <1>3, <1>5, <1>6 DEF Served, Alone

LEMMA InsertServed ==
  ASSUME CatalogInv, NEW r \in Requests, Insert(r) PROVE Served(r)
<1> DEFINE o == op[r]
<1>1. /\ pc[r] = "insert" /\ Asked(r) /\ o \in Operation /\ RequestsOK /\ TablesOK
      /\ UNCHANGED <<defined, priced, index, news, renames, seen, acts>>
  BY DEF Insert, CatalogInv, RequestsOK
<1>2. CASE Answer(r, 500) /\ UNCHANGED <<row, op, there>>
  <2>1. 500 \in Statuses
    BY DEF Statuses
  <2>2. /\ pc' \in [Requests -> Labels] /\ pc'[r] = "over"
        /\ reply' \in [Requests -> Statuses] /\ reply'[r] = 500
        /\ \A q \in Requests \ {r} : pc'[q] = pc[q] /\ reply'[q] = reply[q]
    BY <1>1, <1>2, <2>1, Answers
  <2>3. Asked(r)'
    BY <1>1, <1>2, <2>2 DEF Asked
  <2> QED
    BY <1>1, <1>2, <2>2, <2>3 DEF Served, Alone, TablesOK, RequestsOK
<1>3. ASSUME NEW i \in FreeIds, Goto(r, "publish"), UNCHANGED reply,
             op' = [op EXCEPT ![r].id = i],
             Put([row EXCEPT ![i] =
                    [tenant |-> o.tenant, sku |-> o.sku, codes |-> o.codes]])
      PROVE  Served(r)
  <2>1. i \in Ids /\ "publish" \in Labels
    BY DEF FreeIds, Labels
  <2>2. /\ pc' \in [Requests -> Labels] /\ pc'[r] = "publish"
        /\ \A q \in Requests \ {r} : pc'[q] = pc[q]
    BY <1>1, <1>3, <2>1, Goes
  <2>3. [tenant |-> o.tenant, sku |-> o.sku, codes |-> o.codes] \in Product
    <3>1. o.tenant \in Tenants /\ o.sku \in Skus /\ o.codes \subseteq Codes
      BY <1>1, OperationType DEF Asked
    <3> QED
      BY <3>1 DEF Product
  <2>4. TablesOK'
    <3>1. row' \in [Ids -> Product \union {NoRow}] /\ there' \in [Requests -> SUBSET Ids]
      BY <1>1, <1>3, <2>1, <2>3, PutType DEF TablesOK
    <3> QED
      BY <1>1, <3>1 DEF TablesOK
  <2>5. /\ op' \in [Requests -> Operation] /\ op'[r] = [o EXCEPT !.id = i]
        /\ \A q \in Requests \ {r} : op'[q] = op[q]
    BY <1>1, <1>3, <2>1 DEF RequestsOK, Operation
  <2>6. /\ op'[r].kind = o.kind /\ op'[r].tenant = o.tenant /\ op'[r].sku = o.sku
        /\ op'[r].codes = o.codes /\ op'[r].id = i
    BY <1>1, <2>5 DEF Operation
  <2>7. Asked(r)'
    BY <1>1, <1>3, <2>1, <2>2, <2>6 DEF Asked
  <2> QED
    BY <1>1, <1>3, <2>2, <2>4, <2>5, <2>6, <2>7 DEF Served, Alone, RequestsOK
<1> QED
  BY <1>2, <1>3 DEF Insert

LEMMA PreviousServed ==
  ASSUME CatalogInv, NEW r \in Requests, Previous(r) PROVE Served(r)
<1>1. "validate" \in Labels /\ 404 \in Statuses
  BY DEF Labels, Statuses
<1>2. /\ pc' \in [Requests -> Labels] /\ reply' \in [Requests -> Statuses]
      /\ \A q \in Requests \ {r} : pc'[q] = pc[q] /\ reply'[q] = reply[q]
      /\ \/ pc'[r] = "over" /\ reply'[r] = 404
         \/ pc'[r] = "validate" /\ reply'[r] = reply[r]
  BY <1>1, Refused DEF CatalogInv, Previous
<1>3. UNCHANGED <<row, defined, priced, index, news, op, seen, there, acts>>
  BY DEF Previous, tables
<1>4. pc[r] = "previous" /\ Asked(r)
  BY DEF Previous, CatalogInv
<1>5. renames' \in [Requests -> BOOLEAN] /\ \A q \in Requests \ {r} : renames'[q] = renames[q]
  BY DEF Previous, CatalogInv, RequestsOK
<1>6. Asked(r)'
  BY <1>2, <1>3, <1>4 DEF Asked
<1>7. TablesOK' /\ RequestsOK'
  BY <1>2, <1>3, <1>5 DEF CatalogInv, TablesOK, RequestsOK
<1> QED
  BY <1>2, <1>3, <1>5, <1>6, <1>7 DEF Served, Alone

\* The row as an update leaves it.
Updated(r) ==
  [row[op[r].id] EXCEPT !.sku = IF op[r].sku = Unsaid THEN @ ELSE op[r].sku,
                        !.codes = IF op[r].codes = {Unsaid} THEN @ ELSE op[r].codes]

LEMMA UpdatedType ==
  ASSUME CatalogInv, NEW r \in Requests, op[r].id \in RowsOf(op[r].tenant)
  PROVE  /\ op[r].id \in Ids /\ row[op[r].id] \in Product
         /\ Updated(r) \in Product /\ Updated(r).tenant = op[r].tenant
         /\ Updated(r).sku = IF op[r].sku = Unsaid THEN row[op[r].id].sku ELSE op[r].sku
<1> DEFINE o == op[r]
<1> DEFINE old == row[op[r].id]
<1>1. o \in Operation /\ o.id \in Ids /\ old \in Product /\ old.tenant = o.tenant
  BY DEF CatalogInv, RequestsOK, TablesOK, RowsOf
<1>2. o.sku \in Skus \union {Unsaid} /\ (o.codes \subseteq Codes \/ o.codes = {Unsaid})
  BY <1>1, OperationType
<1> HIDE DEF o, old
<1>3. [old EXCEPT !.sku = IF o.sku = Unsaid THEN @ ELSE o.sku,
                  !.codes = IF o.codes = {Unsaid} THEN @ ELSE o.codes] \in Product
  BY <1>1, <1>2 DEF Product
<1>4. /\ [old EXCEPT !.sku = IF o.sku = Unsaid THEN @ ELSE o.sku,
                     !.codes = IF o.codes = {Unsaid} THEN @ ELSE o.codes].tenant = o.tenant
      /\ [old EXCEPT !.sku = IF o.sku = Unsaid THEN @ ELSE o.sku,
                     !.codes = IF o.codes = {Unsaid} THEN @ ELSE o.codes].sku
           = IF o.sku = Unsaid THEN old.sku ELSE o.sku
  BY <1>1 DEF Product
<1> QED
  BY <1>1, <1>3, <1>4 DEF Updated, o, old

LEMMA WriteServed ==
  ASSUME CatalogInv, NEW r \in Requests, Write(r) PROVE Served(r)
<1> DEFINE o == op[r]
<1>1. /\ pc[r] = "write" /\ Asked(r) /\ RequestsOK /\ TablesOK
      /\ UNCHANGED <<defined, priced, index, news, op, renames, seen, acts>>
  BY DEF Write, CatalogInv
<1>2. ASSUME NEW status \in {404, 500}, Answer(r, status), UNCHANGED <<row, there>>
      PROVE  Served(r)
  <2>1. status \in Statuses
    BY DEF Statuses
  <2>2. /\ pc' \in [Requests -> Labels] /\ pc'[r] = "over"
        /\ reply' \in [Requests -> Statuses] /\ reply'[r] = status
        /\ \A q \in Requests \ {r} : pc'[q] = pc[q] /\ reply'[q] = reply[q]
    BY <1>1, <1>2, <2>1, Answers
  <2>3. Asked(r)'
    BY <1>1, <2>2 DEF Asked
  <2> QED
    BY <1>1, <1>2, <2>2, <2>3 DEF Served, Alone, TablesOK, RequestsOK
<1>3. CASE /\ o.id \in RowsOf(o.tenant) /\ Put([row EXCEPT ![o.id] = Updated(r)])
           /\ Goto(r, "publish") /\ UNCHANGED reply
  <2>1. "publish" \in Labels
    BY DEF Labels
  <2>2. /\ pc' \in [Requests -> Labels] /\ pc'[r] = "publish"
        /\ \A q \in Requests \ {r} : pc'[q] = pc[q]
    BY <1>1, <1>3, <2>1, Goes
  <2>3. row' \in [Ids -> Product \union {NoRow}] /\ there' \in [Requests -> SUBSET Ids]
    <3>1. o.id \in Ids /\ Updated(r) \in Product
      BY <1>3, UpdatedType
    <3>2. [row EXCEPT ![o.id] = Updated(r)] \in [Ids -> Product \union {NoRow}]
      BY <1>1, <3>1 DEF TablesOK
    <3> QED
      BY <1>1, <1>3, <3>2, PutType
  <2>4. Asked(r)'
    BY <1>1, <1>3, <2>2 DEF Asked
  <2> QED
    BY <1>1, <1>3, <2>2, <2>3, <2>4 DEF Served, Alone, TablesOK, RequestsOK
<1> QED
  BY <1>2, <1>3 DEF Write, Updated

LEMMA DeleteServed ==
  ASSUME CatalogInv, NEW r \in Requests, DeleteRow(r) PROVE Served(r)
<1> DEFINE o == op[r]
<1>1. /\ pc[r] = "remove" /\ Asked(r) /\ RequestsOK /\ TablesOK
      /\ UNCHANGED <<defined, priced, index, news, op, renames, seen, acts>>
  BY DEF DeleteRow, CatalogInv
<1>2. CASE Answer(r, 404) /\ UNCHANGED <<row, there>>
  <2>1. 404 \in Statuses
    BY DEF Statuses
  <2>2. /\ pc' \in [Requests -> Labels] /\ pc'[r] = "over"
        /\ reply' \in [Requests -> Statuses] /\ reply'[r] = 404
        /\ \A q \in Requests \ {r} : pc'[q] = pc[q] /\ reply'[q] = reply[q]
    BY <1>1, <1>2, <2>1, Answers
  <2>3. Asked(r)'
    BY <1>1, <2>2 DEF Asked
  <2> QED
    BY <1>1, <1>2, <2>2, <2>3 DEF Served, Alone, TablesOK, RequestsOK
<1>3. CASE Put([row EXCEPT ![o.id] = NoRow]) /\ Goto(r, "publish") /\ UNCHANGED reply
  <2>1. "publish" \in Labels
    BY DEF Labels
  <2>2. /\ pc' \in [Requests -> Labels] /\ pc'[r] = "publish"
        /\ \A q \in Requests \ {r} : pc'[q] = pc[q]
    BY <1>1, <1>3, <2>1, Goes
  <2>3. row' \in [Ids -> Product \union {NoRow}] /\ there' \in [Requests -> SUBSET Ids]
    <3>1. [row EXCEPT ![o.id] = NoRow] \in [Ids -> Product \union {NoRow}]
      BY <1>1 DEF TablesOK
    <3> QED
      BY <1>1, <1>3, <3>1, PutType
  <2>4. Asked(r)'
    BY <1>1, <1>3, <2>2 DEF Asked
  <2> QED
    BY <1>1, <1>3, <2>2, <2>3, <2>4 DEF Served, Alone, TablesOK, RequestsOK
<1> QED
  BY <1>2, <1>3 DEF DeleteRow

-------------------------------------------------------------------------------
(* Pages *)

LEMMA Least ==
  ASSUME NEW S \in SUBSET Nat, S # {}
  PROVE  \E m \in S : \A n \in S : m <= n
<1>1. IsWellFoundedOn(OpToRel(<, Nat), Nat)
  BY NatLessThanWellFounded
<1>2. PICK m \in S : \A n \in S : ~ (<<n, m>> \in OpToRel(<, Nat))
  BY <1>1, WFMin
<1>3. \A n \in S : ~(n < m)
  BY <1>2 DEF OpToRel
<1> QED
  BY <1>3

\* A set of numbers with an upper bound has a greatest one.
LEMMA Greatest ==
  ASSUME NEW S \in SUBSET Nat, S # {}, NEW top \in Nat, \A n \in S : n <= top
  PROVE  \E m \in S : \A n \in S : n <= m
<1> DEFINE gaps == {top - n : n \in S}
<1>1. gaps \in SUBSET Nat /\ gaps # {}
  <2>1. \A n \in S : top - n \in Nat
    OBVIOUS
  <2> QED
    BY <2>1
<1>2. PICK g \in gaps : \A h \in gaps : g <= h
  BY <1>1, Least
<1>3. PICK m \in S : g = top - m
  BY <1>2
<1>4. ASSUME NEW n \in S PROVE n <= m
  <2>1. top - n \in gaps
    OBVIOUS
  <2>2. top - m <= top - n
    BY <1>2, <1>3, <2>1
  <2> QED
    BY <2>2
<1> QED
  BY <1>4

LEMMA RankGrows ==
  ASSUME NEW rows \in SUBSET Ids, NEW i \in Ids, NEW j \in Ids, i <= j
  PROVE  /\ Cardinality({k \in rows : k < i}) \in Nat
         /\ Cardinality({k \in rows : k < i}) <= Cardinality({k \in rows : k < j})
<1>1. Ids \subseteq Nat /\ IsFiniteSet(Ids)
  BY CatalogAssumption
<1> DEFINE low == {k \in rows : k < i}
<1> DEFINE high == {k \in rows : k < j}
<1>2. high \in SUBSET Ids
  OBVIOUS
<1>3. IsFiniteSet(high)
  BY <1>1, <1>2, FS_Subset
<1>4. low \in SUBSET high
  <2> SUFFICES ASSUME NEW k \in rows, k < i PROVE k < j
    OBVIOUS
  <2> QED
    BY <1>1
<1> HIDE DEF low, high
<1>5. IsFiniteSet(low) /\ Cardinality(low) <= Cardinality(high)
  BY <1>3, <1>4, FS_Subset
<1>6. Cardinality(low) \in Nat
  BY <1>5, FS_CardinalityType
<1> QED
  BY <1>5, <1>6 DEF low, high

\* A page is the low end of the rows it is cut from, and holds some of them.
LEMMA PageCut ==
  ASSUME NEW rows \in SUBSET Ids
  PROVE  /\ PageOf(rows) \in SUBSET rows
         /\ \A i \in PageOf(rows), j \in rows : j <= i => j \in PageOf(rows)
         /\ rows # {} => PageOf(rows) # {}
<1>0. Ids \subseteq Nat /\ Cap \in Nat \ {0}
  BY CatalogAssumption
<1>1. PageOf(rows) \in SUBSET rows
  BY DEF PageOf
<1>2. ASSUME NEW i \in PageOf(rows), NEW j \in rows, j <= i PROVE j \in PageOf(rows)
  <2>1. i \in Ids /\ j \in Ids
    BY DEF PageOf
  <2> DEFINE a == Cardinality({k \in rows : k < i})
  <2> DEFINE b == Cardinality({k \in rows : k < j})
  <2>2. a \in Nat /\ b \in Nat /\ b <= a
    <3>1. i <= i
      BY <1>0, <2>1
    <3> QED
      BY <1>2, <2>1, <3>1, RankGrows
  <2>3. a < Cap
    BY DEF PageOf
  <2> HIDE DEF a, b
  <2>4. b < Cap
    BY <1>0, <2>2, <2>3
  <2> QED
    BY <2>4 DEF b, PageOf
<1>3. ASSUME rows # {} PROVE PageOf(rows) # {}
  <2>1. PICK m \in rows : \A n \in rows : m <= n
    <3>1. rows \in SUBSET Nat
      BY <1>0
    <3> QED
      BY <1>3, <3>1, Least
  <2>2. {k \in rows : k < m} = {}
    <3>1. \A k \in rows : k \in Nat /\ m \in Nat /\ ~(k < m)
      BY <1>0, <2>1
    <3> QED
      BY <3>1
  <2>3. Cardinality({k \in rows : k < m}) = 0
    BY <2>2, FS_EmptySet
  <2>4. Cardinality({k \in rows : k < m}) < Cap
    BY <1>0, <2>3
  <2> QED
    BY <2>4 DEF PageOf
<1> QED
  BY <1>1, <1>2, <1>3

\* When a row is left beyond the page, the page has a last product: the cursor.
LEMMA Cursor ==
  ASSUME NEW rows \in SUBSET Ids, PageOf(rows) # rows
  PROVE  LET c == CHOOSE i \in PageOf(rows) : \A j \in PageOf(rows) : j <= i
         IN  c \in PageOf(rows) /\ \A j \in PageOf(rows) : j <= c
<1>0. Ids \subseteq Nat
  BY CatalogAssumption
<1>1. /\ PageOf(rows) \in SUBSET rows
      /\ \A i \in PageOf(rows), j \in rows : j <= i => j \in PageOf(rows)
      /\ PageOf(rows) # {}
  BY PageCut
<1>2. PICK top \in rows : top \notin PageOf(rows)
  BY <1>1
<1>3. \A j \in PageOf(rows) : j <= top
  <2> TAKE j \in PageOf(rows)
  <2>1. j \in Nat /\ top \in Nat /\ ~(top <= j)
    BY <1>0, <1>1, <1>2
  <2> QED
    BY <2>1
<1>4. PageOf(rows) \in SUBSET Nat /\ top \in Nat
  BY <1>0, <1>1
<1>5. \E i \in PageOf(rows) : \A j \in PageOf(rows) : j <= i
  BY <1>1, <1>3, <1>4, Greatest
<1> QED
  BY <1>5

-------------------------------------------------------------------------------
(* More of what the actions of a request keep *)

LEMMA PublishServed ==
  ASSUME CatalogInv, NEW r \in Requests, Publish(r) PROVE Served(r)
<1> DEFINE o == op[r]
<1> DEFINE status == IF o.kind = "delete" THEN 204
                     ELSE IF o.kind = "update" THEN 200 ELSE 201
<1>1. /\ pc[r] = "publish" /\ Asked(r) /\ RequestsOK /\ TablesOK /\ o \in Operation
      /\ UNCHANGED <<row, defined, priced, index, op, renames, seen, there, acts>>
  BY DEF Publish, CatalogInv, tables, RequestsOK
<1>2. status \in Statuses /\ Answer(r, status)
  BY DEF Statuses, Publish
<1>3. /\ pc' \in [Requests -> Labels] /\ pc'[r] = "over"
      /\ reply' \in [Requests -> Statuses] /\ reply'[r] = status
      /\ \A q \in Requests \ {r} : pc'[q] = pc[q] /\ reply'[q] = reply[q]
  BY <1>1, <1>2, Answers
<1>4. Asked(r)'
  BY <1>1, <1>3 DEF Asked
<1>5. \A e \in news' : e.tenant \in Tenants /\ e.id \in Ids /\ e.keep \in BOOLEAN
  <2>1. CASE o.kind \in {"create", "update", "delete"}
    <3> DEFINE event == [tenant |-> o.tenant, id |-> o.id, keep |-> o.kind # "delete"]
    <3>1. news' = news \union {event}
      BY <2>1 DEF Publish
    <3>2. event.tenant \in Tenants /\ event.id \in Ids /\ event.keep \in BOOLEAN
      BY <1>1, <2>1, OperationType DEF Asked
    <3> HIDE DEF event
    <3> QED
      BY <1>1, <3>1, <3>2 DEF TablesOK
  <2>2. CASE ~(o.kind \in {"create", "update", "delete"})
    BY <1>1, <2>2 DEF Publish, TablesOK
  <2> QED
    BY <2>1, <2>2
<1> QED
  BY <1>1, <1>3, <1>4, <1>5 DEF Served, Alone, TablesOK, RequestsOK

LEMMA ListServed ==
  ASSUME CatalogInv, NEW r \in Requests, ListPage(r) PROVE Served(r)
<1> DEFINE rows == Beyond(op[r])
<1> DEFINE page == PageOf(rows)
<1> DEFINE cursor == CHOOSE i \in page : \A j \in page : j <= i
<1>1. /\ pc[r] = "page" /\ Asked(r) /\ RequestsOK /\ TablesOK
      /\ UNCHANGED <<row, defined, priced, index, news, renames, there, acts>>
      /\ seen' = [seen EXCEPT ![r] = Append(@, page)]
  BY DEF ListPage, CatalogInv, tables
<1>2. rows \in SUBSET Ids /\ page \in SUBSET rows
  <2>1. rows \in SUBSET Ids
    BY DEF Beyond, RowsOf
  <2> QED
    BY <2>1, PageCut
<1>3. /\ seen' \in [Requests -> Seq(SUBSET Ids)]
      /\ \A q \in Requests \ {r} : seen'[q] = seen[q]
  <2>1. seen[r] \in Seq(SUBSET Ids) /\ page \in SUBSET Ids
    BY <1>1, <1>2 DEF RequestsOK
  <2> HIDE DEF page
  <2>2. Append(seen[r], page) \in Seq(SUBSET Ids)
    BY <2>1
  <2> QED
    BY <1>1, <2>2 DEF RequestsOK
<1>4. CASE page = rows
  <2>1. Answer(r, 200) /\ op' = op /\ 200 \in Statuses
    BY <1>4 DEF ListPage, Statuses
  <2>2. /\ pc' \in [Requests -> Labels] /\ pc'[r] = "over"
        /\ reply' \in [Requests -> Statuses] /\ reply'[r] = 200
        /\ \A q \in Requests \ {r} : pc'[q] = pc[q] /\ reply'[q] = reply[q]
    BY <1>1, <2>1, Answers
  <2>3. Asked(r)'
    BY <1>1, <2>1, <2>2 DEF Asked
  <2> QED
    BY <1>1, <1>3, <2>1, <2>2, <2>3 DEF Served, Alone, TablesOK, RequestsOK
<1>5. CASE page # rows
  <2>1. cursor \in Ids
    BY <1>2, <1>5, Cursor
  <2>2. op' = [op EXCEPT ![r].id = cursor] /\ pc' = pc /\ reply' = reply
    BY <1>5 DEF ListPage
  <2> HIDE DEF cursor
  <2>3. /\ op' \in [Requests -> Operation] /\ op'[r] = [op[r] EXCEPT !.id = cursor]
        /\ \A q \in Requests \ {r} : op'[q] = op[q]
    <3>1. op \in [Requests -> Operation] /\ op[r] \in Operation
      BY <1>1 DEF RequestsOK
    <3>2. [op[r] EXCEPT !.id = cursor] \in Operation
      BY <2>1, <3>1 DEF Operation
    <3> QED
      BY <2>2, <3>1, <3>2
  <2>4. op'[r].kind = op[r].kind /\ op'[r].tenant = op[r].tenant
    BY <1>1, <2>3 DEF RequestsOK, Operation
  <2>5. Asked(r)'
    BY <1>1, <2>2, <2>4 DEF Asked
  <2> QED
    BY <1>1, <1>3, <2>2, <2>3, <2>4, <2>5 DEF Served, Alone, TablesOK, RequestsOK
<1> QED
  BY <1>4, <1>5

LEMMA SeekServed ==
  ASSUME CatalogInv, NEW r \in Requests, Seek(r) PROVE Served(r)
<1>1. "define" \in Labels /\ 400 \in Statuses
  BY DEF Labels, Statuses
<1>2. /\ pc' \in [Requests -> Labels] /\ reply' \in [Requests -> Statuses]
      /\ \A q \in Requests \ {r} : pc'[q] = pc[q] /\ reply'[q] = reply[q]
      /\ \/ pc'[r] = "over" /\ reply'[r] = 400
         \/ pc'[r] = "define" /\ reply'[r] = reply[r]
  BY <1>1, Refused DEF CatalogInv, Seek
<1>3. UNCHANGED <<row, defined, priced, index, news, op, renames, seen, there, acts>>
  BY DEF Seek, tables
<1>4. pc[r] = "seek" /\ Asked(r)
  BY DEF Seek, CatalogInv
<1>5. Asked(r)'
  BY <1>2, <1>3, <1>4 DEF Asked
<1>6. TablesOK' /\ RequestsOK'
  BY <1>2, <1>3 DEF CatalogInv, TablesOK, RequestsOK
<1> QED
  BY <1>2, <1>3, <1>5, <1>6 DEF Served, Alone

LEMMA DefineServed ==
  ASSUME CatalogInv, NEW r \in Requests, Define(r) PROVE Served(r)
<1>1. "publish" \in Labels /\ 500 \in Statuses
  BY DEF Labels, Statuses
<1>2. /\ pc' \in [Requests -> Labels] /\ reply' \in [Requests -> Statuses]
      /\ \A q \in Requests \ {r} : pc'[q] = pc[q] /\ reply'[q] = reply[q]
      /\ \/ pc'[r] = "over" /\ reply'[r] = 500
         \/ pc'[r] = "publish" /\ reply'[r] = reply[r]
  BY <1>1, Refused DEF CatalogInv, Define
<1>3. UNCHANGED <<row, priced, index, news, op, renames, seen, there, acts>>
  BY DEF Define
<1>4. pc[r] = "define" /\ Asked(r) /\ op[r] \in Operation
  BY DEF Define, CatalogInv, RequestsOK
<1>5. defined' \in [Tenants -> SUBSET Codes]
  <2>1. op[r].codes \subseteq Codes
    BY <1>4, OperationType DEF Asked
  <2> QED
    BY <2>1 DEF Define, CatalogInv, TablesOK
<1>6. Asked(r)'
  BY <1>2, <1>3, <1>4 DEF Asked
<1>7. TablesOK' /\ RequestsOK'
  BY <1>2, <1>3, <1>5 DEF CatalogInv, TablesOK, RequestsOK
<1> QED
  BY <1>2, <1>3, <1>6, <1>7 DEF Served, Alone

LEMMA UpsertServed ==
  ASSUME CatalogInv, NEW r \in Requests, UpsertPrice(r) PROVE Served(r)
<1>1. "publish" \in Labels
  BY DEF Labels
<1>2. /\ pc' \in [Requests -> Labels] /\ pc'[r] = "publish"
      /\ \A q \in Requests \ {r} : pc'[q] = pc[q]
  BY <1>1, Goes DEF CatalogInv, UpsertPrice
<1>3. UNCHANGED <<row, defined, index, news, op, renames, reply, seen, there, acts>>
  BY DEF UpsertPrice
<1>4. pc[r] = "upsert" /\ Asked(r) /\ op[r] \in Operation
  BY DEF UpsertPrice, CatalogInv, RequestsOK
<1>5. priced' \subseteq Tenants \X Ids
  <2>1. op[r].tenant \in Tenants /\ op[r].id \in Ids
    BY <1>4, OperationType DEF Asked
  <2> QED
    BY <2>1 DEF UpsertPrice, CatalogInv, TablesOK
<1>6. Asked(r)'
  BY <1>2, <1>3, <1>4 DEF Asked
<1>7. TablesOK' /\ RequestsOK'
  BY <1>2, <1>3, <1>5 DEF CatalogInv, TablesOK, RequestsOK
<1> QED
  BY <1>2, <1>3, <1>6, <1>7 DEF Served, Alone

LEMMA RequestServed ==
  ASSUME CatalogInv, NEW r \in Requests, Serve(r)
  PROVE  CatalogInv' /\ Served(r)
<1>1. Served(r)
  BY ValidateServed, LookServed, InsertServed, PreviousServed, WriteServed, DeleteServed,
     PublishServed, ListServed, SeekServed, DefineServed, UpsertServed
     DEF Serve
<1>2. \A q \in Requests \ {r} : Asked(q)'
  BY <1>1, OthersAsked DEF Served, CatalogInv
<1> QED
  BY <1>1, <1>2 DEF Served, CatalogInv

LEMMA HandleKeeps ==
  ASSUME CatalogInv, NEW e \in news, Handle(e)
  PROVE  /\ CatalogInv'
         /\ UNCHANGED <<row, defined, priced, pc, op, renames, reply, seen, there, acts>>
<1>1. UNCHANGED <<row, defined, priced, pc, op, renames, reply, seen, there, acts>>
  BY DEF Handle, tables
<1>2. TablesOK'
  BY <1>1 DEF CatalogInv, TablesOK, Handle
<1>3. \A r \in Requests : Asked(r)'
  BY <1>1 DEF CatalogInv, Asked
<1> QED
  BY <1>1, <1>2, <1>3 DEF CatalogInv, RequestsOK

\* Events come to nothing, and requests to no answer.
Loss ==
  /\ UNCHANGED <<loop, turn, step, run, setting, hand, saved, configured, clean>>
  /\ \/ \E e \in news : HandlerFails(e) /\ Lose({e})
     \/ \E dead \in SUBSET Requests, gone \in SUBSET news : Die(dead, gone) /\ Lose(gone)

LEMMA LossMeans ==
  ASSUME CatalogInv, Loss
  PROVE  /\ CatalogInv'
         /\ UNCHANGED <<row, defined, priced, index, op, renames, reply, seen, there, acts>>
         /\ \A r \in Requests : pc'[r] \in {pc[r], "over"}
         /\ \E gone \in SUBSET news : news' = news \ gone /\ Lose(gone)
<1>1. UNCHANGED <<row, defined, priced, index, op, renames, reply, seen, there, acts>>
  BY DEF Loss, HandlerFails, Die, tables
<1>2. pc' \in [Requests -> Labels] /\ \A r \in Requests : pc'[r] \in {pc[r], "over"}
  <2>1. CASE \E e \in news : HandlerFails(e) /\ Lose({e})
    BY <2>1 DEF HandlerFails, CatalogInv, RequestsOK
  <2>2. CASE \E dead \in SUBSET Requests, gone \in SUBSET news : Die(dead, gone) /\ Lose(gone)
    <3>1. PICK dead \in SUBSET Requests :
            pc' = [r \in Requests |-> IF r \in dead THEN "over" ELSE pc[r]]
      BY <2>2 DEF Die
    <3>2. pc \in [Requests -> Labels] /\ "over" \in Labels
      BY DEF CatalogInv, RequestsOK, Labels
    <3> QED
      BY <3>1, <3>2
  <2> QED
    BY <2>1, <2>2 DEF Loss
<1>3. \E gone \in SUBSET news : news' = news \ gone /\ Lose(gone)
  <2>1. ASSUME NEW e \in news, HandlerFails(e), Lose({e})
        PROVE  {e} \in SUBSET news /\ news' = news \ {e}
    BY <2>1 DEF HandlerFails
  <2>2. ASSUME NEW dead \in SUBSET Requests, NEW gone \in SUBSET news, Die(dead, gone)
        PROVE  news' = news \ gone
    BY <2>2 DEF Die
  <2> QED
    BY <2>1, <2>2 DEF Loss
<1>4. TablesOK'
  BY <1>1, <1>3 DEF CatalogInv, TablesOK
<1>5. \A r \in Requests : Asked(r)'
  BY <1>1, <1>2 DEF CatalogInv, Asked
<1> QED
  BY <1>1, <1>2, <1>3, <1>4, <1>5 DEF CatalogInv, RequestsOK

\* A request that is well formed begins as its kind does.
LEMMA BeginKeeps ==
  ASSUME CatalogInv, NEW r \in Requests, NEW o \in Operation, WellFormed(o), Begin(r, o)
  PROVE  TablesOK' /\ RequestsOK' /\ (\A q \in Requests : Asked(q)') /\ Alone(r) /\ op'[r] = o
<1>1. FirstStep(o.kind) \in Labels \ {"idle", "over", "publish", "insert", "look", "write"}
  BY OperationType DEF FirstStep, Labels, Kinds
<1>2. /\ pc' \in [Requests -> Labels] /\ pc'[r] = FirstStep(o.kind)
      /\ \A q \in Requests \ {r} : pc'[q] = pc[q]
  BY <1>1, Goes DEF CatalogInv, Begin
<1>3. RequestsOK'
  <2>1. <<>> \in Seq(SUBSET Ids) /\ 0 \in Statuses
    BY DEF Statuses
  <2> QED
    BY <1>2, <2>1 DEF Begin, CatalogInv, RequestsOK
<1>4. /\ op'[r] = o /\ renames'[r] = (o.kind = "create") /\ reply'[r] = 0 /\ seen'[r] = <<>>
      /\ \A q \in Requests \ {r} : /\ op'[q] = op[q] /\ renames'[q] = renames[q]
                                  /\ reply'[q] = reply[q] /\ seen'[q] = seen[q]
  BY DEF Begin, CatalogInv, RequestsOK
<1>5. Asked(r)'
  <2>1. /\ FirstStep(o.kind) = "validate" => o.kind = "create"
        /\ FirstStep(o.kind) = "previous" => o.kind = "update"
        /\ FirstStep(o.kind) = "remove" => o.kind = "delete"
        /\ FirstStep(o.kind) = "seek" => o.kind = "define"
        /\ FirstStep(o.kind) = "define" => o.kind = "define"
        /\ FirstStep(o.kind) = "upsert" => o.kind = "price"
        /\ FirstStep(o.kind) = "page" => o.kind = "list"
    BY OperationType DEF FirstStep, Kinds
  <2> QED
    <3> DEFINE first == FirstStep(o.kind)
    <3>1. first \notin {"idle", "over", "publish", "insert", "look", "write"} /\ pc'[r] = first
      BY <1>1, <1>2
    <3> HIDE DEF first
    <3>2. /\ o.kind \in {"update", "delete", "price"} => o.id \in Ids
          /\ o.kind = "create" => o.sku # Unsaid
          /\ o.kind \in {"create", "define"} => o.codes # {Unsaid}
      BY DEF WellFormed
    <3>3. /\ op'[r] = o /\ renames'[r] = (o.kind = "create") /\ reply'[r] = 0
      BY <1>4
    <3>4. /\ first = "validate" => o.kind = "create"
          /\ first = "previous" => o.kind = "update"
          /\ first = "remove" => o.kind = "delete"
          /\ first = "seek" => o.kind = "define"
          /\ first = "define" => o.kind = "define"
          /\ first = "upsert" => o.kind = "price"
          /\ first = "page" => o.kind = "list"
      BY <2>1 DEF first
    <3>5. o.kind = "create" => renames'[r]
      BY <3>3
    <3> QED
      BY <3>1, <3>2, <3>3, <3>4, <3>5 DEF Asked
<1>6. Alone(r)
  BY <1>2, <1>4 DEF Alone
<1>7. \A q \in Requests \ {r} : Asked(q)'
  BY <1>6, OthersAsked DEF CatalogInv
<1>8. TablesOK'
  <2>1. there' \in [Requests -> SUBSET Ids]
    BY DEF Begin, CatalogInv, TablesOK, RowsOf
  <2> QED
    BY <2>1 DEF Begin, tables, CatalogInv, TablesOK
<1> QED
  BY <1>3, <1>4, <1>5, <1>6, <1>7, <1>8

-------------------------------------------------------------------------------
(* Types *)

SheetOK ==
  /\ run \in 0 .. MaxActs
  /\ setting \in Tenants \union {Nobody}
  /\ hand \in Requests \union {Nobody}
  /\ hand # Nobody => Running
  /\ saved \in Ids \union {Unsaid}
  /\ configured \subseteq Tenants
  /\ clean \in BOOLEAN /\ lost \subseteq Tenants \X Ids

Parts == CatalogInv /\ SeedTypeOK /\ SheetOK /\ Calls

LEMMA TypeParts == TypeInv <=> Parts
<1>1. TypeOK <=> CatalogTypeOK /\ SeedTypeOK /\ SheetOK
  BY DEF TypeOK, SeedTypeOK, SheetOK
<1> QED
  BY <1>1, CatalogInvType DEF TypeInv, Parts

LEMMA SameRequests ==
  ASSUME CatalogInv, TablesOK', UNCHANGED <<pc, op, renames, reply, seen, acts>>
  PROVE  CatalogInv'
<1>1. \A r \in Requests : Asked(r)'
  BY DEF CatalogInv, Asked
<1> QED
  BY <1>1 DEF CatalogInv, RequestsOK

LEMMA SameCatalog ==
  ASSUME CatalogInv, UNCHANGED catalog
  PROVE  CatalogInv'
<1>1. TablesOK'
  BY DEF CatalogInv, TablesOK, catalog
<1> QED
  BY <1>1, SameRequests DEF catalog

\* While it waits for an answer the seed is at one of its calls.
LEMMA HandIsCalling ==
  ASSUME Parts, hand # Nobody
  PROVE  /\ hand \in Requests /\ op[hand].kind \in {"define", "create", "price"}
         /\ At(op[hand].kind)
<1>1. hand \in Requests /\ At(op[hand].kind) /\ op[hand].kind \in Kinds
  BY OperationType DEF Parts, SheetOK, Calls, CatalogInv, RequestsOK
<1>2. Loops[loop][step].does \in Deeds
  <2>1. loop \in 1 .. 4 /\ step \in 1 .. Len(Loops[loop])
    BY <1>1 DEF At, Parts, SeedTypeOK, Running
  <2>2. Loops[loop][step] \in StepRecord
    BY <2>1, LoopsType
  <2> QED
    BY <2>2 DEF StepRecord
<1> QED
  BY <1>1, <1>2 DEF At, Kinds, Deeds

\* A statement of the seed: the tables keep their types, and nothing is called.
LEMMA StatementKeeps ==
  ASSUME Parts, Running, hand = Nobody, hand' = Nobody, Advance, TablesOK',
         UNCHANGED <<pc, op, renames, reply, seen, acts>>, UNCHANGED <<run, saved, lost>>,
         setting' \in Tenants \union {Nobody}, configured' \subseteq Tenants,
         clean' \in BOOLEAN, ~At("create")
  PROVE  Parts'
<1>1. CatalogInv'
  BY SameRequests DEF Parts
<1>2. SeedTypeOK'
  BY Advances DEF Parts
<1>3. SheetOK'
  BY DEF Parts, SheetOK
<1>4. Calls'
  <2>1. ~(loop' = 4 /\ step' = N + 2)
    <3>1. N \in Nat /\ step \in Nat /\ ~(loop = 4 /\ step = N + 1)
      BY AttributesType, Deed, LoopsType DEF Parts, SeedTypeOK, Running
    <3> QED
      BY <3>1 DEF Advance
  <2>2. run' <= acts' /\ run' # 0
    BY DEF Parts, Calls
  <2> QED
    BY <2>1, <2>2 DEF Calls
<1> QED
  BY <1>1, <1>2, <1>3, <1>4 DEF Parts

LEMMA AtStatement ==
  ASSUME Parts, loop \in 1 .. 3
  PROVE  Running /\ hand = Nobody /\ ~At("create") /\ ~At("define") /\ ~At("price")
<1>0. Running
  BY DEF Running
<1>1. ~At("create") /\ ~At("define") /\ ~At("price")
  BY Deed DEF Parts
<1> QED
  BY <1>0, <1>1, HandIsCalling

LEMMA UuidType ==
  ASSUME Parts, Running PROVE Uuid[run][Tenant] \in Ids /\ Tenant \in Tenants
<1>1. run \in 1 .. MaxActs
  BY CatalogAssumption DEF Parts, SheetOK, Calls
<1>2. Tenant \in Tenants
  BY TenantType DEF Parts
<1> QED
  <2>1. Uuid \in [1 .. MaxActs -> [Tenants -> Drawn]] /\ Drawn \subseteq Ids
    BY SeedAssumption, CatalogAssumption
  <2>2. Uuid[run] \in [Tenants -> Drawn]
    BY <1>1, <2>1
  <2> QED
    BY <1>2, <2>1, <2>2

LEMMA CodesOfType == CodesOf(Attributes) \subseteq Codes
<1>1. DOMAIN Attributes = 1 .. N
  BY SeedAssumption DEF N
<1> QED
  BY <1>1, AttributesType DEF CodesOf

LEMMA StatementsKeep ==
  ASSUME Parts,
         \/ DeleteIndex \/ BulkIndex \/ Bind \/ Wipe
         \/ InsertDefinition \/ InsertProducts \/ InsertConfig \/ InsertPrices
  PROVE  Parts' /\ Running /\ hand = Nobody /\ Advance
<1> USE DEF requests, sheet, tables
<1>0. TablesOK /\ SeedTypeOK /\ SheetOK
  BY DEF Parts, CatalogInv
<1>1. CASE DeleteIndex
  <2>1. loop \in 1 .. 3
    BY <1>0, <1>1, Deed DEF DeleteIndex
  <2>2. Tenant \in Tenants /\ Running /\ hand = Nobody /\ ~At("create")
    BY <1>0, <2>1, AtStatement, TenantType
  <2>3. TablesOK'
    BY <1>0, <1>1, <2>2 DEF DeleteIndex, TablesOK
  <2> QED
    BY <1>0, <1>1, <2>2, <2>3, StatementKeeps DEF DeleteIndex, SheetOK
<1>2. CASE BulkIndex
  <2>1. loop \in 1 .. 3
    BY <1>0, <1>2, Deed DEF BulkIndex
  <2>2. Tenant \in Tenants /\ Running /\ hand = Nobody /\ ~At("create")
    BY <1>0, <2>1, AtStatement, TenantType
  <2>3. Uuid[run][Tenant] \in Ids
    BY <2>2, UuidType
  <2>4. TablesOK'
    BY <1>0, <1>2, <2>2, <2>3 DEF BulkIndex, TablesOK
  <2>5. clean' \in BOOLEAN
    BY <1>0, <1>2 DEF BulkIndex, SheetOK
  <2> QED
    BY <1>0, <1>2, <2>2, <2>4, <2>5, StatementKeeps DEF BulkIndex, SheetOK
<1>3. CASE Bind
  <2>1. loop \in 1 .. 3
    BY <1>0, <1>3, Deed DEF Bind
  <2>2. Tenant \in Tenants /\ Running /\ hand = Nobody /\ ~At("create")
    BY <1>0, <2>1, AtStatement, TenantType
  <2>3. TablesOK'
    BY <1>0, <1>3 DEF Bind, TablesOK
  <2>4. setting' \in Tenants \union {Nobody}
    BY <1>3, <2>2 DEF Bind
  <2> QED
    BY <1>0, <1>3, <2>2, <2>3, <2>4, StatementKeeps DEF Bind, SheetOK
<1>4. CASE Wipe
  <2>1. loop \in 1 .. 3
    BY <1>0, <1>4, Deed DEF Wipe
  <2>2. Running /\ hand = Nobody /\ ~At("create")
    BY <2>1, AtStatement
  <2>3. UNCHANGED <<index, requests, run, setting, hand, saved, clean, lost>> /\ Advance
    BY <1>4 DEF Wipe
  <2>4. configured' \subseteq Tenants
    BY <1>0, <1>4 DEF Wipe, SheetOK
  <2>5. row' \in [Ids -> Product \union {NoRow}] /\ there' \in [Requests -> SUBSET Ids]
    <3>1. row \in [Ids -> Product \union {NoRow}] /\ there \in [Requests -> SUBSET Ids]
      BY <1>0 DEF TablesOK
    <3>2. \/ UNCHANGED <<row, there>>
          \/ Put([i \in Ids |-> IF row[i] # NoRow /\ row[i].tenant = setting
                                THEN NoRow ELSE row[i]])
      BY <1>4 DEF Wipe
    <3>3. \A i \in Ids : row[i] \in Product \union {NoRow}
      BY <3>1
    <3> QED
      BY <3>1, <3>2, <3>3 DEF Put
  <2>6. defined' \in [Tenants -> SUBSET Codes] /\ priced' \subseteq Tenants \X Ids
    BY <1>0, <1>4 DEF Wipe, TablesOK
  <2>7. TablesOK'
    BY <1>0, <2>3, <2>5, <2>6 DEF TablesOK
  <2> QED
    BY <1>0, <2>2, <2>3, <2>4, <2>7, StatementKeeps DEF SheetOK
<1>5. CASE InsertDefinition
  <2>1. loop \in 1 .. 3
    BY <1>0, <1>5, Deed DEF InsertDefinition
  <2>2. Tenant \in Tenants /\ Running /\ hand = Nobody /\ ~At("create")
    BY <1>0, <2>1, AtStatement, TenantType
  <2>3. Loops[loop][step].code \in Codes
    <3>1. loop = 2 /\ step \in 4 .. N + 3 /\ N \in Nat
      BY <1>0, <1>5, Deed, AttributesType DEF InsertDefinition
    <3>2. Loops[2][step].code = Attributes[step - 3] /\ step - 3 \in 1 .. N
      BY <3>1, Places
    <3> QED
      BY <3>1, <3>2, AttributesType
  <2>4. TablesOK'
    BY <1>0, <1>5, <2>2, <2>3 DEF InsertDefinition, TablesOK
  <2> QED
    BY <1>0, <1>5, <2>2, <2>4, StatementKeeps DEF InsertDefinition, SheetOK
<1>6. CASE InsertProducts
  <2>1. loop \in 1 .. 3
    BY <1>0, <1>6, Deed DEF InsertProducts
  <2>2. Tenant \in Tenants /\ Running /\ hand = Nobody /\ ~At("create")
    BY <1>0, <2>1, AtStatement, TenantType
  <2> DEFINE new == [tenant |-> Tenant, sku |-> Bulk, codes |-> CodesOf(Attributes)]
  <2>3. Uuid[run][Tenant] \in Ids /\ new \in Product
    BY <2>2, UuidType, CodesOfType, SeedAssumption DEF Product
  <2>4. row' \in [Ids -> Product \union {NoRow}] /\ there' \in [Requests -> SUBSET Ids]
    <3>1. Put([row EXCEPT ![Uuid[run][Tenant]] = new])
      BY <1>6 DEF InsertProducts
    <3> HIDE DEF new
    <3>2. [row EXCEPT ![Uuid[run][Tenant]] = new] \in [Ids -> Product \union {NoRow}]
      BY <1>0, <2>3 DEF TablesOK
    <3> QED
      BY <1>0, <3>1, <3>2, PutType
  <2>5. TablesOK'
    BY <1>0, <1>6, <2>4 DEF InsertProducts, TablesOK
  <2> QED
    BY <1>0, <1>6, <2>2, <2>5, StatementKeeps DEF InsertProducts, SheetOK
<1>7. CASE InsertConfig
  <2>1. loop \in 1 .. 3
    BY <1>0, <1>7, Deed DEF InsertConfig
  <2>2. Tenant \in Tenants /\ Running /\ hand = Nobody /\ ~At("create")
    BY <1>0, <2>1, AtStatement, TenantType
  <2>3. TablesOK' /\ configured' \subseteq Tenants
    BY <1>0, <1>7, <2>2 DEF InsertConfig, TablesOK, SheetOK
  <2> QED
    BY <1>0, <1>7, <2>2, <2>3, StatementKeeps DEF InsertConfig, SheetOK
<1>8. CASE InsertPrices
  <2>1. loop \in 1 .. 3
    BY <1>0, <1>8, Deed DEF InsertPrices
  <2>2. Running /\ hand = Nobody /\ ~At("create")
    BY <2>1, AtStatement
  <2>3. Uuid[run][Tenant] \in Ids /\ Tenant \in Tenants
    BY <2>2, UuidType
  <2>4. TablesOK'
    BY <1>0, <1>8, <2>3 DEF InsertPrices, TablesOK
  <2> QED
    BY <1>0, <1>8, <2>2, <2>4, StatementKeeps DEF InsertPrices, SheetOK
<1> QED
  BY <1>1, <1>2, <1>3, <1>4, <1>5, <1>6, <1>7, <1>8

\* What the seed asks the api for is well formed.
LEMMA BodyType ==
  ASSUME Parts, At("define") \/ At("create") \/ At("price")
  PROVE  Body \in Operation /\ WellFormed(Body) /\ At(Body.kind)
<1>0. SeedTypeOK /\ SheetOK /\ Calls /\ N \in Nat
  BY AttributesType DEF Parts
<1>1. Tenant \in Tenants
  BY <1>0, TenantType
<1>2. Unsaid \notin Codes /\ Unsaid \notin Skus
  BY CatalogAssumption
<1>3. CASE At("define")
  <2>1. ~At("create") /\ ~At("price") /\ Loops[loop][step].does = "define"
    BY <1>3 DEF At
  <2>2. Loops[loop][step].code \in Codes
    <3>1. loop = 4 /\ step \in 1 .. N
      BY <1>0, <1>3, Deed
    <3> QED
      BY <3>1, Places, AttributesType
  <2>3. Body = [kind |-> "define", tenant |-> Tenant, sku |-> Unsaid,
                codes |-> {Loops[loop][step].code}, id |-> Unsaid]
    BY <1>3, <2>1 DEF Body
  <2>4. {Loops[loop][step].code} \in (SUBSET Codes) \union {{Unsaid}}
    BY <2>2
  <2> QED
    BY <1>1, <1>2, <1>3, <2>2, <2>3, <2>4 DEF Operation, WellFormed
<1>4. CASE At("create")
  <2>1. ~At("define") /\ ~At("price") /\ Loops[loop][step].does = "create"
    BY <1>4 DEF At
  <2>2. Body = [kind |-> "create", tenant |-> Tenant, sku |-> ViaApi,
                codes |-> CodesOf(Attributes), id |-> Unsaid]
    BY <1>4, <2>1 DEF Body
  <2>3. /\ CodesOf(Attributes) \in (SUBSET Codes) \union {{Unsaid}}
        /\ CodesOf(Attributes) # {Unsaid} /\ ViaApi \in Skus /\ ViaApi # Unsaid
    BY <1>2, CodesOfType, SeedAssumption
  <2> QED
    BY <1>1, <1>4, <2>2, <2>3 DEF Operation, WellFormed
<1>5. CASE At("price")
  <2>1. ~At("define") /\ ~At("create") /\ Loops[loop][step].does = "price"
    BY <1>5 DEF At
  <2>2. Body = [kind |-> "price", tenant |-> Tenant, sku |-> Unsaid,
                codes |-> {}, id |-> saved]
    BY <1>5, <2>1 DEF Body
  <2>3. saved \in Ids
    BY <1>0, <1>5, Deed DEF Calls
  <2>4. {} \in (SUBSET Codes) \union {{Unsaid}}
    OBVIOUS
  <2> QED
    BY <1>1, <1>5, <2>2, <2>3, <2>4 DEF Operation, WellFormed
<1> QED
  BY <1>3, <1>4, <1>5

LEMMA NoOperationType == NoOperation \in Operation /\ WellFormed(NoOperation)
<1>1. (CHOOSE t \in Tenants : TRUE) \in Tenants
  BY CatalogAssumption
<1>2. {} \in (SUBSET Codes) \union {{Unsaid}}
  OBVIOUS
<1> QED
  BY <1>1, <1>2 DEF NoOperation, Operation, WellFormed

LEMMA CallKeeps ==
  ASSUME Parts, NEW r \in Requests, Call(r)
  PROVE  Parts' /\ Alone(r) /\ op'[r] = Body
<1>1. Body \in Operation /\ WellFormed(Body) /\ At(Body.kind) /\ Begin(r, Body)
  BY BodyType DEF Call
<1>2. /\ TablesOK' /\ RequestsOK' /\ (\A q \in Requests : Asked(q)') /\ Alone(r)
      /\ op'[r] = Body
  BY <1>1, BeginKeeps DEF Parts
<1>3. /\ UNCHANGED <<acts, loop, turn, step, run, setting, saved, configured, clean, lost>>
      /\ hand' = r
  BY DEF Call
<1>4. At(op[hand].kind)'
  BY <1>1, <1>2, <1>3 DEF At, Running
<1>5. Calls'
  BY <1>3, <1>4 DEF Parts, Calls, Running
<1>6. SheetOK' /\ SeedTypeOK'
  BY <1>1, <1>3 DEF Parts, SheetOK, SeedTypeOK, Running, At
<1> QED
  BY <1>2, <1>3, <1>5, <1>6 DEF Parts, CatalogInv

LEMMA AdminKeeps ==
  ASSUME Parts, NEW r \in Requests, NEW o \in AdminOps, Admin(r, o)
  PROVE  Parts' /\ Alone(r) /\ op'[r] = o
<1>1. o \in Operation /\ WellFormed(o) /\ Begin(r, o)
  BY SeedAssumption DEF Admin
<1>2. /\ TablesOK' /\ RequestsOK' /\ (\A q \in Requests : Asked(q)') /\ Alone(r)
      /\ op'[r] = o
  BY <1>1, BeginKeeps DEF Parts
<1>3. /\ UNCHANGED <<loop, turn, step, run, setting, hand, saved, configured>>
      /\ acts < MaxActs /\ acts' = acts + 1 /\ clean' = FALSE /\ lost' = {} /\ r # hand
  BY DEF Admin
<1>4. acts \in Nat /\ acts' \in 0 .. MaxActs /\ run' <= acts'
  BY <1>3, CatalogAssumption DEF Parts, CatalogInv, SheetOK, Calls
<1>5. hand # Nobody => op'[hand] = op[hand]
  BY <1>2, <1>3 DEF Alone, Parts, SheetOK
<1>6. Calls'
  BY <1>3, <1>4, <1>5 DEF Parts, Calls, Running, At
<1>7. SheetOK' /\ SeedTypeOK'
  BY <1>3 DEF Parts, SheetOK, SeedTypeOK, Running
<1> QED
  BY <1>2, <1>4, <1>6, <1>7 DEF Parts, CatalogInv

LEMMA StartKeeps ==
  ASSUME Parts, Start PROVE Parts'
<1>1. /\ ~Running /\ acts < MaxActs /\ loop' = 1 /\ turn' = 1 /\ step' = 1
      /\ run' = run + 1 /\ acts' = acts + 1 /\ clean' = Quiet /\ lost' = {}
      /\ UNCHANGED <<tables, index, news, pc, op, renames, reply, seen, there,
                     setting, hand, saved, configured>>
  BY DEF Start
<1>2. /\ hand = Nobody /\ acts \in 0 .. MaxActs /\ MaxActs \in Nat
      /\ run \in Nat /\ run <= acts
  BY <1>1, CatalogAssumption DEF Parts, SheetOK, Calls, CatalogInv
<1>3. /\ acts' \in 0 .. MaxActs /\ run' \in 0 .. MaxActs /\ run' <= acts' /\ run' # 0
  BY <1>1, <1>2
<1>4. CatalogInv'
  <2>1. TablesOK'
    BY <1>1 DEF Parts, CatalogInv, TablesOK, tables
  <2>2. \A r \in Requests : Asked(r)'
    BY <1>1 DEF Parts, CatalogInv, Asked
  <2> QED
    BY <1>1, <1>3, <2>1, <2>2 DEF Parts, CatalogInv, RequestsOK
<1>5. SeedTypeOK'
  <2>1. 1 \in 1 .. Len(Loops[1]) /\ 1 \in 1 .. Len(Fixtures)
    BY LoopsType, FixturesType
  <2> QED
    BY <1>1, <2>1 DEF SeedTypeOK, Running
<1>6. SheetOK'
  BY <1>1, <1>2, <1>3 DEF Parts, SheetOK, Quiet
<1>7. Calls'
  BY <1>1, <1>2, <1>3 DEF Calls
<1> QED
  BY <1>4, <1>5, <1>6, <1>7 DEF Parts

LEMMA AnsweredKeeps ==
  ASSUME Parts, Answered
  PROVE  Parts' /\ hand \in Requests /\ Alone(hand) /\ op'[hand] = NoOperation
<1>0. N \in Nat /\ SeedTypeOK /\ CatalogInv
  BY AttributesType DEF Parts
<1>1. /\ hand \in Requests /\ At(op[hand].kind) /\ op[hand].kind \in {"define", "create", "price"}
  BY HandIsCalling DEF Answered
<1>2. /\ hand' = Nobody /\ op' = [op EXCEPT ![hand] = NoOperation]
      /\ pc' = [pc EXCEPT ![hand] = "idle"] /\ reply' = [reply EXCEPT ![hand] = 0]
      /\ UNCHANGED <<row, defined, priced, index, news, renames, seen, there, acts>>
      /\ UNCHANGED <<run, setting, configured, clean, lost>>
      /\ Running /\ Advance
  BY DEF Answered, tables
<1>3. RequestsOK'
  <2>1. "idle" \in Labels /\ 0 \in Statuses
    BY DEF Labels, Statuses
  <2> QED
    BY <1>0, <1>2, <2>1, NoOperationType DEF CatalogInv, RequestsOK
<1>4. /\ op'[hand] = NoOperation /\ pc'[hand] = "idle" /\ reply'[hand] = 0
      /\ Alone(hand)
  BY <1>0, <1>1, <1>2 DEF CatalogInv, RequestsOK, Alone
<1>5. \A q \in Requests : Asked(q)'
  <2>1. \A q \in Requests \ {hand} : Asked(q)'
    BY <1>0, <1>4, OthersAsked DEF CatalogInv
  <2>2. NoOperation.kind = "list"
    BY DEF NoOperation
  <2>3. ASSUME NEW h \in Requests, h = hand PROVE Asked(h)'
    <3>1. op'[h].kind = "list" /\ pc'[h] = "idle" /\ reply'[h] = 0
      BY <1>4, <2>2, <2>3
    <3> QED
      BY <3>1 DEF Asked
  <2>4. QED
    BY <2>1, <2>3
<1>6. CatalogInv'
  BY <1>0, <1>2, <1>3, <1>5 DEF CatalogInv, TablesOK
<1>7. SeedTypeOK'
  BY <1>0, <1>2, Advances
<1>8. saved' \in Ids \union {Unsaid} /\ (At("create") => saved' \in Ids)
  <2>1. CASE At("create")
    <3>1. op[hand].kind = "create" /\ ~At("define")
      BY <1>1, <2>1 DEF At
    <3>2. reply[hand] = 201 /\ saved' = op[hand].id
      BY <2>1, <3>1 DEF Answered
    <3> QED
      BY <1>0, <1>1, <3>1, <3>2 DEF CatalogInv, Asked
  <2>2. CASE ~At("create")
    BY <2>2 DEF Answered
  <2> QED
    BY <2>1, <2>2
<1>9. Calls'
  <2>1. loop' = 4 /\ step' = N + 2 => At("create")
    <3>1. step \in Nat /\ (At("create") <=> loop = 4 /\ step = N + 1)
      BY <1>0, <1>2, Deed, LoopsType DEF SeedTypeOK, Running
    <3> QED
      BY <1>0, <1>2, <3>1 DEF Advance
  <2>2. run' <= acts' /\ run' # 0
    BY <1>2 DEF Parts, Calls
  <2> QED
    BY <1>2, <1>8, <2>1, <2>2 DEF Calls
<1>10. SheetOK'
  BY <1>2, <1>8 DEF Parts, SheetOK
<1> QED
  BY <1>1, <1>4, <1>6, <1>7, <1>9, <1>10 DEF Parts

LEMMA AbortKeeps ==
  ASSUME Parts, Abort PROVE Parts'
<1>1. /\ loop' = 0 /\ turn' = 1 /\ step' = 1 /\ setting' = Nobody /\ hand' = Nobody
      /\ saved' = Unsaid /\ lost' = {} /\ UNCHANGED <<catalog, run, configured, clean>>
  BY DEF Abort
<1>2. CatalogInv'
  BY <1>1, SameCatalog DEF Parts
<1>3. SeedTypeOK' /\ SheetOK' /\ Calls'
  BY <1>1, FixturesType DEF Parts, SeedTypeOK, SheetOK, Calls, Running, catalog
<1> QED
  BY <1>2, <1>3 DEF Parts

LEMMA ReconnectKeeps ==
  ASSUME Parts, Reconnect PROVE Parts'
<1>1. /\ setting' = Nobody
      /\ UNCHANGED <<catalog, loop, turn, step, run, hand, saved, configured, clean, lost>>
  BY DEF Reconnect
<1>2. CatalogInv'
  BY <1>1, SameCatalog DEF Parts
<1>3. SeedTypeOK' /\ SheetOK' /\ Calls'
  BY <1>1 DEF Parts, SeedTypeOK, SheetOK, Calls, Running, At, catalog
<1> QED
  BY <1>2, <1>3 DEF Parts

LEMMA RequestKeeps ==
  ASSUME Parts, NEW r \in Requests, Serve(r), UNCHANGED seed
  PROVE  Parts'
<1>1. CatalogInv' /\ Served(r)
  BY RequestServed DEF Parts
<1>2. hand # Nobody => op'[hand].kind = op[hand].kind
  BY <1>1 DEF Served, Alone, Parts, SheetOK
<1>3. /\ UNCHANGED <<loop, turn, step, run, setting, hand, saved, configured, clean, lost>>
      /\ acts' = acts
  BY <1>1 DEF seed, Served
<1>4. Calls'
  BY <1>2, <1>3 DEF Parts, Calls, At, Running
<1>5. SeedTypeOK' /\ SheetOK'
  BY <1>3 DEF Parts, SeedTypeOK, SheetOK, Running
<1> QED
  BY <1>1, <1>4, <1>5 DEF Parts

LEMMA EventKeeps ==
  ASSUME Parts, NEW e \in news, Handle(e), UNCHANGED seed
  PROVE  Parts'
<1>1. CatalogInv' /\ op' = op /\ acts' = acts
  BY HandleKeeps DEF Parts
<1>2. SeedTypeOK' /\ SheetOK' /\ Calls'
  BY <1>1 DEF seed, Parts, SeedTypeOK, SheetOK, Calls, Running, At
<1> QED
  BY <1>1, <1>2 DEF Parts

LEMMA LossKeeps ==
  ASSUME Parts, Loss
  PROVE  Parts'
<1>1. CatalogInv' /\ op' = op /\ acts' = acts
  BY LossMeans DEF Parts
<1>2. lost' \subseteq Tenants \X Ids
  <2>1. PICK gone \in SUBSET news : Lose(gone)
    BY LossMeans DEF Parts
  <2>2. \A e \in gone : e.tenant \in Tenants /\ e.id \in Ids
    BY DEF Parts, CatalogInv, TablesOK
  <2> QED
    BY <2>1, <2>2 DEF Lose, Parts, SheetOK
<1>3. SeedTypeOK' /\ SheetOK' /\ Calls'
  BY <1>1, <1>2 DEF Loss, Parts, SeedTypeOK, SheetOK, Calls, Running, At
<1> QED
  BY <1>1, <1>3 DEF Parts

LEMMA InApiSteps ==
  ASSUME InApi
  PROVE  \/ \E r \in Requests : Serve(r) /\ UNCHANGED seed
         \/ \E e \in news : Handle(e) /\ UNCHANGED seed
         \/ Loss
BY DEF InApi, Loss, seed

LEMMA StepKeeps == Parts /\ [Next]_vars => Parts'
<1> SUFFICES ASSUME Parts, [Next]_vars PROVE Parts'
  OBVIOUS
<1>1. CASE InApi
  BY <1>1, InApiSteps, RequestKeeps, EventKeeps, LossKeeps
<1>2. CASE \E r \in Requests : Call(r) \/ \E o \in AdminOps : Admin(r, o)
  BY <1>2, CallKeeps, AdminKeeps
<1>3. CASE \/ DeleteIndex \/ BulkIndex \/ Bind \/ Wipe
           \/ InsertDefinition \/ InsertProducts \/ InsertConfig \/ InsertPrices
  BY <1>3, StatementsKeep
<1>4. CASE Start \/ Answered \/ Abort \/ Reconnect
  BY <1>4, StartKeeps, AnsweredKeeps, AbortKeeps, ReconnectKeeps
<1>5. CASE UNCHANGED vars
  <2>1. CatalogInv'
    BY <1>5, SameCatalog DEF vars, Parts
  <2>2. SeedTypeOK' /\ SheetOK' /\ Calls'
    BY <1>5 DEF vars, seed, catalog, Parts, SeedTypeOK, SheetOK, Calls, Running, At
  <2> QED
    BY <2>1, <2>2 DEF Parts
<1> QED
  BY <1>1, <1>2, <1>3, <1>4, <1>5 DEF Next

LEMMA InitKeeps == Init => Parts
<1> SUFFICES ASSUME Init PROVE Parts
  OBVIOUS
<1>1. PICK s \in Starts : row = s.row /\ defined = s.defined
  BY DEF Init, CatalogInit
<1>2. s.row \in [Ids -> Product \union {NoRow}] /\ s.defined \in [Tenants -> SUBSET Codes]
  BY CatalogAssumption
<1>3. TablesOK
  BY <1>1, <1>2 DEF Init, CatalogInit, TablesOK, RowsOf
<1>4. RequestsOK
  <2>1. "idle" \in Labels /\ 0 \in Statuses /\ <<>> \in Seq(SUBSET Ids)
    BY DEF Labels, Statuses
  <2> QED
    BY <2>1, NoOperationType DEF Init, CatalogInit, RequestsOK
<1>5. \A r \in Requests : Asked(r)
  <2>1. NoOperation.kind = "list"
    BY DEF NoOperation
  <2> TAKE r \in Requests
  <2>2. op[r].kind = "list" /\ pc[r] = "idle" /\ reply[r] = 0
    BY <2>1 DEF Init, CatalogInit
  <2> QED
    BY <2>2 DEF Asked
<1>6. SeedTypeOK /\ SheetOK /\ Calls /\ acts \in 0 .. MaxActs
  <2>1. /\ loop = 0 /\ turn = 1 /\ step = 1 /\ run = 0 /\ acts = 0
        /\ setting = Nobody /\ hand = Nobody /\ saved = Unsaid /\ configured = {}
        /\ clean = FALSE /\ lost = {}
    BY DEF Init, CatalogInit
  <2>2. ~Running /\ 0 \in 0 .. MaxActs /\ 1 \in 1 .. Len(Fixtures)
    BY <2>1, FixturesType, CatalogAssumption DEF Running
  <2>3. SeedTypeOK
    BY <2>1, <2>2 DEF SeedTypeOK
  <2>4. SheetOK
    BY <2>1, <2>2 DEF SheetOK
  <2>5. Calls
    BY <2>1, <2>2 DEF Calls
  <2> QED
    BY <2>1, <2>2, <2>3, <2>4, <2>5
<1> QED
  BY <1>3, <1>4, <1>5, <1>6 DEF Parts, CatalogInv

\* Every variable of the catalog and of the seed keeps its type; at each await a
\* request is of a kind that comes there, and the seed's price is for a product.
THEOREM TypeCorrect == Spec => []TypeOK
<1>1. Parts => TypeOK
  BY TypeParts DEF TypeInv
<1> QED
  BY <1>1, InitKeeps, StepKeeps, PTL DEF Spec

-------------------------------------------------------------------------------
(* One product of a sku *)

\* A row that is put where no other product of the tenant has its sku.
LEMMA OnePut ==
  ASSUME TablesOK, OnePerSku(row), NEW i \in Ids, NEW new \in Product,
         row' = [row EXCEPT ![i] = new],
         \A j \in Ids \ {i} :
           ~(row[j] # NoRow /\ row[j].tenant = new.tenant /\ row[j].sku = new.sku)
  PROVE  OnePerSku(row')
BY DEF OnePerSku, TablesOK

LEMMA OneFewer ==
  ASSUME OnePerSku(row), \A i \in Ids : row'[i] = row[i] \/ row'[i] = NoRow
  PROVE  OnePerSku(row')
BY DEF OnePerSku

LEMMA OneKept == Parts /\ OneProductPerSku /\ [Next]_vars => OneProductPerSku'
<1> SUFFICES ASSUME Parts, OnePerSku(row), [Next]_vars PROVE OnePerSku(row')
  BY DEF OneProductPerSku, OnePerSku
<1>0. TablesOK /\ RequestsOK /\ SeedTypeOK /\ CatalogInv
  BY DEF Parts, CatalogInv
<1>1. ASSUME NEW r \in Requests, Insert(r) PROVE OnePerSku(row')
  <2> DEFINE o == op[r]
  <2> DEFINE new == [tenant |-> o.tenant, sku |-> o.sku, codes |-> o.codes]
  <2>1. CASE row' = row
    BY <2>1
  <2>2. ASSUME NEW i \in FreeIds, Holder(o.tenant, o.sku) = {}, row' = [row EXCEPT ![i] = new]
        PROVE  OnePerSku(row')
    <3>1. i \in Ids
      BY DEF FreeIds
    <3>2. new \in Product
      <4>1. Asked(r) /\ pc[r] = "insert" /\ o \in Operation
        BY <1>0, <1>1 DEF CatalogInv, RequestsOK, Insert
      <4>2. o.tenant \in Tenants /\ o.sku \in Skus /\ o.codes \subseteq Codes
        BY <4>1, OperationType DEF Asked
      <4> QED
        BY <4>2 DEF Product
    <3>3. new.tenant = o.tenant /\ new.sku = o.sku
      OBVIOUS
    <3> HIDE DEF new
    <3>4. \A j \in Ids \ {i} :
            ~(row[j] # NoRow /\ row[j].tenant = new.tenant /\ row[j].sku = new.sku)
      BY <2>2, <3>3 DEF Holder, RowsOf
    <3> QED
      BY <1>0, <2>2, <3>1, <3>2, <3>4, OnePut
  <2> QED
    BY <1>1, <2>1, <2>2 DEF Insert, Put
<1>2. ASSUME NEW r \in Requests, Write(r) PROVE OnePerSku(row')
  <2> DEFINE o == op[r]
  <2>1. CASE row' = row
    BY <2>1
  <2>2. CASE /\ o.id \in RowsOf(o.tenant) /\ row' = [row EXCEPT ![o.id] = Updated(r)]
             /\ ~(o.sku # Unsaid /\ Holder(o.tenant, o.sku) \ {o.id} # {})
    <3>1. /\ o.id \in Ids /\ row[o.id] \in Product /\ row[o.id].tenant = o.tenant
          /\ Updated(r) \in Product /\ Updated(r).tenant = o.tenant
          /\ Updated(r).sku = IF o.sku = Unsaid THEN row[o.id].sku ELSE o.sku
      BY <1>0, <2>2, UpdatedType DEF RowsOf
    <3> DEFINE i == o.id
    <3> DEFINE new == Updated(r)
    <3>4. i \in Ids /\ new \in Product /\ row' = [row EXCEPT ![i] = new]
      BY <2>2, <3>1
    <3>2. CASE o.sku = Unsaid
      <4>1. NoRow \notin Product
        BY CatalogAssumption
      <4>2. \A j \in Ids \ {o.id} :
              ~(row[j] # NoRow /\ row[j].tenant = o.tenant /\ row[j].sku = row[o.id].sku)
        BY <3>1, <4>1 DEF OnePerSku
      <4>3. \A j \in Ids \ {i} :
              ~(row[j] # NoRow /\ row[j].tenant = new.tenant /\ row[j].sku = new.sku)
        BY <3>1, <3>2, <4>2
      <4> HIDE DEF i, new
      <4> QED
        BY <1>0, <3>4, <4>3, OnePut
    <3>3. CASE o.sku # Unsaid
      <4>1. \A j \in Ids \ {o.id} :
              ~(row[j] # NoRow /\ row[j].tenant = o.tenant /\ row[j].sku = o.sku)
        BY <2>2, <3>3 DEF Holder, RowsOf
      <4>2. \A j \in Ids \ {i} :
              ~(row[j] # NoRow /\ row[j].tenant = new.tenant /\ row[j].sku = new.sku)
        BY <3>1, <3>3, <4>1
      <4> HIDE DEF i, new
      <4> QED
        BY <1>0, <3>4, <4>2, OnePut
    <3> QED
      BY <3>2, <3>3
  <2> QED
    BY <1>2, <2>1, <2>2 DEF Write, Put, Updated
<1>3. ASSUME NEW r \in Requests, DeleteRow(r) PROVE OnePerSku(row')
  <2>1. \A i \in Ids : row'[i] = row[i] \/ row'[i] = NoRow
    BY <1>0, <1>3 DEF DeleteRow, Put, TablesOK
  <2> QED
    BY <2>1, OneFewer
<1>4. CASE Wipe
  <2>1. \A i \in Ids : row'[i] = row[i] \/ row'[i] = NoRow
    BY <1>4 DEF Wipe, Put
  <2> QED
    BY <2>1, OneFewer
<1>5. CASE InsertProducts
  <2> DEFINE new == [tenant |-> Tenant, sku |-> Bulk, codes |-> CodesOf(Attributes)]
  <2>1. /\ Holder(Tenant, Bulk) = {} /\ row' = [row EXCEPT ![Uuid[run][Tenant]] = new]
        /\ Running
    BY <1>5 DEF InsertProducts, Put, At
  <2>2. Uuid[run][Tenant] \in Ids /\ new \in Product /\ new.tenant = Tenant /\ new.sku = Bulk
    BY <2>1, UuidType, CodesOfType, SeedAssumption DEF Product
  <2> HIDE DEF new
  <2> QED
    BY <1>0, <2>1, <2>2, OnePut DEF Holder, RowsOf
<1>6. CASE UNCHANGED row
  BY <1>6
<1>7. ASSUME NEW r \in Requests, Serve(r)
      PROVE  UNCHANGED row \/ Insert(r) \/ Write(r) \/ DeleteRow(r)
  BY <1>7 DEF Serve, Validate, Look, Previous, Publish, ListPage, Seek, Define,
              UpsertPrice, tables
<1>8. CASE (\E e \in news : Handle(e)) \/ Loss
  <2>1. UNCHANGED row
    BY <1>8, LossMeans DEF Handle, tables, Parts
  <2> QED
    BY <2>1
<1>9. ASSUME \/ \E r \in Requests : Call(r) \/ \E o \in AdminOps : Admin(r, o)
             \/ Start \/ DeleteIndex \/ BulkIndex \/ Bind \/ InsertDefinition
             \/ InsertConfig \/ InsertPrices \/ Answered \/ Abort \/ Reconnect
             \/ UNCHANGED vars
      PROVE  UNCHANGED row
  BY <1>9 DEF Call, Admin, Begin, Start, DeleteIndex, BulkIndex, Bind, InsertDefinition,
              InsertConfig, InsertPrices, Answered, Abort, Reconnect, vars, catalog, tables
<1> QED
  BY <1>1, <1>2, <1>3, <1>4, <1>5, <1>6, <1>7, <1>8, <1>9, InApiSteps DEF Next

\* However the requests and the seed interleave, a tenant has one product of a sku.
THEOREM SkuCorrect == Spec => []OneProductPerSku
<1>1. Init => OneProductPerSku
  BY CatalogAssumption DEF Init, CatalogInit, OneProductPerSku
<1> QED
  BY <1>1, InitKeeps, StepKeeps, OneKept, PTL DEF Spec

-------------------------------------------------------------------------------
(* The listing is complete *)

LEMMA OnePageMore ==
  ASSUME NEW pages \in Seq(SUBSET Ids), NEW page \in SUBSET Ids
  PROVE  /\ Shown(Append(pages, page)) = Shown(pages) \union page
         /\ Ascending(pages) /\ (\A i \in Shown(pages), j \in page : i < j)
              => Ascending(Append(pages, page))
<1> DEFINE more == Append(pages, page)
<1>1. /\ Len(pages) \in Nat /\ DOMAIN pages = 1 .. Len(pages)
      /\ DOMAIN more = 1 .. Len(pages) + 1
      /\ \A n \in 1 .. Len(pages) : more[n] = pages[n]
      /\ more[Len(pages) + 1] = page
  OBVIOUS
<1> HIDE DEF more
<1>2. DOMAIN more = DOMAIN pages \union {Len(pages) + 1}
  BY <1>1
<1>3. Shown(more) = Shown(pages) \union page
  BY <1>1, <1>2 DEF Shown
<1>4. ASSUME Ascending(pages), \A i \in Shown(pages), j \in page : i < j
      PROVE  Ascending(more)
  <2> SUFFICES ASSUME NEW m \in DOMAIN more, NEW n \in DOMAIN more, m < n,
                      NEW i \in more[m], NEW j \in more[n]
               PROVE  i < j
    BY DEF Ascending
  <2>1. m \in 1 .. Len(pages) /\ i \in pages[m] /\ i \in Shown(pages)
    BY <1>1 DEF Shown
  <2>2. CASE n = Len(pages) + 1
    BY <1>1, <1>4, <2>1, <2>2
  <2>3. CASE n # Len(pages) + 1
    <3>1. n \in DOMAIN pages /\ j \in pages[n]
      BY <1>1, <2>3
    <3> QED
      BY <1>1, <1>4, <2>1, <3>1 DEF Ascending
  <2> QED
    BY <2>2, <2>3
<1> QED
  BY <1>3, <1>4 DEF more

\* The next page brings a listing up to the new cursor, or to the end.
LEMMA PageMet ==
  ASSUME Parts, NEW r \in Requests, Met(r), ListPage(r)
  PROVE  Met(r)'
<1> DEFINE o == op[r]
<1> DEFINE rows == Beyond(o)
<1> DEFINE page == PageOf(rows)
<1> DEFINE cursor == CHOOSE i \in page : \A j \in page : j <= i
<1> DEFINE pages == seen[r]
<1>0. Ids \subseteq Nat /\ Unsaid \notin Ids
  BY CatalogAssumption
<1>1. /\ pc[r] = "page" /\ o.kind = "list" /\ reply[r] = 0
      /\ o \in Operation /\ pages \in Seq(SUBSET Ids) /\ o.id \in Ids \union {Unsaid}
      /\ row' = row /\ there' = there
  BY OperationType DEF ListPage, Parts, CatalogInv, Asked, RequestsOK, tables
<1>2. /\ rows \in SUBSET Ids /\ page \in SUBSET rows /\ page \in SUBSET Ids
      /\ \A i \in page, j \in rows : j <= i => j \in page
      /\ \A i \in rows : o.id = Unsaid \/ i > o.id
      /\ \A i \in there[r] : i \in rows \/ (o.id # Unsaid /\ i <= o.id)
  <2>1. rows \in SUBSET Ids /\ \A i \in rows : o.id = Unsaid \/ i > o.id
    BY DEF Beyond, RowsOf
  <2>2. page \in SUBSET rows /\ \A i \in page, j \in rows : j <= i => j \in page
    BY <2>1, PageCut
  <2>3. ASSUME NEW i \in there[r] PROVE i \in rows \/ (o.id # Unsaid /\ i <= o.id)
    <3>1. i \in RowsOf(o.tenant) /\ i \in Nat
      BY <1>0 DEF Met, RowsOf
    <3>2. CASE o.id = Unsaid \/ i > o.id
      BY <3>1, <3>2 DEF Beyond
    <3>3. CASE o.id # Unsaid /\ ~(i > o.id)
      <4>1. o.id \in Nat /\ o.id # Unsaid /\ ~(i > o.id)
        BY <1>0, <1>1, <3>3
      <4> HIDE DEF o, rows
      <4>2. i <= o.id
        BY <3>1, <4>1
      <4> QED
        BY <4>1, <4>2
    <3> QED
      BY <3>2, <3>3
  <2> HIDE DEF rows, page
  <2> QED
    BY <2>1, <2>2, <2>3
<1>3. seen'[r] = Append(pages, page)
  BY DEF ListPage, Parts, CatalogInv, RequestsOK
<1>4. /\ Ascending(pages)
      /\ o.id = Unsaid => Shown(pages) = {}
      /\ o.id # Unsaid => /\ \A i \in Shown(pages) : i <= o.id
                         /\ \A i \in there[r] : i <= o.id => i \in Shown(pages)
      /\ Shown(pages) \in SUBSET Ids
  <2>1. Shown(pages) \in SUBSET Ids
    BY <1>1 DEF Shown
  <2>2. o.id = Unsaid => pages = <<>>
    BY <1>1 DEF Met
  <2>3. pages = <<>> => Shown(pages) = {} /\ Ascending(pages)
    BY DEF Shown, Ascending
  <2> QED
    BY <1>1, <2>1, <2>2, <2>3 DEF Met
<1> HIDE DEF page, rows
<1>5. \A i \in Shown(pages), j \in page : i < j
  <2> TAKE i \in Shown(pages), j \in page
  <2>1. o.id # Unsaid /\ i <= o.id /\ j > o.id /\ i \in Nat /\ j \in Nat /\ o.id \in Nat
    BY <1>0, <1>1, <1>2, <1>4
  <2> QED
    BY <2>1
<1>6. Shown(seen'[r]) = Shown(pages) \union page /\ Ascending(seen'[r])
  BY <1>1, <1>2, <1>3, <1>4, <1>5, OnePageMore
<1>7. there[r] \subseteq RowsOf(o.tenant)
  BY DEF Met
<1>8. CASE page = rows
  <2>1. Answer(r, 200) /\ op' = op
    BY <1>8 DEF ListPage, page, rows
  <2>2. pc'[r] = "over"
    BY <2>1 DEF Answer, Goto, Parts, CatalogInv, RequestsOK
  <2>3. there[r] \subseteq Shown(seen'[r])
    BY <1>2, <1>4, <1>6, <1>8
  <2> QED
    BY <1>1, <1>6, <1>7, <2>1, <2>2, <2>3 DEF Met, RowsOf
<1>9. CASE page # rows
  <2>1. cursor \in page /\ \A j \in page : j <= cursor
    BY <1>2, <1>9, Cursor DEF page
  <2>2. op' = [op EXCEPT ![r].id = cursor] /\ pc' = pc /\ reply' = reply
    BY <1>9 DEF ListPage, page, rows
  <2> HIDE DEF cursor
  <2>3. op'[r].id = cursor /\ op'[r].kind = "list" /\ op'[r].tenant = o.tenant
    BY <1>1, <2>2 DEF Parts, CatalogInv, RequestsOK, Operation
  <2>4. \A i \in Shown(seen'[r]) : i <= cursor
    <3> TAKE i \in Shown(seen'[r])
    <3>1. CASE i \in page
      BY <2>1, <3>1
    <3>2. CASE i \in Shown(pages)
      <4>1. i < cursor /\ i \in Nat /\ cursor \in Nat
        BY <1>0, <1>2, <1>4, <1>5, <2>1, <3>2
      <4> QED
        BY <4>1
    <3> QED
      BY <1>6, <3>1, <3>2
  <2>5. \A i \in there[r] : i <= cursor => i \in Shown(seen'[r])
    BY <1>2, <1>4, <1>6, <2>1
  <2>6. cursor # Unsaid
    BY <1>0, <1>2, <2>1
  <2> QED
    BY <1>1, <1>6, <1>7, <2>2, <2>3, <2>4, <2>5, <2>6 DEF Met, RowsOf
<1> QED
  BY <1>8, <1>9

\* A product that stays in a listing's history stays in the tenant's rows.
Steady ==
  \A q \in Requests : \A i \in there'[q] :
    i \in there[q] /\ row'[i] # NoRow /\ row'[i].tenant = row[i].tenant

LEMMA SteadyPut ==
  ASSUME NEW rows, Put(rows),
         \A q \in Requests : \A i \in there[q] :
           rows[i] = NoRow \/ rows[i].tenant = row[i].tenant
  PROVE  Steady
BY DEF Put, Steady

LEMMA SteadySame ==
  ASSUME Listed, UNCHANGED <<row, there>>
  PROVE  Steady
BY DEF Listed, Met, Steady, RowsOf

LEMMA SteadyRequest ==
  ASSUME Parts, Listed, NEW r \in Requests, Serve(r)
  PROVE  Steady
<1>0. TablesOK /\ CatalogInv /\ \A q \in Requests : \A i \in there[q] : i \in Ids /\ row[i] # NoRow
  BY DEF Parts, CatalogInv, Listed, Met, RowsOf
<1>1. CASE UNCHANGED <<row, there>>
  BY <1>1, SteadySame
<1>2. CASE Insert(r) /\ ~UNCHANGED <<row, there>>
  <2>1. PICK i \in FreeIds :
          Put([row EXCEPT ![i] = [tenant |-> op[r].tenant, sku |-> op[r].sku,
                                  codes |-> op[r].codes]])
    BY <1>2 DEF Insert
  <2>2. i \in Ids /\ row[i] = NoRow
    BY DEF FreeIds
  <2>3. \A q \in Requests : \A j \in there[q] :
          [row EXCEPT ![i] = [tenant |-> op[r].tenant, sku |-> op[r].sku,
                              codes |-> op[r].codes]][j] = row[j]
    BY <1>0, <2>2 DEF TablesOK
  <2> QED
    BY <2>1, <2>3, SteadyPut
<1>3. CASE Write(r) /\ ~UNCHANGED <<row, there>>
  <2>1. op[r].id \in RowsOf(op[r].tenant) /\ Put([row EXCEPT ![op[r].id] = Updated(r)])
    BY <1>3 DEF Write, Updated
  <2>2. Updated(r).tenant = row[op[r].id].tenant
    BY <1>0, <2>1, UpdatedType DEF RowsOf
  <2>3. \A q \in Requests : \A j \in there[q] :
          [row EXCEPT ![op[r].id] = Updated(r)][j].tenant = row[j].tenant
    BY <1>0, <2>2 DEF TablesOK
  <2> QED
    BY <2>1, <2>3, SteadyPut
<1>4. CASE DeleteRow(r) /\ ~UNCHANGED <<row, there>>
  <2>1. Put([row EXCEPT ![op[r].id] = NoRow])
    BY <1>4 DEF DeleteRow
  <2>2. \A q \in Requests : \A j \in there[q] :
          \/ [row EXCEPT ![op[r].id] = NoRow][j] = NoRow
          \/ [row EXCEPT ![op[r].id] = NoRow][j].tenant = row[j].tenant
    BY <1>0 DEF TablesOK
  <2> QED
    BY <2>1, <2>2, SteadyPut
<1>5. UNCHANGED <<row, there>> \/ Insert(r) \/ Write(r) \/ DeleteRow(r)
  BY DEF Serve, Validate, Look, Previous, Publish, ListPage, Seek, Define,
         UpsertPrice, tables
<1> QED
  BY <1>1, <1>2, <1>3, <1>4, <1>5

LEMMA SteadySeed ==
  ASSUME Parts, Listed,
         \/ DeleteIndex \/ BulkIndex \/ Bind \/ Wipe
         \/ InsertDefinition \/ InsertProducts \/ InsertConfig \/ InsertPrices
  PROVE  Steady
<1>0. TablesOK /\ \A q \in Requests : \A i \in there[q] : i \in Ids /\ row[i] # NoRow
  BY DEF Parts, CatalogInv, Listed, Met, RowsOf
<1>1. CASE UNCHANGED <<row, there>>
  BY <1>1, SteadySame
<1>2. CASE InsertProducts
  <2>1. /\ row[Uuid[run][Tenant]] = NoRow
        /\ Put([row EXCEPT ![Uuid[run][Tenant]] =
                  [tenant |-> Tenant, sku |-> Bulk, codes |-> CodesOf(Attributes)]])
    BY <1>2 DEF InsertProducts
  <2>2. \A q \in Requests : \A j \in there[q] :
          [row EXCEPT ![Uuid[run][Tenant]] =
             [tenant |-> Tenant, sku |-> Bulk, codes |-> CodesOf(Attributes)]][j] = row[j]
    BY <1>0, <2>1 DEF TablesOK
  <2> QED
    BY <2>1, <2>2, SteadyPut
<1>3. CASE Wipe /\ ~UNCHANGED <<row, there>>
  <2>1. Put([i \in Ids |-> IF row[i] # NoRow /\ row[i].tenant = setting
                           THEN NoRow ELSE row[i]])
    BY <1>3 DEF Wipe
  <2> DEFINE rows == [i \in Ids |-> IF row[i] # NoRow /\ row[i].tenant = setting
                                    THEN NoRow ELSE row[i]]
  <2>2. \A q \in Requests : \A j \in there[q] : rows[j] = NoRow \/ rows[j].tenant = row[j].tenant
    BY <1>0
  <2> HIDE DEF rows
  <2>3. Put(rows)
    BY <2>1 DEF rows
  <2> QED
    BY <2>2, <2>3, SteadyPut
<1>4. UNCHANGED <<row, there>> \/ InsertProducts \/ Wipe
  BY DEF DeleteIndex, BulkIndex, Bind, InsertDefinition, InsertConfig, InsertPrices, tables
<1> QED
  BY <1>1, <1>2, <1>3, <1>4

LEMMA MetKept ==
  ASSUME NEW q \in Requests, Met(q), Steady, there[q] \subseteq Ids,
         op'[q] = op[q], reply'[q] = reply[q], seen'[q] = seen[q],
         pc'[q] = pc[q] \/ pc'[q] # "page"
  PROVE  Met(q)'
<1>1. there'[q] \subseteq there[q]
  BY DEF Steady
<1>2. there'[q] \subseteq RowsOf(op[q].tenant)'
  BY DEF Steady, RowsOf, Met
<1>3. op[q].kind # "list" => there'[q] = {}
  BY <1>1 DEF Met
<1> QED
  BY <1>1, <1>2, <1>3 DEF Met

LEMMA RequestMet ==
  ASSUME Parts, Listed, NEW r \in Requests, Serve(r)
  PROVE  Listed'
<1>1. CatalogInv' /\ Served(r) /\ Steady /\ CatalogInv
  BY RequestServed, SteadyRequest DEF Parts
<1>2. Met(r)'
  <2>0. Met(r) /\ Asked(r) /\ there[r] \subseteq Ids /\ Asked(r)'
    BY <1>1 DEF Listed, CatalogInv, TablesOK
  <2>1. CASE ListPage(r)
    BY <2>0, <2>1, PageMet
  <2>2. CASE ~ListPage(r)
    <3>1. op[r].kind # "list"
      BY <2>0, <2>2 DEF Asked, Serve, Validate, Look, Insert, Previous, Write, DeleteRow,
                        Publish, Seek, Define, UpsertPrice
    <3>2. there'[r] = {} /\ op'[r].kind # "list"
      BY <1>1, <2>0, <3>1 DEF Steady, Met, Served
    <3> QED
      BY <2>0, <3>2 DEF Met, Asked
  <2> QED
    BY <2>1, <2>2
<1>3. ASSUME NEW q \in Requests, q # r PROVE Met(q)'
  <2>1. /\ pc'[q] = pc[q] /\ op'[q] = op[q] /\ reply'[q] = reply[q] /\ seen'[q] = seen[q]
        /\ Met(q) /\ there[q] \subseteq Ids
    BY <1>1, <1>3 DEF Served, Alone, Listed, CatalogInv, TablesOK
  <2> QED
    BY <1>1, <2>1, MetKept
<1> QED
  BY <1>2, <1>3 DEF Listed

LEMMA BeginMet ==
  ASSUME Parts, Listed, NEW r \in Requests, NEW o \in Operation, WellFormed(o), Begin(r, o)
  PROVE  Listed'
<1>1. /\ RequestsOK' /\ Alone(r) /\ op'[r] = o /\ Asked(r)' /\ CatalogInv
  BY BeginKeeps DEF Parts
<1>2. /\ row' = row /\ reply'[r] = 0 /\ seen'[r] = <<>>
      /\ there'[r] = IF o.kind = "list" THEN RowsOf(o.tenant) ELSE {}
      /\ \A q \in Requests \ {r} : there'[q] = there[q]
  BY <1>1 DEF Begin, tables, CatalogInv, RequestsOK, TablesOK
<1>3. Met(r)'
  BY <1>1, <1>2 DEF Met, WellFormed, RowsOf, Asked
<1>4. ASSUME NEW q \in Requests, q # r PROVE Met(q)'
  BY <1>1, <1>2, <1>4 DEF Listed, Met, Alone, RowsOf
<1> QED
  BY <1>3, <1>4 DEF Listed

LEMMA SameMet ==
  ASSUME Parts, Listed, Steady, UNCHANGED <<pc, op, reply, seen>>
  PROVE  Listed'
<1> SUFFICES ASSUME NEW q \in Requests PROVE Met(q)'
  BY DEF Listed
<1>1. Met(q) /\ there[q] \subseteq Ids
  BY DEF Listed, Parts, CatalogInv, TablesOK
<1> QED
  BY <1>1, MetKept

LEMMA AnsweredMet ==
  ASSUME Parts, Listed, Answered
  PROVE  Listed'
<1>1. PICK h \in Requests : h = hand
  BY AnsweredKeeps
<1>2. Alone(h) /\ op'[h] = NoOperation /\ op[h].kind # "list"
  BY <1>1, AnsweredKeeps, HandIsCalling DEF Answered
<1>3. UNCHANGED <<row, there>> /\ pc'[h] = "idle" /\ reply'[h] = 0
  BY <1>1 DEF Answered, tables, Parts, CatalogInv, RequestsOK
<1>4. Steady
  BY <1>3, SteadySame
<1>5. Met(h)'
  BY <1>2, <1>3 DEF Listed, Met
<1>6. ASSUME NEW q \in Requests, q # h PROVE Met(q)'
  <2>1. /\ pc'[q] = pc[q] /\ op'[q] = op[q] /\ reply'[q] = reply[q] /\ seen'[q] = seen[q]
        /\ Met(q) /\ there[q] \subseteq Ids
    BY <1>2, <1>6 DEF Alone, Listed, Parts, CatalogInv, TablesOK
  <2> QED
    BY <1>4, <2>1, MetKept
<1> QED
  BY <1>5, <1>6 DEF Listed

LEMMA StepListed == Parts /\ Listed /\ [Next]_vars => Listed'
<1> SUFFICES ASSUME Parts, Listed, [Next]_vars PROVE Listed'
  OBVIOUS
<1>1. ASSUME NEW r \in Requests, Serve(r) PROVE Listed'
  BY <1>1, RequestMet
<1>2. ASSUME UNCHANGED <<row, there, pc, op, reply, seen>> PROVE Listed'
  BY <1>2, SteadySame, SameMet
<1>3. ASSUME NEW r \in Requests, Call(r) PROVE Listed'
  BY <1>3, BodyType, BeginMet DEF Call
<1>4. ASSUME NEW r \in Requests, NEW o \in AdminOps, Admin(r, o) PROVE Listed'
  <2>1. o \in Operation /\ WellFormed(o) /\ Begin(r, o)
    BY <1>4, SeedAssumption DEF Admin
  <2> QED
    BY <2>1, BeginMet
<1>5. CASE \/ DeleteIndex \/ BulkIndex \/ Bind \/ Wipe
           \/ InsertDefinition \/ InsertProducts \/ InsertConfig \/ InsertPrices
  <2>1. UNCHANGED <<pc, op, reply, seen>>
    BY <1>5 DEF DeleteIndex, BulkIndex, Bind, Wipe, InsertDefinition, InsertProducts,
                InsertConfig, InsertPrices, requests
  <2> QED
    BY <1>5, <2>1, SteadySeed, SameMet
<1>6. CASE Answered
  BY <1>6, AnsweredMet
<1>7. CASE Start \/ Abort \/ Reconnect \/ UNCHANGED vars
  BY <1>2, <1>7 DEF Start, Abort, Reconnect, vars, catalog, tables
<1>8. ASSUME NEW e \in news, Handle(e) PROVE Listed'
  BY <1>2, <1>8 DEF Handle, tables
<1>9. CASE Loss
  <2>1. /\ UNCHANGED <<row, there, op, reply, seen>>
        /\ \A q \in Requests : pc'[q] \in {pc[q], "over"}
    BY <1>9, LossMeans DEF Parts
  <2>2. Steady
    BY <2>1, SteadySame
  <2>3. ASSUME NEW q \in Requests PROVE Met(q)'
    <3>1. Met(q) /\ there[q] \subseteq Ids /\ (pc'[q] = pc[q] \/ pc'[q] # "page")
      BY <2>1 DEF Listed, Parts, CatalogInv, TablesOK
    <3> QED
      BY <2>1, <2>2, <3>1, MetKept
  <2> QED
    BY <2>3 DEF Listed
<1> QED
  BY <1>1, <1>3, <1>4, <1>5, <1>6, <1>7, <1>8, <1>9, InApiSteps DEF Next

\* A listing that has come to its end has met every product that was there all
\* the time, and in ascending order, so none of them twice.
THEOREM ListingCorrect == Spec => []ListingComplete
<1>1. Init => Listed
  BY DEF Init, CatalogInit, Listed, Met, NoOperation
<1>2. Listed => ListingComplete
  BY DEF Listed, Met, Ascending, Shown, ListingComplete
<1> QED
  BY <1>1, <1>2, InitKeeps, StepKeeps, StepListed, PTL DEF Spec

-------------------------------------------------------------------------------
(* What the seed leaves behind *)

\* A run of the seed, or what it left, that nobody has interfered with.
Undisturbed == clean /\ loop \in 1 .. 5

\* The loop's body is done for the k-th tenant.
Past(l, k) == loop > l \/ (loop = l /\ turn > k)

Here(l, k) == loop = l /\ turn = k

\* The api's turn for the k-th tenant is still to come.
BeforeApi(k) == loop < 4 \/ (loop = 4 /\ turn < k)

BulkId(t) == Uuid[run][t]

\* The documents of a tenant, those included whose event is under way or came to nothing.
Indexed(t) ==
  index[t] \union {i \in Ids : \E e \in news : e.tenant = t /\ e.id = i}
           \union {i \in Ids : <<t, i>> \in lost}

PricedOf(t) == {i \in Ids : <<t, i>> \in priced}

\* The rows of a tenant: the product written in bulk, and what the api created.
Stocked(t, created) ==
  /\ RowsOf(t) = {BulkId(t)} \union created
  /\ row[BulkId(t)].sku = Bulk /\ \A i \in created : row[i].sku = ViaApi

\* The product of the api for the tenant whose turn it is: what of it is in the
\* table, and what of it was published.
Created ==
  IF step = N + 2 THEN {saved}
  ELSE IF step = N + 1 /\ hand # Nobody /\ op[hand].id # Unsaid THEN {op[hand].id} ELSE {}

Published ==
  IF step = N + 2 THEN {saved}
  ELSE IF step = N + 1 /\ hand # Nobody /\ reply[hand] = 201 THEN {op[hand].id} ELSE {}

KeptIndex(k) ==
  LET t == Fixtures[k]
  IN  /\ Here(1, k) /\ step = 2 => index[t] = {}
      /\ Past(1, k) /\ BeforeApi(k) => Indexed(t) = {BulkId(t)}
      /\ Here(4, k) => Indexed(t) = {BulkId(t)} \union Published
      /\ Past(4, k) => Indexed(t) = RowsOf(t)

KeptRows(k) ==
  LET t == Fixtures[k]
  IN  /\ Here(2, k) /\ step \in 3 .. N + 4 /\ setting = t => RowsOf(t) = {}
      /\ ((Here(2, k) /\ step = N + 5) \/ Past(2, k)) /\ BeforeApi(k) => Stocked(t, {})
      /\ Here(4, k) => Stocked(t, Created)
      /\ Past(4, k) => \E i \in Ids : Stocked(t, {i})

KeptDefinitions(k) ==
  LET t == Fixtures[k]
  IN  /\ Here(2, k) /\ step \in 4 .. N + 4 /\ setting = t
           => defined[t] = {Attributes[n] : n \in 1 .. step - 4}
      /\ (Here(2, k) /\ step = N + 5) \/ Past(2, k) => defined[t] = CodesOf(Attributes)

KeptPrices(k) ==
  LET t == Fixtures[k]
  IN  /\ Here(3, k) /\ step \in 3 .. 5 /\ setting = t => PricedOf(t) = {}
      /\ ((Here(3, k) /\ step = 6) \/ Past(3, k)) /\ BeforeApi(k) => PricedOf(t) = {BulkId(t)}
      /\ Here(4, k) /\ step # N + 2 => PricedOf(t) = {BulkId(t)}
      /\ Here(4, k) /\ step = N + 2 =>
           /\ BulkId(t) \in PricedOf(t) /\ PricedOf(t) \subseteq {BulkId(t), saved}
           /\ hand # Nobody /\ (pc[hand] = "publish" \/ reply[hand] = 201)
                => saved \in PricedOf(t)
      /\ Past(4, k) => PricedOf(t) = RowsOf(t)

KeptConfig(k) ==
  (Here(3, k) /\ step \in 5 .. 6) \/ Past(3, k) => Fixtures[k] \in configured

\* The call the seed waits for is on behalf of the tenant whose turn it is.
Bidden ==
  /\ op[hand].tenant = Tenant
  /\ op[hand].kind = "define" => op[hand].codes \subseteq CodesOf(Attributes)
  /\ op[hand].kind = "create" => op[hand].sku = ViaApi
  /\ op[hand].kind = "create" /\ pc[hand] \in {"validate", "look", "insert"}
       => op[hand].id = Unsaid
  /\ op[hand].kind = "price" => op[hand].id = saved

Undisturbedly ==
  /\ \A r \in Requests : pc[r] \notin {"idle", "over"} => r = hand
  /\ \A e \in news : e.keep
  /\ loop < 4 => news = {} /\ lost = {}
  /\ hand # Nobody => Bidden
  /\ loop \in {2, 3} /\ step > 1 => setting \in {Tenant, Nobody}

Kept(k) ==
  KeptIndex(k) /\ KeptRows(k) /\ KeptDefinitions(k) /\ KeptPrices(k) /\ KeptConfig(k)

SeedInv ==
  Undisturbed => Undisturbedly /\ \A k \in 1 .. Len(Fixtures) : Kept(k)

LEMMA Whereabouts ==
  ASSUME Parts
  PROVE  /\ N \in Nat /\ Len(Fixtures) \in Nat
         /\ loop \in 0 .. 5 /\ turn \in 1 .. Len(Fixtures) /\ step \in Nat \ {0}
         /\ loop = 1 => step \in 1 .. 2
         /\ loop = 2 => step \in 1 .. N + 5
         /\ loop = 3 => step \in 1 .. 6
         /\ loop = 4 => step \in 1 .. N + 2
         /\ Running <=> loop \in 1 .. 4
<1>1. N \in Nat /\ Len(Fixtures) \in Nat /\ loop \in 0 .. 5 /\ turn \in 1 .. Len(Fixtures)
  BY AttributesType, FixturesType DEF Parts, SeedTypeOK
<1>2. CASE Running
  <2>1. loop \in 1 .. 4 /\ step \in 1 .. Len(Loops[loop])
    BY <1>2 DEF Parts, SeedTypeOK, Running
  <2>2. /\ Len(Loops[loop]) = IF loop = 1 THEN 2 ELSE IF loop = 2 THEN N + 5
                            ELSE IF loop = 3 THEN 6 ELSE N + 2
        /\ Len(Loops[loop]) \in Nat
    BY <2>1, LoopsType
  <2> QED
    BY <1>1, <1>2, <2>1, <2>2
<1>3. CASE ~Running
  BY <1>1, <1>3 DEF Parts, SeedTypeOK, Running
<1> QED
  BY <1>2, <1>3

\* The next place: in the body, with the next tenant, or in the next loop.
LEMMA Moved ==
  ASSUME Parts, Running, Advance
  PROVE  LET last == IF loop = 1 THEN 2 ELSE IF loop = 2 THEN N + 5
                     ELSE IF loop = 3 THEN 6 ELSE N + 2
         IN  \/ step < last /\ loop' = loop /\ turn' = turn /\ step' = step + 1
             \/ /\ step = last /\ step' = 1
                /\ turn < Len(Fixtures) /\ loop' = loop /\ turn' = turn + 1
             \/ /\ step = last /\ step' = 1
                /\ turn = Len(Fixtures) /\ loop' = loop + 1 /\ turn' = 1
<1> DEFINE last == IF loop = 1 THEN 2 ELSE IF loop = 2 THEN N + 5
                   ELSE IF loop = 3 THEN 6 ELSE N + 2
<1>1. loop \in 1 .. 4
  BY DEF Running
<1>2. last = Len(Loops[loop]) /\ last \in Nat /\ step \in 1 .. last
  BY <1>1, LoopsType DEF Parts, SeedTypeOK, Running
<1>3. turn \in 1 .. Len(Fixtures) /\ Len(Fixtures) \in Nat
  BY Whereabouts
<1> HIDE DEF last
<1>4. \/ step < last /\ loop' = loop /\ turn' = turn /\ step' = step + 1
      \/ /\ step = last /\ step' = 1
         /\ turn < Len(Fixtures) /\ loop' = loop /\ turn' = turn + 1
      \/ /\ step = last /\ step' = 1
         /\ turn = Len(Fixtures) /\ loop' = loop + 1 /\ turn' = 1
  BY <1>2, <1>3 DEF Advance
<1> QED
  BY <1>4 DEF last

LEMMA KthTenant ==
  ASSUME NEW k \in 1 .. Len(Fixtures)
  PROVE  /\ Fixtures[k] \in Tenants /\ Fixtures[k] # Nobody
         /\ \A m \in 1 .. Len(Fixtures) : Fixtures[m] = Fixtures[k] => m = k
<1>1. DOMAIN Fixtures = 1 .. Len(Fixtures)
  BY FixturesType
<1>2. Fixtures[k] \in Tenants
  BY FixturesType
<1> QED
  BY <1>1, <1>2, SeedAssumption

\* A statement of the first three loops leaves a table alone, and what is kept of
\* it stays so.
LEMMA IndexLeft ==
  ASSUME Parts, Advance, loop \in {2, 3}, hand' = Nobody, UNCHANGED <<index, news, lost, run>>,
         NEW k \in 1 .. Len(Fixtures), KeptIndex(k)
  PROVE  KeptIndex(k)'
<1>1. Past(1, k) /\ BeforeApi(k) /\ Running
  BY DEF Past, BeforeApi, Running
<1>2. Indexed(Fixtures[k]) = {BulkId(Fixtures[k])}
  BY <1>1 DEF KeptIndex
<1>3. Indexed(Fixtures[k])' = {BulkId(Fixtures[k])'}
  BY <1>2 DEF Indexed, BulkId
<1>4. ~Here(1, k)' /\ ~Past(4, k)' /\ (Here(4, k)' => Published' = {})
  BY <1>1, Moved, Whereabouts DEF Here, Past, Published
<1> QED
  BY <1>3, <1>4 DEF KeptIndex

LEMMA RowsLeft ==
  ASSUME Parts, Advance, loop \in 1 .. 3, hand' = Nobody, UNCHANGED <<row, run>>,
         setting' = setting \/ At("bind") \/ At("reset"),
         ~At("wipe-products"), ~At("insert-products"),
         NEW k \in 1 .. Len(Fixtures), KeptRows(k)
  PROVE  KeptRows(k)'
<1> DEFINE t == Fixtures[k]
<1>0. Running /\ SeedTypeOK
  BY DEF Parts, Running
<1>1. /\ ~(loop = 2 /\ step = 2) /\ ~(loop = 2 /\ step = N + 4)
      /\ At("bind") => step = 1
      /\ At("reset") => step = N + 5 \/ loop = 3
  BY <1>0, Deed
<1>2. RowsOf(t)' = RowsOf(t) /\ \A c : Stocked(t, c) => (Stocked(t, c))'
  BY DEF RowsOf, Stocked, BulkId
<1>3. Here(2, k)' /\ step' \in 3 .. N + 4 /\ setting' = t => RowsOf(t)' = {}
  <2> SUFFICES ASSUME Here(2, k)', step' \in 3 .. N + 4, setting' = t PROVE RowsOf(t) = {}
    BY <1>2
  <2>1. Here(2, k) /\ step \in 3 .. N + 4
    BY <1>0, <1>1, Moved, Whereabouts DEF Here
  <2>2. setting = t
    BY <1>1, <2>1, Moved, Whereabouts, <1>0 DEF Here
  <2> QED
    BY <2>1, <2>2 DEF KeptRows
<1>4. BeforeApi(k) /\ ~Past(4, k)'
  BY <1>0, Moved, Whereabouts DEF BeforeApi, Past
<1>5. ((Here(2, k)' /\ step' = N + 5) \/ Past(2, k)') => Stocked(t, {})
  <2>1. ((Here(2, k)' /\ step' = N + 5) \/ Past(2, k)')
          => ((Here(2, k) /\ step = N + 5) \/ Past(2, k))
    BY <1>0, <1>1, Moved, Whereabouts DEF Here, Past
  <2> QED
    BY <1>4, <2>1 DEF KeptRows
<1>6. Here(4, k)' => Past(2, k)' /\ Created' = {}
  BY <1>0, Moved, Whereabouts DEF Here, Past, Created
<1> QED
  BY <1>2, <1>3, <1>4, <1>5, <1>6 DEF KeptRows

LEMMA CodesOfAll == {Attributes[n] : n \in 1 .. N} = CodesOf(Attributes)
<1>1. DOMAIN Attributes = 1 .. N
  BY SeedAssumption DEF N
<1> QED
  BY <1>1 DEF CodesOf

LEMMA DefinitionsLeft ==
  ASSUME Parts, Advance, loop \in 1 .. 4, UNCHANGED defined,
         ~At("wipe-definitions"), ~At("insert-definition"),
         At("insert-products") => setting = Tenant,
         NEW k \in 1 .. Len(Fixtures), KeptDefinitions(k)
  PROVE  KeptDefinitions(k)'
<1> DEFINE t == Fixtures[k]
<1>0. Running /\ SeedTypeOK
  BY DEF Parts, Running
<1>1. ~(loop = 2 /\ step = 3) /\ ~(loop = 2 /\ step \in 4 .. N + 3)
  BY <1>0, Deed
<1>2. ~(Here(2, k)' /\ step' \in 4 .. N + 4)
  BY <1>0, <1>1, Moved, Whereabouts DEF Here
<1>3. (Here(2, k)' /\ step' = N + 5) \/ Past(2, k)' => defined[t] = CodesOf(Attributes)
  <2>1. CASE (Here(2, k) /\ step = N + 5) \/ Past(2, k)
    BY <2>1 DEF KeptDefinitions
  <2>2. CASE Here(2, k) /\ step = N + 4
    <3>1. setting = t
      BY <1>0, <2>2, Deed DEF Here, Tenant
    <3>2. defined[t] = {Attributes[n] : n \in 1 .. step - 4}
      BY <2>2, <3>1, Whereabouts DEF KeptDefinitions
    <3>3. step - 4 = N
      BY <2>2, Whereabouts
    <3> QED
      BY <3>2, <3>3, CodesOfAll
  <2>3. (Here(2, k)' /\ step' = N + 5) \/ Past(2, k)'
          => (Here(2, k) /\ step \in {N + 4, N + 5}) \/ Past(2, k)
    BY <1>0, <1>1, Moved, Whereabouts DEF Here, Past
  <2> QED
    BY <2>1, <2>2, <2>3
<1> QED
  BY <1>2, <1>3 DEF KeptDefinitions

LEMMA PricesLeft ==
  ASSUME Parts, Advance, loop \in 1 .. 3, UNCHANGED <<priced, run>>,
         setting' = setting \/ At("bind") \/ At("reset"),
         ~At("wipe-prices"), ~At("insert-prices"),
         NEW k \in 1 .. Len(Fixtures), KeptPrices(k)
  PROVE  KeptPrices(k)'
<1> DEFINE t == Fixtures[k]
<1>0. Running /\ SeedTypeOK
  BY DEF Parts, Running
<1>1. /\ ~(loop = 3 /\ step = 2) /\ ~(loop = 3 /\ step = 5)
      /\ At("bind") => step = 1
      /\ At("reset") => step = 6 \/ loop = 2
  BY <1>0, Deed
<1>2. PricedOf(t)' = PricedOf(t) /\ BulkId(t)' = BulkId(t)
  BY DEF PricedOf, BulkId
<1>3. Here(3, k)' /\ step' \in 3 .. 5 /\ setting' = t => PricedOf(t) = {}
  <2> SUFFICES ASSUME Here(3, k)', step' \in 3 .. 5, setting' = t PROVE PricedOf(t) = {}
    OBVIOUS
  <2>1. Here(3, k) /\ step \in 3 .. 5
    BY <1>0, <1>1, Moved, Whereabouts DEF Here
  <2>2. setting = t
    BY <1>0, <1>1, <2>1, Moved, Whereabouts DEF Here
  <2> QED
    BY <2>1, <2>2 DEF KeptPrices
<1>4. BeforeApi(k) /\ ~Past(4, k)' /\ ~(Here(4, k)' /\ step' = N + 2)
  BY <1>0, Moved, Whereabouts DEF BeforeApi, Past, Here
<1>5. (Here(3, k)' /\ step' = 6) \/ Past(3, k)' \/ Here(4, k)' => PricedOf(t) = {BulkId(t)}
  <2>1. (Here(3, k)' /\ step' = 6) \/ Past(3, k)' \/ Here(4, k)'
          => ((Here(3, k) /\ step = 6) \/ Past(3, k))
    BY <1>0, <1>1, Moved, Whereabouts DEF Here, Past
  <2> QED
    BY <1>4, <2>1 DEF KeptPrices
<1> QED
  BY <1>2, <1>3, <1>4, <1>5 DEF KeptPrices

LEMMA ConfigLeft ==
  ASSUME Parts, Advance, loop \in 1 .. 4, configured \subseteq configured',
         ~At("insert-config"), NEW k \in 1 .. Len(Fixtures), KeptConfig(k)
  PROVE  KeptConfig(k)'
<1>0. Running /\ SeedTypeOK
  BY DEF Parts, Running
<1>1. ~(loop = 3 /\ step = 4)
  BY <1>0, Deed
<1>2. (Here(3, k)' /\ step' \in 5 .. 6) \/ Past(3, k)'
        => (Here(3, k) /\ step \in 5 .. 6) \/ Past(3, k)
  BY <1>0, <1>1, Moved, Whereabouts DEF Here, Past
<1> QED
  BY <1>2 DEF KeptConfig

Statement ==
  \/ DeleteIndex \/ BulkIndex \/ Bind \/ Wipe
  \/ InsertDefinition \/ InsertProducts \/ InsertConfig \/ InsertPrices

\* What every statement has in common.
LEMMA Statements ==
  ASSUME Parts, Statement
  PROVE  /\ Advance /\ loop \in 1 .. 3 /\ hand = Nobody /\ hand' = Nobody
         /\ UNCHANGED <<pc, op, reply, news, lost, run>>
         /\ setting' = setting \/ Bind
<1>1. Parts' /\ Running /\ hand = Nobody /\ Advance
  BY StatementsKeep DEF Statement
<1>2. loop \in 1 .. 3
  BY Deed DEF Parts, Statement, DeleteIndex, BulkIndex, Bind, Wipe, InsertDefinition,
              InsertProducts, InsertConfig, InsertPrices
<1>3. /\ hand' = hand /\ UNCHANGED <<pc, op, reply, news, lost, run>>
      /\ setting' = setting \/ Bind
  BY DEF Statement, DeleteIndex, BulkIndex, Bind, Wipe, InsertDefinition, InsertProducts,
         InsertConfig, InsertPrices, requests, sheet
<1> QED
  BY <1>1, <1>2, <1>3

LEMMA StatementUndisturbed ==
  ASSUME Parts, Undisturbedly, Statement
  PROVE  Undisturbedly'
<1>1. /\ Advance /\ loop \in 1 .. 3 /\ hand = Nobody /\ hand' = Nobody /\ Running
      /\ UNCHANGED <<pc, op, reply, news, lost, run>>
      /\ setting' = setting \/ Bind
  BY Statements DEF Running
<1>2. loop' \in {2, 3} /\ step' > 1 => setting' \in {Tenant', Nobody}
  <2> SUFFICES ASSUME loop' \in {2, 3}, step' > 1 PROVE setting' \in {Tenant', Nobody}
    OBVIOUS
  <2>1. loop' = loop /\ turn' = turn /\ Tenant' = Tenant /\ step' = step + 1
    BY <1>1, Moved DEF Tenant
  <2>2. CASE Bind
    BY <2>1, <2>2 DEF Bind
  <2>3. CASE ~Bind
    <3>1. ~At("bind")
      BY <2>3 DEF Statement, DeleteIndex, BulkIndex, Wipe, InsertDefinition,
                  InsertProducts, InsertConfig, InsertPrices, At
    <3>2. step # 1
      BY <2>1, <3>1, Deed DEF Parts
    <3> QED
      BY <1>1, <2>1, <2>3, <3>2, Whereabouts DEF Undisturbedly
  <2> QED
    BY <2>2, <2>3
<1> QED
  BY <1>1, <1>2 DEF Undisturbedly

LEMMA DeleteIndexKept ==
  ASSUME Parts, Undisturbedly, DeleteIndex, NEW k \in 1 .. Len(Fixtures), KeptIndex(k)
  PROVE  KeptIndex(k)'
<1> DEFINE t == Fixtures[k]
<1>1. /\ loop = 1 /\ step = 1 /\ Running
      /\ index' = [index EXCEPT ![Tenant] = {}] /\ UNCHANGED <<news, lost, run>>
      /\ index \in [Tenants -> SUBSET Ids] /\ turn \in 1 .. Len(Fixtures)
      /\ Tenant \in Tenants
  BY Deed, TenantType DEF DeleteIndex, Parts, CatalogInv, TablesOK, SeedTypeOK, Running,
                          requests, sheet
<1>2. loop' = 1 /\ turn' = turn /\ step' = 2
  BY <1>1, Moved DEF DeleteIndex
<1>3. Here(1, k)' => index'[t] = {}
  BY <1>1, <1>2 DEF Here, Tenant
<1>4. ASSUME Past(1, k)' PROVE Indexed(t)' = {BulkId(t)'}
  <2>1. Past(1, k) /\ BeforeApi(k) /\ k # turn
    BY <1>1, <1>2, <1>4, Whereabouts DEF Past, BeforeApi
  <2>2. t # Tenant /\ t \in Tenants
    BY <1>1, <2>1, KthTenant DEF Tenant
  <2>3. index'[t] = index[t]
    BY <1>1, <2>2
  <2>4. Indexed(t) = {BulkId(t)}
    BY <2>1 DEF KeptIndex
  <2> QED
    BY <1>1, <2>3, <2>4 DEF Indexed, BulkId
<1> QED
  BY <1>2, <1>3, <1>4 DEF KeptIndex, Here, Past

LEMMA BulkIndexKept ==
  ASSUME Parts, Undisturbedly, BulkIndex, clean', NEW k \in 1 .. Len(Fixtures), KeptIndex(k)
  PROVE  KeptIndex(k)'
<1> DEFINE t == Fixtures[k]
<1>1. /\ loop = 1 /\ step = 2 /\ Running /\ hand' = Nobody
      /\ index' = [index EXCEPT ![Tenant] = @ \union {BulkId(Tenant)}]
      /\ UNCHANGED <<news, lost, run>> /\ news = {} /\ lost = {}
      /\ index \in [Tenants -> SUBSET Ids] /\ turn \in 1 .. Len(Fixtures)
      /\ Tenant \in Tenants
  <2>1. SeedTypeOK /\ TablesOK /\ At("bulk")
    BY DEF BulkIndex, Parts, CatalogInv
  <2>2. loop = 1 /\ step = 2 /\ Running /\ Tenant \in Tenants
    BY <2>1, Deed, TenantType DEF At
  <2>3. hand' = Nobody /\ UNCHANGED <<news, lost, run>>
    BY Statements DEF Statement
  <2>4. index' = [index EXCEPT ![Tenant] = @ \union {BulkId(Tenant)}]
    BY DEF BulkIndex, BulkId
  <2>5. news = {} /\ lost = {}
    BY <2>2 DEF Undisturbedly
  <2> QED
    BY <2>1, <2>2, <2>3, <2>4, <2>5 DEF TablesOK, SeedTypeOK
<1>2. \/ loop' = 1 /\ turn' = turn + 1 /\ step' = 1
      \/ loop' = 2 /\ turn' = 1 /\ turn = Len(Fixtures) /\ step' = 1
  BY <1>1, Moved DEF BulkIndex
<1>3. t \in Tenants /\ (t = Tenant <=> k = turn)
  BY <1>1, KthTenant DEF Tenant
<1>4. ASSUME Past(1, k)' PROVE Indexed(t)' = {BulkId(t)'}
  <2>1. CASE k = turn
    <3>1. index[t] = {}
      BY <1>1, <2>1 DEF KeptIndex, Here
    <3>2. index'[t] = {BulkId(t)}
      BY <1>1, <1>3, <2>1, <3>1
    <3> QED
      BY <1>1, <3>2 DEF Indexed, BulkId
  <2>2. CASE k # turn
    <3>1. Past(1, k) /\ BeforeApi(k)
      BY <1>1, <1>2, <1>4, <2>2, Whereabouts DEF Past, BeforeApi
    <3>2. index'[t] = index[t]
      BY <1>1, <1>3, <2>2
    <3>3. Indexed(t) = {BulkId(t)}
      BY <3>1 DEF KeptIndex
    <3> QED
      BY <1>1, <3>2, <3>3 DEF Indexed, BulkId
  <2> QED
    BY <2>1, <2>2
<1> QED
  BY <1>2, <1>4 DEF KeptIndex, Here, Past

\* Of which tenant the rows go.
LEMMA SettingOf ==
  ASSUME Parts, Undisturbedly, loop \in {2, 3}, step > 1,
         NEW k \in 1 .. Len(Fixtures), setting = Fixtures[k]
  PROVE  k = turn /\ setting = Tenant
<1>1. setting = Tenant
  BY KthTenant DEF Undisturbedly
<1>2. turn \in 1 .. Len(Fixtures)
  BY DEF Parts, SeedTypeOK
<1> QED
  BY <1>1, <1>2, KthTenant DEF Tenant

LEMMA WipeProductsKept ==
  ASSUME Parts, Undisturbedly, At("wipe-products"), Wipe,
         NEW k \in 1 .. Len(Fixtures), KeptRows(k)
  PROVE  KeptRows(k)'
<1> DEFINE t == Fixtures[k]
<1>1. loop = 2 /\ step = 2 /\ Running
  BY Deed DEF Parts, At
<1>2. /\ \A i \in Ids : row'[i] = IF row[i] # NoRow /\ row[i].tenant = setting
                               THEN NoRow ELSE row[i]
      /\ UNCHANGED <<setting, run>>
  <2>1. ~At("wipe-definitions") /\ ~At("wipe-prices") /\ ~At("wipe-config")
    BY DEF At
  <2> QED
    BY <2>1 DEF Wipe, Put
<1>3. loop' = 2 /\ turn' = turn /\ step' = 3
  BY <1>1, Moved, Whereabouts DEF Wipe
<1>4. setting = t => RowsOf(t)' = {}
  BY <1>2 DEF RowsOf
<1>5. ASSUME Past(2, k)' \/ step' = N + 5 PROVE (Stocked(t, {}))'
  <2>1. Past(2, k) /\ k # turn /\ BeforeApi(k)
    BY <1>1, <1>3, <1>5, Whereabouts DEF Past, BeforeApi
  <2>2. setting # t
    BY <1>1, <2>1, SettingOf
  <2>3. Stocked(t, {})
    BY <2>1 DEF KeptRows
  <2>4. RowsOf(t)' = RowsOf(t) /\ \A i \in RowsOf(t) : row'[i] = row[i]
    BY <1>2, <2>2 DEF RowsOf
  <2> QED
    BY <1>2, <2>3, <2>4 DEF Stocked, BulkId
<1> QED
  BY <1>2, <1>3, <1>4, <1>5 DEF KeptRows, Here, Past

LEMMA InsertProductsKept ==
  ASSUME Parts, Undisturbedly, InsertProducts, NEW k \in 1 .. Len(Fixtures), KeptRows(k)
  PROVE  KeptRows(k)'
<1> DEFINE t == Fixtures[k]
<1> DEFINE i == BulkId(Tenant)
<1>1. loop = 2 /\ step = N + 4 /\ Running /\ setting = Tenant /\ run' = run /\ row[i] = NoRow
  BY Deed DEF InsertProducts, Parts, At, sheet, BulkId
<1>2. /\ i \in Ids /\ row \in [Ids -> Product \union {NoRow}] /\ NoRow \notin Product
      /\ turn \in 1 .. Len(Fixtures)
  BY <1>1, UuidType, CatalogAssumption DEF BulkId, Parts, CatalogInv, TablesOK, SeedTypeOK
<1>3. loop' = 2 /\ turn' = turn /\ step' = N + 5
  BY <1>1, Moved, Whereabouts DEF InsertProducts
<1>4. /\ \A j \in Ids \ {i} : row'[j] = row[j]
      /\ row'[i] # NoRow /\ row'[i].tenant = Tenant /\ row'[i].sku = Bulk
  <2> DEFINE new == [tenant |-> Tenant, sku |-> Bulk, codes |-> CodesOf(Attributes)]
  <2>1. row' = [row EXCEPT ![i] = new]
    BY DEF InsertProducts, Put, BulkId
  <2>2. new \in Product /\ new.tenant = Tenant /\ new.sku = Bulk
    BY <1>1, UuidType, CodesOfType, SeedAssumption DEF Product
  <2> HIDE DEF new, i
  <2> QED
    BY <1>2, <2>1, <2>2
<1> HIDE DEF i
<1>5. CASE k = turn
  <2>1. t = Tenant /\ RowsOf(t) = {}
    BY <1>1, <1>5, Whereabouts DEF KeptRows, Here, Tenant
  <2>2. RowsOf(t)' = {i}
    BY <1>2, <1>4, <2>1 DEF RowsOf
  <2>3. (Stocked(t, {}))'
    BY <1>1, <1>4, <2>1, <2>2 DEF Stocked, BulkId, i
  <2> QED
    BY <1>2, <1>3, <1>5, <2>3, Whereabouts DEF KeptRows, Here, Past
<1>6. CASE k # turn
  <2>1. t # Tenant
    BY <1>2, <1>6, KthTenant DEF Tenant
  <2>2. RowsOf(t)' = RowsOf(t) /\ \A j \in RowsOf(t) : row'[j] = row[j]
    BY <1>1, <1>2, <1>4, <2>1 DEF RowsOf, i
  <2>3. Past(2, k) => Stocked(t, {})
    BY <1>1, Whereabouts DEF KeptRows, BeforeApi
  <2>4. Past(2, k) => (Stocked(t, {}))'
    BY <1>1, <2>2, <2>3 DEF Stocked, BulkId
  <2> QED
    BY <1>1, <1>3, <1>6, <2>4, Whereabouts DEF KeptRows, Here, Past
<1> QED
  BY <1>5, <1>6

LEMMA WipeDefinitionsKept ==
  ASSUME Parts, Undisturbedly, At("wipe-definitions"), Wipe,
         NEW k \in 1 .. Len(Fixtures), KeptDefinitions(k)
  PROVE  KeptDefinitions(k)'
<1> DEFINE t == Fixtures[k]
<1>1. loop = 2 /\ step = 3 /\ Running
  BY Deed DEF Parts, At
<1>2. /\ defined' = [u \in Tenants |-> IF u = setting THEN {} ELSE defined[u]]
      /\ UNCHANGED setting
  <2>1. ~At("wipe-products") /\ ~At("wipe-prices") /\ ~At("wipe-config")
    BY DEF At
  <2> QED
    BY <2>1 DEF Wipe
<1>3. loop' = 2 /\ turn' = turn /\ step' = 4
  BY <1>1, Moved, Whereabouts DEF Wipe
<1>4. t \in Tenants
  BY KthTenant
<1>5. setting = t => defined'[t] = {Attributes[n] : n \in 1 .. 0}
  BY <1>2, <1>4
<1>6. ASSUME Past(2, k)' \/ step' = N + 5 PROVE defined'[t] = CodesOf(Attributes)
  <2>1. Past(2, k) /\ k # turn
    BY <1>1, <1>3, <1>6, Whereabouts DEF Past
  <2>2. setting # t
    BY <1>1, <2>1, SettingOf
  <2> QED
    BY <1>2, <1>4, <2>1, <2>2 DEF KeptDefinitions
<1> QED
  BY <1>2, <1>3, <1>5, <1>6 DEF KeptDefinitions, Here

LEMMA InsertDefinitionKept ==
  ASSUME Parts, Undisturbedly, InsertDefinition,
         NEW k \in 1 .. Len(Fixtures), KeptDefinitions(k)
  PROVE  KeptDefinitions(k)'
<1> DEFINE t == Fixtures[k]
<1>1. loop = 2 /\ step \in 4 .. N + 3 /\ Running /\ N \in Nat
  BY Deed, Whereabouts DEF InsertDefinition, Parts, At
<1>2. /\ setting = Tenant /\ setting' = setting /\ turn \in 1 .. Len(Fixtures)
      /\ defined' = [defined EXCEPT ![Tenant] = @ \union {Attributes[step - 3]}]
      /\ defined \in [Tenants -> SUBSET Codes] /\ Tenant \in Tenants
  <2>1. Loops[loop][step].code = Attributes[step - 3]
    BY <1>1, Places
  <2>2. Tenant \in Tenants
    BY TenantType DEF Parts
  <2> QED
    BY <2>1, <2>2 DEF InsertDefinition, sheet, Parts, CatalogInv, TablesOK, SeedTypeOK
<1>3. loop' = 2 /\ turn' = turn /\ step' = step + 1
  BY <1>1, Moved, Whereabouts DEF InsertDefinition
<1>4. t \in Tenants /\ (t = Tenant <=> k = turn)
  BY <1>2, KthTenant DEF Tenant
<1>5. CASE k = turn
  <2>1. defined[t] = {Attributes[n] : n \in 1 .. step - 4}
    BY <1>1, <1>2, <1>4, <1>5 DEF KeptDefinitions, Here
  <2>2. defined'[t] = {Attributes[n] : n \in 1 .. step - 4} \union {Attributes[step - 3]}
    BY <1>2, <1>4, <1>5, <2>1
  <2>3. 1 .. step - 3 = (1 .. step - 4) \union {step - 3}
    BY <1>1
  <2>4. defined'[t] = {Attributes[n] : n \in 1 .. step - 3}
    BY <2>2, <2>3
  <2>5. step' - 4 = step - 3 /\ step' # N + 5 /\ ~Past(2, k)'
    BY <1>1, <1>2, <1>3, <1>5, Whereabouts DEF Past
  <2> QED
    BY <2>4, <2>5 DEF KeptDefinitions
<1>6. CASE k # turn
  <2>1. defined'[t] = defined[t]
    BY <1>2, <1>4, <1>6
  <2>2. ~Here(2, k)' /\ (Past(2, k)' => Past(2, k))
    BY <1>1, <1>3, <1>6, Whereabouts DEF Past, Here
  <2> QED
    BY <2>1, <2>2 DEF KeptDefinitions
<1> QED
  BY <1>5, <1>6

LEMMA WipePricesKept ==
  ASSUME Parts, Undisturbedly, At("wipe-prices"), Wipe,
         NEW k \in 1 .. Len(Fixtures), KeptPrices(k)
  PROVE  KeptPrices(k)'
<1> DEFINE t == Fixtures[k]
<1>1. loop = 3 /\ step = 2 /\ Running
  BY Deed DEF Parts, At
<1>2. /\ priced' = {p \in priced : p[1] # setting}
      /\ UNCHANGED <<setting, run>>
  <2>1. ~At("wipe-products") /\ ~At("wipe-definitions") /\ ~At("wipe-config")
    BY DEF At
  <2> QED
    BY <2>1 DEF Wipe
<1>3. loop' = 3 /\ turn' = turn /\ step' = 3
  BY <1>1, Moved, Whereabouts DEF Wipe
<1>4. PricedOf(t)' = IF t = setting THEN {} ELSE PricedOf(t)
  BY <1>2 DEF PricedOf
<1>5. ASSUME Past(3, k)' PROVE PricedOf(t)' = {BulkId(t)'}
  <2>1. Past(3, k) /\ k # turn /\ BeforeApi(k)
    BY <1>1, <1>3, <1>5, Whereabouts DEF Past, BeforeApi
  <2>2. setting # t
    BY <1>1, <2>1, SettingOf
  <2> QED
    BY <1>2, <1>4, <2>1, <2>2 DEF KeptPrices, BulkId
<1> QED
  BY <1>2, <1>3, <1>4, <1>5 DEF KeptPrices, Here, Past

LEMMA InsertPricesKept ==
  ASSUME Parts, Undisturbedly, InsertPrices, NEW k \in 1 .. Len(Fixtures), KeptPrices(k)
  PROVE  KeptPrices(k)'
<1> DEFINE t == Fixtures[k]
<1>1. /\ loop = 3 /\ step = 5 /\ Running /\ setting = Tenant /\ run' = run
      /\ priced' = priced \union {<<Tenant, BulkId(Tenant)>>}
  BY Deed DEF InsertPrices, Parts, At, sheet, BulkId
<1>2. BulkId(Tenant) \in Ids /\ turn \in 1 .. Len(Fixtures)
  BY <1>1, UuidType DEF BulkId, Parts, SeedTypeOK
<1>3. loop' = 3 /\ turn' = turn /\ step' = 6
  BY <1>1, Moved, Whereabouts DEF InsertPrices
<1>4. t = Tenant <=> k = turn
  BY <1>2, KthTenant DEF Tenant
<1>5. PricedOf(t)' = IF t = Tenant THEN PricedOf(t) \union {BulkId(t)} ELSE PricedOf(t)
  BY <1>1, <1>2 DEF PricedOf
<1>6. ASSUME Here(3, k)' \/ Past(3, k)' PROVE PricedOf(t)' = {BulkId(t)'}
  <2>1. CASE k = turn
    <3>1. PricedOf(t) = {}
      BY <1>1, <1>4, <2>1 DEF KeptPrices, Here
    <3> QED
      BY <1>1, <1>4, <1>5, <2>1, <3>1 DEF BulkId
  <2>2. CASE k # turn
    <3>1. Past(3, k) /\ BeforeApi(k)
      BY <1>1, <1>3, <1>6, <2>2, Whereabouts DEF Past, BeforeApi, Here
    <3> QED
      BY <1>1, <1>4, <1>5, <2>2, <3>1 DEF KeptPrices, BulkId
  <2> QED
    BY <2>1, <2>2
<1> QED
  BY <1>3, <1>6 DEF KeptPrices, Here, Past

LEMMA WipeConfigKept ==
  ASSUME Parts, Undisturbedly, At("wipe-config"), Wipe,
         NEW k \in 1 .. Len(Fixtures), KeptConfig(k)
  PROVE  KeptConfig(k)'
<1>1. loop = 3 /\ step = 3 /\ Running
  BY Deed DEF Parts, At
<1>2. configured' = configured \ {setting}
  <2>1. ~At("wipe-products") /\ ~At("wipe-definitions") /\ ~At("wipe-prices")
    BY DEF At
  <2> QED
    BY <2>1 DEF Wipe
<1>3. loop' = 3 /\ turn' = turn /\ step' = 4
  BY <1>1, Moved, Whereabouts DEF Wipe
<1>4. ASSUME Past(3, k)' PROVE Fixtures[k] \in configured'
  <2>1. Past(3, k) /\ k # turn
    BY <1>1, <1>3, <1>4, Whereabouts DEF Past
  <2>2. setting # Fixtures[k]
    BY <1>1, <2>1, SettingOf
  <2> QED
    BY <1>2, <2>1, <2>2 DEF KeptConfig
<1> QED
  BY <1>3, <1>4 DEF KeptConfig, Here

LEMMA InsertConfigKept ==
  ASSUME Parts, Undisturbedly, InsertConfig, NEW k \in 1 .. Len(Fixtures), KeptConfig(k)
  PROVE  KeptConfig(k)'
<1>1. loop = 3 /\ step = 4 /\ Running /\ configured' = configured \union {Tenant}
  BY Deed DEF InsertConfig, Parts, At
<1>2. loop' = 3 /\ turn' = turn /\ step' = 5
  BY <1>1, Moved, Whereabouts DEF InsertConfig
<1>3. CASE k = turn
  BY <1>1, <1>3 DEF KeptConfig, Tenant
<1>4. CASE k # turn
  <2>1. Past(3, k)' \/ Here(3, k)' => Past(3, k)
    BY <1>1, <1>2, <1>4, Whereabouts DEF Past, Here
  <2> QED
    BY <1>1, <2>1 DEF KeptConfig
<1> QED
  BY <1>3, <1>4

LEMMA StatementKept ==
  ASSUME Parts, Undisturbedly, Statement, clean', NEW k \in 1 .. Len(Fixtures), Kept(k)
  PROVE  Kept(k)'
<1>0. SeedTypeOK /\ Running
  BY Statements DEF Parts, Running
<1>1. /\ Advance /\ loop \in 1 .. 3 /\ hand = Nobody /\ hand' = Nobody
      /\ UNCHANGED <<pc, op, reply, news, lost, run>>
      /\ setting' = setting \/ At("bind") \/ At("reset")
  BY Statements DEF Bind
<1>2. KeptIndex(k)'
  <2>1. CASE DeleteIndex \/ BulkIndex
    BY <2>1, DeleteIndexKept, BulkIndexKept DEF Kept
  <2>2. CASE ~(DeleteIndex \/ BulkIndex)
    <3>1. UNCHANGED index
      BY <2>2 DEF Statement, Bind, Wipe, InsertDefinition, InsertProducts, InsertConfig,
                  InsertPrices
    <3>2. loop \in {2, 3}
      BY <1>0, <1>1, <2>2, Deed DEF Statement, Bind, Wipe, InsertDefinition,
                  InsertProducts, InsertConfig, InsertPrices
    <3> QED
      BY <1>1, <3>1, <3>2, IndexLeft DEF Kept
  <2> QED
    BY <2>1, <2>2
<1>3. KeptRows(k)'
  <2>1. CASE At("wipe-products") \/ At("insert-products")
    <3>1. (Wipe /\ At("wipe-products")) \/ InsertProducts
      BY <2>1 DEF Statement, At, DeleteIndex, BulkIndex, Bind, Wipe, InsertDefinition,
                  InsertProducts, InsertConfig, InsertPrices
    <3> QED
      BY <3>1, WipeProductsKept, InsertProductsKept DEF Kept
  <2>2. CASE ~At("wipe-products") /\ ~At("insert-products")
    <3>1. UNCHANGED row
      BY <2>2 DEF Statement, DeleteIndex, BulkIndex, Bind, Wipe, InsertDefinition,
                  InsertProducts, InsertConfig, InsertPrices, tables
    <3> QED
      BY <1>1, <2>2, <3>1, RowsLeft DEF Kept
  <2> QED
    BY <2>1, <2>2
<1>4. KeptDefinitions(k)'
  <2>1. CASE At("wipe-definitions") \/ At("insert-definition")
    <3>1. (Wipe /\ At("wipe-definitions")) \/ InsertDefinition
      BY <2>1 DEF Statement, At, DeleteIndex, BulkIndex, Bind, Wipe, InsertDefinition,
                  InsertProducts, InsertConfig, InsertPrices
    <3> QED
      BY <3>1, WipeDefinitionsKept, InsertDefinitionKept DEF Kept
  <2>2. CASE ~At("wipe-definitions") /\ ~At("insert-definition")
    <3>1. UNCHANGED defined /\ (At("insert-products") => setting = Tenant)
      BY <2>2 DEF Statement, DeleteIndex, BulkIndex, Bind, Wipe, InsertDefinition,
                  InsertProducts, InsertConfig, InsertPrices, tables, At
    <3> QED
      BY <1>1, <2>2, <3>1, DefinitionsLeft DEF Kept
  <2> QED
    BY <2>1, <2>2
<1>5. KeptPrices(k)'
  <2>1. CASE At("wipe-prices") \/ At("insert-prices")
    <3>1. (Wipe /\ At("wipe-prices")) \/ InsertPrices
      BY <2>1 DEF Statement, At, DeleteIndex, BulkIndex, Bind, Wipe, InsertDefinition,
                  InsertProducts, InsertConfig, InsertPrices
    <3> QED
      BY <3>1, WipePricesKept, InsertPricesKept DEF Kept
  <2>2. CASE ~At("wipe-prices") /\ ~At("insert-prices")
    <3>1. UNCHANGED priced
      BY <2>2 DEF Statement, DeleteIndex, BulkIndex, Bind, Wipe, InsertDefinition,
                  InsertProducts, InsertConfig, InsertPrices, tables
    <3> QED
      BY <1>1, <2>2, <3>1, PricesLeft DEF Kept
  <2> QED
    BY <2>1, <2>2
<1>6. KeptConfig(k)'
  <2>1. CASE At("wipe-config") \/ At("insert-config")
    <3>1. (Wipe /\ At("wipe-config")) \/ InsertConfig
      BY <2>1 DEF Statement, At, DeleteIndex, BulkIndex, Bind, Wipe, InsertDefinition,
                  InsertProducts, InsertConfig, InsertPrices
    <3> QED
      BY <3>1, WipeConfigKept, InsertConfigKept DEF Kept
  <2>2. CASE ~At("wipe-config") /\ ~At("insert-config")
    <3>1. configured' = configured
      BY <2>2 DEF Statement, DeleteIndex, BulkIndex, Bind, Wipe, InsertDefinition,
                  InsertProducts, InsertConfig, InsertPrices, sheet
    <3> QED
      BY <1>1, <2>2, <3>1, ConfigLeft DEF Kept
  <2> QED
    BY <2>1, <2>2
<1> QED
  BY <1>2, <1>3, <1>4, <1>5, <1>6 DEF Kept

\* Where the seed is when it waits for the api, and for which of its calls.
LEMMA Calling ==
  ASSUME Parts, hand # Nobody
  PROVE  /\ hand \in Requests /\ loop = 4 /\ Running /\ N \in Nat /\ step \in 1 .. N + 2
         /\ op[hand].kind \in {"define", "create", "price"}
         /\ op[hand].kind = "define" <=> step <= N
         /\ op[hand].kind = "create" <=> step = N + 1
         /\ op[hand].kind = "price" <=> step = N + 2
<1>1. /\ hand \in Requests /\ op[hand].kind \in {"define", "create", "price"}
      /\ At(op[hand].kind) /\ SeedTypeOK
  BY HandIsCalling DEF Parts
<1>2. /\ op[hand].kind = "define" => loop = 4 /\ step \in 1 .. N
      /\ op[hand].kind = "create" => loop = 4 /\ step = N + 1
      /\ op[hand].kind = "price" => loop = 4 /\ step = N + 2
  BY <1>1, Deed
<1> QED
  BY <1>1, <1>2, AttributesType DEF Running

\* What a step of the seed's call does.
Elsewhere(h) ==
  /\ UNCHANGED <<row, priced, index, news, op>>
  /\ reply'[h] # 201
  /\ pc'[h] = "publish" => op[h].kind = "define"
  /\ pc'[h] \in {"validate", "look", "insert"} => pc[h] \in {"validate", "look", "insert"}
  /\ \/ defined' = defined
     \/ /\ op[h].kind = "define"
        /\ defined' = [defined EXCEPT ![op[h].tenant] = @ \union op[h].codes]

Inserted(h, i) ==
  /\ i \in Ids /\ row[i] = NoRow
  /\ row' = [row EXCEPT ![i] = [tenant |-> op[h].tenant, sku |-> op[h].sku,
                                codes |-> op[h].codes]]
  /\ op' = [op EXCEPT ![h].id = i] /\ pc'[h] = "publish"
  /\ UNCHANGED <<defined, priced, index, news, reply>>

LEMMA Progress ==
  ASSUME Parts, NEW h \in Requests, h = hand, Serve(h)
  PROVE  \/ Elsewhere(h)
         \/ pc[h] = "insert" /\ \E i \in Ids : Inserted(h, i)
         \/ UpsertPrice(h)
         \/ Publish(h)
<1>1. /\ Asked(h) /\ RequestsOK /\ op[h].kind \in {"define", "create", "price"}
      /\ pc[h] \notin {"idle", "over"}
  BY Calling, SeedAssumption
     DEF Parts, CatalogInv, Serve, Validate, Look, Insert, Previous, Write, DeleteRow,
         Publish, ListPage, Seek, Define, UpsertPrice
<1>2. reply[h] = 0
  BY <1>1 DEF Asked
<1>3. CASE Validate(h)
  <2>1. /\ 400 \in Statuses /\ (IF renames[h] THEN "look" ELSE "write") \in Labels
    BY DEF Statuses, Labels
  <2>2. \/ pc'[h] = "over" /\ reply'[h] = 400
        \/ pc'[h] = (IF renames[h] THEN "look" ELSE "write") /\ reply'[h] = reply[h]
    BY <1>1, <1>3, <2>1, Refused DEF Validate
  <2> QED
    BY <1>2, <1>3, <2>2 DEF Validate, Elsewhere, tables
<1>4. CASE Look(h)
  <2>1. 409 \in Statuses /\ (IF op[h].kind = "create" THEN "insert" ELSE "write") \in Labels
    BY DEF Statuses, Labels
  <2>2. \/ pc'[h] = "over" /\ reply'[h] = 409
        \/ /\ pc'[h] = (IF op[h].kind = "create" THEN "insert" ELSE "write")
           /\ reply'[h] = reply[h]
    BY <1>1, <1>4, <2>1, Refused DEF Look
  <2> QED
    BY <1>2, <1>4, <2>2 DEF Look, Elsewhere, tables
<1>5. CASE Insert(h)
  <2>1. CASE Answer(h, 500) /\ UNCHANGED <<row, op, there>>
    <3>1. 500 \in Statuses
      BY DEF Statuses
    <3>2. pc'[h] = "over" /\ reply'[h] = 500
      BY <1>1, <2>1, <3>1, Answers
    <3> QED
      BY <1>5, <2>1, <3>2 DEF Insert, Elsewhere
  <2>2. ASSUME NEW i \in FreeIds, Goto(h, "publish"), UNCHANGED reply,
               op' = [op EXCEPT ![h].id = i],
               Put([row EXCEPT ![i] = [tenant |-> op[h].tenant, sku |-> op[h].sku,
                                       codes |-> op[h].codes]])
        PROVE  pc[h] = "insert" /\ \E j \in Ids : Inserted(h, j)
    <3>1. i \in Ids /\ row[i] = NoRow /\ "publish" \in Labels
      BY DEF FreeIds, Labels
    <3>2. pc'[h] = "publish"
      BY <1>1, <2>2, <3>1, Goes
    <3> QED
      BY <1>5, <2>2, <3>1, <3>2 DEF Insert, Inserted, Put
  <2> QED
    BY <1>5, <2>1, <2>2 DEF Insert
<1>6. CASE Seek(h)
  <2>1. "define" \in Labels /\ 400 \in Statuses
    BY DEF Labels, Statuses
  <2>2. \/ pc'[h] = "over" /\ reply'[h] = 400
        \/ pc'[h] = "define" /\ reply'[h] = reply[h]
    BY <1>1, <1>6, <2>1, Refused DEF Seek
  <2> QED
    BY <1>2, <1>6, <2>2 DEF Seek, Elsewhere, tables
<1>7. CASE Define(h)
  <2>1. "publish" \in Labels /\ 500 \in Statuses
    BY DEF Labels, Statuses
  <2>2. \/ pc'[h] = "over" /\ reply'[h] = 500
        \/ pc'[h] = "publish" /\ reply'[h] = reply[h]
    BY <1>1, <1>7, <2>1, Refused DEF Define
  <2>3. op[h].kind = "define"
    BY <1>1, <1>7 DEF Asked, Define
  <2> QED
    BY <1>2, <1>7, <2>2, <2>3 DEF Define, Elsewhere
<1>8. ~Previous(h) /\ ~Write(h) /\ ~DeleteRow(h) /\ ~ListPage(h)
  BY <1>1 DEF Asked, Previous, Write, DeleteRow, ListPage
<1> QED
  BY <1>3, <1>4, <1>5, <1>6, <1>7, <1>8 DEF Serve

LEMMA Awaiting ==
  ASSUME NEW r \in Requests, Serve(r)
  PROVE  pc[r] \notin {"idle", "over"}
<1>1. CASE Validate(r) \/ Look(r) \/ Insert(r) \/ Previous(r) \/ Write(r)
  BY <1>1 DEF Validate, Look, Insert, Previous, Write
<1>2. CASE DeleteRow(r) \/ Publish(r) \/ ListPage(r)
  BY <1>2 DEF DeleteRow, Publish, ListPage
<1>3. CASE Seek(r) \/ Define(r) \/ UpsertPrice(r)
  BY <1>3 DEF Seek, Define, UpsertPrice
<1> QED
  BY <1>1, <1>2, <1>3 DEF Serve

LEMMA CallUndisturbed ==
  ASSUME Parts, Undisturbedly, NEW r \in Requests, Serve(r), UNCHANGED seed
  PROVE  r = hand /\ Undisturbedly'
<1>1. r = hand
  <2>1. pc[r] \notin {"idle", "over"}
    BY Awaiting
  <2> QED
    BY <2>1 DEF Undisturbedly
<1>2. hand # Nobody /\ Nobody \notin Requests
  BY <1>1, SeedAssumption
<1>3. loop = 4 /\ Served(r) /\ RequestsOK /\ UNCHANGED <<loop, turn, step, setting, hand, saved>>
  BY <1>2, Calling, RequestServed DEF Parts, CatalogInv, seed
<1>4. \A q \in Requests : pc'[q] \notin {"idle", "over"} => q = hand'
  BY <1>1, <1>3 DEF Undisturbedly, Served, Alone
<1>5. \A e \in news' : e.keep
  <2>1. CASE Publish(r)
    <3> DEFINE event == [tenant |-> op[r].tenant, id |-> op[r].id,
                         keep |-> op[r].kind # "delete"]
    <3>1. news' = news \/ news' = news \union {event}
      BY <2>1 DEF Publish
    <3>2. op[r].kind # "delete"
      BY <1>1, <1>2, Calling
    <3>3. event.keep
      BY <3>2
    <3> HIDE DEF event
    <3> QED
      BY <3>1, <3>3 DEF Undisturbedly
  <2>2. CASE ~Publish(r)
    <3>1. news' = news
      BY <1>1, <2>2, Progress DEF Elsewhere, Inserted, UpsertPrice
    <3> QED
      BY <3>1 DEF Undisturbedly
  <2> QED
    BY <2>1, <2>2
<1>6. Bidden'
  <2>0. Bidden
    BY <1>2 DEF Undisturbedly
  <2>1. hand' = r /\ saved' = saved /\ Tenant' = Tenant
    BY <1>1, <1>3 DEF Tenant
  <2>2. CASE op' = op
    <3>1. pc'[r] \in {"validate", "look", "insert"} => pc[r] \in {"validate", "look", "insert"}
      BY <1>1, <2>2, <1>3, Progress, Goes DEF Elsewhere, Inserted, UpsertPrice, Publish, Answer,
                                       Goto, RequestsOK
    <3> QED
      BY <1>1, <2>0, <2>1, <2>2, <3>1 DEF Bidden
  <2>3. ASSUME NEW i \in Ids, Inserted(r, i), pc[r] = "insert" PROVE Bidden'
    <3>1. op[r] \in Operation /\ op[r].kind = "create"
      BY <2>3 DEF Parts, CatalogInv, RequestsOK, Asked
    <3>2. /\ op'[r].tenant = op[r].tenant /\ op'[r].sku = op[r].sku
          /\ op'[r].kind = "create" /\ pc'[r] = "publish"
      BY <1>3, <2>3, <3>1 DEF Inserted, RequestsOK, Operation
    <3> QED
      BY <1>1, <2>0, <2>1, <3>1, <3>2 DEF Bidden
  <2>4. op' = op \/ (pc[r] = "insert" /\ \E i \in Ids : Inserted(r, i))
    BY <1>1, Progress DEF Elsewhere, UpsertPrice, Publish
  <2> QED
    BY <2>2, <2>3, <2>4
<1> QED
  BY <1>1, <1>3, <1>4, <1>5, <1>6 DEF Undisturbedly

\* Without a move of the seed: what is kept stands as long as the tables agree with
\* what the api has done for the tenant whose turn it is.
LEMMA IndexStands ==
  ASSUME NEW k \in 1 .. Len(Fixtures), KeptIndex(k), UNCHANGED <<loop, turn, step, run>>,
         loop = 1 => index' = index,
         Here(4, k) => Indexed(Fixtures[k])' = {BulkId(Fixtures[k])} \union Published',
         ~Here(4, k) => Indexed(Fixtures[k])' = Indexed(Fixtures[k]),
         Past(4, k) => RowsOf(Fixtures[k])' = RowsOf(Fixtures[k])
  PROVE  KeptIndex(k)'
BY DEF KeptIndex, Here, Past, BeforeApi, BulkId

LEMMA RowsStand ==
  ASSUME NEW k \in 1 .. Len(Fixtures), KeptRows(k), UNCHANGED <<loop, turn, step, run>>,
         setting' = setting \/ setting' = Nobody,
         Here(4, k) => (Stocked(Fixtures[k], Created))',
         ~Here(4, k) => /\ RowsOf(Fixtures[k])' = RowsOf(Fixtures[k])
                        /\ \A i \in RowsOf(Fixtures[k]) : row'[i] = row[i]
  PROVE  KeptRows(k)'
<1> DEFINE t == Fixtures[k]
<1>0. t # Nobody
  BY KthTenant
<1>1. CASE Here(4, k)
  BY <1>1, Whereabouts DEF KeptRows, Here, Past, BeforeApi
<1>2. CASE ~Here(4, k)
  <2>1. \A c : Stocked(t, c) => (Stocked(t, c))'
    BY <1>2 DEF Stocked, BulkId
  <2>2. Here(2, k)' /\ step' \in 3 .. N + 4 /\ setting' = t => RowsOf(t)' = {}
    BY <1>0, <1>2 DEF KeptRows, Here
  <2>3. /\ ((Here(2, k)' /\ step' = N + 5) \/ Past(2, k)') /\ BeforeApi(k)' => Stocked(t, {})
        /\ Past(4, k)' => \E i \in Ids : Stocked(t, {i})
    BY DEF KeptRows, Here, Past, BeforeApi
  <2> QED
    BY <1>2, <2>1, <2>2, <2>3 DEF KeptRows, Here
<1> QED
  BY <1>1, <1>2

LEMMA PricesStand ==
  ASSUME NEW k \in 1 .. Len(Fixtures), KeptPrices(k), UNCHANGED <<loop, turn, step, run>>,
         setting' = setting \/ setting' = Nobody,
         Here(4, k) => KeptPrices(k)',
         PricedOf(Fixtures[k])' = PricedOf(Fixtures[k]) \/ Here(4, k),
         Past(4, k) => RowsOf(Fixtures[k])' = RowsOf(Fixtures[k])
  PROVE  KeptPrices(k)'
<1> DEFINE t == Fixtures[k]
<1>0. t # Nobody
  BY KthTenant
<1>1. CASE ~Here(4, k)
  <2>1. Here(3, k)' /\ step' \in 3 .. 5 /\ setting' = t => PricedOf(t)' = {}
    BY <1>0, <1>1 DEF KeptPrices, Here
  <2>2. ((Here(3, k)' /\ step' = 6) \/ Past(3, k)') /\ BeforeApi(k)'
          => PricedOf(t)' = {BulkId(t)'}
    BY <1>1 DEF KeptPrices, Here, Past, BeforeApi, BulkId
  <2>3. Past(4, k)' => PricedOf(t)' = RowsOf(t)'
    BY <1>1 DEF KeptPrices, Here, Past
  <2> QED
    BY <1>1, <2>1, <2>2, <2>3 DEF KeptPrices, Here
<1> QED
  BY <1>1

\* A step of the seed's call, and what is known of it.
Underway(r) == Serve(r) /\ UNCHANGED seed

LEMMA CallFacts ==
  ASSUME Parts, Undisturbedly, NEW r \in Requests, Underway(r)
  PROVE  /\ hand = r /\ hand # Nobody /\ UNCHANGED <<hand, saved, setting, configured, lost>>
         /\ UNCHANGED <<loop, turn, step, run>> /\ RequestsOK'
         /\ loop = 4 /\ N \in Nat /\ step \in 1 .. N + 2
         /\ op[r].kind \in {"define", "create", "price"}
         /\ op[r].kind = "define" <=> step <= N
         /\ op[r].kind = "create" <=> step = N + 1
         /\ op[r].kind = "price" <=> step = N + 2
         /\ RequestsOK /\ TablesOK /\ Asked(r) /\ op[r] \in Operation /\ Bidden
         /\ op[r].tenant = Tenant /\ Tenant \in Tenants /\ turn \in 1 .. Len(Fixtures)
         /\ pc[r] \notin {"idle", "over"} /\ reply[r] = 0
         /\ \A k \in 1 .. Len(Fixtures) :
              /\ Fixtures[k] \in Tenants
              /\ Here(4, k) <=> Fixtures[k] = Tenant
              /\ Here(4, k) <=> k = turn
<1>1. r = hand /\ hand # Nobody /\ UNCHANGED <<hand, saved, setting, configured, lost>>
      /\ UNCHANGED <<loop, turn, step, run>>
  BY CallUndisturbed, SeedAssumption DEF Underway, seed
<1>2. /\ loop = 4 /\ N \in Nat /\ step \in 1 .. N + 2
      /\ op[r].kind \in {"define", "create", "price"}
      /\ op[r].kind = "define" <=> step <= N
      /\ op[r].kind = "create" <=> step = N + 1
      /\ op[r].kind = "price" <=> step = N + 2
  BY <1>1, Calling
<1>3. pc[r] \notin {"idle", "over"}
  BY DEF Underway, Serve, Validate, Look, Insert, Previous, Write, DeleteRow,
         Publish, ListPage, Seek, Define, UpsertPrice
<1>4. /\ RequestsOK /\ TablesOK /\ Asked(r) /\ op[r] \in Operation
      /\ turn \in 1 .. Len(Fixtures)
  BY DEF Parts, CatalogInv, RequestsOK, SeedTypeOK
<1>5. reply[r] = 0 /\ Bidden /\ op[r].tenant = Tenant
  BY <1>1, <1>3, <1>4 DEF Asked, Undisturbedly, Bidden
<1>6. Tenant \in Tenants
  BY TenantType DEF Parts
<1>7. RequestsOK'
  BY RequestServed DEF Underway, Served, Parts
<1>8. ASSUME NEW k \in 1 .. Len(Fixtures)
      PROVE  /\ Fixtures[k] \in Tenants
             /\ Here(4, k) <=> Fixtures[k] = Tenant
             /\ Here(4, k) <=> k = turn
  BY <1>2, <1>4, KthTenant DEF Here, Tenant
<1> QED
  BY <1>1, <1>2, <1>3, <1>4, <1>5, <1>6, <1>7, <1>8

LEMMA ElsewhereKept ==
  ASSUME Parts, Undisturbedly, NEW r \in Requests, Underway(r), Elsewhere(r),
         NEW k \in 1 .. Len(Fixtures), Kept(k)
  PROVE  Kept(k)'
<1> DEFINE t == Fixtures[k]
<1>1. /\ hand = r /\ hand # Nobody /\ UNCHANGED <<hand, saved, setting, configured, lost>>
      /\ UNCHANGED <<loop, turn, step, run>>
      /\ loop = 4 /\ N \in Nat /\ step \in 1 .. N + 2 /\ reply[r] = 0
  BY CallFacts
<1>2. /\ UNCHANGED <<row, priced, index, news, op>>
      /\ reply'[r] # 201
      /\ pc'[r] = "publish" => step <= N
  BY CallFacts DEF Elsewhere
<1>3. Created' = Created /\ Published' = Published
  BY <1>1, <1>2 DEF Created, Published
<1>4. /\ Indexed(t)' = Indexed(t) /\ RowsOf(t)' = RowsOf(t) /\ PricedOf(t)' = PricedOf(t)
      /\ BulkId(t)' = BulkId(t)
  BY <1>1, <1>2 DEF Indexed, RowsOf, PricedOf, BulkId
<1>5. KeptIndex(k)'
  <2>1. KeptIndex(k) /\ (Here(4, k) => Indexed(t) = {BulkId(t)} \union Published)
    BY DEF Kept, KeptIndex
  <2>2. Here(4, k) => Indexed(t)' = {BulkId(t)} \union Published'
    BY <1>3, <1>4, <2>1
  <2>3. loop = 1 => index' = index
    BY <1>2
  <2> HIDE DEF t
  <2> QED
    BY <1>1, <1>4, <2>1, <2>2, <2>3, IndexStands DEF t
<1>6. KeptRows(k)'
  <2>1. (Stocked(t, Created))' <=> Stocked(t, Created)
    BY <1>2, <1>3, <1>4 DEF Stocked
  <2> QED
    BY <1>1, <1>2, <1>4, <2>1, RowsStand DEF Kept, KeptRows
<1>7. KeptPrices(k)'
  <2>1. Here(4, k) => KeptPrices(k)'
    BY <1>1, <1>2, <1>4 DEF KeptPrices, Here, Past, Kept, BeforeApi
  <2> QED
    BY <1>1, <1>4, <2>1, PricesStand DEF Kept
<1>8. KeptDefinitions(k)'
  <2>1. defined[t] = CodesOf(Attributes)
    BY <1>1 DEF Kept, KeptDefinitions, Past
  <2>2. defined'[t] = defined[t]
    <3>1. CASE defined' = defined
      BY <3>1
    <3>2. CASE op[r].kind = "define" /\ defined' = [defined EXCEPT ![op[r].tenant] = @ \union op[r].codes]
      <4>1. op[r].codes \subseteq CodesOf(Attributes) /\ defined \in [Tenants -> SUBSET Codes]
        BY <1>1, <3>2, CallFacts DEF Bidden, TablesOK
      <4>2. t \in Tenants
        BY KthTenant
      <4> QED
        BY <2>1, <3>2, <4>1, <4>2
    <3> QED
      BY <3>1, <3>2 DEF Elsewhere
  <2> QED
    BY <1>1, <2>1, <2>2 DEF KeptDefinitions, Here
<1>9. KeptConfig(k)'
  BY <1>1 DEF Kept, KeptConfig, Here, Past
<1> QED
  BY <1>5, <1>6, <1>7, <1>8, <1>9 DEF Kept

LEMMA InsertedKept ==
  ASSUME Parts, Undisturbedly, NEW r \in Requests, Underway(r), pc[r] = "insert",
         NEW i \in Ids, Inserted(r, i),
         NEW k \in 1 .. Len(Fixtures), Kept(k)
  PROVE  Kept(k)'
<1> DEFINE t == Fixtures[k]
<1> DEFINE new == [tenant |-> op[r].tenant, sku |-> op[r].sku, codes |-> op[r].codes]
<1>1. /\ hand = r /\ hand # Nobody /\ UNCHANGED <<hand, saved, setting, configured, lost>>
      /\ UNCHANGED <<loop, turn, step, run>>
      /\ loop = 4 /\ N \in Nat /\ reply[r] = 0 /\ op[r].tenant = Tenant
      /\ RequestsOK /\ TablesOK /\ Bidden /\ op[r] \in Operation
      /\ t \in Tenants /\ (Here(4, k) <=> t = Tenant) /\ (Here(4, k) <=> k = turn)
  BY CallFacts
<1>2. /\ row' = [row EXCEPT ![i] = new] /\ row[i] = NoRow
      /\ UNCHANGED <<defined, priced, index, news, reply>>
      /\ op' = [op EXCEPT ![r].id = i]
  BY DEF Inserted
<1>3. op[r].kind = "create" /\ op[r].id = Unsaid /\ step = N + 1 /\ op[r].sku = ViaApi
  <2>1. op[r].kind = "create"
    BY CallFacts DEF Asked
  <2> QED
    BY <1>1, <2>1, CallFacts DEF Bidden
<1>4. Created = {} /\ Created' = {i} /\ Published = {} /\ Published' = {}
  <2>1. op'[r].id = i /\ i # Unsaid
    BY <1>1, <1>2, CatalogAssumption DEF RequestsOK, Operation
  <2> QED
    BY <1>1, <1>2, <1>3, <2>1 DEF Created, Published
<1>5. new \in Product /\ new # NoRow /\ new.tenant = Tenant /\ new.sku = ViaApi
  <2>1. op[r].tenant \in Tenants /\ op[r].sku \in Skus /\ op[r].codes \subseteq Codes
    BY <1>1, <1>3, OperationType, CallFacts, SeedAssumption DEF Asked
  <2> QED
    BY <1>1, <1>3, <2>1, CatalogAssumption DEF Product
<1> HIDE DEF new
<1>6. /\ row'[i] = new /\ \A j \in Ids \ {i} : row'[j] = row[j]
      /\ Indexed(t)' = Indexed(t) /\ PricedOf(t)' = PricedOf(t) /\ BulkId(t)' = BulkId(t)
  BY <1>1, <1>2 DEF TablesOK, Indexed, PricedOf, BulkId
<1>7. ASSUME t # Tenant
      PROVE  RowsOf(t)' = RowsOf(t) /\ \A j \in RowsOf(t) : row'[j] = row[j]
  BY <1>2, <1>5, <1>6, <1>7 DEF RowsOf
<1>8. ASSUME t = Tenant PROVE (Stocked(t, Created))'
  <2>1. RowsOf(t) = {BulkId(t)} /\ row[BulkId(t)].sku = Bulk
    BY <1>1, <1>4, <1>8 DEF Kept, KeptRows, Stocked
  <2>2. RowsOf(t)' = {BulkId(t), i}
    BY <1>2, <1>5, <1>6, <1>8, <2>1 DEF RowsOf
  <2>3. BulkId(t) \in Ids \ {i}
    BY <1>2, <2>1 DEF RowsOf
  <2> QED
    BY <1>4, <1>5, <1>6, <2>1, <2>2, <2>3 DEF Stocked
<1>9. KeptIndex(k)'
  <2>1. KeptIndex(k) /\ (Here(4, k) => Indexed(t) = {BulkId(t)} \union Published)
    BY DEF Kept, KeptIndex
  <2>2. Here(4, k) => Indexed(t)' = {BulkId(t)} \union Published'
    BY <1>4, <1>6, <2>1
  <2>3. Past(4, k) => RowsOf(t)' = RowsOf(t)
    BY <1>1, <1>7 DEF Past, Here
  <2>4. loop = 1 => index' = index
    BY <1>1
  <2>5. UNCHANGED <<loop, turn, step, run>>
    BY <1>1
  <2> HIDE DEF t
  <2> QED
    BY <1>6, <2>1, <2>2, <2>3, <2>4, <2>5, IndexStands DEF t
<1>10. KeptRows(k)'
  BY <1>1, <1>7, <1>8, RowsStand DEF Kept
<1>11. KeptPrices(k)'
  <2>1. Here(4, k) => KeptPrices(k)'
    BY <1>1, <1>3, <1>6 DEF KeptPrices, Here, Past, Kept, BeforeApi
  <2> QED
    BY <1>1, <1>6, <1>7, <2>1, PricesStand DEF Kept, Past, Here
<1>12. KeptDefinitions(k)' /\ KeptConfig(k)'
  BY <1>1, <1>2 DEF Kept, KeptDefinitions, KeptConfig, Here, Past
<1> QED
  BY <1>9, <1>10, <1>11, <1>12 DEF Kept

LEMMA UpsertKept ==
  ASSUME Parts, Undisturbedly, NEW r \in Requests, Underway(r), UpsertPrice(r),
         NEW k \in 1 .. Len(Fixtures), Kept(k)
  PROVE  Kept(k)'
<1> DEFINE t == Fixtures[k]
<1>1. /\ hand = r /\ hand # Nobody /\ UNCHANGED <<hand, saved, setting, configured, lost>>
      /\ UNCHANGED <<loop, turn, step, run>>
      /\ loop = 4 /\ N \in Nat /\ op[r].tenant = Tenant /\ Bidden
      /\ t \in Tenants /\ (Here(4, k) <=> t = Tenant) /\ (Here(4, k) <=> k = turn)
  BY CallFacts
<1>2. op[r].kind = "price" /\ op[r].id = saved /\ op[r].id \in Ids /\ step = N + 2
  <2>1. op[r].kind = "price" /\ op[r].id \in Ids
    BY CallFacts DEF UpsertPrice, Asked
  <2> QED
    BY <1>1, <2>1, CallFacts DEF Bidden
<1>3. /\ priced' = priced \union {<<Tenant, saved>>}
      /\ UNCHANGED <<row, defined, index, news, op, reply>>
  BY <1>1, <1>2 DEF UpsertPrice
<1>4. Created' = Created /\ Published' = Published
  BY <1>1, <1>2 DEF Created, Published
<1>5. /\ Indexed(t)' = Indexed(t) /\ RowsOf(t)' = RowsOf(t) /\ BulkId(t)' = BulkId(t)
      /\ \A c : Stocked(t, c)' <=> Stocked(t, c)
  BY <1>1, <1>3 DEF Indexed, RowsOf, BulkId, Stocked
<1>6. PricedOf(t)' = IF t = Tenant THEN PricedOf(t) \union {saved} ELSE PricedOf(t)
  BY <1>2, <1>3 DEF PricedOf
<1>7. KeptIndex(k)'
  BY <1>1, <1>3, <1>4, <1>5, IndexStands DEF Kept, KeptIndex
<1>8. KeptRows(k)'
  <2>1. Here(4, k) => (Stocked(t, Created))'
    BY <1>3, <1>4, <1>5 DEF Kept, KeptRows, Stocked
  <2> QED
    BY <1>1, <1>3, <1>5, <2>1, RowsStand DEF Kept
<1>9. KeptPrices(k)'
  <2>1. Here(4, k) => KeptPrices(k)'
    BY <1>1, <1>2, <1>5, <1>6 DEF KeptPrices, Here, Past, Kept, BeforeApi
  <2> QED
    BY <1>1, <1>5, <1>6, <2>1, PricesStand DEF Kept
<1>10. KeptDefinitions(k)' /\ KeptConfig(k)'
  BY <1>1, <1>3 DEF Kept, KeptDefinitions, KeptConfig, Here, Past
<1> QED
  BY <1>7, <1>8, <1>9, <1>10 DEF Kept

LEMMA PublishKept ==
  ASSUME Parts, Undisturbedly, NEW r \in Requests, Underway(r), Publish(r),
         NEW k \in 1 .. Len(Fixtures), Kept(k)
  PROVE  Kept(k)'
<1> DEFINE t == Fixtures[k]
<1>1. /\ hand = r /\ hand # Nobody /\ UNCHANGED <<hand, saved, setting, configured, lost>>
      /\ UNCHANGED <<loop, turn, step, run>>
      /\ loop = 4 /\ N \in Nat /\ step \in 1 .. N + 2 /\ reply[r] = 0 /\ op[r].tenant = Tenant
      /\ RequestsOK /\ Asked(r) /\ op[r] \in Operation
      /\ op[r].kind \in {"define", "create", "price"}
      /\ op[r].kind = "create" <=> step = N + 1
      /\ t \in Tenants /\ (Here(4, k) <=> t = Tenant) /\ (Here(4, k) <=> k = turn)
  BY CallFacts
<1>2. /\ pc[r] = "publish" /\ UNCHANGED <<row, defined, priced, index, op>>
      /\ reply'[r] = 201
  <2>1. Answer(r, 201) /\ 201 \in Statuses
    BY <1>1 DEF Publish, Statuses
  <2> QED
    BY <1>1, <2>1, Answers DEF Publish, tables
<1>3. /\ RowsOf(t)' = RowsOf(t) /\ BulkId(t)' = BulkId(t) /\ PricedOf(t)' = PricedOf(t)
      /\ \A c : Stocked(t, c)' <=> Stocked(t, c)
  BY <1>1, <1>2 DEF RowsOf, BulkId, Stocked, PricedOf
<1>4. Created' = Created
  BY <1>1, <1>2 DEF Created
<1>5. Here(4, k) => (Stocked(t, Created))'
  BY <1>2, <1>3, <1>4 DEF Kept, KeptRows, Stocked
<1>6. CASE step = N + 1
  <2>1. Published = {} /\ Published' = {op[r].id} /\ op[r].id \in Ids
    BY <1>1, <1>2, <1>6 DEF Published, Asked
  <2> DEFINE event == [tenant |-> op[r].tenant, id |-> op[r].id, keep |-> op[r].kind # "delete"]
  <2>2. news' = news \union {event} /\ event.tenant = Tenant /\ event.id = op[r].id
    BY <1>1, <1>6 DEF Publish
  <2> HIDE DEF event
  <2>3. Indexed(t)' = IF t = Tenant THEN Indexed(t) \union {op[r].id} ELSE Indexed(t)
    BY <1>1, <1>2, <2>1, <2>2 DEF Indexed
  <2>4. Here(4, k) => Indexed(t) = {BulkId(t)}
    BY <2>1 DEF Kept, KeptIndex
  <2> QED
    <3>1. KeptIndex(k)'
      BY <1>1, <1>3, <2>1, <2>3, <2>4, IndexStands DEF Kept
    <3>2. KeptPrices(k)'
      <4>1. Here(4, k) => KeptPrices(k)'
        BY <1>1, <1>3, <1>6 DEF KeptPrices, Here, Past, Kept, BeforeApi
      <4> QED
        BY <1>1, <1>3, <4>1, PricesStand DEF Kept
    <3>3. KeptRows(k)'
      BY <1>1, <1>2, <1>3, <1>5, RowsStand DEF Kept
    <3>4. KeptDefinitions(k)' /\ KeptConfig(k)'
      BY <1>1, <1>2 DEF Kept, KeptDefinitions, KeptConfig, Here, Past
    <3> QED
      BY <3>1, <3>2, <3>3, <3>4 DEF Kept
<1>7. CASE step # N + 1
  <2>1. Published' = Published /\ news' = news
    BY <1>1, <1>7 DEF Publish, Published
  <2>2. Indexed(t)' = Indexed(t)
    BY <1>1, <1>2, <2>1 DEF Indexed
  <2>3. KeptIndex(k)'
    <3>1. Here(4, k) => Indexed(t)' = {BulkId(t)} \union Published'
      BY <2>1, <2>2 DEF Kept, KeptIndex
    <3> QED
      BY <1>1, <1>2, <1>3, <2>2, <3>1, IndexStands DEF Kept
  <2>4. KeptPrices(k)'
    <3>1. Here(4, k) /\ step = N + 2 => saved \in PricedOf(t)
      BY <1>1, <1>2 DEF Kept, KeptPrices
    <3>2. Here(4, k) => KeptPrices(k)'
      BY <1>1, <1>3, <3>1 DEF KeptPrices, Here, Past, Kept, BeforeApi
    <3> QED
      BY <1>1, <1>3, <3>2, PricesStand DEF Kept
  <2>5. KeptRows(k)'
    BY <1>1, <1>2, <1>3, <1>5, RowsStand DEF Kept
  <2>6. KeptDefinitions(k)' /\ KeptConfig(k)'
    BY <1>1, <1>2 DEF Kept, KeptDefinitions, KeptConfig, Here, Past
  <2> QED
    BY <2>3, <2>4, <2>5, <2>6 DEF Kept
<1> QED
  BY <1>6, <1>7

\* What the api does on its own, behind the back of the seed, leaves what is kept.
LEMMA Behind ==
  ASSUME Parts, Undisturbedly, loop \in 4 .. 5,
         UNCHANGED <<row, defined, priced, op, reply, hand, saved, setting, configured>>,
         UNCHANGED <<loop, turn, step, run>>,
         hand # Nobody => pc'[hand] \in {pc[hand], "over"},
         NEW k \in 1 .. Len(Fixtures), Kept(k), Indexed(Fixtures[k])' = Indexed(Fixtures[k])
  PROVE  Kept(k)'
<1> DEFINE t == Fixtures[k]
<1>1. /\ RowsOf(t)' = RowsOf(t) /\ BulkId(t)' = BulkId(t) /\ PricedOf(t)' = PricedOf(t)
      /\ Published' = Published /\ Created' = Created
  BY DEF RowsOf, BulkId, PricedOf, Published, Created
<1>2. KeptIndex(k)'
  <2>1. Here(4, k) => Indexed(t)' = {BulkId(t)} \union Published'
    BY <1>1 DEF Kept, KeptIndex
  <2> QED
    BY <1>1, <2>1, IndexStands DEF Kept
<1>3. KeptRows(k)'
  <2>1. Here(4, k) => (Stocked(t, Created))'
    BY <1>1 DEF Kept, KeptRows, Stocked
  <2> QED
    BY <1>1, <2>1, RowsStand DEF Kept
<1>4. KeptPrices(k)'
  <2>1. Here(4, k) => KeptPrices(k)'
    BY <1>1 DEF KeptPrices, Here, Past, Kept, BeforeApi
  <2> QED
    BY <1>1, <2>1, PricesStand DEF Kept
<1>5. KeptDefinitions(k)' /\ KeptConfig(k)'
  BY DEF Kept, KeptDefinitions, KeptConfig, Here, Past
<1> QED
  BY <1>2, <1>3, <1>4, <1>5 DEF Kept

\* The indexer handles an event: what it brings was counted as indexed already.
LEMMA EventKept ==
  ASSUME Parts, Undisturbedly, loop \in 1 .. 5, NEW e \in news, Handle(e), UNCHANGED seed
  PROVE  Undisturbedly' /\ \A k \in 1 .. Len(Fixtures) : Kept(k) => Kept(k)'
<1>1. /\ UNCHANGED <<row, defined, priced, pc, op, reply, hand, saved, setting, configured, lost>>
      /\ UNCHANGED <<loop, turn, step, run>>
      /\ news' = news \ {e} /\ e.keep /\ e.tenant \in Tenants /\ e.id \in Ids
      /\ loop \in 4 .. 5
  BY DEF Handle, tables, seed, Undisturbedly, Parts, CatalogInv, TablesOK
<1>2. index' = [index EXCEPT ![e.tenant] = @ \union {e.id}] /\ index \in [Tenants -> SUBSET Ids]
  BY <1>1 DEF Handle, Parts, CatalogInv, TablesOK
<1>3. Undisturbedly'
  BY <1>1 DEF Undisturbedly, Bidden, Tenant
<1>4. ASSUME NEW k \in 1 .. Len(Fixtures), Kept(k) PROVE Kept(k)'
  <2> DEFINE t == Fixtures[k]
  <2>1. t \in Tenants
    BY KthTenant
  <2>2. index'[t] = IF t = e.tenant THEN index[t] \union {e.id} ELSE index[t]
    BY <1>2, <2>1
  <2>3. t = e.tenant => e.id \in Indexed(t)
    BY <1>1 DEF Indexed
  <2>4. Indexed(t)' \subseteq Indexed(t)
    BY <1>1, <2>2, <2>3 DEF Indexed
  <2>5. ASSUME NEW i \in Indexed(t) PROVE i \in Indexed(t)'
    BY <1>1, <2>2, <2>5 DEF Indexed
  <2>6. Indexed(t)' = Indexed(t)
    BY <2>4, <2>5
  <2> QED
    BY <1>1, <1>4, <2>6, Behind
<1> QED
  BY <1>3, <1>4

\* An event comes to nothing: what it would have brought is among what is lost.
LEMMA LossKept ==
  ASSUME Parts, Undisturbedly, clean, loop \in 1 .. 5, Loss
  PROVE  Undisturbedly' /\ \A k \in 1 .. Len(Fixtures) : Kept(k) => Kept(k)'
<1>1. /\ UNCHANGED <<row, defined, priced, index, op, reply>>
      /\ UNCHANGED <<loop, turn, step, run, hand, saved, setting, configured>>
      /\ \A r \in Requests : pc'[r] \in {pc[r], "over"}
  BY LossMeans DEF Parts, Loss
<1>2. PICK gone \in SUBSET news : news' = news \ gone /\ Lose(gone)
  BY LossMeans DEF Parts
<1>3. lost' = lost \union {<<e.tenant, e.id>> : e \in gone}
  BY <1>2 DEF Lose
<1>4. hand # Nobody => hand \in Requests
  BY DEF Parts, SheetOK
<1>5. Undisturbedly'
  <2>1. \A q \in Requests : pc'[q] \notin {"idle", "over"} => q = hand'
    BY <1>1 DEF Undisturbedly
  <2>2. hand' # Nobody => Bidden'
    BY <1>1, <1>4 DEF Undisturbedly, Bidden, Tenant
  <2>3. loop' < 4 => news' = {} /\ lost' = {}
    BY <1>1, <1>2, <1>3 DEF Undisturbedly
  <2>4. /\ \A e \in news' : e.keep
        /\ loop' \in {2, 3} /\ step' > 1 => setting' \in {Tenant', Nobody}
    BY <1>1, <1>2 DEF Undisturbedly, Tenant
  <2> QED
    BY <2>1, <2>2, <2>3, <2>4 DEF Undisturbedly
<1>6. CASE loop \in 4 .. 5
  <2>1. ASSUME NEW k \in 1 .. Len(Fixtures), Kept(k) PROVE Kept(k)'
    <3> DEFINE t == Fixtures[k]
    <3>1. \A i \in Ids : (\E e \in news : e.tenant = t /\ e.id = i) \/ <<t, i>> \in lost
                        <=> (\E e \in news' : e.tenant = t /\ e.id = i) \/ <<t, i>> \in lost'
      BY <1>2, <1>3
    <3>2. Indexed(t)' = Indexed(t)
      BY <1>1, <3>1 DEF Indexed
    <3> QED
      BY <1>1, <1>4, <1>6, <2>1, <3>2, Behind
  <2> QED
    BY <1>5, <2>1
<1>7. CASE loop < 4
  <2>1. gone = {} /\ news' = news /\ lost' = lost
    BY <1>2, <1>3, <1>7 DEF Undisturbedly
  <2>2. ASSUME NEW k \in 1 .. Len(Fixtures), Kept(k) PROVE Kept(k)'
    BY <1>1, <1>7, <2>1, <2>2 DEF Kept, KeptIndex, KeptRows, KeptDefinitions, KeptPrices,
       KeptConfig, Here, Past, BeforeApi, Indexed, RowsOf, BulkId, Stocked, PricedOf
  <2> QED
    BY <1>5, <2>2
<1> QED
  BY <1>6, <1>7

\* The seed calls the api.
LEMMA CallKept ==
  ASSUME Parts, Undisturbedly, NEW r \in Requests, Call(r)
  PROVE  Undisturbedly' /\ \A k \in 1 .. Len(Fixtures) : Kept(k) => Kept(k)'
<1>1. /\ hand = Nobody /\ hand' = r /\ Begin(r, Body) /\ r # Nobody
      /\ UNCHANGED <<loop, turn, step, run, setting, saved, configured, lost>>
      /\ UNCHANGED <<row, defined, priced, index, news>>
  BY SeedAssumption DEF Call, Begin, tables
<1>2. /\ Parts' /\ Alone(r) /\ op'[r] = Body /\ Body \in Operation /\ SeedTypeOK
      /\ At("define") \/ At("create") \/ At("price")
  BY CallKeeps, BodyType DEF Call, Parts
<1>3. /\ loop = 4 /\ N \in Nat /\ step \in 1 .. N + 2
      /\ At("define") <=> step <= N
      /\ At("create") <=> step = N + 1
      /\ At("price") <=> step = N + 2
  BY <1>2, Deed, AttributesType
<1>4. reply'[r] = 0 /\ pc'[r] # "publish"
  <2>1. reply'[r] = 0 /\ pc'[r] = FirstStep(Body.kind)
    BY <1>1 DEF Begin, Goto, Parts, CatalogInv, RequestsOK
  <2>2. FirstStep(Body.kind) # "publish"
    BY <1>2, OperationType DEF FirstStep, Kinds
  <2> QED
    BY <2>1, <2>2
<1>5. /\ Body.tenant = Tenant /\ Body.kind = Loops[loop][step].does
      /\ Body.sku = IF At("create") THEN ViaApi ELSE Unsaid
      /\ Body.id = IF At("price") THEN saved ELSE Unsaid
  BY DEF Body
<1>6. Body.kind = "define" => Body.codes \subseteq CodesOf(Attributes)
  <2> SUFFICES ASSUME Body.kind = "define" PROVE Body.codes \subseteq CodesOf(Attributes)
    OBVIOUS
  <2>1. At("define") /\ step \in 1 .. N
    BY <1>2, <1>3, <1>5 DEF At
  <2>2. Loops[loop][step].code = Attributes[step]
    BY <1>3, <2>1, Places
  <2>3. Body.codes = {Attributes[step]}
    <3>1. ~At("create") /\ ~At("price")
      BY <2>1 DEF At
    <3> QED
      BY <2>1, <2>2, <3>1 DEF Body
  <2> QED
    BY <2>1, <2>3, CodesOfAll
<1>7. Undisturbedly'
  <2>1. \A q \in Requests : pc'[q] \notin {"idle", "over"} => q = hand'
    BY <1>1, <1>2, SeedAssumption DEF Undisturbedly, Alone
  <2>2. Tenant' = Tenant /\ saved' = saved
    BY <1>1 DEF Tenant
  <2>3. Body.kind = "create" => Body.sku = ViaApi /\ Body.id = Unsaid
    BY <1>2, <1>5 DEF At
  <2>4. Body.kind = "price" => Body.id = saved
    BY <1>2, <1>5 DEF At
  <2>5. Bidden'
    BY <1>1, <1>2, <1>5, <1>6, <2>2, <2>3, <2>4 DEF Bidden
  <2> QED
    BY <1>1, <1>3, <2>1, <2>5 DEF Undisturbedly
<1>8. ASSUME NEW k \in 1 .. Len(Fixtures), Kept(k) PROVE Kept(k)'
  <2> DEFINE t == Fixtures[k]
  <2>1. step = N + 1 => op'[r].id = Unsaid
    BY <1>2, <1>3, <1>5
  <2>2. Created' = Created /\ Published' = Published
    BY <1>1, <1>4, <2>1 DEF Created, Published
  <2>3. /\ RowsOf(t)' = RowsOf(t) /\ BulkId(t)' = BulkId(t) /\ PricedOf(t)' = PricedOf(t)
        /\ Indexed(t)' = Indexed(t)
    BY <1>1 DEF RowsOf, BulkId, PricedOf, Indexed
  <2>4. KeptIndex(k)'
    BY <1>1, <1>8, <2>2, <2>3, IndexStands DEF Kept, KeptIndex
  <2>5. KeptRows(k)'
    <3>1. Here(4, k) => (Stocked(t, Created))'
      BY <1>1, <1>8, <2>2, <2>3 DEF Kept, KeptRows, Stocked
    <3> QED
      BY <1>1, <1>8, <2>3, <3>1, RowsStand DEF Kept
  <2>6. KeptPrices(k)'
    <3>1. Here(4, k) => KeptPrices(k)'
      BY <1>1, <1>4, <1>8, <2>3 DEF KeptPrices, Here, Past, Kept, BeforeApi
    <3> QED
      BY <1>1, <1>8, <2>3, <3>1, PricesStand DEF Kept
  <2>7. KeptDefinitions(k)' /\ KeptConfig(k)'
    BY <1>1, <1>8 DEF Kept, KeptDefinitions, KeptConfig, Here, Past
  <2> QED
    BY <2>4, <2>5, <2>6, <2>7 DEF Kept
<1> QED
  BY <1>7, <1>8

\* The connection of the seed is replaced.
LEMMA ReconnectKept ==
  ASSUME Parts, Undisturbedly, Reconnect
  PROVE  Undisturbedly' /\ \A k \in 1 .. Len(Fixtures) : Kept(k) => Kept(k)'
<1>1. /\ setting' = Nobody
      /\ UNCHANGED <<loop, turn, step, run, hand, saved, configured, lost>>
      /\ UNCHANGED <<row, defined, priced, index, news, pc, op, reply>>
  BY DEF Reconnect, catalog
<1>2. Undisturbedly'
  BY <1>1 DEF Undisturbedly, Bidden, Tenant
<1>3. ASSUME NEW k \in 1 .. Len(Fixtures), Kept(k) PROVE Kept(k)'
  <2> DEFINE t == Fixtures[k]
  <2>1. /\ RowsOf(t)' = RowsOf(t) /\ BulkId(t)' = BulkId(t) /\ PricedOf(t)' = PricedOf(t)
        /\ Indexed(t)' = Indexed(t) /\ Published' = Published /\ Created' = Created
    BY <1>1 DEF RowsOf, BulkId, PricedOf, Indexed, Published, Created
  <2>2. KeptIndex(k)'
    BY <1>1, <1>3, <2>1, IndexStands DEF Kept, KeptIndex
  <2>3. KeptRows(k)'
    <3>1. Here(4, k) => (Stocked(t, Created))'
      BY <1>1, <1>3, <2>1 DEF Kept, KeptRows, Stocked
    <3> QED
      BY <1>1, <1>3, <2>1, <3>1, RowsStand DEF Kept
  <2>4. KeptPrices(k)'
    <3>1. Here(4, k) => KeptPrices(k)'
      BY <1>1, <1>3, <2>1 DEF KeptPrices, Here, Past, Kept, BeforeApi
    <3> QED
      BY <1>1, <1>3, <2>1, <3>1, PricesStand DEF Kept
  <2>5. KeptDefinitions(k)' /\ KeptConfig(k)'
    <3>1. t # Nobody
      BY KthTenant
    <3> QED
      BY <1>1, <1>3, <3>1 DEF Kept, KeptDefinitions, KeptConfig, Here, Past
  <2> QED
    BY <2>2, <2>3, <2>4, <2>5 DEF Kept
<1> QED
  BY <1>2, <1>3

\* The answer: the seed goes on, with the product that was created in hand.
LEMMA AnsweredUndisturbed ==
  ASSUME Parts, Undisturbedly, Answered
  PROVE  Undisturbedly'
<1>1. PICK h \in Requests : h = hand /\ h # Nobody
  BY AnsweredKeeps DEF Answered
<1>2. /\ hand' = Nobody /\ pc' = [pc EXCEPT ![h] = "idle"] /\ UNCHANGED <<news, lost>>
      /\ Advance /\ Running
      /\ pc \in [Requests -> Labels] /\ loop = 4
  BY <1>1, Calling DEF Answered, Parts, CatalogInv, RequestsOK
<1>3. loop' \in {4, 5}
  BY <1>2, Moved
<1>4. \A q \in Requests : pc'[q] \in {"idle", "over"}
  BY <1>1, <1>2 DEF Undisturbedly
<1> QED
  BY <1>2, <1>3, <1>4 DEF Undisturbedly

LEMMA AnsweredKept ==
  ASSUME Parts, Undisturbedly, Answered, NEW k \in 1 .. Len(Fixtures), Kept(k)
  PROVE  Kept(k)'
<1> DEFINE t == Fixtures[k]
<1>1. PICK h \in Requests : h = hand /\ h # Nobody
  BY AnsweredKeeps DEF Answered
<1>2. /\ hand' = Nobody /\ Advance /\ Running /\ loop = 4 /\ N \in Nat /\ step \in 1 .. N + 2
      /\ UNCHANGED <<row, defined, priced, index, news, run, setting, configured, lost>>
      /\ op[h].kind = "create" <=> step = N + 1
      /\ turn \in 1 .. Len(Fixtures) /\ Len(Fixtures) \in Nat /\ SeedTypeOK /\ Asked(h)
  BY <1>1, Calling, FixturesType DEF Answered, Parts, CatalogInv, SeedTypeOK, tables
<1>3. /\ At("define") <=> step <= N
      /\ At("create") <=> step = N + 1
      /\ At("price") <=> step = N + 2
  BY <1>2, Deed
<1>4. /\ step > N => reply[h] = 201
      /\ step = N + 1 => saved' = op[h].id /\ op[h].id \in Ids
  BY <1>1, <1>2, <1>3 DEF Answered, Asked
<1>5. \/ step < N + 2 /\ loop' = 4 /\ turn' = turn /\ step' = step + 1
      \/ step = N + 2 /\ step' = 1 /\ turn < Len(Fixtures) /\ loop' = 4 /\ turn' = turn + 1
      \/ step = N + 2 /\ step' = 1 /\ turn = Len(Fixtures) /\ loop' = 5 /\ turn' = 1
  BY <1>2, Moved
<1>6. /\ Indexed(t)' = Indexed(t) /\ RowsOf(t)' = RowsOf(t) /\ BulkId(t)' = BulkId(t)
      /\ PricedOf(t)' = PricedOf(t) /\ \A c : Stocked(t, c) => (Stocked(t, c))'
  BY <1>2 DEF Indexed, RowsOf, BulkId, PricedOf, Stocked
<1>7. KeptDefinitions(k)' /\ KeptConfig(k)'
  <2>1. ~At("wipe-definitions") /\ ~At("insert-definition") /\ ~At("insert-products")
    BY <1>2, Deed
  <2>2. ~At("insert-config")
    BY <1>2, Deed
  <2> QED
    BY <1>2, <2>1, <2>2, DefinitionsLeft, ConfigLeft DEF Kept
<1>8. CASE k = turn
  <2>1. Here(4, k) /\ ~Here(1, k)' /\ ~Here(2, k)' /\ ~Here(3, k)' /\ ~BeforeApi(k)'
    BY <1>2, <1>5, <1>8 DEF Here, BeforeApi
  <2>2. CASE step = N + 2
    <3>1. PICK s : s = saved
      OBVIOUS
    <3>2. Indexed(t) = {BulkId(t)} \union {s} /\ Stocked(t, {s})
      BY <2>1, <2>2, <3>1 DEF Kept, KeptIndex, KeptRows, Published, Created
    <3>3. RowsOf(t) = {BulkId(t), s} /\ s \in Ids
      BY <3>2 DEF Stocked, RowsOf
    <3>4. PricedOf(t) = {BulkId(t), s}
      BY <1>1, <1>2, <1>4, <2>1, <2>2, <3>1 DEF Kept, KeptPrices
    <3>5. ~Here(4, k)'
      BY <1>2, <1>5, <1>8, <2>2 DEF Here
    <3>6. (Stocked(t, {s}))'
      BY <1>6, <3>2
    <3>7. KeptIndex(k)' /\ KeptPrices(k)'
      BY <1>6, <2>1, <3>2, <3>3, <3>4, <3>5 DEF KeptIndex, KeptPrices
    <3>8. KeptRows(k)'
      BY <2>1, <3>3, <3>5, <3>6 DEF KeptRows
    <3> QED
      BY <1>7, <3>7, <3>8 DEF Kept
  <2>3. CASE step # N + 2
    <3>1. /\ Here(4, k)' /\ ~Past(4, k)' /\ step' = step + 1
          /\ (step = N + 1 <=> step' = N + 2)
      BY <1>2, <1>5, <1>8, <2>3 DEF Here, Past
    <3>2. Created' = Created /\ Published' = Published
      <4>1. CASE step = N + 1
        <5>1. Created = {op[h].id} /\ Published = {op[h].id}
          BY <1>1, <1>2, <1>4, <4>1, CatalogAssumption DEF Created, Published
        <5>2. Created' = {op[h].id} /\ Published' = {op[h].id}
          BY <1>4, <3>1, <4>1 DEF Created, Published
        <5> QED
          BY <5>1, <5>2
      <4>2. CASE step # N + 1
        <5>1. Created = {} /\ Published = {}
          BY <2>3, <4>2 DEF Created, Published
        <5>2. Created' = {} /\ Published' = {}
          BY <1>2, <3>1, <4>2 DEF Created, Published
        <5> QED
          BY <5>1, <5>2
      <4> QED
        BY <4>1, <4>2
    <3>3. KeptIndex(k)'
      BY <1>6, <2>1, <3>1, <3>2 DEF Kept, KeptIndex
    <3>4. KeptRows(k)'
      <4>1. Stocked(t, Created)
        BY <2>1 DEF Kept, KeptRows
      <4>2. (Stocked(t, Created))'
        BY <1>6, <3>2, <4>1
      <4> QED
        BY <2>1, <3>1, <4>2 DEF KeptRows
    <3>5. KeptPrices(k)'
      <4>1. PricedOf(t) = {BulkId(t)}
        BY <2>1, <2>3 DEF Kept, KeptPrices
      <4> QED
        BY <1>2, <1>6, <2>1, <3>1, <4>1 DEF KeptPrices
    <3> QED
      BY <1>7, <3>3, <3>4, <3>5 DEF Kept
  <2> QED
    BY <2>2, <2>3
<1>9. CASE k # turn
  <2>1. CASE BeforeApi(k)
    <3>1. /\ Past(1, k) /\ Past(2, k) /\ Past(3, k) /\ ~Past(4, k)' /\ turn < k
          /\ ~Here(1, k)' /\ ~Here(2, k)' /\ ~Here(3, k)'
      BY <1>2, <1>5, <2>1, <1>9 DEF BeforeApi, Past, Here
    <3>2. Indexed(t) = {BulkId(t)} /\ Stocked(t, {}) /\ PricedOf(t) = {BulkId(t)}
      BY <2>1, <3>1 DEF Kept, KeptIndex, KeptRows, KeptPrices
    <3>3. Here(4, k)' => step' = 1
      BY <1>2, <1>5, <1>9 DEF Here
    <3>4. Here(4, k)' => Created' = {} /\ Published' = {} /\ step' # N + 2
      BY <1>2, <3>3 DEF Created, Published
    <3>5. (Stocked(t, {}))'
      BY <1>6, <3>2
    <3>6. KeptIndex(k)' /\ KeptPrices(k)'
      BY <1>6, <3>1, <3>2, <3>4 DEF KeptIndex, KeptPrices
    <3>7. KeptRows(k)'
      <4>1. Here(4, k)' => (Stocked(t, Created))'
        BY <3>4, <3>5
      <4> QED
        BY <3>1, <3>5, <4>1 DEF KeptRows
    <3> QED
      BY <1>7, <3>6, <3>7 DEF Kept
  <2>2. CASE ~BeforeApi(k)
    <3>1. /\ Past(4, k) /\ ~BeforeApi(k)'
          /\ ~Here(1, k)' /\ ~Here(2, k)' /\ ~Here(3, k)' /\ ~Here(4, k)'
      BY <1>2, <1>5, <2>2, <1>9 DEF BeforeApi, Past, Here
    <3>2. KeptIndex(k)' /\ KeptPrices(k)'
      BY <1>6, <3>1 DEF Kept, KeptIndex, KeptPrices
    <3>3. KeptRows(k)'
      <4>1. PICK i \in Ids : Stocked(t, {i})
        BY <3>1 DEF Kept, KeptRows
      <4>2. (Stocked(t, {i}))'
        BY <1>6, <4>1
      <4> QED
        BY <3>1, <4>2 DEF KeptRows
    <3> QED
      BY <1>7, <3>2, <3>3 DEF Kept
  <2> QED
    BY <2>1, <2>2
<1> QED
  BY <1>8, <1>9

\* At its start the seed has come past nothing yet.
LEMMA StartKept ==
  ASSUME Parts, Start, clean'
  PROVE  Undisturbedly' /\ \A k \in 1 .. Len(Fixtures) : Kept(k)'
<1>1. /\ loop' = 1 /\ turn' = 1 /\ step' = 1 /\ Quiet /\ hand' = Nobody
      /\ UNCHANGED <<news, pc>> /\ lost' = {}
  BY DEF Start, Parts, SheetOK
<1>2. Undisturbedly'
  BY <1>1 DEF Undisturbedly, Quiet
<1>3. ASSUME NEW k \in 1 .. Len(Fixtures) PROVE Kept(k)'
  BY <1>1 DEF Kept, KeptIndex, KeptRows, KeptDefinitions, KeptPrices, KeptConfig, Here, Past
<1> QED
  BY <1>2, <1>3

LEMMA SeedKept == Parts /\ SeedInv /\ [Next]_vars => SeedInv'
<1> SUFFICES ASSUME Parts, SeedInv, [Next]_vars, clean', loop' \in 1 .. 5
             PROVE  Undisturbedly' /\ \A k \in 1 .. Len(Fixtures) : Kept(k)'
  BY DEF SeedInv, Undisturbed
<1>0. CASE Start
  BY <1>0, StartKept
<1>1. CASE ~Start
  <2>1. clean /\ loop \in 1 .. 5
    <3>1. Running => loop \in 1 .. 5
      BY DEF Running
    <3>2. CASE Statement
      <4>1. clean' = clean \/ clean' = FALSE
        BY <3>2 DEF Statement, DeleteIndex, BulkIndex, Bind, Wipe, InsertDefinition,
                    InsertProducts, InsertConfig, InsertPrices, sheet
      <4>2. loop \in 1 .. 5
        BY <3>2, Statements
      <4> QED
        BY <4>1, <4>2
    <3>3. CASE UNCHANGED <<clean, loop>>
      BY <3>3
    <3>4. CASE Answered
      BY <3>1, <3>4 DEF Answered
    <3>5. \/ Statement \/ Answered \/ UNCHANGED <<clean, loop>>
          \/ clean' = FALSE \/ loop' = 0
      BY <1>1 DEF Next, InApi, Call, Admin, Abort, Reconnect, seed, vars, Statement
    <3>6. loop' # 0 /\ ~(clean' = FALSE)
      OBVIOUS
    <3> QED
      BY <3>2, <3>3, <3>4, <3>5, <3>6
  <2>2. Undisturbedly /\ \A k \in 1 .. Len(Fixtures) : Kept(k)
    BY <2>1 DEF SeedInv, Undisturbed
  <2>3. CASE Statement
    BY <2>2, <2>3, StatementUndisturbed, StatementKept
  <2>4. ASSUME NEW r \in Requests, Underway(r)
        PROVE  Undisturbedly' /\ \A k \in 1 .. Len(Fixtures) : Kept(k)'
    <3>1. Undisturbedly' /\ r = hand
      BY <2>2, <2>4, CallUndisturbed DEF Underway
    <3> SUFFICES ASSUME NEW k \in 1 .. Len(Fixtures) PROVE Kept(k)'
      BY <3>1
    <3>2. \/ Elsewhere(r)
          \/ pc[r] = "insert" /\ \E i \in Ids : Inserted(r, i)
          \/ UpsertPrice(r)
          \/ Publish(r)
      BY <2>4, <3>1, Progress DEF Underway
    <3>3. CASE Elsewhere(r)
      BY <2>2, <2>4, <3>3, ElsewhereKept
    <3>4. CASE pc[r] = "insert" /\ \E i \in Ids : Inserted(r, i)
      BY <2>2, <2>4, <3>4, InsertedKept
    <3>5. CASE UpsertPrice(r)
      BY <2>2, <2>4, <3>5, UpsertKept
    <3>6. CASE Publish(r)
      BY <2>2, <2>4, <3>6, PublishKept
    <3> QED
      BY <3>2, <3>3, <3>4, <3>5, <3>6
  <2>5. ASSUME NEW e \in news, Handle(e), UNCHANGED seed
        PROVE  Undisturbedly' /\ \A k \in 1 .. Len(Fixtures) : Kept(k)'
    BY <2>1, <2>2, <2>5, EventKept
  <2>6. ASSUME NEW r \in Requests, Call(r)
        PROVE  Undisturbedly' /\ \A k \in 1 .. Len(Fixtures) : Kept(k)'
    BY <2>2, <2>6, CallKept
  <2>11. CASE Loss
    BY <2>1, <2>2, <2>11, LossKept
  <2>7. CASE Answered
    BY <2>2, <2>7, AnsweredUndisturbed, AnsweredKept
  <2>8. CASE Reconnect
    BY <2>2, <2>8, ReconnectKept
  <2>9. ~Abort /\ \A r \in Requests, o \in AdminOps : ~Admin(r, o)
    <3>1. Abort => loop' = 0
      BY DEF Abort
    <3>2. \A r \in Requests, o \in AdminOps : Admin(r, o) => clean' = FALSE
      BY DEF Admin
    <3> QED
      BY <3>1, <3>2
  <2>10. CASE UNCHANGED vars
    <3>1. /\ UNCHANGED <<loop, turn, step, run, hand, saved, setting, configured, lost>>
          /\ UNCHANGED <<row, defined, priced, index, news, pc, op, reply>>
      BY <2>10 DEF vars, seed, catalog, tables
    <3>2. Undisturbedly'
      BY <2>2, <3>1 DEF Undisturbedly, Bidden, Tenant
    <3>3. ASSUME NEW k \in 1 .. Len(Fixtures) PROVE Kept(k)'
      <4>1. UNCHANGED <<Created, Published>>
        BY <3>1 DEF Created, Published
      <4>2. Kept(k)
        BY <2>2
      <4>3. KeptIndex(k)'
        BY <3>1, <4>1, <4>2 DEF Kept, KeptIndex, Here, Past, BeforeApi, Indexed, RowsOf, BulkId
      <4>4. KeptRows(k)'
        BY <3>1, <4>1, <4>2 DEF Kept, KeptRows, Here, Past, BeforeApi, Stocked, RowsOf, BulkId
      <4>5. KeptPrices(k)'
        BY <3>1, <4>2 DEF Kept, KeptPrices, Here, Past, BeforeApi, PricedOf, RowsOf, BulkId
      <4>6. KeptDefinitions(k)' /\ KeptConfig(k)'
        BY <3>1, <4>2 DEF Kept, KeptDefinitions, KeptConfig, Here, Past
      <4> QED
        BY <4>3, <4>4, <4>5, <4>6 DEF Kept
    <3> QED
      BY <3>2, <3>3
  <2> QED
    BY <1>1, <2>3, <2>4, <2>5, <2>6, <2>7, <2>8, <2>9, <2>10, <2>11, InApiSteps
       DEF Next, Statement, Underway
<1> QED
  BY <1>0, <1>1

\* When the seed has ended and the events are handled, what is kept of each tenant is
\* what the property asks for.
LEMMA EndKept == Parts /\ SeedInv => SeedAgrees
<1> SUFFICES ASSUME Parts, SeedInv, Ended, clean, Quiet, NEW t \in Tenants
             PROVE  /\ index[t] \union {i \in Ids : <<t, i>> \in lost} = RowsOf(t)
                    /\ {i \in Ids : <<t, i>> \in priced} = RowsOf(t)
                    /\ {row[i].sku : i \in RowsOf(t)} = {Bulk, ViaApi}
                    /\ defined[t] = CodesOf(Attributes)
                    /\ t \in configured
  BY DEF SeedAgrees
<1>1. PICK k \in 1 .. Len(Fixtures) : Fixtures[k] = t
  <2>1. \E n \in DOMAIN Fixtures : Fixtures[n] = t
    BY SeedAssumption
  <2>2. DOMAIN Fixtures = 1 .. Len(Fixtures)
    BY FixturesType
  <2> QED
    BY <2>1, <2>2
<1>2. Past(2, k) /\ Past(3, k) /\ Past(4, k) /\ Kept(k)
  BY DEF Ended, Past, SeedInv, Undisturbed
<1>3. index[t] \union {i \in Ids : <<t, i>> \in lost} = RowsOf(t)
  BY <1>1, <1>2 DEF Kept, KeptIndex, Indexed, Quiet
<1>4. PricedOf(t) = RowsOf(t)
  BY <1>1, <1>2 DEF Kept, KeptPrices
<1>5. PICK i \in Ids : Stocked(t, {i})
  BY <1>1, <1>2 DEF Kept, KeptRows
<1>6. {row[j].sku : j \in RowsOf(t)} = {Bulk, ViaApi}
  BY <1>5 DEF Stocked
<1>7. defined[t] = CodesOf(Attributes) /\ t \in configured
  BY <1>1, <1>2 DEF Kept, KeptDefinitions, KeptConfig
<1> QED
  BY <1>3, <1>4, <1>6, <1>7 DEF PricedOf

\* When the seed has come to its end, and neither an admin nor a refused batch came
\* between, every tenant has the fixture's products, in the table, priced and in the
\* index, its definitions and its configuration, whatever earlier runs left behind and
\* however handlers fail and processes of the api die: the index lacks the products
\* whose event came to nothing since the start, and no other.
THEOREM SeedCorrect == Spec => []SeedAgrees
<1>1. Init => SeedInv
  BY DEF Init, SeedInv, Undisturbed
<1> QED
  BY <1>1, InitKeeps, StepKeeps, SeedKept, EndKept, PTL DEF Spec
================================================================================
