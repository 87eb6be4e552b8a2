-------------------------------- MODULE Catalog --------------------------------
(***************************************************************************)
(* The catalog of the api: products, attribute definitions and prices as   *)
(* the admin endpoints write and list them (packages/modules/catalog/src,  *)
(* packages/modules/pricing/src/prices).                                   *)
(*                                                                         *)
(* A request is its service method; pc[r] is the await it has reached.     *)
(* Every statement commits by itself, so requests interleave between the   *)
(* look that decides and the statement that writes; what is unique is so   *)
(* by an index of the table.  What the search indexer does with an event   *)
(* is Indexer's business: here it puts or drops a document some time, or   *)
(* fails.  Events live in the memory of the process that published them,   *)
(* are handled once and die with it.                                       *)
(***************************************************************************)
EXTENDS Naturals, FiniteSets, Sequences

CONSTANTS
  Tenants, Skus, Codes,  \* codes of attributes
  Ids,        \* of products, ordered as the table orders them
  Drawn,      \* ids that programs draw themselves, not the table
  Requests,
  Cap,        \* products on a page of the listing
  Unsaid,        \* a field that a request does not name
  NoRow,
  Starts,     \* what the tables may hold at first: products and definitions
  MaxActs     \* bound: requests, and runs of the seed, of a behaviour

Product == [tenant : Tenants, sku : Skus, codes : SUBSET Codes]

\* The unique index of catalog.products on tenant and sku.
OnePerSku(rows) ==
  \A i, j \in Ids :
    (rows[i] # NoRow /\ rows[j] # NoRow /\ rows[i].tenant = rows[j].tenant
       /\ rows[i].sku = rows[j].sku) => i = j

ASSUME CatalogAssumption ==
  /\ Ids \subseteq Nat /\ IsFiniteSet(Ids) /\ Drawn \subseteq Ids
  /\ Cap \in Nat \ {0} /\ MaxActs \in Nat /\ Tenants # {}
  /\ Unsaid \notin Skus \union Ids \union Codes /\ NoRow \notin Product
  /\ \A s \in Starts : /\ s.row \in [Ids -> Product \union {NoRow}]
                       /\ OnePerSku(s.row)
                       /\ s.defined \in [Tenants -> SUBSET Codes]

VARIABLES
  row,     \* row[i]: catalog.products
  defined, \* defined[t]: catalog.attribute_definitions
  priced,  \* pricing.prices: tenant and product
  index,   \* index[t]: the documents of the tenant's index, by id
  news,    \* events the indexer has not handled
  pc, op,  \* the await a request has reached, and what it asks for
  renames, \* renames[r]: the sku it asks for is not the product's already
  reply,   \* its status, 0 as long as it has none
  seen,    \* seen[r]: the pages of a listing so far
  there,   \* history: products that were there ever since the listing began
  acts     \* requests and seed runs so far

tables  == <<row, defined, priced>>
catalog == <<row, defined, priced, index, news, pc, op, renames, reply, seen,
             there, acts>>

RowsOf(t) == {i \in Ids : row[i] # NoRow /\ row[i].tenant = t}

Holder(t, sku) == {i \in RowsOf(t) : row[i].sku = sku}

Operation ==
  [kind : {"create", "update", "delete", "define", "price", "list"}, tenant : Tenants,
   sku : Skus \union {Unsaid}, codes : (SUBSET Codes) \union {{Unsaid}},
   id : Ids \union {Unsaid}]

\* What the schemas of the requests ask for.
WellFormed(o) ==
  /\ o.kind \in {"update", "delete", "price"} => o.id \in Ids
  /\ o.kind \in {"create", "define", "list"} => o.id = Unsaid
  /\ o.kind = "create" => o.sku # Unsaid
  /\ o.kind \in {"create", "define"} => o.codes # {Unsaid}

NoOperation == [kind |-> "list", tenant |-> CHOOSE t \in Tenants : TRUE,
                sku |-> Unsaid, codes |-> {}, id |-> Unsaid]

\* Ids are random uuids: one that nothing refers to is as good as a new one.
FreeIds ==
  {i \in Ids \ Drawn :
     /\ row[i] = NoRow
     /\ \A t \in Tenants : i \notin index[t] /\ <<t, i>> \notin priced
     /\ \A e \in news : e.id # i
     /\ \A r \in Requests : pc[r] \notin {"idle", "over"} => op[r].id # i}

FirstStep(kind) ==
  CASE kind = "create" -> "validate" [] kind = "update" -> "previous"
    [] kind = "delete" -> "remove"   [] kind = "define" -> "seek"
    [] kind = "price"  -> "upsert"   [] kind = "list"   -> "page"

-------------------------------------------------------------------------------

CatalogInit ==
  /\ \E s \in Starts : row = s.row /\ defined = s.defined
  /\ priced = {}
  /\ index = [t \in Tenants |-> RowsOf(t)]
  /\ news = {}
  /\ pc = [r \in Requests |-> "idle"]
  /\ op = [r \in Requests |-> NoOperation]
  /\ renames = [r \in Requests |-> FALSE]
  /\ reply = [r \in Requests |-> 0]
  /\ seen = [r \in Requests |-> <<>>]
  /\ there = [r \in Requests |-> {}]
  /\ acts = 0

Goto(r, label) == pc' = [pc EXCEPT ![r] = label]

Answer(r, status) == Goto(r, "over") /\ reply' = [reply EXCEPT ![r] = status]

\* The next await, or the answer of a request that is refused.
Unless(r, refused, status, label) ==
  IF refused THEN Answer(r, status) ELSE Goto(r, label) /\ UNCHANGED reply

Begin(r, o) ==
  /\ pc[r] \in {"idle", "over"}
  /\ Goto(r, FirstStep(o.kind))
  /\ op' = [op EXCEPT ![r] = o]
  /\ renames' = [renames EXCEPT ![r] = o.kind = "create"]
  /\ reply' = [reply EXCEPT ![r] = 0]
  /\ seen' = [seen EXCEPT ![r] = <<>>]
  /\ there' = [there EXCEPT ![r] = IF o.kind = "list" THEN RowsOf(o.tenant) ELSE {}]
  /\ UNCHANGED <<tables, index, news>>

\* Rows change; what is gone was not there all the time.
Put(rows) ==
  /\ row' = rows
  /\ there' = [r \in Requests |-> {i \in there[r] : rows[i] # NoRow}]

-------------------------------------------------------------------------------
(* ProductsService *)

\* The validator reads the definitions when there are attributes to look up.
Validate(r) ==
  LET o == op[r]
      known == o.codes = {Unsaid} \/ o.codes \subseteq defined[o.tenant]
  IN  /\ pc[r] = "validate"
      /\ Unless(r, ~known, 400, IF renames[r] THEN "look" ELSE "write")
      /\ UNCHANGED <<tables, index, news, op, renames, seen, there, acts>>

\* findBySku, for a product that is new or changes its sku.
Look(r) ==
  /\ pc[r] = "look"
  /\ Unless(r, Holder(op[r].tenant, op[r].sku) # {}, 409,
            IF op[r].kind = "create" THEN "insert" ELSE "write")
  /\ UNCHANGED <<tables, index, news, op, renames, seen, there, acts>>

\* Mutant of Insert: no unique index stands behind the look.
InsertUnchecked(r) ==
  LET o == op[r]
  IN  /\ pc[r] = "insert"
      /\ \E i \in FreeIds :
           /\ Put([row EXCEPT ![i] = [tenant |-> o.tenant, sku |-> o.sku, codes |-> o.codes]])
           /\ op' = [op EXCEPT ![r].id = i]
           /\ Goto(r, "publish")
      /\ UNCHANGED <<defined, priced, index, news, renames, reply, seen, acts>>

\* The unique index on tenant and sku decides a race; its error is nobody's 409.
Insert(r) ==
  LET o == op[r]
  IN  /\ pc[r] = "insert"
      /\ \/ /\ Holder(o.tenant, o.sku) # {}
            /\ Answer(r, 500)
            /\ UNCHANGED <<row, op, there>>
         \/ /\ Holder(o.tenant, o.sku) = {}
            /\ \E i \in FreeIds :
                 /\ Put([row EXCEPT ![i] =
                           [tenant |-> o.tenant, sku |-> o.sku, codes |-> o.codes]])
                 /\ op' = [op EXCEPT ![r].id = i]
            /\ Goto(r, "publish")
            /\ UNCHANGED reply
      /\ UNCHANGED <<defined, priced, index, news, renames, seen, acts>>

Previous(r) ==
  LET o == op[r]
      found == o.id \in RowsOf(o.tenant)
  IN  /\ pc[r] = "previous"
      /\ Unless(r, ~found, 404, "validate")
      /\ renames' = [renames EXCEPT ![r] = found /\ o.sku \notin {Unsaid, row[o.id].sku}]
      /\ UNCHANGED <<tables, index, news, op, seen, there, acts>>

\* One UPDATE of the columns the request names.
Write(r) ==
  LET o   == op[r]
      new == [row[o.id] EXCEPT !.sku = IF o.sku = Unsaid THEN @ ELSE o.sku,
                               !.codes = IF o.codes = {Unsaid} THEN @ ELSE o.codes]
  IN  /\ pc[r] = "write"
      /\ IF o.id \notin RowsOf(o.tenant) THEN Answer(r, 404) /\ UNCHANGED <<row, there>>
         ELSE IF o.sku # Unsaid /\ Holder(o.tenant, o.sku) \ {o.id} # {}
              THEN Answer(r, 500) /\ UNCHANGED <<row, there>>
              ELSE Put([row EXCEPT ![o.id] = new]) /\ Goto(r, "publish") /\ UNCHANGED reply
      /\ UNCHANGED <<defined, priced, index, news, op, renames, seen, acts>>

DeleteRow(r) ==
  LET o == op[r]
  IN  /\ pc[r] = "remove"
      /\ IF o.id \in RowsOf(o.tenant)
         THEN Put([row EXCEPT ![o.id] = NoRow]) /\ Goto(r, "publish") /\ UNCHANGED reply
         ELSE Answer(r, 404) /\ UNCHANGED <<row, there>>
      /\ UNCHANGED <<defined, priced, index, news, op, renames, seen, acts>>

\* publish hands the event to the subscribers and returns; hooks are isolated.
Publish(r) ==
  LET o == op[r]
  IN  /\ pc[r] = "publish"
      /\ news' = IF o.kind \in {"create", "update", "delete"}
                 THEN news \union {[tenant |-> o.tenant, id |-> o.id,
                                    keep |-> o.kind # "delete"]}
                 ELSE news
      /\ Answer(r, IF o.kind = "delete" THEN 204 ELSE IF o.kind = "update" THEN 200 ELSE 201)
      /\ UNCHANGED <<tables, index, op, renames, seen, there, acts>>

\* The rows beyond the cursor, which is the last product of the page before.
Beyond(o) == {i \in RowsOf(o.tenant) : o.id = Unsaid \/ i > o.id}

PageOf(rows) == {i \in rows : Cardinality({j \in rows : j < i}) < Cap}

\* Mutant of ListPage: the row read beyond the page is the next cursor.
ListPageFromNext(r) ==
  LET rows == Beyond(op[r])
      page == PageOf(rows)
  IN  /\ pc[r] = "page"
      /\ seen' = [seen EXCEPT ![r] = Append(@, page)]
      /\ IF page = rows
         THEN Answer(r, 200) /\ UNCHANGED op
         ELSE /\ op' = [op EXCEPT ![r].id =
                          CHOOSE i \in rows \ page : \A j \in rows \ page : i <= j]
              /\ UNCHANGED <<pc, reply>>
      /\ UNCHANGED <<tables, index, news, renames, there, acts>>

\* Pages of the listing, asked for one after the other: Cap + 1 rows are read, Cap
\* of them shown, and the one beyond tells that there is a next page.
ListPage(r) ==
  LET rows == Beyond(op[r])
      page == PageOf(rows)
  IN  /\ pc[r] = "page"
      /\ seen' = [seen EXCEPT ![r] = Append(@, page)]
      /\ IF page = rows
         THEN Answer(r, 200) /\ UNCHANGED op
         ELSE /\ op' = [op EXCEPT ![r].id = CHOOSE i \in page : \A j \in page : j <= i]
              /\ UNCHANGED <<pc, reply>>
      /\ UNCHANGED <<tables, index, news, renames, there, acts>>

-------------------------------------------------------------------------------
(* AttributeDefinitionsService and PricesService *)

Seek(r) ==
  /\ pc[r] = "seek"
  /\ Unless(r, op[r].codes \subseteq defined[op[r].tenant], 400, "define")
  /\ UNCHANGED <<tables, index, news, op, renames, seen, there, acts>>

\* Unique by tenant and code.
Define(r) ==
  LET o == op[r]
  IN  /\ pc[r] = "define"
      /\ Unless(r, o.codes \subseteq defined[o.tenant], 500, "publish")
      /\ defined' = [defined EXCEPT ![o.tenant] = @ \union o.codes]
      /\ UNCHANGED <<row, priced, index, news, op, renames, seen, there, acts>>

\* INSERT ... ON CONFLICT DO UPDATE, for any id a request names.
UpsertPrice(r) ==
  /\ pc[r] = "upsert"
  /\ priced' = priced \union {<<op[r].tenant, op[r].id>>}
  /\ Goto(r, "publish")
  /\ UNCHANGED <<row, defined, index, news, op, renames, reply, seen, there, acts>>

-------------------------------------------------------------------------------

Handle(e) ==
  /\ news' = news \ {e}
  /\ index' = [index EXCEPT ![e.tenant] = IF e.keep THEN @ \union {e.id} ELSE @ \ {e.id}]
  /\ UNCHANGED <<tables, pc, op, renames, reply, seen, there, acts>>

\* The handler's write is refused: an error in the log, and no second attempt.
HandlerFails(e) ==
  /\ news' = news \ {e}
  /\ UNCHANGED <<tables, index, pc, op, renames, reply, seen, there, acts>>

\* A process of the api dies, with requests at any await and events in its memory.
Die(dead, gone) ==
  /\ dead # {} \/ gone # {}
  /\ \A r \in dead : pc[r] \notin {"idle", "over"}
  /\ pc' = [r \in Requests |-> IF r \in dead THEN "over" ELSE pc[r]]
  /\ news' = news \ gone
  /\ UNCHANGED <<tables, index, op, renames, reply, seen, there, acts>>

Serve(r) ==
  \/ Validate(r) \/ Look(r) \/ Insert(r) \/ Previous(r) \/ Write(r) \/ DeleteRow(r)
  \/ Publish(r) \/ ListPage(r) \/ Seek(r) \/ Define(r) \/ UpsertPrice(r)

-------------------------------------------------------------------------------
(* Properties *)

CatalogTypeOK ==
  /\ row \in [Ids -> Product \union {NoRow}]
  /\ defined \in [Tenants -> SUBSET Codes]
  /\ priced \subseteq Tenants \X Ids
  /\ index \in [Tenants -> SUBSET Ids]
  /\ \A e \in news : e.tenant \in Tenants /\ e.id \in Ids /\ e.keep \in BOOLEAN
  /\ op \in [Requests -> Operation]
  /\ \A r \in Requests : pc[r] \in {"write", "remove", "upsert"} => op[r].id \in Ids
  /\ renames \in [Requests -> BOOLEAN]
  /\ reply \in [Requests -> {0, 200, 201, 204, 400, 404, 409, 500}]
  /\ seen \in [Requests -> Seq(SUBSET Ids)]
  /\ there \in [Requests -> SUBSET Ids]
  /\ acts \in 0 .. MaxActs

\* However creates and renames of one sku interleave between their look and
\* their statement, a tenant has one product of a sku (products.service.ts:49).
OneProductPerSku == OnePerSku(row)

\* Who pages through the listing to its end, while products come and go, has met
\* every product that was there all the time, and none of them twice
\* (products.repository.ts:64).
ListingComplete ==
  \A r \in Requests : (op[r].kind = "list" /\ reply[r] = 200) =>
    /\ \A m, n \in DOMAIN seen[r] :
         m < n => \A i \in seen[r][m], j \in seen[r][n] : i < j
    /\ there[r] \subseteq UNION {seen[r][n] : n \in DOMAIN seen[r]}
================================================================================
