-------------------------------- MODULE Indexer --------------------------------
(***************************************************************************)
(* How an edit reaches a storefront page: the catalog and pricing services *)
(* commit a change and publish an event; a handler of the product indexer  *)
(* (packages/modules/search/src/indexer/product-indexer.service.ts) writes *)
(* the change to the tenant's OpenSearch index, waits until it can be      *)
(* searched and announces the product and the categories it concerns; the  *)
(* storefront then drops its cached reads of these and reads them anew from *)
(* the index.                                                              *)
(*                                                                         *)
(* The bus starts every handler on its own and awaits none, so handlers of *)
(* different events interleave at each await and may run in any order; an  *)
(* event whose handler fails is not delivered again.  pc[e] is the await   *)
(* the handler of event e has reached.  The announcement travels through   *)
(* the webhook outbox (Outbox.tla): it arrives once or more often, late    *)
(* and in any order, here once at any later time.                          *)
(*                                                                         *)
(* A read of the storefront takes two steps, the index's answer and its    *)
(* store in the cache.  Cached reads do not interact, so the module follows *)
(* that of one page, chosen at first, and the fetches that renew it.       *)
(***************************************************************************)
EXTENDS Naturals, FiniteSets

CONSTANTS Products, Categories,
          MaxEdits,    \* bound: the edits of a behaviour
          Everything,  \* the listings without a category filter
          Renders,     \* fetches of the page that may be under way at once
          NoProduct, NoRow, NoDoc, NoPrice,
          NoCopy,      \* nothing cached, or no fetch
          Overtaken,   \* what a fetch read that a delivery overtook
          MaxFaults    \* bound: handlers that fail for no reason of their own

ASSUME IndexerAssumption ==
  /\ MaxEdits \in Nat /\ MaxFaults \in Nat
  /\ Everything \notin Products \union Categories
  /\ Products \intersect Categories = {}
  /\ NoProduct \notin Products

\* Edits in the order of their commits; the event of an edit has its number.
Events == 1 .. MaxEdits

VARIABLES
  row,      \* row[p]: the catalog's product, or NoRow
  priced,   \* priced[p]: the event that set the price in pricing.prices, or NoPrice
  defined,  \* the attribute definition is in the catalog
  event,    \* event[e]: what was published
  pc,       \* pc[e]: how far the handler of e is
  told,     \* told[e]: the categories e announces
  mapped,   \* the attribute is in the strict mapping of the index
  doc,      \* doc[p]: the document, or NoDoc
  shown,    \* shown[p]: the document as searches see it
  unseen,   \* events whose write no refresh has covered yet
  followed, \* the page followed
  cached,   \* what its cached read shows, or NoCopy
  fill,     \* fill[r]: what a fetch has read that is to be cached, or NoCopy
  faults,   \* faults so far
  misordered, \* history: products that an edit wrote after a later one's handler
  misread   \* history: products written between the lookup of a handler and its write

store == <<row, priced, defined>>
index == <<mapped, doc, shown, unseen>>
cache == <<followed, cached, fill>>
history == <<misordered, misread>>
vars  == <<row, priced, defined, event, pc, told, mapped, doc, shown, unseen,
           followed, cached, fill, faults, misordered, misread>>

\* A product says in which category it is and which edit wrote it, which stands
\* for the rest of its content; attr tells whether it carries the attribute.
Row == [cat : Categories, by : Events, attr : BOOLEAN]

\* attr_price is the catalog's own attribute until a price event patches it.
Doc == [cat : Categories, by : Events, price : Events \union {NoPrice}]

ASSUME NullsAssumption == NoRow \notin Row /\ NoDoc \notin Doc

Event == [kind : {"none", "defined", "created", "updated", "deleted", "priced"},
          product : Products \union {NoProduct}, row : Row \union {NoRow}]

NoEvent == [kind |-> "none", product |-> NoProduct, row |-> NoRow]

Pages == Products \union Categories \union {Everything}

Unused == {e \in Events : event[e].kind = "none"}

About(p) == {e \in Events : event[e].product = p}

Settled == {"delivered", "failed", "skipped"}

-------------------------------------------------------------------------------

Init ==
  /\ row = [p \in Products |-> NoRow]
  /\ priced = [p \in Products |-> NoPrice]
  /\ defined = FALSE
  /\ event = [e \in Events |-> NoEvent]
  /\ pc = [e \in Events |-> "none"]
  /\ told = [e \in Events |-> {}]
  /\ mapped = FALSE
  /\ doc = [p \in Products |-> NoDoc]
  /\ shown = [p \in Products |-> NoDoc]
  /\ unseen = {}
  /\ followed \in Pages
  /\ cached = NoCopy
  /\ fill = [r \in Renders |-> NoCopy]
  /\ faults = 0
  /\ misordered = {} /\ misread = {}

Goto(e, label) == pc' = [pc EXCEPT ![e] = label]

-------------------------------------------------------------------------------
(* Edits: the statement, and the event published right after it *)

Publish(e, kind, p, r, label) ==
  /\ e \in Unused /\ \A f \in Unused : e <= f
  /\ event' = [event EXCEPT ![e] = [kind |-> kind, product |-> p, row |-> r]]
  /\ Goto(e, label)
  /\ UNCHANGED <<told, index, cache, faults, history>>

DefineAttribute(e) ==
  /\ ~defined
  /\ defined' = TRUE
  /\ Publish(e, "defined", NoProduct, NoRow, "map")
  /\ UNCHANGED <<row, priced>>

\* The validator refuses attributes that are not defined.
NewRows(e) == {r \in Row : r.by = e /\ (r.attr => defined)}

\* The insert generates the id: nothing has named it before, and a deleted
\* product never comes back.
Create(p, e) ==
  /\ About(p) = {}
  /\ \E r \in NewRows(e) :
       /\ row' = [row EXCEPT ![p] = r]
       /\ Publish(e, "created", p, r, "write")
  /\ UNCHANGED <<priced, defined>>

Update(p, e) ==
  /\ row[p] # NoRow
  /\ \E r \in NewRows(e) :
       /\ row' = [row EXCEPT ![p] = r]
       /\ Publish(e, "updated", p, r, "read")
  /\ UNCHANGED <<priced, defined>>

Delete(p, e) ==
  /\ row[p] # NoRow
  /\ row' = [row EXCEPT ![p] = NoRow]
  /\ Publish(e, "deleted", p, row[p], "read")
  /\ UNCHANGED <<priced, defined>>

\* Pricing does not look whether the product exists.
UpsertPrice(p, e) ==
  /\ priced' = [priced EXCEPT ![p] = e]
  /\ Publish(e, "priced", p, NoRow, "patch")
  /\ UNCHANGED <<row, defined>>

-------------------------------------------------------------------------------
(* The handlers *)

\* onAttributeDefinitionCreated: ensureIndex and putMapping
PutMapping(e) ==
  /\ pc[e] = "map"
  /\ mapped' = TRUE
  /\ Goto(e, "skipped")
  /\ UNCHANGED <<store, event, told, doc, shown, unseen, cache, faults, history>>

CategoriesOf(d) == IF d = NoDoc THEN {} ELSE {d.cat}

InIndex(p) == CategoriesOf(doc[p])

\* The handler of e writes the document of p.
Note(e, p) ==
  /\ misordered' = misordered \union
       {q \in {p} : \E f \in About(p) : /\ f > e /\ event[f].kind # "priced"
                                       /\ pc[f] \notin {"read", "write"}}
  /\ misread' = misread \union
       {q \in {p} : /\ CategoriesOf(doc'[p]) # CategoriesOf(doc[p])
                    /\ \E f \in About(p) \ {e} : pc[f] = "write"}

\* Mutant of ReadCategories: where the product was is not looked up.
ReadNothing(e) ==
  /\ pc[e] = "read"
  /\ Goto(e, "write")
  /\ UNCHANGED <<store, event, told, index, cache, faults, history>>

\* categoriesInIndex before the write
ReadCategories(e) ==
  /\ pc[e] = "read"
  /\ told' = [told EXCEPT ![e] = InIndex(event[e].product)]
  /\ Goto(e, "write")
  /\ UNCHANGED <<store, event, index, cache, faults, history>>

\* A read that fails is logged and counts as "in no category", also that of a
\* price event, which comes after the write (see Announce).
ReadFails(e) ==
  /\ faults < MaxFaults
  /\ faults' = faults + 1
  /\ \/ pc[e] = "read" /\ Goto(e, "write")
     \/ /\ pc[e] = "wait" /\ e \notin unseen /\ event[e].kind = "priced"
        /\ Goto(e, "announced")
  /\ UNCHANGED <<store, event, told, index, cache, history>>

\* Mutant of WriteDoc: op_type create, which leaves an existing document alone.
WriteDocOnce(e) ==
  LET p == event[e].product
      r == event[e].row
  IN  /\ pc[e] = "write" /\ event[e].kind \in {"created", "updated"}
      /\ r.attr => mapped
      /\ doc' = IF doc[p] = NoDoc
                THEN [doc EXCEPT ![p] = [cat |-> r.cat, by |-> r.by, price |-> NoPrice]]
                ELSE doc
      /\ unseen' = unseen \union {e}
      /\ told' = [told EXCEPT ![e] = @ \union {r.cat}]
      /\ Goto(e, "wait")
      /\ Note(e, p)
      /\ UNCHANGED <<store, event, mapped, shown, cache, faults>>

\* indexDoc builds the document from the event alone.
WriteDoc(e) ==
  LET p == event[e].product
      r == event[e].row
  IN  /\ pc[e] = "write" /\ event[e].kind \in {"created", "updated"}
      /\ r.attr => mapped
      /\ doc' = [doc EXCEPT ![p] = [cat |-> r.cat, by |-> r.by, price |-> NoPrice]]
      /\ unseen' = unseen \union {e}
      /\ told' = [told EXCEPT ![e] = @ \union {r.cat}]
      /\ Goto(e, "wait")
      /\ Note(e, p)
      /\ UNCHANGED <<store, event, mapped, shown, cache, faults>>

\* dynamic: 'strict' refuses a field that is not mapped, and the handler throws.
WriteRefused(e) ==
  /\ pc[e] = "write" /\ event[e].kind \in {"created", "updated"}
  /\ event[e].row.attr /\ ~mapped
  /\ Goto(e, "failed")
  /\ UNCHANGED <<store, event, told, index, cache, faults, history>>

\* deleteDoc: a document that is not there is fine.
DeleteDoc(e) ==
  LET p == event[e].product
  IN  /\ pc[e] = "write" /\ event[e].kind = "deleted"
      /\ doc' = [doc EXCEPT ![p] = NoDoc]
      /\ unseen' = IF doc[p] = NoDoc THEN unseen ELSE unseen \union {e}
      /\ told' = [told EXCEPT ![e] = @ \union {event[e].row.cat}]
      /\ Goto(e, "wait")
      /\ Note(e, p)
      /\ UNCHANGED <<store, event, mapped, shown, cache, faults>>

\* Mutant of PatchPrice: doc_as_upsert.
PatchOrCreate(e) ==
  LET p == event[e].product
  IN  /\ pc[e] = "patch"
      /\ doc' = [doc EXCEPT ![p] = IF @ = NoDoc THEN [price |-> e]
                                   ELSE [@ EXCEPT !.price = e]]
      /\ unseen' = unseen \union {e}
      /\ Goto(e, "wait")
      /\ UNCHANGED <<store, event, told, mapped, shown, cache, faults, history>>

\* onPriceUpserted: updateDoc patches a document that exists.
PatchPrice(e) ==
  LET p == event[e].product
  IN  /\ pc[e] = "patch"
      /\ IF doc[p] = NoDoc
         THEN Goto(e, "skipped") /\ UNCHANGED <<doc, unseen>>
         ELSE /\ doc' = [doc EXCEPT ![p].price = e]
              /\ unseen' = unseen \union {e}
              /\ Goto(e, "wait")
      /\ UNCHANGED <<store, event, told, mapped, shown, cache, faults, history>>

\* The scheduled refresh of the index, which refresh: 'wait_for' waits for.
Refresh ==
  /\ shown # doc \/ unseen # {}
  /\ shown' = doc
  /\ unseen' = {}
  /\ UNCHANGED <<store, event, pc, told, mapped, doc, cache, faults, history>>

\* Mutant of Announce: without refresh: 'wait_for'.
AnnounceEarly(e) ==
  /\ pc[e] = "wait"
  /\ told' = IF event[e].kind = "priced"
             THEN [told EXCEPT ![e] = InIndex(event[e].product)]
             ELSE told
  /\ Goto(e, "announced")
  /\ UNCHANGED <<store, event, index, cache, faults, history>>

\* announceIndexed, or the publication of ProductRemoved; a price event asks the
\* index for the categories now.
Announce(e) ==
  /\ pc[e] = "wait" /\ e \notin unseen
  /\ told' = IF event[e].kind = "priced"
             THEN [told EXCEPT ![e] = InIndex(event[e].product)]
             ELSE told
  /\ Goto(e, "announced")
  /\ UNCHANGED <<store, event, index, cache, faults, history>>

\* A call to the index or the enqueue of the webhook fails, or the process dies.
HandlerFails(e) ==
  /\ pc[e] \in {"map", "read", "write", "patch", "wait", "announced"}
  /\ faults < MaxFaults
  /\ faults' = faults + 1
  /\ Goto(e, "failed")
  /\ UNCHANGED <<store, event, told, index, cache, history>>

-------------------------------------------------------------------------------
(* The storefront *)

\* Listings are searched, a product is fetched by its id from the index itself.
Render(x) ==
  CASE x \in Products   -> doc[x]
    [] x \in Categories -> {<<p, shown[p]>> : p \in {q \in Products :
                              shown[q] # NoDoc /\ shown[q].cat = x}}
    [] x = Everything   -> {<<p, shown[p]>> : p \in {q \in Products : shown[q] # NoDoc}}

Outdated(copy) == copy \notin {NoCopy, Overtaken} /\ copy # Render(followed)

\* The page is rendered and its read is missing or, as may be at any time, older
\* than its revalidate: the api answers from the index.
Read(r) ==
  /\ fill[r] = NoCopy
  /\ fill' = [fill EXCEPT ![r] = Render(followed)]
  /\ UNCHANGED <<store, event, pc, told, index, followed, cached, faults, history>>

\* The answer reaches Next.js, which keeps it from now on.
Store(r) ==
  /\ fill[r] # NoCopy
  /\ cached' = fill[r]
  /\ fill' = [fill EXCEPT ![r] = NoCopy]
  /\ UNCHANGED <<store, event, pc, told, index, followed, faults, history>>

\* graphqlQuery throws; what is cached stays.
FetchFails(r) ==
  /\ fill[r] # NoCopy
  /\ fill' = [fill EXCEPT ![r] = NoCopy]
  /\ UNCHANGED <<store, event, pc, told, index, followed, cached, faults, history>>

\* revalidate: the product's page, its categories' and the unscoped listings
Drops(e) == {event[e].product, Everything} \union told[e]

\* A fetch under way is stored after the drop, with what it has read.
Deliver(e) ==
  LET hit == followed \in Drops(e)
  IN  /\ pc[e] = "announced"
      /\ cached' = IF hit THEN NoCopy ELSE cached
      /\ fill' = [r \in Renders |-> IF hit /\ Outdated(fill[r]) THEN Overtaken ELSE fill[r]]
      /\ Goto(e, "delivered")
      /\ UNCHANGED <<store, event, told, index, followed, faults, history>>

-------------------------------------------------------------------------------

Edit ==
  \E e \in Events :
    \/ DefineAttribute(e)
    \/ \E p \in Products : Create(p, e) \/ Update(p, e) \/ Delete(p, e) \/ UpsertPrice(p, e)

Handle(e) ==
  \/ PutMapping(e) \/ ReadCategories(e) \/ WriteDoc(e) \/ WriteRefused(e)
  \/ DeleteDoc(e) \/ PatchPrice(e) \/ Announce(e) \/ Deliver(e)

Next ==
  \/ Edit
  \/ \E e \in Events : Handle(e) \/ ReadFails(e) \/ HandlerFails(e)
  \/ Refresh
  \/ \E r \in Renders : Read(r) \/ Store(r) \/ FetchFails(r)

Spec == Init /\ [][Next]_vars

-------------------------------------------------------------------------------
(* Properties *)

TypeOK ==
  /\ row \in [Products -> Row \union {NoRow}]
  /\ priced \in [Products -> Events \union {NoPrice}]
  /\ defined \in BOOLEAN /\ mapped \in BOOLEAN
  /\ event \in [Events -> Event]
  /\ pc \in [Events -> {"none", "map", "read", "write", "patch", "wait",
                        "announced"} \union Settled]
  /\ told \in [Events -> SUBSET Categories]
  /\ doc \in [Products -> Doc \union {NoDoc}]
  /\ shown \in [Products -> Doc \union {NoDoc}]
  /\ unseen \subseteq Events
  /\ followed \in Pages
  /\ DOMAIN fill = Renders
  /\ faults \in 0 .. MaxFaults
  /\ misordered \subseteq Products /\ misread \subseteq Products

\* Nothing is on its way from an edit to a page.
Quiet ==
  /\ \A e \in Events : pc[e] \in Settled \union {"none"}
  /\ unseen = {} /\ shown = doc

\* Cached or about to be, and not what the index holds.
Stale == Outdated(cached) \/ \E r \in Renders : Outdated(fill[r])

\* However the handlers of concurrent edits interleave, announcements overtake each
\* other and reads fall in between: once all is quiet, the cached read of a product
\* page or of the unscoped listings, and what fetches are about to put there, is
\* what the index holds.  Excused are a fault that lost an announcement, and the
\* answer of a fetch that a delivery overtook (api-graphql.ts:82): the cache has no
\* defence against it but the expiry (CurrentInTheEnd in Pages).
PagesFresh ==
  Quiet /\ faults = 0 /\ followed \in Products \union {Everything} => ~Stale

\* The same for the listings of a category, a product's old or new one, however
\* edits overlap, unless between the lookup of where a product was and the write of
\* one handler (product-indexer.service.ts:161) another wrote it elsewhere.
CategoriesFresh ==
  Quiet /\ faults = 0 /\ misread = {} /\ followed \in Categories => ~Stale

\* "keeps OpenSearch in sync": once all is quiet, the index holds what the catalog
\* holds of each product, however the handlers of its edits overlap, unless one of
\* them failed or wrote after a later edit's had (event-bus.ts:24).
InSync ==
  Quiet /\ (\A e \in Events : pc[e] # "failed") =>
    \A p \in Products \ misordered :
      IF row[p] = NoRow
      THEN doc[p] = NoDoc
      ELSE doc[p] # NoDoc /\ doc[p].cat = row[p].cat /\ doc[p].by = row[p].by

-------------------------------------------------------------------------------
(* What a comment says of the code, refuted by a run *)

\* "Priced before indexed - normal, and self-correcting: whenever the product is
\* indexed it carries whatever price it has then" (product-indexer.service.ts:258)
PriceCarried ==
  Quiet /\ (\A e \in Events : pc[e] # "failed") =>
    \A p \in Products \ misordered : doc[p] # NoDoc => doc[p].price = priced[p]
===============================================================================
