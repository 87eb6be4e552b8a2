--------------------------------- MODULE Pages ---------------------------------
(***************************************************************************)
(* What the storefront caches and how it is dropped: every read of the api *)
(* (apps/storefront/src/lib/api-graphql.ts) is a fetch that Next.js keeps, *)
(* per tenant, under tags (lib/cache-tags.ts) and for an hour at most; the *)
(* api records an event for each change (apps/api/src/                     *)
(* storefront-webhook.module.ts), and the revalidate route turns a         *)
(* delivered event into tags to drop.                                      *)
(*                                                                         *)
(* Which entries a change makes stale follows from what their queries ask  *)
(* for, which entries its event drops from tags; the two are written down  *)
(* in different deployables.  Entries never interact, so the module        *)
(* follows one, chosen at first.  Delivery is Outbox's: late, in any       *)
(* order, once or more often.  That the index shows a change before its    *)
(* event is recorded is Indexer's.                                         *)
(***************************************************************************)
EXTENDS Naturals, FiniteSets

CONSTANTS
  Tenants, Products, Categories,
  Slug,      \* Slug[c]: normaliseCategory(c)
  Renders,   \* fetches of one entry that may be under way at once
  Nothing,   \* no product, no category
  Unsaid,    \* an event that does not name its categories
  MaxEdits,  \* bound: changes of a behaviour
  MaxFaults  \* bound: fetches that fail and events that are lost

ASSUME PagesAssumption ==
  /\ Nothing \notin Products \union Categories
  /\ Unsaid \notin SUBSET Categories
  /\ MaxEdits \in Nat /\ MaxFaults \in Nat

\* A cached read: the query, what it is about, and the tenant in its header,
\* which is part of the cache key.
Entry(kinds, about) == [kind : kinds, of : about, tenant : Tenants]

Entries ==
  Entry({"home", "suggest", "theme", "capabilities"}, {Nothing})
    \union Entry({"category", "related"}, Categories) \union Entry({"product"}, Products)

\* search.product.indexed and .removed name their product and its categories; an
\* api of an earlier release sends catalog.product.* and pricing.price.upserted
\* instead, which do not name any; promotions and the config concern a tenant.
Events ==
  [tenant : Tenants, kind : {"search"}, product : Products, cats : SUBSET Categories]
    \union [tenant : Tenants, kind : {"former"}, product : Products, cats : {Unsaid}]
    \union [tenant : Tenants, kind : {"promotion", "tenant-config"},
            product : {Nothing}, cats : {Unsaid}]

VARIABLES
  entry,   \* the entry followed
  cached,  \* what the cache holds of it
  expired, \* it is older than its revalidate
  fill,    \* fill[r]: a fetch that is to replace it
  shelf,   \* shelf[t][p]: the category of a product, or Nothing
  owed,    \* events recorded and not yet, or to be again, delivered
  edits, faults

vars == <<entry, cached, expired, fill, shelf, owed, edits, faults>>

\* A copy is current, or stale since a change of which an event is owed, or
\* stale although none is: its event was lost, or was delivered between the read
\* and the store of the fetch.
Stale  == {"stale", "unannounced", "raced"}
Copies == {"current"} \union Stale

-------------------------------------------------------------------------------
(* Tags *)

browseTag(t)      == <<"browse", t>>
browseAllTag(t)   == <<"browse", t, "all">>
categoryTag(t, c) == <<"browse", t, "category", Slug[c]>>
productTag(t, p)  == <<"product", t, p>>
themeTag(t)       == <<"theme", t>>
capsTag(t)        == <<"capabilities", t>>

\* The tags each kind of page gives to its read.
Tags(x) ==
  LET t == x.tenant
  IN  CASE x.kind \in {"home", "suggest", "related"} -> {browseTag(t), browseAllTag(t)}
        [] x.kind = "category"     -> {browseTag(t), categoryTag(t, x.of)}
        [] x.kind = "product"      -> {productTag(t, x.of), browseTag(t)}
        [] x.kind = "theme"        -> {themeTag(t)}
        [] x.kind = "capabilities" -> {capsTag(t)}

\* Mutant of invalidateBrowse: a product event drops all listings.
invalidateBrowseBroadly(t, cats) == {browseAllTag(t), browseTag(t)}

invalidateBrowse(t, cats) ==
  {browseAllTag(t)} \union
    IF cats = Unsaid THEN {browseTag(t)} ELSE {categoryTag(t, c) : c \in cats}

\* The switch of the route.
Invalidated(e) ==
  IF e.product = Nothing
  THEN {browseTag(e.tenant), browseAllTag(e.tenant), themeTag(e.tenant), capsTag(e.tenant)}
  ELSE {productTag(e.tenant, e.product)} \union invalidateBrowse(e.tenant, e.cats)

-------------------------------------------------------------------------------

Init ==
  /\ entry \in Entries
  /\ cached = "none" /\ expired = FALSE
  /\ fill = [r \in Renders |-> "none"]
  /\ shelf = [t \in Tenants |-> [p \in Products |-> Nothing]]
  /\ owed = {}
  /\ edits = 0 /\ faults = 0

-------------------------------------------------------------------------------
(* Reads *)

\* A page is rendered that needs the entry, which is missing or, being expired,
\* served once more.
Visit(r) ==
  /\ cached = "none" \/ expired
  /\ fill[r] = "none"
  /\ fill' = [fill EXCEPT ![r] = "asked"]
  /\ UNCHANGED <<entry, cached, expired, shelf, owed, edits, faults>>

\* The resolver queries index, config or theme.
Read(r) ==
  /\ fill[r] = "asked"
  /\ fill' = [fill EXCEPT ![r] = "current"]
  /\ UNCHANGED <<entry, cached, expired, shelf, owed, edits, faults>>

\* The response reaches Next.js, which keeps it from now on, in place of what
\* another fetch has put there meanwhile.
Store(r) ==
  /\ fill[r] \in Copies
  /\ cached' = fill[r]
  /\ expired' = FALSE
  /\ fill' = [fill EXCEPT ![r] = "none"]
  /\ UNCHANGED <<entry, shelf, owed, edits, faults>>

\* graphqlQuery throws; what is cached stays.
FetchFails(r) ==
  /\ fill[r] # "none" /\ faults < MaxFaults
  /\ fill' = [fill EXCEPT ![r] = "none"]
  /\ faults' = faults + 1
  /\ UNCHANGED <<entry, cached, expired, shelf, owed, edits>>

\* Mutant of Expire: revalidate is false for capabilities.
ExpireSome ==
  /\ cached \in Copies /\ ~expired /\ entry.kind # "capabilities"
  /\ expired' = TRUE
  /\ UNCHANGED <<entry, cached, fill, shelf, owed, edits, faults>>

\* Its revalidate has passed: 30 s for suggestions, an hour for all else.
Expire ==
  /\ cached \in Copies /\ ~expired
  /\ expired' = TRUE
  /\ UNCHANGED <<entry, cached, fill, shelf, owed, edits, faults>>

-------------------------------------------------------------------------------
(* Changes, and the event of each *)

\* What a product of tenant t that was in category a and is in b now is shown by.
ShowsProduct(t, p, a, b) ==
  /\ entry.tenant = t
  /\ \/ entry.kind \in {"home", "suggest"}
     \/ entry.kind \in {"category", "related"} /\ entry.of \in {a, b}
     \/ entry.kind = "product" /\ entry.of = p

\* Copies and reads that the change outdates; what was read before it may still
\* be on its way.
Outdate(hit, how) ==
  /\ cached' = IF hit /\ cached \in Copies THEN how ELSE cached
  /\ fill' = [r \in Renders |-> IF hit /\ fill[r] \in Copies THEN how ELSE fill[r]]

\* dispatch records the event, or fails to and warns.
Announce(e, hit) ==
  \/ Outdate(hit, "stale") /\ owed' = owed \union {e} /\ UNCHANGED faults
  \/ /\ faults < MaxFaults
     /\ Outdate(hit, "unannounced")
     /\ faults' = faults + 1
     /\ UNCHANGED owed

Edited == edits < MaxEdits /\ edits' = edits + 1 /\ UNCHANGED <<entry, expired>>

SearchEvent(t, p, cats) ==
  [tenant |-> t, kind |-> "search", product |-> p, cats |-> cats \ {Nothing}]

UnscopedEvent(t, kind, p) == [tenant |-> t, kind |-> kind, product |-> p, cats |-> Unsaid]

\* Mutant of EditProduct: the event names where the product is, not where it was.
EditProductNamingTarget(t, p, b) ==
  /\ Edited
  /\ shelf[t][p] # Nothing \/ b # Nothing
  /\ shelf' = [shelf EXCEPT ![t][p] = b]
  /\ Announce(SearchEvent(t, p, {b}), ShowsProduct(t, p, shelf[t][p], b))

\* A product is created, edited, repriced, moved to another category or removed.
EditProduct(t, p, b) ==
  /\ Edited
  /\ shelf[t][p] # Nothing \/ b # Nothing
  /\ shelf' = [shelf EXCEPT ![t][p] = b]
  /\ Announce(SearchEvent(t, p, {shelf[t][p], b}), ShowsProduct(t, p, shelf[t][p], b))

\* The api beside this storefront is one of an earlier release.
EditByFormerApi(t, p, b) ==
  /\ Edited
  /\ shelf[t][p] # Nothing \/ b # Nothing
  /\ shelf' = [shelf EXCEPT ![t][p] = b]
  /\ Announce(UnscopedEvent(t, "former", p), ShowsProduct(t, p, shelf[t][p], b))

\* Capabilities are made of the tenant's config.
ShowsConfig(t) == entry.tenant = t /\ entry.kind = "capabilities"

\* Currency, tax rate and locale are set.
EditConfig(t) ==
  /\ Edited
  /\ Announce(UnscopedEvent(t, "tenant-config", Nothing), ShowsConfig(t))
  /\ UNCHANGED shelf

\* A promotion is created or changed.  It shows in no cached read; its event drops
\* them all the same.
EditPromotion(t) ==
  /\ Edited
  /\ Announce(UnscopedEvent(t, "promotion", Nothing), FALSE)
  /\ UNCHANGED shelf

-------------------------------------------------------------------------------

\* Mutant of Deliver: what is dropped keeps its age.
DeliverKeepingAge(e) ==
  LET hit == Tags(entry) \intersect Invalidated(e) # {}
  IN  /\ e \in owed
      /\ owed' \in {owed, owed \ {e}}
      /\ cached' = IF hit THEN "none" ELSE cached
      /\ fill' = [r \in Renders |-> IF hit /\ fill[r] = "stale" THEN "raced" ELSE fill[r]]
      /\ UNCHANGED <<entry, expired, shelf, edits, faults>>

\* The route drops the tags of an event; a fetch under way is stored after that.
\* The event may come again.
Deliver(e) ==
  LET hit == Tags(entry) \intersect Invalidated(e) # {}
  IN  /\ e \in owed
      /\ owed' \in {owed, owed \ {e}}
      /\ cached' = IF hit THEN "none" ELSE cached
      /\ expired' = (expired /\ ~hit)
      /\ fill' = [r \in Renders |-> IF hit /\ fill[r] = "stale" THEN "raced" ELSE fill[r]]
      /\ UNCHANGED <<entry, shelf, edits, faults>>

Next ==
  \/ \E r \in Renders : Visit(r) \/ Read(r) \/ Store(r) \/ FetchFails(r)
  \/ Expire
  \/ \E t \in Tenants, p \in Products, b \in Categories \union {Nothing} :
       EditProduct(t, p, b) \/ EditByFormerApi(t, p, b)
  \/ \E t \in Tenants : EditConfig(t) \/ EditPromotion(t)
  \/ \E e \in owed : Deliver(e)

Spec == Init /\ [][Next]_vars

\* Time passes, the api answers, and shoppers keep coming.
FairSpec ==
  /\ Spec
  /\ WF_vars(Expire)
  /\ \A r \in Renders : WF_vars(Visit(r)) /\ WF_vars(Read(r)) /\ WF_vars(Store(r))

-------------------------------------------------------------------------------
(* Properties *)

\* Every variable keeps its type.
TypeOK ==
  /\ entry \in Entries
  /\ cached \in Copies \union {"none"}
  /\ expired \in BOOLEAN /\ (expired => cached # "none")
  /\ fill \in [Renders -> Copies \union {"none", "asked"}]
  /\ shelf \in [Tenants -> [Products -> Categories \union {Nothing}]]
  /\ owed \subseteq Events
  /\ edits \in 0 .. MaxEdits /\ faults \in 0 .. MaxFaults

\* A copy that a change has outdated is dropped by the time the last event owed
\* to its tenant is delivered: whatever a page shows of a product or of the
\* configuration, its tags cover (cache-tags.ts:33, route.ts:90).  Excused are
\* events that were never recorded and fetches that a delivery overtook.
StaleWhileOwed ==
  cached = "stale" => \E e \in owed : e.tenant = entry.tenant

\* A delivery drops nothing of another tenant, and a product event that names
\* its categories no listing of another category: "Editing a laptop drops the
\* laptop page and leaves the other five warm" (cache-tags.ts:21).
OthersStayWarm ==
  [][\A e \in owed :
       (Deliver(e) /\ cached' # cached) =>
         /\ e.tenant = entry.tenant
         /\ (e.cats # Unsaid /\ entry.kind = "category") =>
              \E c \in e.cats : Slug[c] = Slug[entry.of]]_vars

\* Whatever was lost or overtaken, a page that is visited is current again in
\* the end: the hour bounds what no event announces
\* (storefront-webhook.module.ts:155, api-graphql.ts:92).
CurrentInTheEnd == <>[](cached \notin Stale)
================================================================================
