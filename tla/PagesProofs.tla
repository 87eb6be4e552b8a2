------------------------------ MODULE PagesProofs ------------------------------
(***************************************************************************)
(* Proofs about the pages of the storefront.                               *)
(*                                                                         *)
(* Pages: the types, that an outdated copy is owed an event whose tags     *)
(* cover it, and that a delivery drops nothing else.  The second rests on  *)
(* one fact about two lists of tags that are kept in two places: the event *)
(* of a change names a tag of every read that shows the change             *)
(* (ProductTagged, CapabilitiesTagged).                                    *)
(*                                                                         *)
(* Browse and its SearchBar: that suggestions are of the text in the bar,  *)
(* where links lead, and that a walk is complete.  The last rests on the   *)
(* ranks of a search (RankNumbers) and on how pages divide them            *)
(* (PageCount, FurtherPage).                                               *)
(***************************************************************************)
EXTENDS Pages, Browse, SequenceTheorems, FiniteSetTheorems, TLAPS

\* The delivery of e would drop the entry.
Hits(e) == e.tenant = entry.tenant /\ Tags(entry) \intersect Invalidated(e) # {}

\* Whatever is outdated, in the cache or on its way there, is hit by an event
\* that is owed.
Chased ==
  (cached = "stale" \/ \E r \in Renders : fill[r] = "stale") => \E e \in owed : Hits(e)

PagesInv == TypeOK /\ Chased

-------------------------------------------------------------------------------
(* Tags and events *)

LEMMA EventTypes ==
  ASSUME NEW t \in Tenants, NEW p \in Products, NEW cats \in SUBSET (Categories \union {Nothing})
  PROVE  /\ SearchEvent(t, p, cats) \in Events
         /\ UnscopedEvent(t, "former", p) \in Events
         /\ UnscopedEvent(t, "promotion", Nothing) \in Events
         /\ UnscopedEvent(t, "tenant-config", Nothing) \in Events
BY DEF Events, SearchEvent, UnscopedEvent

LEMMA EntryTypes ==
  ASSUME entry \in Entries
  PROVE  /\ entry.tenant \in Tenants
         /\ entry.kind \in {"home", "suggest", "theme", "capabilities", "category",
                            "related", "product"}
         /\ entry.kind \in {"category", "related"} => entry.of \in Categories
         /\ entry.kind = "product" => entry.of \in Products
BY DEF Entries, Entry

\* A read that shows a product carries a tag that the product's event drops,
\* whether the event names the categories it was and is in, or none.
LEMMA ProductTagged ==
  ASSUME entry \in Entries, NEW t \in Tenants, NEW p \in Products,
         NEW a \in Categories \union {Nothing}, NEW b \in Categories \union {Nothing},
         ShowsProduct(t, p, a, b)
  PROVE  Hits(SearchEvent(t, p, {a, b})) /\ Hits(UnscopedEvent(t, "former", p))
<1> DEFINE s == SearchEvent(t, p, {a, b})
           u == UnscopedEvent(t, "former", p)
<1>1. /\ s.tenant = t /\ s.product = p /\ s.cats = {a, b} \ {Nothing}
      /\ u.tenant = t /\ u.product = p /\ u.cats = Unsaid
      /\ p # Nothing /\ s.cats # Unsaid /\ entry.tenant = t
  BY PagesAssumption DEF SearchEvent, UnscopedEvent, ShowsProduct
<1>2. /\ Invalidated(s) = {productTag(t, p), browseAllTag(t)}
                            \union {categoryTag(t, c) : c \in {a, b} \ {Nothing}}
      /\ Invalidated(u) = {productTag(t, p), browseAllTag(t), browseTag(t)}
  BY <1>1 DEF Invalidated, invalidateBrowse
<1>3. CASE entry.kind \in {"home", "suggest", "related"}
  <2>1. browseAllTag(t) \in Tags(entry)
    BY <1>1, <1>3 DEF Tags
  <2>2. QED
    BY <1>1, <1>2, <2>1 DEF Hits
<1>4. CASE entry.kind = "category"
  <2>1. Tags(entry) = {browseTag(t), categoryTag(t, entry.of)}
    BY <1>1, <1>4 DEF Tags
  <2>2. entry.of \in {a, b} \ {Nothing}
    BY <1>4, EntryTypes, PagesAssumption DEF ShowsProduct
  <2>3. QED
    BY <1>1, <1>2, <2>1, <2>2 DEF Hits
<1>5. CASE entry.kind = "product"
  <2>1. Tags(entry) = {productTag(t, p), browseTag(t)}
    BY <1>1, <1>5 DEF Tags, ShowsProduct
  <2>2. QED
    BY <1>1, <1>2, <2>1 DEF Hits
<1>6. QED
  BY <1>3, <1>4, <1>5 DEF ShowsProduct

LEMMA CapabilitiesTagged ==
  ASSUME NEW t \in Tenants, entry.tenant = t, entry.kind = "capabilities"
  PROVE  Hits(UnscopedEvent(t, "tenant-config", Nothing))
<1>1. capsTag(t) \in Tags(entry)
  BY DEF Tags
<1>2. capsTag(t) \in Invalidated(UnscopedEvent(t, "tenant-config", Nothing))
  BY DEF Invalidated, UnscopedEvent
<1>3. QED
  BY <1>1, <1>2 DEF Hits, UnscopedEvent

-------------------------------------------------------------------------------
(* The invariant *)

LEMMA InitInv == Init => PagesInv
<1> SUFFICES ASSUME Init PROVE PagesInv
  OBVIOUS
<1>1. 0 \in 0 .. MaxEdits /\ 0 \in 0 .. MaxFaults
  BY PagesAssumption
<1>2. shelf \in [Tenants -> [Products -> Categories \union {Nothing}]]
  BY DEF Init
<1>3. fill \in [Renders -> Copies \union {"none", "asked"}]
  BY DEF Init
<1>4. TypeOK
  BY <1>1, <1>2, <1>3 DEF Init, TypeOK
<1>5. Chased
  BY DEF Init, Chased
<1>6. QED
  BY <1>4, <1>5 DEF PagesInv

\* A change outdates what it shows and is owed the event, or is excused.
LEMMA AnnounceInv ==
  ASSUME PagesInv, NEW e \in Events, NEW hit \in BOOLEAN, hit => Hits(e),
         Announce(e, hit), Edited,
         shelf' \in [Tenants -> [Products -> Categories \union {Nothing}]]
  PROVE  PagesInv'
<1> USE DEF PagesInv
<1>1. entry' = entry /\ expired' = expired
  BY DEF Edited
<1>2. ASSUME NEW how \in Stale, Outdate(hit, how)
      PROVE  /\ cached' \in Copies \union {"none"}
             /\ expired => cached' # "none"
             /\ fill' \in [Renders -> Copies \union {"none", "asked"}]
  BY <1>2 DEF TypeOK, Outdate, Copies, Stale
<1>3. owed' \subseteq Events /\ edits' \in 0 .. MaxEdits /\ faults' \in 0 .. MaxFaults
  BY PagesAssumption DEF TypeOK, Announce, Edited
<1>4. TypeOK'
  BY <1>1, <1>2, <1>3 DEF TypeOK, Announce, Stale
<1>5. CASE Outdate(hit, "stale") /\ owed' = owed \union {e}
  <2>1. CASE hit
    BY <1>1, <1>4, <1>5, <2>1 DEF Chased, Hits
  <2>2. CASE ~hit
    BY <1>1, <1>4, <1>5, <2>2 DEF Chased, Hits, Outdate, TypeOK
  <2>3. QED
    BY <2>1, <2>2
<1>6. CASE Outdate(hit, "unannounced") /\ owed' = owed
  BY <1>1, <1>4, <1>6 DEF Chased, Hits, Outdate, TypeOK
<1>7. QED
  BY <1>5, <1>6 DEF Announce

LEMMA EditInv ==
  ASSUME PagesInv, NEW t \in Tenants, NEW p \in Products,
         NEW b \in Categories \union {Nothing},
         EditProduct(t, p, b) \/ EditByFormerApi(t, p, b)
  PROVE  PagesInv'
<1> DEFINE a   == shelf[t][p]
           hit == ShowsProduct(t, p, a, b)
<1>1. a \in Categories \union {Nothing} /\ entry \in Entries
  BY DEF PagesInv, TypeOK
<1>2. hit \in BOOLEAN
  BY DEF ShowsProduct
<1>3. Edited /\ shelf' \in [Tenants -> [Products -> Categories \union {Nothing}]]
  BY DEF EditProduct, EditByFormerApi, PagesInv, TypeOK
<1>4. /\ SearchEvent(t, p, {a, b}) \in Events /\ UnscopedEvent(t, "former", p) \in Events
      /\ hit => Hits(SearchEvent(t, p, {a, b})) /\ Hits(UnscopedEvent(t, "former", p))
  BY <1>1, EventTypes, ProductTagged
<1>5. CASE EditProduct(t, p, b)
  <2>1. Announce(SearchEvent(t, p, {a, b}), hit)
    BY <1>5 DEF EditProduct
  <2>2. QED
    BY <2>1, <1>2, <1>3, <1>4, AnnounceInv
<1>6. CASE EditByFormerApi(t, p, b)
  <2>1. Announce(UnscopedEvent(t, "former", p), hit)
    BY <1>6 DEF EditByFormerApi
  <2>2. QED
    BY <2>1, <1>2, <1>3, <1>4, AnnounceInv
<1>7. QED
  BY <1>5, <1>6

LEMMA TenantEditInv ==
  ASSUME PagesInv, NEW t \in Tenants, EditConfig(t) \/ EditPromotion(t)
  PROVE  PagesInv'
<1> DEFINE hit == ShowsConfig(t)
<1>1. Edited /\ shelf' \in [Tenants -> [Products -> Categories \union {Nothing}]]
  BY DEF EditConfig, EditPromotion, PagesInv, TypeOK
<1>2. /\ UnscopedEvent(t, "promotion", Nothing) \in Events
      /\ UnscopedEvent(t, "tenant-config", Nothing) \in Events
  BY DEF UnscopedEvent, Events
<1>3. CASE EditConfig(t)
  <2>1. Announce(UnscopedEvent(t, "tenant-config", Nothing), hit)
    BY <1>3 DEF EditConfig
  <2>2. hit => Hits(UnscopedEvent(t, "tenant-config", Nothing))
    BY CapabilitiesTagged DEF ShowsConfig
  <2>3. hit \in BOOLEAN
    BY DEF ShowsConfig
  <2>4. QED
    BY <1>1, <1>2, <2>1, <2>2, <2>3, AnnounceInv
<1>4. CASE EditPromotion(t)
  <2>1. Announce(UnscopedEvent(t, "promotion", Nothing), FALSE)
    BY <1>4 DEF EditPromotion
  <2>2. QED
    BY <1>1, <1>2, <2>1, AnnounceInv
<1>5. QED
  BY <1>3, <1>4

\* A delivery that hits leaves nothing stale; one that does not leaves whoever
\* chases the entry among the events owed.
LEMMA DeliverInv ==
  ASSUME PagesInv, NEW e \in owed, Deliver(e)
  PROVE  PagesInv'
<1> USE DEF PagesInv
<1>1. TypeOK'
  BY DEF TypeOK, Deliver, Copies, Stale
<1>2. CASE Tags(entry) \intersect Invalidated(e) # {}
  <2>1. cached' = "none" /\ \A r \in Renders : fill'[r] # "stale"
    BY <1>2 DEF Deliver, TypeOK
  <2>2. QED
    BY <1>1, <2>1 DEF Chased
<1>3. CASE ~(Tags(entry) \intersect Invalidated(e) # {})
  <2>1. cached' = cached /\ entry' = entry /\ \A r \in Renders : fill'[r] = fill[r]
    BY <1>3 DEF Deliver, TypeOK
  <2>2. owed \ {e} \subseteq owed' /\ ~Hits(e)
    BY <1>3 DEF Deliver, Hits
  <2>3. QED
    BY <1>1, <2>1, <2>2 DEF Chased, Hits
<1>4. QED
  BY <1>2, <1>3

LEMMA FetchInv ==
  ASSUME PagesInv, NEW r \in Renders, Visit(r) \/ Read(r) \/ Store(r) \/ FetchFails(r)
  PROVE  PagesInv'
<1> USE DEF PagesInv
<1>1. TypeOK'
  <2>1. CASE Visit(r) \/ Read(r)
    BY <2>1 DEF TypeOK, Visit, Read, Copies
  <2>2. CASE Store(r)
    BY <2>2 DEF TypeOK, Store, Copies, Stale
  <2>3. CASE FetchFails(r)
    <3>1. faults' \in 0 .. MaxFaults
      BY <2>3, PagesAssumption DEF TypeOK, FetchFails
    <3>2. QED
      BY <2>3, <3>1 DEF TypeOK, FetchFails
  <2>4. QED
    BY <2>1, <2>2, <2>3
<1>2. entry' = entry /\ owed' = owed
  BY DEF Visit, Read, Store, FetchFails
<1>3. ASSUME cached' = "stale" \/ \E s \in Renders : fill'[s] = "stale"
      PROVE  cached = "stale" \/ \E s \in Renders : fill[s] = "stale"
  BY <1>3 DEF Visit, Read, Store, FetchFails, TypeOK
<1>4. QED
  BY <1>1, <1>2, <1>3 DEF Chased, Hits

LEMMA NextInv == PagesInv /\ [Next]_vars => PagesInv'
<1> SUFFICES ASSUME PagesInv, [Next]_vars PROVE PagesInv'
  OBVIOUS
<1>1. CASE \E r \in Renders : Visit(r) \/ Read(r) \/ Store(r) \/ FetchFails(r)
  BY <1>1, FetchInv
<1>2. CASE Expire
  BY <1>2 DEF Expire, PagesInv, TypeOK, Chased, Hits, Copies, Stale
<1>3. CASE \E t \in Tenants, p \in Products, b \in Categories \union {Nothing} :
             EditProduct(t, p, b) \/ EditByFormerApi(t, p, b)
  BY <1>3, EditInv
<1>4. CASE \E t \in Tenants : EditConfig(t) \/ EditPromotion(t)
  BY <1>4, TenantEditInv
<1>5. CASE \E e \in owed : Deliver(e)
  BY <1>5, DeliverInv
<1>6. CASE UNCHANGED vars
  BY <1>6 DEF vars, PagesInv, TypeOK, Chased, Hits
<1>7. QED
  BY <1>1, <1>2, <1>3, <1>4, <1>5, <1>6 DEF Next

THEOREM PagesInvariant == Spec => []PagesInv
<1>1. Init => PagesInv
  BY InitInv
<1>2. PagesInv /\ [Next]_vars => PagesInv'
  BY NextInv
<1>3. QED
  BY <1>1, <1>2, PTL DEF Spec

\* Every variable keeps its type, for any tenants, products and categories.
THEOREM TypeCorrect == Spec => []TypeOK
<1>1. PagesInv => TypeOK
  BY DEF PagesInv
<1>2. QED
  BY <1>1, PagesInvariant, PTL

\* An outdated copy is owed an event of its tenant.
THEOREM StaleCorrect == Spec => []StaleWhileOwed
<1>1. PagesInv => StaleWhileOwed
  BY DEF PagesInv, Chased, StaleWhileOwed, Hits
<1>2. QED
  BY <1>1, PagesInvariant, PTL

-------------------------------------------------------------------------------
(* What a delivery leaves alone *)

\* Tags name their tenant, and a category's its slug.
LEMMA TagsApart ==
  ASSUME entry \in Entries, NEW e \in Events, Tags(entry) \intersect Invalidated(e) # {}
  PROVE  /\ e.tenant = entry.tenant
         /\ (e.cats # Unsaid /\ entry.kind = "category") =>
              \E c \in e.cats : Slug[c] = Slug[entry.of]
<1>1. PICK tag \in Tags(entry) : tag \in Invalidated(e)
  OBVIOUS
<1>2. tag[2] = entry.tenant
  BY EntryTypes DEF Tags, browseTag, browseAllTag, categoryTag, productTag, themeTag, capsTag
<1>3. tag[2] = e.tenant
  BY <1>1 DEF Invalidated, invalidateBrowse, browseTag, browseAllTag, categoryTag,
              productTag, themeTag, capsTag
<1>4. ASSUME e.cats # Unsaid, entry.kind = "category"
      PROVE  \E c \in e.cats : Slug[c] = Slug[entry.of]
  <2>1. e.product # Nothing
    BY <1>4, PagesAssumption DEF Events
  <2>2. tag = browseTag(entry.tenant) \/ tag = categoryTag(entry.tenant, entry.of)
    BY <1>4 DEF Tags
  <2>3. \/ tag = productTag(e.tenant, e.product) \/ tag = browseAllTag(e.tenant)
        \/ \E c \in e.cats : tag = categoryTag(e.tenant, c)
    BY <1>1, <1>4, <2>1 DEF Invalidated, invalidateBrowse
  <2>4. tag # productTag(e.tenant, e.product) /\ tag # browseAllTag(e.tenant)
    BY <2>2 DEF browseTag, categoryTag, productTag, browseAllTag
  <2>5. PICK c \in e.cats : tag = categoryTag(e.tenant, c)
    BY <2>3, <2>4
  <2>6. Slug[c] = Slug[entry.of]
    BY <2>2, <2>5 DEF browseTag, categoryTag
  <2>7. QED
    BY <2>6
<1>5. QED
  BY <1>2, <1>3, <1>4

\* A delivery drops nothing of another tenant, and a product event that names
\* its categories no listing of another one.
THEOREM WarmCorrect == Spec => OthersStayWarm
<1> DEFINE Warm == \A e \in owed :
             (Deliver(e) /\ cached' # cached) =>
               /\ e.tenant = entry.tenant
               /\ (e.cats # Unsaid /\ entry.kind = "category") =>
                    \E c \in e.cats : Slug[c] = Slug[entry.of]
<1>1. TypeOK => Warm
  <2> SUFFICES ASSUME TypeOK, NEW e \in owed, Deliver(e), cached' # cached
               PROVE  /\ e.tenant = entry.tenant
                      /\ (e.cats # Unsaid /\ entry.kind = "category") =>
                           \E c \in e.cats : Slug[c] = Slug[entry.of]
    OBVIOUS
  <2>1. Tags(entry) \intersect Invalidated(e) # {}
    BY DEF Deliver
  <2>2. entry \in Entries /\ e \in Events
    BY DEF TypeOK
  <2>3. QED
    BY <2>1, <2>2, TagsApart
<1>2. QED
  BY <1>1, TypeCorrect, PTL DEF OthersStayWarm

-------------------------------------------------------------------------------
(* The search bar *)

\* Only the text in the bar is asked for, and once all its fetches are answered the
\* list is about it.
Asking ==
  /\ flights \subseteq {value}
  /\ ~timer /\ flights = {} /\ ~missed => answer \in {value, Nobody}

LEMMA DebounceAsking ==
  ASSUME NEW v, NEW a, value' = v, Debounce(v, a)
  PROVE  Asking'
<1>1. flights' = {} /\ (timer' <=> v \notin Short)
  BY DEF Debounce
<1>2. v \in Short => answer' = Nobody
  BY DEF Debounce
<1> QED
  BY <1>1, <1>2 DEF Asking

LEMMA ResyncAsking ==
  ASSUME Asking, NEW before, NEW q, Resync(before, q)
  PROVE  Asking'
<1>1. CASE UNCHANGED bar
  BY <1>1 DEF Asking, bar
<1>2. CASE value' = q /\ q = value /\ UNCHANGED <<timer, flights, answer, loading, missed>>
  BY <1>2 DEF Asking
<1>3. CASE value' = q /\ Debounce(q, answer)
  BY <1>3, DebounceAsking
<1> QED
  BY <1>1, <1>2, <1>3 DEF Resync

LEMMA BarAsking ==
  ASSUME Asking, InBar
  PROVE  Asking'
<1>1. CASE \E v \in Texts : Keystroke(v)
  BY <1>1, DebounceAsking DEF Keystroke
<1>2. CASE ClearButton
  BY <1>2, DebounceAsking DEF ClearButton
<1>3. CASE AskSuggestions
  <2>1. value \in flights' /\ flights' \subseteq {value'}
    BY <1>3 DEF AskSuggestions, Asking
  <2> QED
    BY <2>1 DEF Asking
<1>4. ASSUME NEW v \in Texts, Suggest(v) PROVE Asking'
  <2>1. v = value /\ value' = value /\ flights' = {} /\ answer' \in {v, Nobody}
    BY <1>4 DEF Suggest, Asking
  <2> QED
    BY <2>1 DEF Asking
<1>5. ASSUME NEW v \in Texts, SuggestFails(v) PROVE Asking'
  <2>1. flights' \subseteq {value'} /\ missed'
    BY <1>5 DEF SuggestFails, Asking
  <2> QED
    BY <2>1 DEF Asking
<1> QED
  BY <1>1, <1>2, <1>3, <1>4, <1>5 DEF InBar

LEMMA NextAsking == Asking /\ [BrowseNext]_browseVars => Asking'
<1> SUFFICES ASSUME Asking, [BrowseNext]_browseVars
             PROVE  Asking'
  OBVIOUS
<1>1. ASSUME NEW u, Follow(u) PROVE Asking'
  BY <1>1, ResyncAsking DEF Follow
<1>2. ASSUME NEW b \in Bands, ApplyPrice(b) PROVE Asking'
  BY <1>2, DebounceAsking DEF ApplyPrice, Mount
<1>3. CASE SubmitSearch
  BY <1>3, DebounceAsking DEF SubmitSearch, Mount
<1>4. CASE InBar
  BY <1>4, BarAsking
<1>5. ASSUME NEW p \in Fickle, EditIndex(p) PROVE Asking'
  BY <1>5 DEF EditIndex, Asking, bar
<1>6. CASE UNCHANGED browseVars
  BY <1>6 DEF browseVars, Asking, bar
<1> QED
  BY <1>1, <1>2, <1>3, <1>4, <1>5, <1>6 DEF BrowseNext, FollowPage, ToggleFacet,
     ToggleStock, ClearPrice, ClearAll, SortBy, ViewAs

\* The suggestions on the screen are those of the text in the bar (search-bar.tsx:66),
\* however keystrokes, links, timers and late answers interleave.
THEOREM SuggestionsCorrect == BrowseSpec => []SuggestionsCurrent
<1>1. BrowseInit => Asking
  BY DEF BrowseInit, Asking
<1>2. Asking => SuggestionsCurrent
  BY DEF Asking, SuggestionsCurrent
<1> QED
  BY <1>1, <1>2, NextAsking, PTL DEF BrowseSpec

-------------------------------------------------------------------------------
(* Pages and their links *)

Total(c) == Larger(1, (c + PageSize - 1) \div PageSize)

\* The pages are as many as it takes, and none of them is empty.
LEMMA PageCount ==
  ASSUME NEW c \in Nat
  PROVE  /\ Total(c) \in Nat \ {0}
         /\ c <= Total(c) * PageSize
         /\ \A n \in 1 .. Total(c) : c > 0 => (n - 1) * PageSize < c
<1> DEFINE m == c + PageSize - 1
           d == m \div PageSize
<1>1. PageSize \in Nat /\ PageSize > 0 /\ m \in Nat
  BY BrowseAssumption
<1>2. d \in Nat /\ m = d * PageSize + (m % PageSize) /\ m % PageSize \in 0 .. PageSize - 1
  BY <1>1
<1>3. d * PageSize >= c /\ (c > 0 => d >= 1)
  BY <1>1, <1>2
<1>4. (d - 1) * PageSize = d * PageSize - PageSize
  BY <1>1, <1>2
<1>5. c > 0 => (d - 1) * PageSize < c
  BY <1>1, <1>2, <1>4
<1>6. Total(c) = IF 1 > d THEN 1 ELSE d
  BY DEF Total, Larger
<1> HIDE DEF d, m
<1>7. c <= Total(c) * PageSize /\ Total(c) \in Nat \ {0}
  BY <1>1, <1>2, <1>3, <1>6
<1>8. ASSUME NEW n \in 1 .. Total(c), c > 0 PROVE (n - 1) * PageSize < c
  <2>1. n - 1 <= d - 1 /\ d >= 1 /\ n - 1 \in Nat /\ d - 1 \in Nat
    BY <1>2, <1>3, <1>6, <1>8
  <2>2. (n - 1) * PageSize <= (d - 1) * PageSize
    BY <1>1, <2>1
  <2> QED
    BY <1>1, <1>2, <1>5, <1>8, <2>1, <2>2
<1> QED
  BY <1>7, <1>8

PageInv ==
  /\ url \in Url /\ value \in Texts
  /\ listed \subseteq Assortment /\ matches \subseteq Assortment
  /\ cut \subseteq Assortment /\ \A v \in versions : v \subseteq Assortment
  /\ items # <<>> =>
       ~failed /\ Cardinality(matches) > Offset(url) /\ matches = Matching(url, cut)

LEMMA SomeFinite ==
  ASSUME NEW found \in SUBSET Assortment
  PROVE  IsFiniteSet(found) /\ Cardinality(found) \in Nat
BY FS_Subset, FS_CardinalityType, BrowseAssumption

LEMMA MatchingListed ==
  ASSUME NEW u, NEW v
  PROVE  Matching(u, v) \subseteq v
BY DEF Matching

\* What does not fit on the pages before is shown.
LEMMA SliceShown ==
  ASSUME NEW u \in Url, NEW t, NEW found \in SUBSET Assortment
  PROVE  /\ Offset(u) \in Nat
         /\ Slice(u, t, found) # <<>> => Cardinality(found) > Offset(u)
<1>1. Offset(u) \in Nat
  BY BrowseAssumption DEF Offset, PageOf, Larger, Url
<1>2. ASSUME Cardinality(found) <= Offset(u)
      PROVE  Slice(u, t, found) = <<>>
  <2>1. Smaller(PageSize, Larger(0, Cardinality(found) - Offset(u))) = 0
    BY <1>1, <1>2, SomeFinite, BrowseAssumption DEF Smaller, Larger
  <2> QED
    BY <2>1 DEF Slice
<1> QED
  BY <1>1, <1>2, SomeFinite

LEMMA RenderShows ==
  ASSUME NEW u \in Url, PageInv, Render(u), UNCHANGED <<listed, versions>>, value' \in Texts
  PROVE  PageInv'
<1>1. url' = u /\ (failed' <=> TooDeep(u))
  BY DEF Render
<1>2. Offset(u)' = Offset(u) /\ \A v : Matching(u, v)' = Matching(u, v)
  BY DEF Offset, PageOf, Matching
<1>3. CASE TooDeep(u)
  <2>1. matches' = {} /\ items' = <<>> /\ cut' = cut
    BY <1>3 DEF Render
  <2> QED
    BY <1>1, <2>1 DEF PageInv
<1>4. CASE ~TooDeep(u)
  <2>1. PICK v \in versions, t \in Tiebreaks :
          cut' = v /\ matches' = Matching(u, v) /\ items' = Slice(u, t, matches')
    BY <1>4 DEF Render
  <2>2. v \subseteq Assortment /\ matches' \subseteq Assortment
    BY <2>1, MatchingListed DEF PageInv
  <2>3. items' # <<>> => Cardinality(matches') > Offset(u)
    BY <2>1, <2>2, SliceShown
  <2>4. items' # <<>> => ~failed' /\ (Cardinality(matches) > Offset(url))'
    BY <1>1, <1>4, <2>3
  <2>5. matches' = Matching(url', cut')
    BY <1>1, <2>1
  <2> QED
    BY <1>1, <2>1, <2>2, <2>4, <2>5 DEF PageInv, Matching
<1> QED
  BY <1>3, <1>4

LEMMA PageNumbers ==
  ASSUME PageInv
  PROVE  /\ PageOf(url) \in Nat \ {0} /\ Cardinality(matches) \in Nat
         /\ TotalPages = Total(Cardinality(matches)) /\ TotalPages \in Nat \ {0}
<1>1. PageOf(url) \in Nat \ {0}
  BY DEF PageInv, Url, PageOf, Larger
<1>2. Cardinality(matches) \in Nat
  BY SomeFinite DEF PageInv
<1> QED
  BY <1>1, <1>2, PageCount DEF TotalPages, Total

\* A link to a page leads to one that there is, or that there was: the page on the
\* screen may be beyond the last.
LEMMA PageLinksNumbered ==
  ASSUME PageInv, NEW u \in PageLinks
  PROVE  \E n \in Nat \ {0} :
           /\ u = PageHref(n)
           /\ Cardinality(matches) > Offset(url) => n <= TotalPages
<1> DEFINE P == PageOf(url)
           T == TotalPages
           c == Cardinality(matches)
<1>1. P \in Nat \ {0} /\ T \in Nat \ {0} /\ c \in Nat /\ c <= T * PageSize
  BY PageNumbers, PageCount
<1>2. c > Offset(url) => P <= T
  <2>1. SUFFICES ASSUME (P - 1) * PageSize < T * PageSize, P > T
                 PROVE  FALSE
    BY <1>1, BrowseAssumption DEF Offset
  <2>2. P - 1 >= T /\ P - 1 \in Nat
    BY <1>1, <2>1
  <2>3. (P - 1) * PageSize >= T * PageSize
    BY <1>1, <2>2, BrowseAssumption
  <2> HIDE DEF P, T
  <2> QED
    BY <1>1, <2>1, <2>2, <2>3, BrowseAssumption
<1> HIDE DEF c
<1>3. CASE \E n \in pageWindow(P, T) : u = PageHref(n)
  <2>1. PICK n \in pageWindow(P, T) : u = PageHref(n)
    BY <1>3
  <2>2. n \in Nat \ {0} /\ n <= T
    BY <1>1 DEF pageWindow, Larger, Smaller
  <2> QED
    BY <2>1, <2>2
<1>4. CASE P # 1 /\ u = PageHref(Larger(1, P - 1))
  <2>1. Larger(1, P - 1) = P - 1 /\ P - 1 \in Nat \ {0}
    BY <1>1, <1>4 DEF Larger
  <2> QED
    BY <1>1, <1>2, <1>4, <2>1 DEF c
<1>5. CASE u = PageHref(Smaller(T, P + 1))
  <2>1. Smaller(T, P + 1) \in Nat \ {0} /\ Smaller(T, P + 1) <= T
    BY <1>1 DEF Smaller
  <2> QED
    BY <1>5, <2>1
<1> QED
  BY <1>3, <1>4, <1>5 DEF PageLinks

LEMMA LinkTypes ==
  ASSUME PageInv
  PROVE  /\ PageLinks \subseteq Url
         /\ \A a \in Attributes, v \in Values : ToggleHref(a, v) \in Url
         /\ StockLinks \subseteq Url /\ ClearBandLinks \subseteq Url
         /\ ClearAllLinks \subseteq Url /\ SortLinks \subseteq Url /\ ViewLinks \subseteq Url
         /\ \A b \in Bands : Filtered([url EXCEPT !.band = b]) \in Url
         /\ Filtered([url EXCEPT !.q = value]) \in Url
<1>1. url \in Url /\ value \in Texts
  BY DEF PageInv
<1>2. \A n \in Nat : PageHref(n) \in Url
  BY <1>1 DEF PageHref, Url
<1>3. PageLinks \subseteq Url
  BY <1>2, PageLinksNumbered
<1>4. \A a \in Attributes, v \in Values : ToggleHref(a, v) \in Url
  BY <1>1 DEF ToggleHref, Filtered, Url
<1>5. StockLinks \subseteq Url /\ ClearBandLinks \subseteq Url
  <2>1. ASSUME NEW b \in BOOLEAN PROVE Filtered([url EXCEPT !.stock = b]) \in Url
    BY <1>1 DEF Filtered, Url
  <2>2. (~ url.stock) \in BOOLEAN
    OBVIOUS
  <2>3. StockLinks = {Filtered([url EXCEPT !.stock = ~ url.stock])}
    BY DEF StockLinks
  <2>4. Filtered([url EXCEPT !.band = AnyBand]) \in Url
    BY <1>1, BrowseAssumption DEF Filtered, Url
  <2> QED
    BY <2>1, <2>2, <2>3, <2>4 DEF ClearBandLinks
<1>6. ClearAllLinks \subseteq Url
  <2>1. url.where \in Slugs \union {Home} /\ Blank \in Texts
    BY <1>1, SearchBarAssumption DEF Url
  <2>2. BareUrl(url.where) \in Url
    BY <2>1, BrowseAssumption DEF BareUrl, Url
  <2> QED
    BY <2>2 DEF ClearAllLinks
<1>7. SortLinks \subseteq Url /\ ViewLinks \subseteq Url
  <2>1. ASSUME NEW s \in Sorts PROVE Filtered([url EXCEPT !.sort = s]) \in Url
    BY <1>1 DEF Filtered, Url
  <2>2. ASSUME NEW v \in Views PROVE [url EXCEPT !.view = v] \in Url
    BY <1>1 DEF Url
  <2> QED
    BY <2>1, <2>2 DEF SortLinks, ViewLinks
<1>8. \A b \in Bands : Filtered([url EXCEPT !.band = b]) \in Url
  BY <1>1 DEF Filtered, Url
<1>9. Filtered([url EXCEPT !.q = value]) \in Url
  BY <1>1 DEF Filtered, Url
<1> QED
  BY <1>3, <1>4, <1>5, <1>6, <1>7, <1>8, <1>9

LEMMA InitPage == BrowseInit => PageInv
<1> SUFFICES ASSUME BrowseInit PROVE PageInv
  OBVIOUS
<1>1. /\ url \in Url /\ value = url.q /\ value \in Texts
      /\ listed = Assortment /\ cut = listed /\ versions = {listed}
  BY BrowseAssumption DEF BrowseInit, Url
<1>2. CASE TooDeep(url)
  BY <1>1, <1>2 DEF BrowseInit, PageInv
<1>3. CASE ~TooDeep(url)
  <2>1. matches = Matching(url, cut) /\ ~failed
    BY <1>3 DEF BrowseInit
  <2>2. PICK t \in Tiebreaks : items = Slice(url, t, matches)
    BY <1>3 DEF BrowseInit
  <2>3. matches \subseteq Assortment
    BY <1>1, <2>1, MatchingListed
  <2>4. items # <<>> => Cardinality(matches) > Offset(url)
    BY <1>1, <2>2, <2>3, SliceShown
  <2> QED
    BY <1>1, <2>1, <2>3, <2>4 DEF PageInv
<1> QED
  BY <1>2, <1>3

LEMMA ShowPage ==
  ASSUME PageInv, NEW u \in Url, Show(u), value' \in Texts
  PROVE  PageInv'
BY RenderShows DEF Show, PageInv

LEMMA FollowPageInv ==
  ASSUME PageInv, NEW u \in Url, Follow(u)
  PROVE  PageInv'
<1>1. value' \in {value, u.q}
  BY DEF Follow, Resync, bar
<1>2. value' \in Texts
  BY <1>1 DEF PageInv, Url
<1> QED
  BY <1>2, ShowPage DEF Follow

Links ==
  PageLinks \union ToggleLinks \union StockLinks \union ClearBandLinks
    \union ClearAllLinks \union SortLinks \union ViewLinks

\* Whatever a shopper does leads to a url that the program understands.
LEMMA Destinations ==
  ASSUME PageInv
  PROVE  Links \subseteq Url
<1>1. ToggleLinks \subseteq Url
  <2>1. \A a \in Attributes : \A v \in Buckets(a) : v \in Values
    BY DEF Buckets
  <2>2. \A a \in Attributes : \A v \in Buckets(a) : ToggleHref(a, v) \in Url
    BY <2>1, LinkTypes
  <2> QED
    BY <2>2 DEF ToggleLinks
<1> QED
  BY <1>1, LinkTypes DEF Links

LEMMA NextPage == PageInv /\ [BrowseNext]_browseVars => PageInv'
<1> SUFFICES ASSUME PageInv, [BrowseNext]_browseVars
             PROVE  PageInv'
  OBVIOUS
<1>1. CASE \/ FollowPage \/ ToggleFacet \/ ToggleStock \/ ClearPrice \/ ClearAll
           \/ SortBy \/ ViewAs
  <2>1. PICK u \in Links : Follow(u)
    BY <1>1 DEF Links, FollowPage, ToggleFacet, ToggleStock, ClearPrice, ClearAll,
                SortBy, ViewAs
  <2> QED
    BY <2>1, Destinations, FollowPageInv
<1>2. ASSUME NEW b \in Bands, ApplyPrice(b) PROVE PageInv'
  <2>1. value' \in Texts
    BY <1>2 DEF ApplyPrice, Mount, PageInv, Url
  <2> QED
    BY <1>2, <2>1, LinkTypes, ShowPage DEF ApplyPrice
<1>3. CASE SubmitSearch
  <2>1. value' \in Texts
    BY <1>3 DEF SubmitSearch, Mount, PageInv
  <2> QED
    BY <1>3, <2>1, LinkTypes, ShowPage DEF SubmitSearch
<1>4. CASE InBar
  <2>1. UNCHANGED <<listed, url, matches, items, failed, cut, versions>>
    BY <1>4 DEF InBar
  <2>2. value' \in Texts
    BY <1>4, SearchBarAssumption DEF InBar, Keystroke, ClearButton, AskSuggestions, Suggest,
       SuggestFails, PageInv
  <2> QED
    BY <2>1, <2>2 DEF PageInv, Offset, PageOf, Matching
<1>5. ASSUME NEW p \in Fickle, EditIndex(p) PROVE PageInv'
  <2>1. UNCHANGED <<url, matches, items, failed, cut, value>>
    BY <1>5 DEF EditIndex, bar
  <2>2. listed' \subseteq Assortment /\ \A v \in versions' : v \subseteq Assortment
    BY <1>5, BrowseAssumption DEF EditIndex, PageInv
  <2> QED
    BY <2>1, <2>2 DEF PageInv, Offset, PageOf, Matching
<1>6. CASE UNCHANGED browseVars
  BY <1>6 DEF browseVars, bar, PageInv, Offset, PageOf, Matching
<1> QED
  BY <1>1, <1>2, <1>3, <1>4, <1>5, <1>6 DEF BrowseNext

\* A page of the url's search exists where a link leads.
LEMMA PageLeads ==
  ASSUME PageInv, items # <<>>, NEW u \in PageLinks
  PROVE  Cardinality(Matching(u, cut)) > Offset(u)
<1>1. matches = Matching(url, cut) /\ Cardinality(matches) > Offset(url) /\ url \in Url
  BY DEF PageInv
<1>2. PICK n \in Nat \ {0} : u = PageHref(n) /\ n <= TotalPages
  BY <1>1, PageLinksNumbered
<1>3. Matching(u, cut) = Matching(url, cut)
  BY <1>1, <1>2 DEF Matching, PageHref, Url
<1>4. PageOf(u) = n
  BY <1>1, <1>2 DEF PageOf, PageHref, Url, Larger
<1>5. Offset(url) \in Nat
  BY <1>1, SliceShown
<1>6. Cardinality(matches) > 0
  BY <1>1, <1>5, PageNumbers
<1>7. (n - 1) * PageSize < Cardinality(matches)
  BY <1>2, <1>6, PageNumbers, PageCount
<1> QED
  BY <1>1, <1>3, <1>4, <1>7, PageNumbers DEF Offset

\* The first page of a search that finds what this one does, or more.
LEMMA FirstPageLeads ==
  ASSUME PageInv, NEW u \in Url, u.page = 0, NEW p \in Matching(u, cut)
  PROVE  Cardinality(Matching(u, cut)) > Offset(u)
<1>1. Offset(u) = 0
  BY BrowseAssumption DEF Offset, PageOf, Larger
<1>2. Matching(u, cut) \subseteq Assortment
  BY MatchingListed DEF PageInv
<1>3. IsFiniteSet(Matching(u, cut)) /\ Cardinality(Matching(u, cut)) \in Nat
  BY <1>2, SomeFinite
<1>4. Cardinality(Matching(u, cut)) # 0
  BY <1>3, FS_EmptySet
<1> QED
  BY <1>1, <1>3, <1>4

LEMMA SomeMatch ==
  ASSUME PageInv, items # <<>>
  PROVE  \E p : p \in matches
<1>1. Offset(url) \in Nat /\ Cardinality(matches) > Offset(url) /\ Cardinality(matches) \in Nat
  BY SliceShown, PageNumbers DEF PageInv
<1>2. matches # {}
  BY <1>1, FS_EmptySet
<1> QED
  BY <1>2

LEMMA OtherLinksLead ==
  ASSUME PageInv, items # <<>>,
         NEW u \in SortLinks \union ViewLinks \union ClearBandLinks
  PROVE  Cardinality(Matching(u, cut)) > Offset(u)
<1>1. matches = Matching(url, cut) /\ Cardinality(matches) > Offset(url) /\ url \in Url
  BY DEF PageInv
<1>2. PICK p : p \in matches
  BY SomeMatch
<1>3. CASE u \in SortLinks
  <2>1. PICK s \in Sorts : u = Filtered([url EXCEPT !.sort = s])
    BY <1>3 DEF SortLinks
  <2>2. u.page = 0 /\ Matching(u, cut) = Matching(url, cut)
    BY <1>1, <2>1 DEF Filtered, Url, Matching
  <2> QED
    BY <1>1, <1>2, <1>3, <2>2, LinkTypes, FirstPageLeads
<1>4. CASE u \in ViewLinks
  <2>1. PICK v \in Views : u = [url EXCEPT !.view = v]
    BY <1>4 DEF ViewLinks
  <2>2. u.page = url.page /\ Matching(u, cut) = Matching(url, cut)
    BY <1>1, <2>1 DEF Url, Matching
  <2> QED
    BY <1>1, <2>2 DEF Offset, PageOf
<1>5. CASE u \in ClearBandLinks
  <2>1. u = Filtered([url EXCEPT !.band = AnyBand])
    BY <1>5 DEF ClearBandLinks
  <2>2. /\ u.page = 0 /\ u.band = AnyBand
        /\ u.q = url.q /\ u.where = url.where /\ u.sel = url.sel /\ u.stock = url.stock
    BY <1>1, <2>1 DEF Filtered, Url
  <2>3. p \in Matching(u, cut)
    BY <1>1, <1>2, <2>2 DEF Matching, InBand
  <2> QED
    BY <1>5, <2>2, <2>3, LinkTypes, FirstPageLeads
<1> QED
  BY <1>3, <1>4, <1>5

\* Another value of a facet: the search finds at least what the bucket counted.
LEMMA FacetLeads ==
  ASSUME PageInv, items # <<>>, NEW a \in Attributes, NEW v \in Buckets(a) \ url.sel[a]
  PROVE  LET u == ToggleHref(a, v)
         IN  /\ Cardinality(Matching(u, cut)) > Offset(u)
             /\ url.sel[a] = {} => Cardinality(Matching(u, cut)) = Count(a, v)
<1> DEFINE u == ToggleHref(a, v)
           found == {p \in matches : Info[p].attr[a] = v}
<1>1. /\ matches = Matching(url, cut) /\ url \in Url
      /\ v \in Values /\ v \notin url.sel[a] /\ Count(a, v) > 0
  BY DEF PageInv, Buckets
<1>2. /\ u.page = 0 /\ u.sel[a] = url.sel[a] \union {v}
      /\ \A b \in Attributes \ {a} : u.sel[b] = url.sel[b]
      /\ u.q = url.q /\ u.where = url.where /\ u.band = url.band /\ u.stock = url.stock
  BY <1>1 DEF ToggleHref, Filtered, Url
<1>3. u \in Url
  BY <1>1, LinkTypes
<1> HIDE DEF u
<1>4. found \subseteq Matching(u, cut)
  BY <1>1, <1>2 DEF Matching, InBand
<1>5. url.sel[a] = {} => Matching(u, cut) \subseteq found
  BY <1>1, <1>2 DEF Matching, InBand
<1>6. Count(a, v) = Cardinality(found)
  BY DEF Count
<1> HIDE DEF found
<1>7. found # {}
  <2>1. found = {} => Cardinality(found) = 0
    BY FS_EmptySet
  <2>2. Cardinality(found) > 0
    BY <1>1, <1>6
  <2> QED
    BY <2>1, <2>2
<1>8. Cardinality(Matching(u, cut)) > Offset(u)
  BY <1>3, <1>2, <1>4, <1>7, FirstPageLeads
<1>9. url.sel[a] = {} => Cardinality(Matching(u, cut)) = Count(a, v)
  <2>1. url.sel[a] = {} => Matching(u, cut) = found
    BY <1>4, <1>5
  <2> QED
    BY <1>6, <2>1
<1> QED
  BY <1>8, <1>9 DEF u

\* No link leads from a page that shows products to one that shows none, and a
\* facet says how many there will be, if both are cut from one version of the index,
\* however the index changes and whatever the cache keeps (facet-sidebar.tsx:292,
\* toolbar.tsx:70, pagination.tsx:24).
THEOREM LinksCorrect == BrowseSpec => []LinksLead
<1>1. PageInv => LinksLead
  BY PageLeads, OtherLinksLead, FacetLeads DEF LinksLead
<1> QED
  BY <1>1, InitPage, NextPage, PTL DEF BrowseSpec

-------------------------------------------------------------------------------
(* The order of a search *)

Untied(u, found) == \A p, r \in found : Tied(u, p, r) => p = r

\* How many products of a search come before p.
Rank(u, found, p) == Cardinality({r \in found : Before(u, r, p)})

LEMMA KeyNumber ==
  ASSUME NEW u \in Url, NEW p \in Assortment
  PROVE  Key(u.q, u.sort, p) \in Int
<1>1. /\ Info[p].price # NoPrice => Info[p].price \in Nat
      /\ u.q # Blank => Info[p].score[u.q] \in Nat
      /\ TopPrice \in Nat /\ TopScore \in Nat
  BY BrowseAssumption DEF Url
<1> QED
  BY <1>1 DEF Key

LEMMA BeforeMeans ==
  ASSUME NEW u \in Url, NEW p \in Assortment, NEW r \in Assortment
  PROVE  Before(u, p, r) <=>
           \/ Key(u.q, u.sort, p) < Key(u.q, u.sort, r)
           \/ Key(u.q, u.sort, p) = Key(u.q, u.sort, r) /\ Info[p].name < Info[r].name
<1>1. u.q \in Texts /\ u.sort \in Sorts
  BY DEF Url
<1> QED
  BY <1>1 DEF Before, Ahead

LEMMA BeforeOrder ==
  ASSUME NEW u \in Url, NEW p \in Assortment, NEW r \in Assortment, NEW s \in Assortment
  PROVE  /\ ~Before(u, p, p)
         /\ Before(u, p, r) /\ Before(u, r, s) => Before(u, p, s)
<1> DEFINE key(x) == Key(u.q, u.sort, x)
<1>1. key(p) \in Int /\ key(r) \in Int /\ key(s) \in Int
  BY KeyNumber
<1>2. Info[p].name \in Nat /\ Info[r].name \in Nat /\ Info[s].name \in Nat
  BY BrowseAssumption
<1>3. \A x, y \in {p, r, s} :
        Before(u, x, y) <=> \/ key(x) < key(y)
                            \/ key(x) = key(y) /\ Info[x].name < Info[y].name
  BY BeforeMeans
<1> HIDE DEF key
<1> QED
  BY <1>1, <1>2, <1>3

LEMMA RankGrows ==
  ASSUME NEW u \in Url, NEW found \in SUBSET Assortment, NEW p \in found
  PROVE  /\ Rank(u, found, p) \in 0 .. Cardinality(found) - 1
         /\ \A r \in found : Before(u, p, r) => Rank(u, found, p) < Rank(u, found, r)
<1> DEFINE ahead(x) == {y \in found : Before(u, y, x)}
<1>1. ASSUME NEW S \in SUBSET found, NEW T \in SUBSET found, S \subseteq T, p \in T, p \notin S
      PROVE  Cardinality(S) < Cardinality(T)
  <2>1. /\ IsFiniteSet(T) /\ Cardinality(T) \in Nat
        /\ IsFiniteSet(S) /\ Cardinality(S) \in Nat
    BY <1>1, SomeFinite
  <2>2. Cardinality(S) <= Cardinality(T) /\ (Cardinality(S) = Cardinality(T) => S = T)
    BY <1>1, <2>1, FS_Subset
  <2> QED
    BY <1>1, <2>1, <2>2
<1>2. p \notin ahead(p)
  BY BeforeOrder
<1>3. Cardinality(ahead(p)) < Cardinality(found)
  BY <1>1, <1>2
<1>4. Cardinality(ahead(p)) \in Nat /\ Cardinality(found) \in Nat
  BY SomeFinite
<1>5. ASSUME NEW r \in found, Before(u, p, r)
      PROVE  Cardinality(ahead(p)) < Cardinality(ahead(r))
  <2>1. ahead(p) \subseteq ahead(r)
    BY <1>5, BeforeOrder
  <2>2. p \in ahead(r)
    BY <1>5
  <2>3. ahead(p) \subseteq found /\ ahead(r) \subseteq found
    OBVIOUS
  <2> HIDE DEF ahead
  <2> QED
    BY <1>1, <1>2, <2>1, <2>2, <2>3
<1>6. \A x : Rank(u, found, x) = Cardinality(ahead(x))
  BY DEF Rank
<1> HIDE DEF ahead
<1> QED
  BY <1>3, <1>4, <1>5, <1>6

\* Where the sort leaves nothing tied, ranks number the products of a search.
LEMMA RankNumbers ==
  ASSUME NEW u \in Url, NEW found \in SUBSET Assortment, Untied(u, found)
  PROVE  /\ \A p, r \in found : Rank(u, found, p) = Rank(u, found, r) => p = r
         /\ \A p, r \in found : Before(u, p, r) <=> Rank(u, found, p) < Rank(u, found, r)
         /\ \A k \in 0 .. Cardinality(found) - 1 : \E p \in found : Rank(u, found, p) = k
<1> DEFINE rank(p) == Rank(u, found, p)
           c == Cardinality(found)
<1>1. ASSUME NEW p \in found, NEW r \in found
      PROVE  /\ rank(p) \in 0 .. c - 1 /\ rank(r) \in 0 .. c - 1
             /\ Before(u, p, r) => rank(p) < rank(r)
             /\ Before(u, r, p) => rank(r) < rank(p)
             /\ p # r => Before(u, p, r) \/ Before(u, r, p)
  BY RankGrows DEF Untied, Tied
<1>2. c \in Nat /\ IsFiniteSet(found)
  BY SomeFinite
<1> HIDE DEF rank, c
<1>3. \A p, r \in found : rank(p) = rank(r) => p = r
  BY <1>1, <1>2
<1>4. \A p, r \in found : Before(u, p, r) <=> rank(p) < rank(r)
  BY <1>1, <1>2
<1> DEFINE f == [p \in found |-> rank(p)]
<1>5. f \in Injection(found, 0 .. c - 1)
  <2>1. f \in [found -> 0 .. c - 1]
    BY <1>1
  <2> QED
    BY <1>3, <2>1 DEF Injection, IsInjective
<1>6. IsFiniteSet(0 .. c - 1) /\ Cardinality(0 .. c - 1) = c
  BY <1>2, FS_Interval
<1>7. f \in Surjection(found, 0 .. c - 1)
  <2> HIDE DEF f
  <2>1. Cardinality(found) = Cardinality(0 .. c - 1)
    BY <1>6 DEF c
  <2> QED
    BY <1>5, <1>6, <2>1, FS_Injection
<1>8. \A k \in 0 .. c - 1 : \E p \in found : rank(p) = k
  BY <1>7 DEF Surjection
<1> QED
  BY <1>3, <1>4, <1>8 DEF rank, c

LEMMA SliceRanks ==
  ASSUME NEW u \in Url, NEW t \in Tiebreaks, NEW found \in SUBSET Assortment, Untied(u, found)
  PROVE  LET s == Slice(u, t, found)
         IN  /\ s \in Seq(found)
             /\ Len(s) = Smaller(PageSize, Larger(0, Cardinality(found) - Offset(u)))
             /\ \A i \in 1 .. Len(s) : Rank(u, found, s[i]) = Offset(u) + i - 1
<1> DEFINE c == Cardinality(found)
           n == Smaller(PageSize, Larger(0, c - Offset(u)))
           rank == [p \in found |-> Cardinality({r \in found : Precedes(u, t, r, p)})]
           pick(k) == CHOOSE p \in found : rank[p] = k
<1>1. ASSUME NEW p \in found, NEW r \in found
      PROVE  Precedes(u, t, r, p) <=> Before(u, r, p)
  <2>1. t[p] \in Nat
    BY BrowseAssumption
  <2> QED
    BY <2>1 DEF Precedes, Untied
<1>2. \A p \in found : rank[p] = Rank(u, found, p)
  <2>1. ASSUME NEW p \in found
        PROVE  {r \in found : Precedes(u, t, r, p)} = {r \in found : Before(u, r, p)}
    BY <1>1
  <2> QED
    BY <2>1 DEF Rank
<1>3. /\ c \in Nat /\ Offset(u) \in Nat /\ n \in Nat
      /\ \A i \in 1 .. n : Offset(u) + i - 1 \in 0 .. c - 1
  <2>1. c \in Nat /\ Offset(u) \in Nat /\ PageSize \in Nat
    BY SomeFinite, SliceShown, BrowseAssumption
  <2> HIDE DEF c
  <2> QED
    BY <2>1 DEF Smaller, Larger
<1>4. \A k \in 0 .. c - 1 : \E p \in found : rank[p] = k
  <2>1. \A k \in 0 .. c - 1 : \E p \in found : Rank(u, found, p) = k
    BY RankNumbers
  <2> QED
    BY <1>2, <2>1
<1> HIDE DEF rank, c
<1>5. \A k \in 0 .. c - 1 : pick(k) \in found /\ rank[pick(k)] = k
  BY <1>4
<1>6. Slice(u, t, found) = [i \in 1 .. n |-> pick(Offset(u) + i - 1)]
  BY DEF Slice, rank, c
<1> HIDE DEF n, pick
<1>7. /\ Slice(u, t, found) \in [1 .. n -> found]
      /\ \A i \in 1 .. n : Rank(u, found, Slice(u, t, found)[i]) = Offset(u) + i - 1
  <2>1. ASSUME NEW i \in 1 .. n
        PROVE  /\ pick(Offset(u) + i - 1) \in found
               /\ Rank(u, found, pick(Offset(u) + i - 1)) = Offset(u) + i - 1
    BY <1>2, <1>3, <1>5
  <2> QED
    BY <1>6, <2>1
<1>8. Slice(u, t, found) \in Seq(found) /\ Len(Slice(u, t, found)) = n
  <2>1. Slice(u, t, found) \in Seq(found) /\ DOMAIN Slice(u, t, found) = 1 .. n
    BY <1>3, <1>7, SeqDef
  <2> QED
    BY <1>3, <2>1, LenProperties
<1> QED
  BY <1>7, <1>8 DEF n, c

-------------------------------------------------------------------------------
(* The walk *)

\* The products seen so far are the first of the search, up to the page on the screen.
Gone(u, found, seen) ==
  /\ seen \in Seq(found)
  /\ Len(seen) = Smaller(Cardinality(found), PageOf(u) * PageSize)
  /\ \A i \in 1 .. Len(seen) : Rank(u, found, seen[i]) = i - 1

Walked ==
  walk # Broken =>
    /\ ~failed /\ matches = Matching(url, cut)
    /\ Untied(url, matches) => Gone(url, matches, walk)

WalkInv == PageInv /\ Walked

LEMMA FirstPage ==
  ASSUME NEW u \in Url, PageOf(u) = 1, NEW t \in Tiebreaks, NEW found \in SUBSET Assortment,
         Untied(u, found)
  PROVE  Gone(u, found, Slice(u, t, found))
<1> DEFINE s == Slice(u, t, found)
           c == Cardinality(found)
<1>1. Offset(u) = 0 /\ PageOf(u) * PageSize = PageSize /\ PageSize \in Nat
  BY BrowseAssumption DEF Offset
<1>2. /\ s \in Seq(found) /\ Len(s) = Smaller(PageSize, Larger(0, c - Offset(u)))
      /\ \A i \in 1 .. Len(s) : Rank(u, found, s[i]) = Offset(u) + i - 1
  BY SliceRanks
<1>3. c \in Nat /\ Len(s) \in Nat
  BY <1>2, SomeFinite, LenProperties
<1> HIDE DEF s, c
<1>4. Smaller(PageSize, Larger(0, c - 0)) = Smaller(c, PageSize)
  BY <1>1, <1>3 DEF Smaller, Larger
<1>5. \A i \in 1 .. Len(s) : Rank(u, found, s[i]) = i - 1
  BY <1>1, <1>2, <1>3
<1> QED
  BY <1>1, <1>2, <1>4, <1>5 DEF Gone, s, c

\* One page more.
LEMMA FurtherPage ==
  ASSUME NEW v \in Url, NEW u \in Url, u = [v EXCEPT !.page = PageOf(v) + 1],
         NEW t \in Tiebreaks, NEW found \in SUBSET Assortment,
         Untied(u, found), NEW seen, Gone(v, found, seen)
  PROVE  Gone(u, found, seen \o Slice(u, t, found))
<1> DEFINE s == Slice(u, t, found)
           c == Cardinality(found)
           n == PageOf(v)
           o == n * PageSize
<1>1. n \in Nat \ {0} /\ PageOf(u) = n + 1
  BY DEF PageOf, Larger, Url
<1>2. PageSize \in Nat \ {0} /\ c \in Nat
  BY SomeFinite, BrowseAssumption
<1>3. o \in Nat /\ Offset(u) = o /\ PageOf(u) * PageSize = o + PageSize
  BY <1>1, <1>2 DEF Offset
<1>4. \A p : Rank(u, found, p) = Rank(v, found, p)
  BY DEF Rank, Before, Url
<1>5. /\ s \in Seq(found) /\ Len(s) = Smaller(PageSize, Larger(0, c - o))
      /\ \A i \in 1 .. Len(s) : Rank(u, found, s[i]) = o + i - 1
  <2>1. /\ s \in Seq(found) /\ Len(s) = Smaller(PageSize, Larger(0, c - Offset(u)))
        /\ \A i \in 1 .. Len(s) : Rank(u, found, s[i]) = Offset(u) + i - 1
    BY SliceRanks
  <2> HIDE DEF s, c, o
  <2> QED
    BY <1>3, <2>1
<1>6. /\ seen \in Seq(found) /\ Len(seen) = Smaller(c, o)
      /\ \A i \in 1 .. Len(seen) : Rank(u, found, seen[i]) = i - 1
  BY <1>4 DEF Gone
<1> HIDE DEF s, c, o
<1>7. /\ seen \o s \in Seq(found) /\ Len(seen \o s) = Len(seen) + Len(s)
      /\ \A i \in 1 .. Len(seen) + Len(s) :
           (seen \o s)[i] = IF i <= Len(seen) THEN seen[i] ELSE s[i - Len(seen)]
  BY <1>5, <1>6, ConcatProperties
<1>8. Len(seen) \in Nat /\ Len(s) \in Nat
  BY <1>5, <1>6, LenProperties
<1>9. Len(seen) + Len(s) = Smaller(c, o + PageSize)
  BY <1>2, <1>3, <1>5, <1>6 DEF Smaller, Larger
<1>10. Len(s) > 0 => Len(seen) = o
  BY <1>2, <1>3, <1>5, <1>6 DEF Smaller, Larger
<1>11. ASSUME NEW i \in 1 .. Len(seen) + Len(s)
       PROVE  Rank(u, found, (seen \o s)[i]) = i - 1
  <2>1. CASE i <= Len(seen)
    BY <1>6, <1>7, <1>8, <2>1
  <2>2. CASE ~(i <= Len(seen))
    <3>1. i - Len(seen) \in 1 .. Len(s) /\ Len(s) > 0
      BY <1>8, <2>2
    <3>2. Rank(u, found, s[i - Len(seen)]) = o + (i - Len(seen)) - 1
      BY <1>5, <3>1
    <3>3. o + (i - Len(seen)) - 1 = i - 1
      BY <1>3, <1>8, <1>10, <3>1
    <3> QED
      BY <1>7, <2>2, <3>2, <3>3
  <2> QED
    BY <2>1, <2>2
<1> QED
  BY <1>3, <1>7, <1>9, <1>11 DEF Gone, s, c

LEMMA ShowWalk ==
  ASSUME WalkInv, NEW u \in Url, Show(u)
  PROVE  Walked'
<1>1. url' = u /\ (failed' <=> TooDeep(u))
  BY DEF Show, Render
<1>2. SUFFICES ASSUME ~failed', walk' # Broken
               PROVE  matches' = Matching(u, cut')
                        /\ (Untied(u, matches') => Gone(u, matches', walk'))
  <2>1. walk' # Broken => ~failed'
    BY DEF Show, Walk
  <2> QED
    BY <1>1, <1>2, <2>1 DEF Walked, Untied, Tied, Before, Gone, Rank, PageOf, Matching
<1>3. PICK v \in versions, t \in Tiebreaks :
        cut' = v /\ matches' = Matching(u, v) /\ items' = Slice(u, t, matches')
  BY <1>1, <1>2 DEF Show, Render
<1>4. matches' \subseteq Assortment
  BY <1>3, MatchingListed DEF WalkInv, PageInv
<1>5. SUFFICES ASSUME Untied(u, matches')
               PROVE  Gone(u, matches', walk')
  BY <1>3
<1>6. CASE PageOf(u) = 1
  <2>1. walk' = items'
    BY <1>2, <1>6 DEF Show, Walk
  <2> QED
    BY <1>3, <1>4, <1>5, <1>6, <2>1, FirstPage
<1>7. CASE PageOf(u) # 1
  <2>1. /\ cut' = cut /\ walk # Broken /\ u = PageHref(PageOf(url) + 1)
        /\ walk' = walk \o items'
    BY <1>2, <1>7 DEF Show, Walk
  <2>2. url \in Url /\ PageOf(url) \in Nat \ {0}
    BY PageNumbers DEF WalkInv, PageInv
  <2>3. u = [url EXCEPT !.page = PageOf(url) + 1]
    BY <2>1, <2>2 DEF PageHref
  <2>4. matches = Matching(url, cut) /\ (Untied(url, matches) => Gone(url, matches, walk))
    BY <2>1 DEF WalkInv, Walked
  <2>5. matches' = matches
    BY <1>3, <2>1, <2>2, <2>3, <2>4 DEF Matching, Url
  <2>6. Untied(u, matches) <=> Untied(url, matches)
    BY <2>2, <2>3 DEF Untied, Tied, Before, Url
  <2> QED
    BY <1>3, <1>4, <1>5, <2>1, <2>2, <2>3, <2>4, <2>5, <2>6, FurtherPage
<1> QED
  BY <1>6, <1>7

LEMMA InitWalk == BrowseInit => WalkInv
<1> SUFFICES ASSUME BrowseInit PROVE Walked
  BY InitPage DEF WalkInv
<1>1. PageInv
  BY InitPage
<1>2. SUFFICES ASSUME walk # Broken
               PROVE  ~failed /\ matches = Matching(url, cut)
                        /\ (Untied(url, matches) => Gone(url, matches, walk))
  BY DEF Walked
<1>3. PageOf(url) = 1 /\ ~failed /\ walk = items
  BY <1>2 DEF BrowseInit
<1>4. ~TooDeep(url) /\ matches = Matching(url, cut)
  BY <1>3 DEF BrowseInit
<1>5. PICK t \in Tiebreaks : items = Slice(url, t, matches)
  BY <1>4 DEF BrowseInit
<1>6. Untied(url, matches) => Gone(url, matches, walk)
  BY <1>1, <1>3, <1>5, FirstPage DEF PageInv
<1> QED
  BY <1>3, <1>4, <1>6

LEMMA NextWalk == WalkInv /\ [BrowseNext]_browseVars => WalkInv'
<1> SUFFICES ASSUME WalkInv, [BrowseNext]_browseVars
             PROVE  Walked'
  BY NextPage DEF WalkInv
<1>0. PageInv
  BY DEF WalkInv
<1>1. CASE \/ FollowPage \/ ToggleFacet \/ ToggleStock \/ ClearPrice \/ ClearAll
           \/ SortBy \/ ViewAs
  <2>1. PICK u \in Links : Follow(u)
    BY <1>1 DEF Links, FollowPage, ToggleFacet, ToggleStock, ClearPrice, ClearAll,
                SortBy, ViewAs
  <2> QED
    BY <1>0, <2>1, Destinations, ShowWalk DEF Follow
<1>2. ASSUME NEW b \in Bands, ApplyPrice(b) PROVE Walked'
  BY <1>0, <1>2, LinkTypes, ShowWalk DEF ApplyPrice
<1>3. CASE SubmitSearch
  BY <1>0, <1>3, LinkTypes, ShowWalk DEF SubmitSearch
<1>4. CASE InBar \/ (\E p \in Fickle : EditIndex(p)) \/ UNCHANGED browseVars
  <2>1. UNCHANGED <<url, matches, items, failed, cut, walk>>
    BY <1>4 DEF InBar, EditIndex, browseVars
  <2>2. Matching(url, cut)' = Matching(url, cut)
    BY <2>1 DEF Matching
  <2> QED
    BY <2>1, <2>2 DEF WalkInv, Walked, Untied, Tied, Gone, Before, Rank, PageOf
<1> QED
  BY <1>1, <1>2, <1>3, <1>4 DEF BrowseNext

\* At the last page nothing is left to come.
LEMMA WalkEnds ==
  ASSUME WalkInv, walk # Broken, PageOf(url) = TotalPages, Untied(url, matches)
  PROVE  /\ Len(walk) = Cardinality(matches)
         /\ {walk[i] : i \in DOMAIN walk} = matches
         /\ \A i \in 2 .. Len(walk) : Before(url, walk[i - 1], walk[i])
<1> DEFINE c == Cardinality(matches)
           T == TotalPages
<1>1. url \in Url /\ matches \in SUBSET Assortment /\ Gone(url, matches, walk)
  BY DEF WalkInv, Walked, PageInv
<1>2. c \in Nat /\ T \in Nat \ {0} /\ c <= T * PageSize
  BY PageNumbers, PageCount DEF WalkInv
<1>3. /\ walk \in Seq(matches) /\ Len(walk) = Smaller(c, T * PageSize)
      /\ \A i \in 1 .. Len(walk) : Rank(url, matches, walk[i]) = i - 1
  BY <1>1 DEF Gone
<1>4. Len(walk) = c /\ DOMAIN walk = 1 .. c /\ \A i \in 1 .. c : walk[i] \in matches
  <2>1. Len(walk) = c
    BY <1>2, <1>3, BrowseAssumption DEF Smaller
  <2> HIDE DEF c
  <2> QED
    BY <1>3, <2>1, LenProperties, ElementOfSeq
<1>5. ASSUME NEW p \in matches PROVE \E i \in DOMAIN walk : walk[i] = p
  <2> DEFINE k == Rank(url, matches, p)
  <2>1. k \in 0 .. c - 1
    BY <1>1, RankGrows
  <2> HIDE DEF c, k
  <2>2. k + 1 \in 1 .. c
    BY <1>2, <2>1
  <2>3. walk[k + 1] \in matches /\ Rank(url, matches, walk[k + 1]) = k
    BY <1>2, <1>3, <1>4, <2>1, <2>2
  <2>4. walk[k + 1] = p
    BY <1>1, <2>3, RankNumbers DEF k
  <2> QED
    BY <1>4, <2>2, <2>4
<1>6. ASSUME NEW i \in 2 .. Len(walk) PROVE Before(url, walk[i - 1], walk[i])
  <2> HIDE DEF c
  <2>1. i \in 1 .. c /\ i - 1 \in 1 .. c
    BY <1>2, <1>4
  <2>2. Rank(url, matches, walk[i - 1]) < Rank(url, matches, walk[i])
    BY <1>2, <1>3, <1>4, <2>1
  <2> QED
    BY <1>1, <1>4, <2>1, <2>2, RankNumbers
<1> QED
  BY <1>4, <1>5, <1>6

\* Who goes by Next from the first page to the last, all cut from one version of the
\* index, sees every product of the search once and in order, whatever the size of a
\* page and the orders OpenSearch may choose, and however the index changes meanwhile
\* (query-builder.ts:88, pagination.tsx:55).
THEOREM WalkCorrect == BrowseSpec => []WalkComplete
<1>1. WalkInv => WalkComplete
  BY WalkEnds DEF WalkComplete, Untied
<1> QED
  BY <1>1, InitWalk, NextWalk, PTL DEF BrowseSpec

================================================================================
