--------------------------------- MODULE Browse ---------------------------------
(***************************************************************************)
(* Browsing the catalog: the home page and the category pages of the       *)
(* storefront (apps/storefront/src/app/page.tsx, app/c/[category]), the    *)
(* links and forms on them, and the search of the api that they show       *)
(* (packages/modules/search/src/search).                                   *)
(*                                                                         *)
(* A page reads its search through the data cache of the storefront, which *)
(* keeps one answer per search and serves it for an hour, or until a       *)
(* delivery drops it (Pages), while the index changes.  Which answers are  *)
(* kept is left open: any page may be cut from any version that the index  *)
(* has had.  Everything a shopper can do to a page is a link or a form     *)
(* whose url was computed when the page was rendered.                      *)
(***************************************************************************)
EXTENDS SearchBar, Integers, FiniteSets, Sequences

CONSTANTS
  Assortment,          \* the products
  Slugs,               \* categories, as paths name them
  Home,                \* the page of every category
  Attributes, Values,  \* facet attributes and their values
  Views, Sorts,        \* "grid", "list"; "relevance", "price-asc", ...
  Bands,               \* what the price form may ask for: [lo, hi]
  NoBound, NoPrice,
  Info,      \* Info[p]: the document of p; score[t] is 0 when text t misses it
  Tiebreaks, \* how OpenSearch may order, per request, what the sort leaves tied
  Bookmarks, \* the urls a visit may begin with
  PageSize, MaxBuckets,
  MaxOffset, \* the largest cursor the api accepts
  Window,    \* index.max_result_window of OpenSearch
  TopPrice, TopScore, \* at least every price and score
  MaxChanges,  \* bound: changes of the index
  Fickle,    \* bound: the products that come and go
  Broken     \* no walk

AnyBand == [lo |-> NoBound, hi |-> NoBound]

Url == [where : Slugs \union {Home}, q : Texts, sel : [Attributes -> SUBSET Values],
        band : Bands, stock : BOOLEAN, sort : Sorts, view : Views, page : Nat]

ASSUME BrowseAssumption ==
  /\ IsFiniteSet(Assortment) /\ Fickle \subseteq Assortment
  /\ Home \notin Slugs /\ Bookmarks \subseteq Url
  /\ "relevance" \in Sorts /\ "grid" \in Views /\ AnyBand \in Bands
  /\ PageSize \in Nat \ {0} /\ MaxBuckets \in Nat /\ MaxChanges \in Nat
  /\ MaxOffset \in Nat /\ Window \in Nat /\ TopPrice \in Nat /\ TopScore \in Nat
  /\ \A p \in Assortment :
       /\ Info[p].name \in Nat /\ Info[p].price \in Nat \union {NoPrice}
       /\ \A t \in Texts \ {Blank} : Info[p].score[t] \in Nat
  /\ NoPrice \notin Nat /\ Tiebreaks \subseteq [Assortment -> Nat]
  /\ Broken \notin Seq(Assortment)

VARIABLES
  listed,  \* products in the index
  url,     \* of the page on the screen; page 0 stands for none, or for a junk one
  matches, \* products its search found
  items,   \* those it shows
  failed,  \* its search was refused
  cut,     \* the version of the index that the page was cut from
  versions, \* of the index so far: an answer in the cache may stem from any
  changes, \* of the index so far
  walk     \* history: what a shopper saw from a first page on, or Broken

browseVars == <<listed, url, matches, items, failed, cut, versions, changes, walk, bar>>

-------------------------------------------------------------------------------
(* From the url to the page *)

Larger(m, n) == IF m > n THEN m ELSE n
Smaller(m, n) == IF m < n THEN m ELSE n

PageOf(u) == Larger(1, u.page)
Offset(u) == (PageOf(u) - 1) * PageSize

InBand(b, price) ==
  \/ b = AnyBand
  \/ /\ price # NoPrice
     /\ b.lo # NoBound => price >= b.lo
     /\ b.hi # NoBound => price <= b.hi

\* The query and the filters of u, all of which must hold, asked of version v of the
\* index; the values chosen of one attribute are alternatives.
Matching(u, v) == {p \in v :
  /\ u.q # Blank => Info[p].score[u.q] > 0
  /\ u.where # Home => Info[p].cat = u.where
  /\ \A a \in Attributes : u.sel[a] # {} => Info[p].attr[a] \in u.sel[a]
  /\ InBand(u.band, Info[p].price)
  /\ u.stock => Info[p].stock}

\* What a sort compares first; unpriced products come last both ways.
Key(q, sort, p) ==
  LET price == Info[p].price
  IN  CASE sort = "price-asc"  -> IF price = NoPrice THEN TopPrice + 1 ELSE price
        [] sort = "price-desc" -> IF price = NoPrice THEN TopPrice + 1 ELSE TopPrice - price
        [] sort = "name-asc"   -> 0
        [] OTHER -> IF q = Blank THEN 0 ELSE TopScore - Info[p].score[q]

\* The products a sort puts before p: those of a smaller key, then by name.
Ahead == [q \in Texts |-> [sort \in Sorts |-> [p \in Assortment |->
  {r \in Assortment : \/ Key(q, sort, r) < Key(q, sort, p)
                      \/ /\ Key(q, sort, r) = Key(q, sort, p)
                         /\ Info[r].name < Info[p].name}]]]

Before(u, p, r) == p \in Ahead[u.q][u.sort][r]

Tied(u, p, r) == ~Before(u, p, r) /\ ~Before(u, r, p)

\* Mutant of Precedes: the name does not decide what the sort leaves tied.
PrecedesWithoutName(u, t, p, r) ==
  LET key(x) == Key(u.q, u.sort, x)
  IN  key(p) < key(r) \/ (key(p) = key(r) /\ t[p] < t[r])

Precedes(u, t, p, r) == Before(u, p, r) \/ (Tied(u, p, r) /\ t[p] < t[r])

\* The api refuses the cursor, or OpenSearch the window.
TooDeep(u) == Offset(u) > MaxOffset \/ Offset(u) + PageSize > Window

\* Of what the search of u found, hits Offset + 1 .. Offset + PageSize.
Slice(u, t, found) ==
  LET rank == [p \in found |-> Cardinality({r \in found : Precedes(u, t, r, p)})]
  IN  [i \in 1 .. Smaller(PageSize, Larger(0, Cardinality(found) - Offset(u))) |->
        CHOOSE p \in found : rank[p] = Offset(u) + i - 1]

\* The answer comes from the cache or from the index; a refusal depends on the url
\* alone.
Render(u) ==
  /\ url' = u
  /\ failed' = TooDeep(u)
  /\ IF TooDeep(u)
     THEN matches' = {} /\ items' = <<>> /\ UNCHANGED cut
     ELSE \E v \in versions, t \in Tiebreaks :
            cut' = v /\ matches' = Matching(u, v) /\ items' = Slice(u, t, matches')

-------------------------------------------------------------------------------
(* The links and forms of the page on the screen *)

\* A filter that changes leads back to the first page.
Filtered(u) == [u EXCEPT !.page = 0]

TotalPages == Larger(1, (Cardinality(matches) + PageSize - 1) \div PageSize)

PageHref(n) == [url EXCEPT !.page = IF n = 1 THEN 0 ELSE n]

\* The numbers next to the current one, and the first and the last.
pageWindow(current, total) ==
  {1, total} \union (Larger(2, current - 2) .. Smaller(total - 1, current + 2))

\* Prev is disabled on the first page, Next on the last.
PageLinks ==
  IF TotalPages <= 1 THEN {}
  ELSE {PageHref(n) : n \in pageWindow(PageOf(url), TotalPages)}
         \union (IF PageOf(url) = 1 THEN {} ELSE {PageHref(Larger(1, PageOf(url) - 1))})
         \union (IF PageOf(url) = TotalPages THEN {}
                 ELSE {PageHref(Smaller(TotalPages, PageOf(url) + 1))})

\* Buckets count the products that the whole search found, its choice of values
\* of the attribute itself included.
Count(a, v) == Cardinality({p \in matches : Info[p].attr[a] = v})

Buckets(a) == {v \in Values :
  Count(a, v) > 0 /\ Cardinality({w \in Values : Count(a, w) > Count(a, v)}) < MaxBuckets}

\* Mutant of ToggleHref: the page stays.
ToggleHrefKeepingPage(a, v) ==
  [url EXCEPT !.sel[a] = IF v \in @ THEN @ \ {v} ELSE @ \union {v}]

ToggleHref(a, v) ==
  Filtered([url EXCEPT !.sel[a] = IF v \in @ THEN @ \ {v} ELSE @ \union {v}])

ToggleLinks == UNION {{ToggleHref(a, v) : v \in Buckets(a)} : a \in Attributes}

StockLinks == {Filtered([url EXCEPT !.stock = ~@])}

ClearBandLinks ==
  IF url.band = AnyBand THEN {} ELSE {Filtered([url EXCEPT !.band = AnyBand])}

\* "Clear all" leads to the bare path, without query, sort and view.
BareUrl(w) ==
  [where |-> w, q |-> Blank, sel |-> [a \in Attributes |-> {}], band |-> AnyBand,
   stock |-> FALSE, sort |-> "relevance", view |-> "grid", page |-> 0]

hasAnySelection ==
  (\E a \in Attributes : url.sel[a] # {}) \/ url.band # AnyBand \/ url.stock

ClearAllLinks == IF hasAnySelection THEN {BareUrl(url.where)} ELSE {}

SortLinks == {Filtered([url EXCEPT !.sort = s]) : s \in Sorts}

ViewLinks == {[url EXCEPT !.view = v] : v \in Views}

-------------------------------------------------------------------------------

\* A walk goes on through Next as long as its pages are cut from one version.
Walk(u) ==
  LET next == walk # Broken /\ cut' = cut /\ u = PageHref(PageOf(url) + 1)
  IN  walk' = CASE ~failed' /\ PageOf(u) = 1         -> items'
                [] ~failed' /\ PageOf(u) # 1 /\ next -> walk \o items'
                [] OTHER                             -> Broken

Show(u) == Render(u) /\ Walk(u) /\ UNCHANGED <<listed, versions, changes>>

\* A link changes the page in place, a form loads a new one.
Follow(u) == ~failed /\ Show(u) /\ Resync(url.q, u.q)

FollowPage     == \E u \in PageLinks      : Follow(u)
ToggleFacet    == \E u \in ToggleLinks    : Follow(u)
ToggleStock    == \E u \in StockLinks     : Follow(u)
ClearPrice     == \E u \in ClearBandLinks : Follow(u)
ClearAll       == \E u \in ClearAllLinks  : Follow(u)
SortBy         == \E u \in SortLinks      : Follow(u)
ViewAs         == \E u \in ViewLinks      : Follow(u)

ApplyPrice(b) ==
  ~failed /\ Show(Filtered([url EXCEPT !.band = b])) /\ Mount(url.q)

SubmitSearch ==
  ~failed /\ Show(Filtered([url EXCEPT !.q = value])) /\ Mount(value)

\* A product is indexed or deleted; the page stays as it is.
EditIndex(p) ==
  /\ changes < MaxChanges
  /\ listed' = IF p \in listed THEN listed \ {p} ELSE listed \union {p}
  /\ versions' = versions \union {listed'}
  /\ changes' = changes + 1
  /\ UNCHANGED <<url, matches, items, failed, cut, walk, bar>>

InBar ==
  /\ ~failed
  /\ \/ \E v \in Texts : Keystroke(v) \/ Suggest(v) \/ SuggestFails(v)
     \/ ClearButton \/ AskSuggestions
  /\ UNCHANGED <<listed, url, matches, items, failed, cut, versions, changes, walk>>

\* The first page of a visit; no product of the index is missing at first.
BrowseInit ==
  /\ listed = Assortment
  /\ url \in Bookmarks
  /\ failed = TooDeep(url)
  /\ cut = listed /\ versions = {listed}
  /\ matches = IF TooDeep(url) THEN {} ELSE Matching(url, cut)
  /\ IF TooDeep(url) THEN items = <<>> ELSE \E t \in Tiebreaks : items = Slice(url, t, matches)
  /\ changes = 0
  /\ walk = IF PageOf(url) = 1 /\ ~failed THEN items ELSE Broken
  /\ value = url.q
  /\ timer = (url.q \notin Short) /\ flights = {} /\ answer = Nobody
  /\ loading = FALSE /\ missed = FALSE

BrowseNext ==
  \/ FollowPage \/ ToggleFacet \/ ToggleStock \/ ClearPrice \/ ClearAll
  \/ SortBy \/ ViewAs \/ SubmitSearch \/ InBar
  \/ \E b \in Bands : ApplyPrice(b)
  \/ \E p \in Fickle : EditIndex(p)

BrowseSpec == BrowseInit /\ [][BrowseNext]_browseVars

-------------------------------------------------------------------------------
(* Properties *)

\* A shopper who goes from the first page to the last by Next sees each product that
\* the search found exactly once and in the order asked for, if the pages are cut
\* from one version of the index, now or long ago, and unless the sort leaves two
\* products tied: their order is decided anew for every page.  The pages of a walk
\* may well differ in age, each search having its own answer in the cache; then
\* nothing is promised (query-builder.ts:88, pagination.tsx:55, api-graphql.ts:82).
WalkComplete ==
  (walk # Broken /\ PageOf(url) = TotalPages
     /\ \A p, r \in matches : Tied(url, p, r) => p = r)
  => /\ Len(walk) = Cardinality(matches)
     /\ {walk[i] : i \in DOMAIN walk} = matches
     /\ \A i \in 2 .. Len(walk) : Before(url, walk[i - 1], walk[i])

\* From a page that shows products, no link to a page, a view, a sort order or
\* another value of a facet leads to a page without, and a facet says how many
\* there will be, if the target is cut from the version that the page was cut from,
\* whatever the index holds by then; a page that OpenSearch does not serve, being
\* too deep, is not promised.  (facet-sidebar.tsx:292, toolbar.tsx:70,
\* pagination.tsx:24)
LinksLead ==
  items # <<>> =>
    /\ \A u \in PageLinks \union SortLinks \union ViewLinks \union ClearBandLinks :
         TooDeep(u) \/ Cardinality(Matching(u, cut)) > Offset(u)
    /\ \A a \in Attributes : \A v \in Buckets(a) \ url.sel[a] :
         LET u == ToggleHref(a, v)
         IN  /\ Cardinality(Matching(u, cut)) > Offset(u)
             /\ url.sel[a] = {} => Cardinality(Matching(u, cut)) = Count(a, v)
================================================================================
