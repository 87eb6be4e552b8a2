# Verification of the commerce platform

TLA+ models of the multi-tenant commerce platform in `src/`: a NestJS api (a
modular monolith that may run as several processes), Postgres, Redis and
OpenSearch behind it, and a Next.js storefront in front. TLC checks the models
on small instances; TLAPS proves the theorems for every value of the constants.

## The system

### Components, their state and how they interact

| Component | State | Operations | Talks to |
|---|---|---|---|
| orders: checkout (`packages/modules/orders/src/checkout.service.ts`) | `orders.orders`, `order_lines`, `order_promotion_snapshot`, `idempotency_keys` | `checkout()`: lookup of the key, cart, prices and config, promotion selection, reservation of a use, one transaction, deletion of the cart, event | cart and pricing by injected services; `orders.created` on the bus |
| pricing (`packages/modules/pricing`) | `prices`, `promotions` with `uses_count`, `tenant_config` | totals, promotion selector, promotion and price editing, atomic increment of uses | `pricing.*` events on the bus |
| cart (`packages/modules/cart`) | one JSON value per cart in Redis with a TTL of 24 h | create, add, set quantity, coupon, delete: load, change, save | pricing (totals, promotion validation) |
| storefront cart (`apps/storefront/src/lib/cart.ts`, `app/cart`) | a cookie with the cart id, the page each tab shows | server actions | cart and orders over HTTP |
| webhook outbox (`packages/shared/security/src/webhook-outbox.repository.ts`, `apps/api/src/storefront-webhook.module.ts`) | `audit.webhook_outbox` | enqueue on `search.*` and `pricing.*` events, claim, deliver, retry with backoff, give up, sweep | the storefront's revalidate route over HTTP |
| revalidate route (`apps/storefront/src/app/api/revalidate/route.ts`) | the last 512 delivery ids, the Next.js data cache | deduplicate, turn an event into tags to drop | the cached reads |
| cached reads (`apps/storefront/src/lib/api-graphql.ts`, `cache-tags.ts`, the pages) | one entry per query, variables and tenant, with tags and an age | fetch, keep, serve once more when expired | GraphQL of the api |
| browse pages (`app/page.tsx`, `app/c/[category]`, toolbar, facets, pagination, search bar) | the url; text, timer, fetch and list of the search bar | links and forms, debounced suggestions | search queries |
| search indexer (`packages/modules/search/src/indexer`) | one index per tenant with a strict mapping | handlers of `catalog.*` and of the price event | OpenSearch; `search.product.indexed` and `.removed` on the bus |
| search queries (`packages/modules/search/src/search`) | none | query building, cursors, suggestions | OpenSearch |
| catalog (`packages/modules/catalog`) | `products`, `attribute_definitions` | CRUD with validation, keyset pagination | `catalog.*` on the bus, hooks |
| event bus, idempotency tracker, hooks (`packages/shared/event-bus`, `packages/shared/hooks`) | subscribers, processed ids | fire-and-forget publish, subscribe, `runOnce`, dispatch | everyone |
| database (`packages/shared/database`) | the pool, the session setting `app.tenant_id`, `__migrations` | bind a connection to a request, migrate under an advisory lock | everyone |
| seed (`apps/seed`) | its place in the program, the tenant set on its connection | fill index, catalog and pricing of each tenant, statement by statement, then by the api | everyone, beside a live api |
| audit log, readiness, throttling, tenant resolution, branding, capabilities | little or none | | |

Behaviour that is hard to test, in short (`PROJECT.json` lists every hazard at
its line): requests and processes interleave at every `await`; checkout spans
two stores and code inside and outside a transaction; the bus neither orders nor
repeats; webhooks are delivered at least once by workers whose claims expire
while they still deliver; the index shows a write later than it acknowledges it;
a storefront page is rendered from one store and dropped on news of another;
what a page shows, what its tags name, which events there are and what they drop
are written down in four places; a page of hits is cut from an order that each
request computes anew; the seed commits statement by statement and is run again
when it fails.

### What makes each component correct

* Checkout: one order per idempotency key, answers that are backed by what is
  durable, no promotion beyond its cap, no cart lost without an order, every
  request answered.
* Totals: the best single promotion whatever the order of the candidates,
  rounding half to even, totals that add up.
* Cart: the cookie names a cart that is there, and the cart holds what its
  shopper was told it holds.
* Outbox: nothing lost in silence, repetition only when the route forgot, the
  queue comes to rest.
* Indexer: once nothing is on its way, cached pages show what the index holds, and
  the index what the catalog holds.
* Cached reads: no copy outlives the delivery of the events that concern it, no
  delivery drops what it need not, and whatever was lost the hour heals.
* Browse pages: a walk through the pages of one version of the index sees every hit
  once and in order, links lead to pages with products, suggestions are those of the
  text in the bar.
* Migrations: each file once, in order and wholly or not at all; who listens has
  all of them; replicas queue, and all come to listen.
* Connections: a handler runs under its tenant's setting; a connection changes
  hands without a trace, and who waits for one gets it.
* Catalog: one product per sku, pages of a listing that neither repeat nor skip a
  product that stays.
* Seed: run to its end it leaves table, index, prices and configuration of every
  tenant in agreement, whatever earlier runs left, but for the documents of products
  whose handler failed or whose event died.

## Modules

| Module | Models | Checked by | Proved in |
|---|---|---|---|
| `OrderLedger` | what orders promise: an order and its key become durable in one step | as a property of `Checkout` | `CheckoutProofs` |
| `Checkout` | `checkout()` with carts, prices, promotions and tables | `Checkout.cfg` | `CheckoutProofs` |
| `Totals` | the money math | `Totals.cfg` | `CheckoutProofs` |
| `Cart` | tabs with their pages, cookie and server actions of a shopper, cart service, Redis | `Cart.cfg` | `CartProofs` |
| `Outbox` | table, workers and route of the webhooks | `Outbox.cfg`, `OutboxRounds.cfg` | `OutboxProofs` |
| `Indexer` | from a catalog edit to a storefront page | `Indexer.cfg`, `IndexerPrice.cfg` | `IndexerProofs` |
| `Pages` | the cached reads of the storefront, their tags, events and deliveries | `Pages.cfg` | `PagesProofs` |
| `SearchBar` | text, timer, fetches and list of the search bar | with `Browse` | `PagesProofs` |
| `Browse` | urls, links and forms of the browse pages, and the search they show; extends `SearchBar` | `Browse.cfg` | `PagesProofs` |
| `Catalog` | the admin api of products, attribute definitions and prices | with `Seed` | `CatalogProofs` |
| `Seed` | the seed program beside a live api; extends `Catalog` | `Catalog.cfg` | `CatalogProofs` |
| `Migrations` | replicas that migrate one database on boot | `Migrations.cfg` | `MigrationsProofs` |
| `Connections` | the pool, the tenant binding of a connection, the handler that uses it | `Connections.cfg` | `ConnectionsProofs` |

`MC<Module>` holds the small constants of a module's runs. Definitions named
"Mutant of X" are plausible bugs of `X`; replacing `X` by one of them makes the
property it belongs to fail in its run, which shows that the property says
something about the code. They take no part in the specifications.

How the modules meet: `Checkout` takes from `Cart` only that its operations load,
change and save a cart, and from `Totals` only that some promotion is selected;
`Cart` takes from `Checkout` only that an order is placed for the contents it
loaded. `Indexer` relies on `Outbox` for announcements that arrive late, repeated
or out of order, and so does `Pages`, which in turn takes from `Indexer` that the
index shows a change before it is announced; `Checkout` relies on `Connections`
for one connection per request. `Catalog` leaves to `Indexer` what the indexer does
with an event, and `Browse` how the index got its documents.

### Checkout and OrderLedger

`pc[r]` is the `await` request `r` has reached; each action of `Serve` is what
runs from there to the next. Statements outside `BEGIN..COMMIT` are durable at
once (every request has its own connection): `Reserve` takes the use of a
promotion and `DeleteCart` the cart. What the transaction writes is invisible
until `Commit`, but its insert of the key makes others wait (`KeyLocked`, how
Postgres treats a primary key that an open transaction inserted). `Abort` is any
failing statement and the death of the process, at every step. Around it,
`EditLoad`/`EditSave` are the cart operations (load, change, unconditional
save), `Lapse` the TTL, `UpdatePromotion` and `UpdatePrices` the admin api.
Baskets, prices and the discount are abstract values: which promotion is best is
`Totals`' business, so `Select` may choose any promotion the selector would not
refuse. `taken`, `peak` and `lapsed` are history that the properties speak of.

`OrderLedger` hides all of it: an order and its key appear together, never
change, and a client is told only of an order that exists. `ImplementsLedger`
maps `answer[r]` to the order of `reply[r]` and everything else to itself.

Run `Checkout`: two requests with one key or with none, one cart, one promotion
whose cap is edited between 1 and none at any time, failures at every step. One
cart, one key and one use are where requests meet; a transaction waits for at
most one key, so two requests show every wait. The theorems cover any number.
Fairness is weak, of `Serve(r)`, which the event loop and Postgres justify: a
statement that waits for no lock is executed. Nothing is assumed of clients,
merchants or failures.

### Totals

The loops over lines and candidates are steps (`SumLine`, `Consider`), the rest
operators named as in the code. Integers are exact; the code's numbers are too
up to 2^53 cents. The run takes every ordered choice of up to three of nine
promotions, which covers each reason not to apply, ties, and percentages over
100 % (which `PATCH` lets pass), on carts and rates whose percentages lie below, on and
above half a cent.

### Cart

A tab runs its server actions one after the other, two tabs interleave at every
`await`. `shown[t]` is the cart on the page of tab `t`, and `Offered(t)` what its
buttons ask for: the quantity buttons of a line ask for one more or one less than
*the page* says, so a page that another tab outdated sends an outdated quantity or
names a line that is gone. `Render` opens or reloads the page; an answer brings
a new one unless the action was refused. An action works with the cookie its
request carried (`Start`); the cookie it sets reaches the browser with its response
(`Answer`). `Create`, `Load`, `Save` are the calls to the api, each of which reads or
replaces the whole value in Redis; `LoadOrder`, `PlaceOrder` and `DeleteCart` are the
checkout. `Fail` ends an action at any call, `Lapse` is the TTL of 24 hours (the
cookie lives 30 days). `basket` and `receipts` are what the shopper believes
after the answers so far; `overlapped` records that an action began before another
ended. An action that finds no cookie where it needs one changes nothing and is
left out; so is a second click in a tab whose first is not answered, which Next.js
would queue.

Run `Cart`: two tabs, two products, five actions, two carts, one lapse or
failure. Five actions are enough to fill a cart, order it and fill another
while a second tab still shows the first, or to check out twice while another tab
adds; the bound of two carts allows one replacement.

### Outbox

One action per transaction of the repository and per `await` of the worker.
There is no clock: `BecomeDue` may come at any time after a claim, because the
visibility timeout (2 s) is shorter than a fetch may take (5 s) and a batch is
sent one row after the other. `strays` are requests whose sender gave up but
which the storefront still receives. `Handle` is the route: marking and
invalidating happen without an `await` in between. `forgotten` counts the
repetitions that a restart of the storefront, or the bound of its memory,
excuses. `MaxFaults` bounds crashes and failing statements of a behaviour; lost
answers, timeouts and restarts of the storefront are not bounded.

Runs. `Outbox`: two rows, two workers with batches of two, a memory of one id,
so that ids are evicted and redelivered. `OutboxRounds`: one row, two attempts a
round, one sweep, hence two rounds, one crash. Fairness: the timers of each
worker keep firing and awaits end (`Work(w)`), time passes (`BecomeDue`), the
sweep timer fires; nothing is assumed of the storefront, which may fail for
ever.

### Indexer

An edit is the statement and the event it publishes right after. The bus starts
each handler on its own, so handlers of different events interleave at each
`await` and run in any order; `pc[e]` is the `await` of the handler of `e`. `doc` is
the document written, `shown` what a search sees since the last `Refresh`, and a
write with `refresh: 'wait_for'` returns once a refresh covered it (`unseen`).
`Announce` is `search.product.indexed`, which travels through the outbox and
arrives at any later time (`Deliver`). A product gets its id from the insert, so that
nothing names it before `Create`.

Cached reads do not interact, so one page is followed (`followed`): `Read(r)` is the
api's answer to a fetch, cut from the index as it is then, and `Store(r)` the moment
Next.js keeps it, of which there may be several at once; `FetchFails(r)` stores nothing
and leaves the copy. (A GraphQL error comes with status 200, and Next.js may keep
that body; the next expiry or delivery ends it, and it shows nothing of the index.)
`Deliver` drops the copy; a fetch that has read before it is not stopped, and if what it
read is no longer so it counts as `Overtaken`, for which the code has no remedy but
the expiry (`Pages` has it). Three things the code does not prevent are excused, each
exactly where it happened: the overtaken fetch; `misordered`, products that an
edit's handler wrote after a later edit's had, which `InSync` excuses; and `misread`,
products that another handler wrote between a handler's look for the category it
leaves and its write, which `CategoriesFresh` excuses. `PagesFresh` holds for
those too. Edits that overlap in any other way are covered by all three.

Run `Indexer`: one product, two categories, three edits, one fetch at a time, one
fault. Handlers of different products share nothing but the refresh, two categories
are needed for a move, and three edits for a move there and back or a price between two
edits; the theorems cover any number of fetches. `IndexerPrice` needs neither
overlap nor fault.

### Migrations

`pc[r]` is the statement replica `r` runs next. A replica takes its modules in
the order Nest initialises them, each under the advisory lock (`Lock`, `Unlock`):
`Prepare`, then for each file `Check`, and `Run`, `Record`, `Commit` if the ledger
lacks it. `StatementFails` and `Crash` come at any statement; the lock goes with
the session, and a `COMMIT` on its way may or may not have succeeded. What a file
does to the tables is left out. `altered` are files that were edited after they were
applied (the checksum), `ran` counts completed runs.

Run `Migrations`: three replicas, so that two queue behind a third; the two
modules in either order; a fresh database, one that an earlier release left, one
with an edited file; one fault. Fairness is weak, of `Step(r)`: statements end,
the lock is granted, and a process that exited is started again.

### Connections

Two strands per request: `mw[r]`, the middleware that reserves a connection,
sets `app.tenant_id`, waits for the response to close, resets and releases; and
`hd[r]`, the handler, which runs from `SetTenant` on and reaches its connection
through the binding. They are joined only by the response, which closes when it
is sent or when the client goes away (`GoAway`), and in the second case the
handler goes on. `setting`, `txn` and `before` are the session of a connection:
its setting, whose transaction is open, and what a `ROLLBACK` restores. `tainted`
is history: connections that went back to the pool under a running handler, or
after a `RESET` that failed; `UnderOwnTenant` and `CleanHandover` speak of the
others. `deaf` marks requests that closed before the middleware listened, whose
connection is never given back; `Served` promises a connection to those who wait
as long as none is lost that way.

Run `Connections`: two requests of any two tenants on one connection (the pool
has ten: what matters is that there are more requests than connections), two
statements per handler, one failing statement of the middleware. Two statements
are enough for a transaction that rolls back. Fairness is weak, of the middleware
and of the handler of each request: statements end, handlers do not loop.

### Pages

Cached reads do not interact, so the module follows one of them, chosen at first
(`entry`): a query, what it is about, and the tenant in its header. `Visit`, `Read`
and `Store` are the life of a fetch, two of which may be under way for one entry;
`FetchFails` leaves what was there; `Expire` is the `revalidate` of the read, after
which the old copy is served once more. `EditProduct`, `EditConfig` and
`EditPromotion` are changes: each outdates the copies that show it
(`ShowsProduct`, `ShowsConfig`: what the queries ask for) and records its event
(`Announce`), or fails to and warns. `Deliver` drops the tags of an event
(`Invalidated`: the switch of the route), once or again. `EditByFormerApi` is an api
of an earlier release, whose events name no category. A copy that an event
outdated is `"stale"` while the event is owed, `"unannounced"` if it was never
recorded, `"raced"` if the delivery passed the fetch that is about to store it.

Run `Pages`: two tenants, one product, three categories, two of which spell one
slug, two fetches, two changes, one fault. Two changes are a move and another
product event, or events of two kinds. Fairness is weak, of `Expire`, `Visit`,
`Read` and `Store`: time passes, shoppers keep coming, the api answers; nothing is
assumed of deliveries. `revalidatePath` of the route is left out: it drops more than
the tags do, so `StaleWhileOwed` holds without it.

### Browse and SearchBar

A browse page shows the answer to its search: the api's query (`Matching`), order
(`Precedes`), cursor (`Offset`, `TooDeep`) and page (`Slice`). The storefront keeps one
answer per search, each of an age of its own, so `Render` may cut a page from any
version that the index has had (`versions`), whatever other pages were cut from; which
copies are dropped when is the business of `Pages`. All a shopper can do is a link or a form whose url was computed when the page was rendered:
`PageLinks`, `ToggleLinks`, `StockLinks`, `ClearBandLinks`, `ClearAllLinks`,
`SortLinks`, `ViewLinks`, `ApplyPrice`, `SubmitSearch`. `EditIndex` changes the index
between two pages. `cut` is the version that the page was cut from, and `walk` history:
what a shopper saw who goes on by Next through pages cut from one version. Nothing is
promised of a walk, or of a link, from one version into another: both properties are
about pages of one version, now or long ago. How OpenSearch scores a text is a constant, and how it orders what the sort leaves
tied is chosen per request among `Tiebreaks`. `SearchBar` is the component of that
name: debounce, aborted fetches, late answers; it stays mounted when a link
changes the url (`Resync`) and is mounted anew when a form loads a page (`Mount`).

Run `Browse`: five products on pages of two, so that a walk has three pages, two
of them with one name; cursors up to 4 and a window of 6, so that pages lie within,
beyond one and beyond both limits; two sort orders, one facet of two values, one price
band; one edit of the index; three texts, one of them too short. It starts at a
bare page, a category, and two urls that no link makes. Safety only: nothing in
a browser must happen.

### Catalog and Seed

`pc[r]` is the `await` an admin request has reached; every statement commits by
itself. `Look` and `Insert` (or `Write`) are the look for the sku and the statement
that the unique index decides, `Seek` and `Define` the same for attribute codes,
`Validate` the look at the definitions, `Publish` the event with the hooks, `ListPage`
the pages of a listing, asked for one after the other while rows come and go. Events
live in the memory of the process that published them: `Handle` is the indexer, as
`Indexer` has it, which may fail without a second attempt (`HandlerFails`), and `Die` the
death of a process with any requests, at any `await`, and any events.

`Seed` adds the program: `Loops` are the four loops of `main.ts` over the fixtures, the
last of them the one that `SEED_VIA_API` turns on, with a step for each statement or
call it awaits; `loop`, `turn` and `step` say where it is. `DeleteIndex`,
`BulkIndex`, `Bind`, `Wipe` and the inserts are statements, `Call` and `Answered` the
calls of the api, each served by the `Catalog`. `setting` is `app.tenant_id` of its
connection, which row level security reads in every statement; `Reconnect` loses it.
`Abort` ends the program at any step; it may be started again (`Start`). A bulk
request that reports errors is only warned about. `configured` stands for the rows of
configuration, theme and promotions, which are wiped and written alike. `clean` is
history: no admin request since the start, and no batch refused. `lost` is too: of
such a run, the products whose event came to nothing, by a handler that failed or a
process that died. The api answered 201 for them, and the seed ends well; they are
exactly what `SeedAgrees` says the index lacks.

Run `Catalog`: two tenants, the second only seeded; a budget of two that runs of
the seed and admin requests share, so two admins race, an admin meets the seed, or
the seed follows a run that died anywhere. Three skus, one attribute, pages of one
product. Uuids that a run draws are constants; ids of the table are ordered as the
listing orders them. Safety only: whether the seed is run again is the operator's.

## What is proved

Every result holds for all constants that satisfy the named assumptions: finite sets
of requests, rows and products, caps and page sizes that are positive, nulls distinct
from values, each tenant in one fixture of the seed.

* `CheckoutProofs`. `TypeCorrect`; from it `OrderInvariant`, the inductive
  strengthening: a request past `insertKey` holds its key alone (`KeysHeld`), and
  what `pc` and `reply` say agrees with the tables (`Journey`). `OneOrderPerKey`
  alone is not inductive, since nothing in it forbids a second request from standing at
  `commit` with the key of another. `KeyCorrect`, `AnswersCorrect`, `CartCorrect`
  follow. `BudgetCorrect` counts: the requests that took a use are at most
  `uses`, `uses` never exceeds the largest cap, and an order with a promotion took its
  use. `CheckoutImplementsLedger` maps each action to a step of the ledger or a
  stutter. About `Totals`: `MulBpsCorrect` (rounding, for every amount and rate),
  `ReceiptCorrect`, `SelectionCorrect`, by invariants of the loops (the best of
  the candidates seen so far).
* `CartProofs`. `TypeCorrect`, with what an action has at each step; `CookieCorrect`
  rests on who knows a cart: until the response that sets its cookie arrives only
  the tab that created it, so no checkout can delete it; and a deleted cart is named
  by the cookie only while a response that clears the cookie is on its way.
  `BasketCorrect` keeps the books: as long as actions come one after the other
  (`InTurn`) and nothing failed, what the cart lacks of the basket, or has
  beyond it, is the one action under way, at the step it has reached (`BasketInv`).
* `OutboxProofs`. `TypeCorrect` with the owed work of each worker; `OnceCorrect`
  from a tally: each id was performed as often as it was forgotten, plus once
  if it is remembered; `DeliveryCorrect`, since a worker only reaches
  `markDelivered` after the route answered.
* `IndexerProofs`. `FreshnessCorrect` by the invariant that a copy, or a fetch about to
  be stored, that is stale or will be at the next refresh is chased by an event not yet
  delivered (`Chased`). `ListingsCorrect` adds that an announcement to come names the
  category a product left as well as the one it entered (`CategoriesChased`), as
  long as each handler about to write knows where the document is (`Informed`);
  that is what a foreign write in between would break, hence `misread`.
  `SyncCorrect`: the latest edit of a product carries what the catalog holds, and its
  handler has yet to write or the index agrees already (`Carried`); an older
  handler that writes after it is what `misordered` records.
* `MigrationsProofs`. `LedgerCorrect`, `ServeCorrect`, `QueueCorrect`: whoever is
  between `prepare` and `unlock` holds the lock, so what it read of the ledger
  stays true until it commits; `Behind` says what a replica has behind it at
  each statement, which the ledger only ever confirms.
* `ConnectionsProofs`. `TenantCorrect` and `HandoverCorrect` from an invariant of
  six parts: a connection is held by the one request whose binding it is in
  (`Owned`), a handler runs on a connection still held unless that is tainted
  (`Started`), and while it runs the setting is pinned, now and after a `ROLLBACK`
  (`Pinned`, `HoldersTransaction`).
* `PagesProofs`. `TypeCorrect`; `StaleCorrect` by the invariant that a copy, or a
  fetch under way, that a change outdated is chased by an owed event of its
  tenant whose dropped tags meet its own (`Chased`). That such an event is there when
  a product or the config changes is `ProductTagged` and `CapabilitiesTagged`: for
  every kind of entry, what it shows is covered by a tag. `WarmCorrect` from
  `TagsApart`: tags of two tenants, or of categories with two slugs, differ.
  About `Browse` and `SearchBar`: `SuggestionsCorrect`, since only the text in the bar
  is ever asked for (`Asking`); `LinksCorrect`, since a page that shows products was
  cut from hits that every link's search finds again in the version it was cut from
  (`PageInv`), and the pages are as many as it takes (`PageCount`); `WalkCorrect`, since hits that no sort leaves tied
  have ranks that number them from 0 to their count (`RankNumbers`, by counting),
  each page holds the hits of its ranks, and a walk those of all pages so far
  (`Gone`, `FurtherPage`). That the hits and the query are those of the walk's
  first page is part of the invariant (`Walked`), which a page of another version
  would end.

* `CatalogProofs`. `TypeCorrect`, with what a request asks for and the calls of
  the seed. `SkuCorrect`: every statement that changes a row respects the unique
  index. `ListingCorrect`: the cursor of a walk has met every product up to it
  that stayed and none beyond (`Met`, `Listed`). `SeedCorrect` from the
  invariant `SeedInv`: wherever the seed is, in which loop and turn, what the loops
  behind it wrote of each tenant stands (`Kept`: index, rows, definitions, prices,
  configuration), while tenants ahead of it may hold what earlier runs left, and
  no request is under way but the seed's own call (`Undisturbedly`). A row of the
  tenant is in the index, or its event waits, or it is in `lost` (`Indexed`); `Behind`
  and `LossKept` say that a failing handler and a dying process move it from the
  second to the third.

Only model-checked: liveness (`RequestsAnswered`, `QueueDrains`, `ReplicasServe`,
`Served`, `CurrentInTheEnd`), which the prover cannot reach under fairness. Every
other property of a passing run is a theorem.

## What the code does not prevent

Some hazards the code meets without a defence. The models reach them, and the properties
excuse them, each by a piece of history and no further than it says:

| Hazard | Excused by | What is checked around it |
|---|---|---|
| an older edit's document is written last | `misordered` in `InSync` | every other interleaving; pages show what the index holds |
| a handler's look for the old category is outdated when it writes | `misread` in `CategoriesFresh` | every other interleaving |
| a delivery overtakes a fetch | `Overtaken` in `Indexer`, `"raced"` in `Pages` | `CurrentInTheEnd`: the expiry heals it |
| an event dies with its process, a handler fails | `faults`, `lost` | nothing else is missing |
| two cart operations at once lose one; an absolute quantity from an outdated page | `overlapped` in `BasketKept`; counted as asked for | who waits for answers loses nothing |
| a late save puts the ordered cart back | no property forbids it | the order stands, the cookie is alive |
| a client leaves while its handler runs, or before the middleware listens | `tainted`, `deaf` | every other connection and request |
| products tie; pages of a walk stem from two versions; pages too deep | `Tied`, `cut`, `TooDeep` | every other walk and link |

## Where documents and code differ

One run ends in a counterexample; `PROJECT.json` quotes the lines.

* `IndexerPrice`: a product that is priced before it is indexed is indexed without the
  price. The price event finds no document to patch and skips; the document is built
  from the catalog's event alone, which does not know `pricing.prices`. An edit that
  rebuilds the document drops a patched price in the same way.

Further disagreements that the models show but no run repeats (that of the themes is
read in the files alone):

* The loser of a race for an Idempotency-Key is answered with an error;
  `packages/modules/orders/README.md:38` says "re-fetch existing".
* A use of a promotion is taken before `BEGIN` and not given back when the
  checkout fails; `promotions.repository.ts:106` says "inside checkout's tx". Money
  is computed before `BEGIN` as well; `checkout.service.ts:59` says inside.
* Two processes may hold a claim on one row, since a batch outlasts the visibility
  timeout; `webhook-outbox.repository.ts:56` says they must never. A row with an
  error may well have arrived, and a sweep may re-queue it
  (`webhook-outbox.repository.ts:163`, `0005_outbox_dead_letter.sql:14`).
* Edits of one product that overlap may leave the older document and a stale
  category listing. A fetch that a delivery overtook leaves a stale page for up to an
  hour, and pages of one walk may differ in age.
* The seed ends well when the indexer failed on a product it posted: the api answered
  201 before the handler ran, and nothing retries it.
* A product ahead of its attribute's mapping is refused; the deferral that
  `tenant-search-client.ts:54` relies on does not exist.
* A failed `reserve` or `set_config` leaves the request without an answer;
  `tenant-binding.middleware.ts:38` says the error surfaced. A handler whose client
  went away runs on under whatever the connection is set to next;
  `tenant-binding.ts:20` says every query inherits the tenant.
* `storefront-webhook.module.ts:130` says the insert runs on the request's
  connection and `webhook-outbox.repository.ts:67` the opposite, which is what the
  code does. `product-indexer.service.ts:217` says a failed read "costs a category
  listing one extra rebuild", while the category the product left goes unannounced.
* Every submission of the checkout form makes a fresh key, so the key never
  meets a second submission; `actions.ts:90` calls the table "the second line of
  defence".
* `cart.ts:68` says that the cookie of a cart that lapsed is dropped; the code
  runs while a page renders, where Next.js lets no cookie change. The quantity
  buttons send an absolute quantity computed from the page (`cart-view.tsx:78`),
  which another tab may have outdated.
* A database that skips the release which copied the themes loses them: pricing
  drops its column before branding looks (`0004_drop_theme.sql`, branding's
  `0001_init.sql`).
* `tenant-binding.middleware.ts:13` says the connection is released when the
  response closes; when the client left before the middleware listens (`:33`) it is
  reserved for good.
* Sorting by falling price puts products without a price last;
  `query-builder.ts:82` says first.
* `search-params.ts:12` says the values of one attribute are alternatives. They
  are in a url, but facet counts come from the filtered query, so once a value is
  chosen the others are no longer offered.
* `query-builder.ts` accepts cursors up to 10 000, OpenSearch refuses a window that
  ends beyond 10 000, and the next cursor and the links to pages go beyond both.
  A page beyond the last of a search of one page or none has no link back.
* No sort ends in a unique field, so a walk through pages may repeat and skip
  products whose sort leaves them tied.
* A suggestion fetch that fails leaves the suggestions of the text before, and
  "No matches." shows while a new text waits for its timer.
* The loser of a race for a sku or an attribute code is answered 500; the losers
  that the look catches are answered 409 and 400. `PATCH` of a promotion skips the
  check of its action that `POST` makes.

## Plan

Done: the modules above with their proofs. Next, in order:

1. Creating and validating promotions and tenant configuration, composed with
   `Totals`.
2. The audit log, whose rows are written by a subscriber of every request.

## Not modelled

* Resolving a tenant, authentication, throttling, configuration, health: they
  decide a request by itself and keep no state that another part relies on.
  Readiness probes and the response cache likewise.
* The audit log: one insert per request, queued on the request's connection and
  not awaited, so that it runs before the `RESET`; its failure is logged and nothing
  reads the rows.
* Creating and validating promotions: a promotion is one inserted row, and
  validation reads one and answers. Their effect is in `Totals` and `Checkout`.
  Reading orders back.
* The tracker of the event bus: nothing in a process delivers an event twice, so
  nothing it forgets matters. Hooks are part of `Publish`; the demonstration hooks
  log.
* Branding's resolver, which reads a row, and the fields of capabilities, which
  are constants of a release; both are cached reads of `Pages`.
* Layout of components and formatting of money. The store is Next.js: that it
  queues the second click of a tab is taken from it, and so is how it keeps tags.
* How OpenSearch analyses and scores a text.
* The benchmark that ends the seed, generated code, deployment files.

All models but `Connections`, `Pages`, `Catalog` and `Seed` are of one tenant.
