------------------------------- MODULE Checkout -------------------------------
(***************************************************************************)
(* The checkout of the orders module                                       *)
(* (packages/modules/orders/src/checkout.service.ts) together with the     *)
(* state it shares with others: the Redis carts the shopper keeps editing, *)
(* the prices and promotions the merchant keeps editing, and the tables    *)
(* orders.orders and orders.idempotency_keys.                              *)
(*                                                                         *)
(* Requests of one tenant run concurrently, on one or several api          *)
(* processes, and interleave wherever the code awaits.  Every request has  *)
(* its own reserved connection, so a statement outside BEGIN..COMMIT is    *)
(* durable as soon as it ran.  pc[r] is the await r has reached.           *)
(*                                                                         *)
(* Data is abstracted to what the properties tell apart: a basket stands   *)
(* for the lines and the coupon of a cart, an element of Prices for the    *)
(* price rows and the tax configuration in force, and the discount a       *)
(* promotion yields is left to Totals.tla, so that the selector may here    *)
(* choose any promotion it would not refuse.                               *)
(***************************************************************************)
EXTENDS Integers, FiniteSets

CONSTANTS Requests,   \* checkout requests; an order is named by its request
          Keys,       \* values of the Idempotency-Key header
          Carts,      \* cart ids
          Baskets,    \* non-empty contents of a cart
          Promos,     \* promotion ids
          Caps,       \* the values an admin gives max_uses
          Prices,     \* states of the price list and the tenant config
          NoKey, NoRequest, NoOrder, NoCart, NoPromo, NoPrice,
          Empty,      \* the contents of a cart without lines
          Unlimited   \* max_uses IS NULL

ASSUME RequestsFinite == IsFiniteSet(Requests)
ASSUME CapsAssumption == Caps \subseteq Nat \ {0} /\ Unlimited \notin Int
ASSUME NullsAssumption ==
  /\ NoKey \notin Keys
  /\ NoRequest \notin Requests
  /\ NoCart \notin Baskets \union {Empty}
  /\ Empty \notin Baskets
  /\ NoPromo \notin Promos
  /\ NoPrice \notin Prices

VARIABLES
  \* requests
  pc,         \* pc[r]: the step of checkout() that r runs next
  key,        \* key[r]: the header r was sent with, or NoKey
  cartOf,     \* cartOf[r]: the cart r checks out
  lines,      \* lines[r]: the cart as r loaded it
  quote,      \* quote[r]: the prices and config as r read them
  promo,      \* promo[r]: appliedPromotion
  reply,      \* reply[r]: the answer r's client got
  \* postgres
  orders,     \* orders[r]: the committed order of r with its lines and snapshot
  owner,      \* owner[k]: the committed row of idempotency_keys
  uses,       \* uses[p]: uses_count
  maxUses,    \* maxUses[p]: max_uses
  live,       \* live[p]: active and not expired
  price,      \* price rows and tenant config
  \* redis and the bus
  carts,      \* carts[c]: the stored cart
  editing,    \* editing[c]: a cart operation holds a copy of c it will save
  published,  \* requests whose orders.created was published
  \* history
  taken,      \* taken[r]: the promotion of which r took a use
  peak,       \* peak[p]: the largest max_uses ever in force
  lapsed      \* carts whose TTL ran out

reqVars   == <<pc, key, cartOf, lines, quote, promo, reply>>
promoVars == <<uses, maxUses, live, peak>>
cartVars  == <<carts, editing, lapsed>>
tables    == <<orders, owner>>
vars == <<pc, key, cartOf, lines, quote, promo, reply, orders, owner, uses,
          maxUses, live, price, carts, editing, published, taken, peak, lapsed>>

-------------------------------------------------------------------------------
(* Types *)

Contents == Baskets \union {Empty}

Order == [key : Keys \union {NoKey}, cart : Carts, lines : Baskets,
          price : Prices, promo : Promos \union {NoPromo}]

ASSUME NoOrderAssumption == NoOrder \notin Order

\* "failed" stands for any error response and for a connection that was lost.
Reply == [status : {"none", "created", "replayed", "raced", "failed"},
          order : Requests \union {NoRequest}]

NoReply == [status |-> "none", order |-> NoRequest]

InFlight == {"lookup", "load", "price", "select", "reserve", "begin",
             "insertKey", "commit", "deleteCart", "publish", "respond"}

TypeOK ==
  /\ pc \in [Requests -> InFlight \union {"idle", "done"}]
  /\ key \in [Requests -> Keys \union {NoKey}]
  /\ cartOf \in [Requests -> Carts]
  /\ lines \in [Requests -> Contents \union {NoCart}]
  /\ quote \in [Requests -> Prices \union {NoPrice}]
  /\ promo \in [Requests -> Promos \union {NoPromo}]
  /\ reply \in [Requests -> Reply]
  /\ orders \in [Requests -> Order \union {NoOrder}]
  /\ owner \in [Keys -> Requests \union {NoRequest}]
  /\ uses \in [Promos -> Nat]
  /\ maxUses \in [Promos -> Caps \union {Unlimited}]
  /\ live \in [Promos -> BOOLEAN]
  /\ price \in Prices
  /\ carts \in [Carts -> Contents \union {NoCart}]
  /\ editing \in [Carts -> BOOLEAN]
  /\ published \subseteq Requests
  /\ taken \in [Requests -> Promos \union {NoPromo}]
  /\ peak \in [Promos -> Caps \union {Unlimited}]
  /\ lapsed \subseteq Carts

\* Which header and which cart a request carries is the client's choice; two
\* requests with one key are a client's retry, sent while the first may still
\* be running.
Init ==
  /\ pc = [r \in Requests |-> "idle"]
  /\ key \in [Requests -> Keys \union {NoKey}]
  /\ cartOf \in [Requests -> Carts]
  /\ lines = [r \in Requests |-> NoCart]
  /\ quote = [r \in Requests |-> NoPrice]
  /\ promo = [r \in Requests |-> NoPromo]
  /\ reply = [r \in Requests |-> NoReply]
  /\ orders = [r \in Requests |-> NoOrder]
  /\ owner = [k \in Keys |-> NoRequest]
  /\ uses = [p \in Promos |-> 0]
  /\ maxUses \in [Promos -> Caps \union {Unlimited}]
  /\ live = [p \in Promos |-> TRUE]
  /\ price \in Prices
  /\ carts = [c \in Carts |-> Empty]
  /\ editing = [c \in Carts |-> FALSE]
  /\ published = {}
  /\ taken = [r \in Requests |-> NoPromo]
  /\ peak = maxUses
  /\ lapsed = {}

-------------------------------------------------------------------------------
(* checkout(), one action per await *)

Goto(r, label) == pc' = [pc EXCEPT ![r] = label]

Answer(r, status, order) ==
  /\ Goto(r, "done")
  /\ reply' = [reply EXCEPT ![r] = [status |-> status, order |-> order]]

Start(r) ==
  /\ pc[r] = "idle"
  /\ Goto(r, IF key[r] = NoKey THEN "load" ELSE "lookup")
  /\ UNCHANGED <<key, cartOf, lines, quote, promo, reply, tables, promoVars,
                 price, cartVars, published, taken>>

\* An order already placed under the key is the answer.
Lookup(r) ==
  /\ pc[r] = "lookup"
  /\ IF owner[key[r]] # NoRequest
     THEN Answer(r, "replayed", owner[key[r]])
     ELSE Goto(r, "load") /\ UNCHANGED reply
  /\ UNCHANGED <<key, cartOf, lines, quote, promo, tables, promoVars, price,
                 cartVars, published, taken>>

\* Mutant of Load: the check that the cart has lines is dropped.
LoadUnchecked(r) ==
  /\ pc[r] = "load"
  /\ Goto(r, "price")
  /\ lines' = [lines EXCEPT ![r] = carts[cartOf[r]]]
  /\ UNCHANGED <<key, cartOf, quote, promo, reply, tables, promoVars, price,
                 cartVars, published, taken>>

\* Mutant of Load: the cart is fetched with GETDEL.
LoadTaking(r) ==
  /\ pc[r] = "load"
  /\ carts' = [carts EXCEPT ![cartOf[r]] = NoCart]
  /\ IF carts[cartOf[r]] \in {NoCart, Empty}
     THEN Answer(r, "failed", NoRequest) /\ UNCHANGED lines
     ELSE /\ Goto(r, "price")
          /\ lines' = [lines EXCEPT ![r] = carts[cartOf[r]]]
          /\ UNCHANGED reply
  /\ UNCHANGED <<key, cartOf, quote, promo, tables, promoVars, price, editing,
                 lapsed, published, taken>>

\* A missing cart is a 404, an empty one a 400.
Load(r) ==
  /\ pc[r] = "load"
  /\ IF carts[cartOf[r]] \in {NoCart, Empty}
     THEN Answer(r, "failed", NoRequest) /\ UNCHANGED lines
     ELSE /\ Goto(r, "price")
          /\ lines' = [lines EXCEPT ![r] = carts[cartOf[r]]]
          /\ UNCHANGED reply
  /\ UNCHANGED <<key, cartOf, quote, promo, tables, promoVars, price, cartVars,
                 published, taken>>

Price(r) ==
  /\ pc[r] = "price"
  /\ Goto(r, "select")
  /\ quote' = [quote EXCEPT ![r] = price]
  /\ UNCHANGED <<key, cartOf, lines, promo, reply, tables, promoVars, price,
                 cartVars, published, taken>>

HasRoom(p) == maxUses[p] = Unlimited \/ uses[p] < maxUses[p]

\* Whether the conditions of a promotion hold for the basket is not modelled:
\* any promotion the selector would not refuse may be the best one, or none.
Candidates == {p \in Promos : live[p] /\ HasRoom(p)}

Select(r) ==
  /\ pc[r] = "select"
  /\ \E p \in Candidates \union {NoPromo} :
       /\ promo' = [promo EXCEPT ![r] = p]
       /\ Goto(r, IF p = NoPromo THEN "begin" ELSE "reserve")
  /\ UNCHANGED <<key, cartOf, lines, quote, reply, tables, promoVars, price,
                 cartVars, published, taken>>

\* Mutant of Reserve: the UPDATE has no WHERE uses_count < max_uses.
ReserveUnguarded(r) ==
  /\ pc[r] = "reserve"
  /\ Goto(r, "begin")
  /\ uses' = [uses EXCEPT ![promo[r]] = @ + 1]
  /\ taken' = [taken EXCEPT ![r] = promo[r]]
  /\ UNCHANGED <<key, cartOf, lines, quote, promo, reply, tables, maxUses, live,
                 peak, price, cartVars, published>>

\* tryIncrementUsesCount: one UPDATE, outside any transaction.
Reserve(r) ==
  /\ pc[r] = "reserve"
  /\ Goto(r, "begin")
  /\ IF HasRoom(promo[r])
     THEN /\ uses' = [uses EXCEPT ![promo[r]] = @ + 1]
          /\ taken' = [taken EXCEPT ![r] = promo[r]]
          /\ UNCHANGED promo
     ELSE /\ promo' = [promo EXCEPT ![r] = NoPromo]
          /\ UNCHANGED <<uses, taken>>
  /\ UNCHANGED <<key, cartOf, lines, quote, reply, tables, maxUses, live, peak,
                 price, cartVars, published>>

\* BEGIN and the inserts into orders, order_lines and order_promotion_snapshot,
\* which nobody else sees before COMMIT.
Begin(r) ==
  /\ pc[r] = "begin"
  /\ Goto(r, IF key[r] = NoKey THEN "commit" ELSE "insertKey")
  /\ UNCHANGED <<key, cartOf, lines, quote, promo, reply, tables, promoVars,
                 price, cartVars, published, taken>>

\* Mutant of KeyLocked: the row is locked from the moment a request wants it.
KeyLockedEarly(r) ==
  \E q \in Requests \ {r} : pc[q] \in {"insertKey", "commit"} /\ key[q] = key[r]

\* Postgres makes an insert wait while another open transaction has inserted
\* the same primary key.
KeyLocked(r) ==
  \E q \in Requests \ {r} : pc[q] = "commit" /\ key[q] = key[r]

\* Mutant of InsertKey: ON CONFLICT DO NOTHING.
InsertKeyIgnoringConflict(r) ==
  /\ pc[r] = "insertKey"
  /\ ~KeyLocked(r)
  /\ Goto(r, "commit")
  /\ UNCHANGED <<key, cartOf, lines, quote, promo, reply, tables, promoVars,
                 price, cartVars, published, taken>>

\* Mutant of InsertKey: a lock timeout is reported as a lost race.
InsertKeyImpatient(r) ==
  /\ pc[r] = "insertKey"
  /\ IF KeyLocked(r) \/ owner[key[r]] # NoRequest
     THEN Answer(r, "raced", NoRequest)
     ELSE Goto(r, "commit") /\ UNCHANGED reply
  /\ UNCHANGED <<key, cartOf, lines, quote, promo, tables, promoVars, price,
                 cartVars, published, taken>>

InsertKey(r) ==
  /\ pc[r] = "insertKey"
  /\ ~KeyLocked(r)
  /\ IF owner[key[r]] # NoRequest
     THEN Answer(r, "raced", NoRequest)      \* 23505: IdempotencyRace, ROLLBACK
     ELSE Goto(r, "commit") /\ UNCHANGED reply
  /\ UNCHANGED <<key, cartOf, lines, quote, promo, tables, promoVars, price,
                 cartVars, published, taken>>

\* Mutant of Commit: the row of idempotency_keys is not in the transaction.
CommitWithoutKey(r) ==
  /\ pc[r] = "commit"
  /\ Goto(r, "deleteCart")
  /\ orders' = [orders EXCEPT ![r] =
                 [key |-> key[r], cart |-> cartOf[r], lines |-> lines[r],
                  price |-> quote[r], promo |-> promo[r]]]
  /\ UNCHANGED <<key, cartOf, lines, quote, promo, reply, owner, promoVars, price,
                 cartVars, published, taken>>

Commit(r) ==
  /\ pc[r] = "commit"
  /\ Goto(r, "deleteCart")
  /\ orders' = [orders EXCEPT ![r] =
                 [key |-> key[r], cart |-> cartOf[r], lines |-> lines[r],
                  price |-> quote[r], promo |-> promo[r]]]
  /\ owner' = IF key[r] = NoKey THEN owner ELSE [owner EXCEPT ![key[r]] = r]
  /\ UNCHANGED <<key, cartOf, lines, quote, promo, reply, promoVars, price,
                 cartVars, published, taken>>

\* A failed DEL is logged and forgotten.
DeleteCart(r) ==
  /\ pc[r] = "deleteCart"
  /\ Goto(r, "publish")
  /\ \/ carts' = [carts EXCEPT ![cartOf[r]] = NoCart]
     \/ UNCHANGED carts
  /\ UNCHANGED <<key, cartOf, lines, quote, promo, reply, tables, promoVars,
                 price, editing, lapsed, published, taken>>

\* findOrderOrThrow and events.publish
Publish(r) ==
  /\ pc[r] = "publish"
  /\ orders[r] # NoOrder
  /\ Goto(r, "respond")
  /\ published' = published \union {r}
  /\ UNCHANGED <<key, cartOf, lines, quote, promo, reply, tables, promoVars,
                 price, cartVars, taken>>

Respond(r) ==
  /\ pc[r] = "respond"
  /\ Answer(r, "created", r)
  /\ UNCHANGED <<key, cartOf, lines, quote, promo, tables, promoVars, price,
                 cartVars, published, taken>>

Serve(r) ==
  \/ Lookup(r) \/ Load(r) \/ Price(r) \/ Select(r) \/ Reserve(r) \/ Begin(r)
  \/ InsertKey(r) \/ Commit(r) \/ DeleteCart(r) \/ Publish(r) \/ Respond(r)

\* A statement fails, a price or the config is missing, or the process dies:
\* an open transaction is rolled back, what was written outside it stays.
Abort(r) ==
  /\ pc[r] \in InFlight
  /\ Answer(r, "failed", NoRequest)
  /\ UNCHANGED <<key, cartOf, lines, quote, promo, tables, promoVars, price,
                 cartVars, published, taken>>

-------------------------------------------------------------------------------
(* The shopper and the merchant *)

\* Every operation on a cart reads the stored cart, changes the copy and saves
\* it: the save does not look whether the cart is still there.
EditLoad(c) ==
  /\ ~editing[c]
  /\ carts[c] # NoCart
  /\ editing' = [editing EXCEPT ![c] = TRUE]
  /\ UNCHANGED <<reqVars, tables, promoVars, price, carts, lapsed, published,
                 taken>>

EditSave(c) ==
  /\ editing[c]
  /\ editing' = [editing EXCEPT ![c] = FALSE]
  /\ \E b \in Contents : carts' = [carts EXCEPT ![c] = b]
  /\ UNCHANGED <<reqVars, tables, promoVars, price, lapsed, published, taken>>

\* Redis drops a cart 24 hours after its last save.
Lapse(c) ==
  /\ carts[c] # NoCart
  /\ carts' = [carts EXCEPT ![c] = NoCart]
  /\ lapsed' = lapsed \union {c}
  /\ UNCHANGED <<reqVars, tables, promoVars, price, editing, published, taken>>

LargerCap(a, b) ==
  IF a = Unlimited \/ b = Unlimited THEN Unlimited ELSE IF a < b THEN b ELSE a

\* PATCH /admin/promotions/:id, and the clock passing expires_at.
UpdatePromotion(p) ==
  /\ \E cap \in Caps \union {Unlimited}, on \in BOOLEAN :
       /\ maxUses' = [maxUses EXCEPT ![p] = cap]
       /\ live' = [live EXCEPT ![p] = on]
       /\ peak' = [peak EXCEPT ![p] = LargerCap(@, cap)]
  /\ UNCHANGED <<reqVars, tables, uses, price, cartVars, published, taken>>

UpdatePrices ==
  /\ price' \in Prices
  /\ UNCHANGED <<reqVars, tables, promoVars, cartVars, published, taken>>

Environment ==
  \/ \E c \in Carts : EditLoad(c) \/ EditSave(c) \/ Lapse(c)
  \/ \E p \in Promos : UpdatePromotion(p)
  \/ UpdatePrices

\* All requests answered: the system may stop.
Next ==
  \/ \E r \in Requests : Start(r) \/ Serve(r) \/ Abort(r)
  \/ Environment

Spec == Init /\ [][Next]_vars

\* The event loop and the database serve every request that is not waiting for
\* another transaction; nothing is assumed of clients, merchants and failures.
FairSpec == Spec /\ \A r \in Requests : WF_vars(Serve(r))

-------------------------------------------------------------------------------
(* Properties *)

Placed(r) == orders[r] # NoOrder

\* An Idempotency-Key never produces two orders, and a committed key row and a
\* committed order always point at each other, whichever of them an interrupted
\* or racing request wrote (README of orders: "never produces two orders").
OneOrderPerKey ==
  /\ \A r, q \in Requests :
       Placed(r) /\ Placed(q) /\ orders[r].key = orders[q].key
         => r = q \/ orders[r].key = NoKey
  /\ \A k \in Keys, r \in Requests :
       owner[k] = r <=> Placed(r) /\ orders[r].key = k

ReplyBacked(r) ==
  CASE reply[r].status = "created" ->
         reply[r].order = r /\ Placed(r) /\ r \in published
    [] reply[r].status = "replayed" ->
         /\ key[r] # NoKey
         /\ reply[r].order = owner[key[r]]
         /\ reply[r].order \in Requests /\ Placed(reply[r].order)
         /\ ~Placed(r)
    [] reply[r].status = "raced" ->
         /\ key[r] # NoKey
         /\ owner[key[r]] \in Requests \ {r}
         /\ ~Placed(r)
    [] OTHER -> TRUE

\* What a client was told is backed by what is durable: a 201 names an order
\* of its own that was committed and announced, a 200 replay names the one order
\* of its key, and an idempotency race is only reported once the other order is
\* committed, so that a retry with the same key finds it.  Only committed orders
\* are announced.
AnswersBacked ==
  /\ \A r \in Requests : ReplyBacked(r)
  /\ \A r \in published : Placed(r)

PlacedWith(p) == {r \in Requests : Placed(r) /\ orders[r].promo = p}

\* However many checkouts race for the last use of a promotion, the orders that
\* carry its discount never outnumber the largest max_uses it ever had.
PromoBudget ==
  \A p \in Promos :
    peak[p] # Unlimited => Cardinality(PlacedWith(p)) <= peak[p]

\* A cart that is gone was ordered or has lapsed: a checkout that fails, loses
\* a race or dies before COMMIT leaves the shopper's cart alone.
CartGoneMeansOrdered ==
  \A c \in Carts :
    carts[c] = NoCart
      => c \in lapsed \/ \E r \in Requests : Placed(r) /\ orders[r].cart = c

\* Every request that was started is answered, also one whose insert has to wait
\* for another transaction that holds its key.
RequestsAnswered ==
  \A r \in Requests : pc[r] \in InFlight ~> pc[r] = "done"

\* The orders module implements the ledger.
Ledger == INSTANCE OrderLedger WITH
  Orders <- Order,
  answer <- [r \in Requests |-> reply[r].order]

ImplementsLedger == Ledger!Spec
===============================================================================
