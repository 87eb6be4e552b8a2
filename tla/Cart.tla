--------------------------------- MODULE Cart ---------------------------------
(***************************************************************************)
(* A shopper's cart from the browser to Redis: the cart page and what its  *)
(* buttons ask for (apps/storefront/src/app/cart/cart-view.tsx), the       *)
(* cookie that names the cart (lib/cart.ts), the server actions            *)
(* (app/cart/actions.ts) and the service and repository of the api         *)
(* (packages/modules/cart/src).                                            *)
(*                                                                         *)
(* One browser has several tabs on one cookie jar.  A tab runs its server  *)
(* actions one after the other; those of different tabs interleave at each *)
(* await.  An action sees the cookie the browser sent with its request,    *)
(* and the cookie it sets reaches the browser with its response.  What a   *)
(* shopper can ask for is what the page of the tab offers, which another   *)
(* tab may have outdated.                                                  *)
(*                                                                         *)
(* The service keeps a cart as one value of Redis, which every operation   *)
(* reads, changes and writes back whole.  A cart is the quantity of each   *)
(* product, 0 where it has no line, and its coupon; prices, names and      *)
(* timestamps are left out.  What checkout does between reading the cart   *)
(* and committing the order is Checkout.tla; the fresh Idempotency-Key of  *)
(* each submission never meets another, so it has no part here.            *)
(***************************************************************************)
EXTENDS Integers, Sequences, FiniteSets

CONSTANTS Tabs, Carts, Products,
          NoCart,      \* no cookie; no cart stored under an id; no cart shown
          Keep,        \* a response that sets no cookie
          NoAction,
          MaxActions,  \* bound: server actions of a behaviour
          MaxFaults    \* bound: lapsed carts and failures of a behaviour

ASSUME CartAssumption ==
  /\ NoCart \notin Carts /\ Keep \notin Carts \union {NoCart}
  /\ MaxActions \in Nat /\ MaxFaults \in Nat

VARIABLES
  stored,     \* stored[c]: the value of Redis, or NoCart
  used,       \* ids given to carts (random ones never repeat)
  cookie,     \* the browser's cookie: a cart id, or NoCart
  pc, action, \* what each tab's server action does, and how far it is
  cartOf,     \* cartOf[t]: the cart id the action works on
  copy,       \* copy[t]: the cart as the api loaded it
  setCookie,  \* setCookie[t]: the cookie the response of t sets, or Keep
  ordered,    \* the contents of the orders placed, in their order
  shown,      \* shown[t]: the cart on tab t's page, or NoCart
  \* history: what the shopper believes, and what excuses a difference
  basket,     \* the contents after the answers so far
  receipts,   \* the baskets the shopper saw become orders
  overlapped, \* some action began before another ended
  actions, faults

api     == <<stored, used, ordered>>
browser == <<cookie, shown, basket, receipts>>
bounds  == <<overlapped, actions, faults>>
vars == <<stored, used, cookie, pc, action, cartOf, copy, setCookie, ordered,
          shown, basket, receipts, overlapped, actions, faults>>

Contents == [lines : [Products -> Nat], coupon : BOOLEAN]

NoLines   == [p \in Products |-> 0]
EmptyCart == [lines |-> NoLines, coupon |-> FALSE]

Action ==
  [kind : {"add", "set"}, product : Products, qty : Nat]
    \union [kind : {"coupon", "remove", "checkout"}]

ASSUME NullsAssumption == NoCart \notin Contents /\ NoAction \notin Action

Init ==
  /\ stored = [c \in Carts |-> NoCart]
  /\ used = {}
  /\ cookie = NoCart
  /\ pc = [t \in Tabs |-> "idle"]
  /\ action = [t \in Tabs |-> NoAction]
  /\ cartOf = [t \in Tabs |-> NoCart]
  /\ copy = [t \in Tabs |-> NoCart]
  /\ setCookie = [t \in Tabs |-> Keep]
  /\ ordered = <<>>
  /\ shown = [t \in Tabs |-> NoCart]
  /\ basket = EmptyCart
  /\ receipts = <<>>
  /\ overlapped = FALSE
  /\ actions = 0 /\ faults = 0

-------------------------------------------------------------------------------
(* What an operation makes of a cart *)

\* Mutant of MergeLine: adding again replaces the quantity.
MergeLineReplacing(lines, p, q) == [lines EXCEPT ![p] = q]

MergeLine(lines, p, q) == [lines EXCEPT ![p] = @ + q]

\* A quantity of 0 removes the line.
SetLine(lines, p, q) == [lines EXCEPT ![p] = q]

Changed(cart, a) ==
  CASE a.kind = "add"    -> [cart EXCEPT !.lines = MergeLine(@, a.product, a.qty)]
    [] a.kind = "set"    -> [cart EXCEPT !.lines = SetLine(@, a.product, a.qty)]
    [] a.kind = "coupon" -> [cart EXCEPT !.coupon = TRUE]
    [] a.kind = "remove" -> [cart EXCEPT !.coupon = FALSE]

\* What the api refuses with a 404.
Refused(cart, a) ==
  \/ cart = NoCart
  \/ a.kind = "set" /\ a.qty > 0 /\ cart.lines[a.product] = 0

-------------------------------------------------------------------------------
(* The cart page *)

\* getCart and the page: without a cookie, a cart or a line, it says so and has
\* no buttons.  getCart would also drop the cookie of a cart that is gone, but it
\* runs while a page renders, where Next.js lets no cookie change: the call throws.
Page(ck) ==
  IF ck = NoCart \/ stored[ck] = NoCart \/ stored[ck].lines = NoLines
  THEN NoCart ELSE stored[ck]

\* A product page, which any tab can go to, adds one at a time.
AddToCartButton == [kind : {"add"}, product : Products, qty : {1}]

\* The buttons of a line: one less, one more than the page says, or remove.
CartLineRow(p, n) == [kind : {"set"}, product : {p}, qty : {0, n - 1, n + 1}]

CouponBlock(cart) == [kind : {IF cart.coupon THEN "remove" ELSE "coupon"}]

CheckoutButton == [kind : {"checkout"}]

CartView(cart) ==
  CouponBlock(cart) \union CheckoutButton \union
    UNION {CartLineRow(p, cart.lines[p]) : p \in {x \in Products : cart.lines[x] > 0}}

Offered(t) ==
  AddToCartButton \union IF shown[t] = NoCart THEN {} ELSE CartView(shown[t])

\* A tab goes to the cart page, or reloads it.
Render(t) ==
  /\ pc[t] = "idle"
  /\ shown' = [shown EXCEPT ![t] = Page(cookie)]
  /\ UNCHANGED <<api, cookie, basket, receipts, pc, action, cartOf, copy,
                 setCookie, bounds>>

-------------------------------------------------------------------------------
(* The server actions *)

Goto(t, label) == pc' = [pc EXCEPT ![t] = label]

\* The label at which a runs, given the cookie it was sent with: only
\* addToCart and applyCoupon create a cart, the others return or throw.
Begins(a) ==
  IF cookie = NoCart THEN "create" ELSE IF a.kind = "checkout" THEN "order" ELSE "load"

Start(t) ==
  /\ pc[t] = "idle" /\ actions < MaxActions
  /\ \E a \in Offered(t) :
       /\ cookie = NoCart => a.kind \in {"add", "coupon"}
       /\ action' = [action EXCEPT ![t] = a]
       /\ Goto(t, Begins(a))
       /\ shown' = [shown EXCEPT ![t] = IF a.kind = "add" THEN NoCart ELSE @]
  /\ cartOf' = [cartOf EXCEPT ![t] = cookie]
  /\ setCookie' = [setCookie EXCEPT ![t] = Keep]
  /\ overlapped' = (overlapped \/ \E u \in Tabs : pc[u] # "idle")
  /\ actions' = actions + 1
  /\ UNCHANGED <<api, cookie, basket, receipts, copy, faults>>

\* ensureCartId: POST /storefront/carts
Create(t) ==
  /\ pc[t] = "create"
  /\ \E c \in Carts \ used :
       /\ stored' = [stored EXCEPT ![c] = EmptyCart]
       /\ used' = used \union {c}
       /\ cartOf' = [cartOf EXCEPT ![t] = c]
       /\ setCookie' = [setCookie EXCEPT ![t] = c]
  /\ Goto(t, "load")
  /\ UNCHANGED <<ordered, browser, action, copy, bounds>>

\* requireCart, and setItemQty's look for the line
Load(t) ==
  /\ pc[t] = "load"
  /\ IF Refused(stored[cartOf[t]], action[t])
     THEN Goto(t, "refused") /\ UNCHANGED copy
     ELSE /\ Goto(t, "save")
          /\ copy' = [copy EXCEPT ![t] = stored[cartOf[t]]]
  /\ UNCHANGED <<api, browser, action, cartOf, setCookie, bounds>>

Save(t) ==
  /\ pc[t] = "save"
  /\ stored' = [stored EXCEPT ![cartOf[t]] = Changed(copy[t], action[t])]
  /\ Goto(t, "done")
  /\ UNCHANGED <<used, ordered, browser, action, cartOf, copy, setCookie, bounds>>

\* Mutant of LoadOrder: a missing cart is not noticed.
LoadOrderUnchecked(t) ==
  /\ pc[t] = "order"
  /\ IF stored[cartOf[t]] # NoCart /\ stored[cartOf[t]].lines = NoLines
     THEN Goto(t, "refused") /\ UNCHANGED copy
     ELSE /\ Goto(t, "place")
          /\ copy' = [copy EXCEPT ![t] = stored[cartOf[t]]]
  /\ UNCHANGED <<api, browser, action, cartOf, setCookie, bounds>>

\* POST /storefront/checkout: reads the cart ...
LoadOrder(t) ==
  /\ pc[t] = "order"
  /\ IF stored[cartOf[t]] = NoCart \/ stored[cartOf[t]].lines = NoLines
     THEN Goto(t, "refused") /\ UNCHANGED copy
     ELSE /\ Goto(t, "place")
          /\ copy' = [copy EXCEPT ![t] = stored[cartOf[t]]]
  /\ UNCHANGED <<api, browser, action, cartOf, setCookie, bounds>>

\* ... commits the order ...
PlaceOrder(t) ==
  /\ pc[t] = "place"
  /\ ordered' = Append(ordered, [cart |-> cartOf[t], contents |-> copy[t]])
  /\ Goto(t, "delete")
  /\ UNCHANGED <<stored, used, browser, action, cartOf, copy, setCookie, bounds>>

\* Mutant of DeleteCart: the cookie is left alone.
DeleteCartOnly(t) ==
  /\ pc[t] = "delete"
  /\ stored' = [stored EXCEPT ![cartOf[t]] = NoCart]
  /\ Goto(t, "done")
  /\ UNCHANGED <<used, ordered, browser, action, cartOf, copy, setCookie, bounds>>

\* ... deletes the cart, or fails to; then the action clears the cookie.
DeleteCart(t) ==
  /\ pc[t] = "delete"
  /\ \/ stored' = [stored EXCEPT ![cartOf[t]] = NoCart]
     \/ UNCHANGED stored
  /\ setCookie' = [setCookie EXCEPT ![t] = NoCart]
  /\ Goto(t, "done")
  /\ UNCHANGED <<used, ordered, browser, action, cartOf, copy, bounds>>

\* What the shopper takes the answer to a to mean.
Expected(a) ==
  CASE a.kind = "add"      -> [basket EXCEPT !.lines[a.product] = @ + a.qty]
    [] a.kind = "set"      -> [basket EXCEPT !.lines[a.product] = a.qty]
    [] a.kind = "coupon"   -> [basket EXCEPT !.coupon = TRUE]
    [] a.kind = "remove"   -> [basket EXCEPT !.coupon = FALSE]
    [] a.kind = "checkout" -> EmptyCart

\* The page that comes with an answer: a checkout ends on the order's page or an
\* error, what an edit revalidates is rendered anew, and what was refused is not.
Answered(t, ck) ==
  IF action[t].kind \in {"add", "checkout"} THEN NoCart
  ELSE IF pc[t] = "refused" THEN shown[t] ELSE Page(ck)

\* The response arrives: its cookie also if the action threw.
Answer(t) ==
  /\ pc[t] \in {"done", "refused"}
  /\ Goto(t, "idle")
  /\ cookie' = IF setCookie[t] = Keep THEN cookie ELSE setCookie[t]
  /\ IF pc[t] = "refused"
     THEN UNCHANGED <<basket, receipts>>
     ELSE /\ basket' = Expected(action[t])
          /\ receipts' = IF action[t].kind = "checkout" THEN Append(receipts, basket)
                         ELSE receipts
  /\ shown' = [shown EXCEPT ![t] = Answered(t, cookie')]
  /\ action' = [action EXCEPT ![t] = NoAction]
  /\ cartOf' = [cartOf EXCEPT ![t] = NoCart]
  /\ copy' = [copy EXCEPT ![t] = NoCart]
  /\ setCookie' = [setCookie EXCEPT ![t] = Keep]
  /\ UNCHANGED <<api, bounds>>

\* A statement fails, a process dies or the connection is lost: what was done
\* stays, and the browser learns nothing.
Fail(t) ==
  /\ pc[t] # "idle" /\ faults < MaxFaults
  /\ faults' = faults + 1
  /\ Goto(t, "idle")
  /\ action' = [action EXCEPT ![t] = NoAction]
  /\ cartOf' = [cartOf EXCEPT ![t] = NoCart]
  /\ copy' = [copy EXCEPT ![t] = NoCart]
  /\ setCookie' = [setCookie EXCEPT ![t] = Keep]
  /\ UNCHANGED <<api, browser, overlapped, actions>>

\* A cart lapses 24 hours after its last save, the cookie after 30 days.
Lapse(c) ==
  /\ stored[c] # NoCart /\ faults < MaxFaults
  /\ faults' = faults + 1
  /\ stored' = [stored EXCEPT ![c] = NoCart]
  /\ UNCHANGED <<used, ordered, browser, pc, action, cartOf, copy, setCookie,
                 overlapped, actions>>

Next ==
  \/ \E t \in Tabs :
       \/ Start(t) \/ Create(t) \/ Load(t) \/ Save(t)
       \/ LoadOrder(t) \/ PlaceOrder(t) \/ DeleteCart(t) \/ Answer(t) \/ Fail(t)
       \/ Render(t)
  \/ \E c \in Carts : Lapse(c)

Spec == Init /\ [][Next]_vars

-------------------------------------------------------------------------------
(* Properties *)

TypeOK ==
  /\ stored \in [Carts -> Contents \union {NoCart}]
  /\ used \subseteq Carts
  /\ cookie \in used \union {NoCart}
  /\ pc \in [Tabs -> {"idle", "create", "load", "save", "order", "place",
                      "delete", "done", "refused"}]
  /\ action \in [Tabs -> Action \union {NoAction}]
  /\ cartOf \in [Tabs -> used \union {NoCart}]
  /\ copy \in [Tabs -> Contents \union {NoCart}]
  /\ setCookie \in [Tabs -> used \union {NoCart, Keep}]
  /\ ordered \in Seq([cart : Carts, contents : Contents])
  /\ shown \in [Tabs -> Contents \union {NoCart}]
  /\ basket \in Contents /\ receipts \in Seq(Contents)
  /\ overlapped \in BOOLEAN
  /\ actions \in 0 .. MaxActions /\ faults \in 0 .. MaxFaults

Quiet == \A t \in Tabs : pc[t] = "idle"

\* However the tabs' actions and checkouts interleave: when none is under way and
\* nothing lapsed or failed, the cookie names a cart that is there, so the next
\* action of the shopper does not meet a 404.
CookieAlive ==
  Quiet /\ faults = 0 /\ cookie # NoCart => stored[cookie] # NoCart

InCart == IF cookie = NoCart THEN EmptyCart ELSE stored[cookie]

\* A shopper who waits for each answer has in the cart exactly what the answers
\* add up to, and got exactly the orders of the baskets that were checked out,
\* through carts that are created, deleted and replaced on the way.
BasketKept ==
  Quiet /\ faults = 0 /\ ~overlapped =>
    /\ InCart = basket
    /\ [n \in 1 .. Len(ordered) |-> ordered[n].contents] = receipts

===============================================================================
