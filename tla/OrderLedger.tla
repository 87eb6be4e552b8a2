----------------------------- MODULE OrderLedger -----------------------------
(***************************************************************************)
(* What the orders module promises, with the carts, the prices, the        *)
(* promotions and the database hidden: an order and the idempotency key it *)
(* was placed under become durable in one step, nothing of either changes  *)
(* afterwards, and a client is only ever told of an order that exists.     *)
(* Checkout.tla implements it.                                             *)
(***************************************************************************)
CONSTANTS Requests,   \* checkout requests; an order is named by its request
          Keys,       \* idempotency keys
          Orders,     \* what an order may say
          NoKey,      \* a request sent without the header
          NoRequest,  \* a key no order was placed under
          NoOrder     \* a request that placed no order

VARIABLES key,     \* key[r]: the idempotency key r carries, or NoKey
          orders,  \* orders[r]: the order r placed, or NoOrder
          owner,   \* owner[k]: the request whose order key k belongs to
          answer   \* answer[r]: the request whose order r was answered with

vars == <<key, orders, owner, answer>>

Init ==
  /\ key \in [Requests -> Keys \union {NoKey}]
  /\ orders = [r \in Requests |-> NoOrder]
  /\ owner  = [k \in Keys |-> NoRequest]
  /\ answer = [r \in Requests |-> NoRequest]

\* r places an order: its key, if it carries one, must be free and is taken.
Place(r) ==
  /\ orders[r] = NoOrder
  /\ answer[r] = NoRequest
  /\ \E o \in Orders : orders' = [orders EXCEPT ![r] = o]
  /\ IF key[r] = NoKey
     THEN owner' = owner
     ELSE /\ owner[key[r]] = NoRequest
          /\ owner' = [owner EXCEPT ![key[r]] = r]
  /\ UNCHANGED <<key, answer>>

\* r is told of the order it placed itself.
Confirm(r) ==
  /\ answer[r] = NoRequest
  /\ orders[r] # NoOrder
  /\ answer' = [answer EXCEPT ![r] = r]
  /\ UNCHANGED <<key, orders, owner>>

\* r is told of the order its key was placed under before, and places none.
Replay(r) ==
  /\ answer[r] = NoRequest
  /\ orders[r] = NoOrder
  /\ key[r] # NoKey
  /\ owner[key[r]] # NoRequest
  /\ answer' = [answer EXCEPT ![r] = owner[key[r]]]
  /\ UNCHANGED <<key, orders, owner>>

Next == \E r \in Requests : Place(r) \/ Confirm(r) \/ Replay(r)

Spec == Init /\ [][Next]_vars
==============================================================================
