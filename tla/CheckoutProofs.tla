---------------------------- MODULE CheckoutProofs ----------------------------
(***************************************************************************)
(* Proofs about Checkout, for any number of requests, keys, carts and      *)
(* promotions, and about the money math it runs (Totals), for every cart,  *)
(* list of candidates and tax rate.                                        *)
(***************************************************************************)
EXTENDS Checkout, Totals, FiniteSetTheorems, TLAPS

\* The steps after which a request has read its cart, and its prices.
PastLoad  == {"price", "select", "reserve", "begin", "insertKey", "commit",
              "deleteCart", "publish", "respond"}
PastPrice == PastLoad \ {"price"}

Committed == {"deleteCart", "publish", "respond"}

\* What the step a request has reached says of what it has read so far.
Progress ==
  \A r \in Requests :
    /\ pc[r] \in {"lookup", "insertKey"} => key[r] # NoKey
    /\ pc[r] \in PastLoad => lines[r] \in Baskets
    /\ pc[r] \in PastPrice => quote[r] \in Prices
    /\ pc[r] = "reserve" => promo[r] # NoPromo

TypeInv == TypeOK /\ Progress

LEMMA InitTypeInv == Init => TypeInv
BY DEF Init, TypeInv, TypeOK, Progress, InFlight, PastLoad, PastPrice, Contents,
       Reply, NoReply

\* A step that moves no request keeps what the requests know.
LEMMA EnvironmentTypeInv ==
  TypeInv /\ Environment => TypeInv'
<1> SUFFICES ASSUME TypeInv, Environment PROVE TypeInv'
  OBVIOUS
<1> USE DEF TypeInv, TypeOK, Progress
<1>1. ASSUME NEW c \in Carts, EditLoad(c) PROVE TypeInv'
  BY <1>1 DEF EditLoad, reqVars, tables, promoVars
<1>2. ASSUME NEW c \in Carts, EditSave(c) PROVE TypeInv'
  BY <1>2 DEF EditSave, reqVars, tables, promoVars
<1>3. ASSUME NEW c \in Carts, Lapse(c) PROVE TypeInv'
  BY <1>3 DEF Lapse, reqVars, tables, promoVars
<1>4. ASSUME NEW p \in Promos, UpdatePromotion(p) PROVE TypeInv'
  BY <1>4, CapsAssumption
     DEF UpdatePromotion, reqVars, tables, cartVars, LargerCap
<1>5. ASSUME UpdatePrices PROVE TypeInv'
  BY <1>5 DEF UpdatePrices, reqVars, tables, promoVars, cartVars
<1>6. QED
  BY <1>1, <1>2, <1>3, <1>4, <1>5 DEF Environment

LEMMA RequestTypeInv ==
  ASSUME TypeInv, NEW r \in Requests, Start(r) \/ Serve(r) \/ Abort(r)
  PROVE  TypeInv'
<1> USE DEF TypeInv, TypeOK, Progress, InFlight, PastLoad, PastPrice, Goto,
            Answer, Reply, tables, promoVars, cartVars
<1>1. CASE Start(r)      BY <1>1 DEF Start
<1>2. CASE Lookup(r)
  <2>1. CASE owner[key[r]] # NoRequest
    <3>1. owner[key[r]] \in Requests
      BY <1>2, <2>1 DEF Lookup
    <3>2. QED
      BY <1>2, <2>1, <3>1 DEF Lookup
  <2>2. CASE owner[key[r]] = NoRequest
    BY <1>2, <2>2 DEF Lookup
  <2>3. QED
    BY <2>1, <2>2
<1>3. CASE Load(r)
  <2>1. CASE carts[cartOf[r]] \in {NoCart, Empty}
    BY <1>3, <2>1 DEF Load
  <2>2. CASE carts[cartOf[r]] \notin {NoCart, Empty}
    <3>1. carts[cartOf[r]] \in Baskets
      BY <2>2 DEF Contents
    <3>2. /\ pc' = [pc EXCEPT ![r] = "price"]
          /\ lines' = [lines EXCEPT ![r] = carts[cartOf[r]]]
          /\ UNCHANGED <<key, cartOf, quote, promo, tables, promoVars, price,
                         cartVars, published, taken, reply>>
      BY <1>3, <2>2 DEF Load
    <3>3. lines' \in [Requests -> Contents \union {NoCart}]
      BY <3>1, <3>2 DEF Contents
    <3>4. lines'[r] \in Baskets
      BY <3>1, <3>2
    <3>5. TypeOK'
      BY <3>2, <3>3, SMTT(60)
    <3>6. Progress'
      BY <3>2, <3>4, SMTT(60)
    <3>7. QED
      BY <3>5, <3>6
  <2>3. QED
    BY <2>1, <2>2
<1>4. CASE Price(r)      BY <1>4 DEF Price
<1>5. CASE Select(r)     BY <1>5 DEF Select, Candidates
<1>6. CASE Reserve(r)    BY <1>6 DEF Reserve
<1>7. CASE Begin(r)      BY <1>7 DEF Begin
<1>8. CASE InsertKey(r)
  <2>1. CASE owner[key[r]] # NoRequest
    <3>1. /\ reply' \in [Requests -> Reply]
          /\ pc' = [pc EXCEPT ![r] = "done"]
      BY <1>8, <2>1 DEF InsertKey
    <3>2. QED
      BY <1>8, <3>1 DEF InsertKey
  <2>2. CASE owner[key[r]] = NoRequest
    BY <1>8, <2>2 DEF InsertKey
  <2>3. QED
    BY <2>1, <2>2
<1>9. CASE Commit(r)     BY <1>9 DEF Commit, Order
<1>10. CASE DeleteCart(r) BY <1>10 DEF DeleteCart
<1>11. CASE Publish(r)   BY <1>11 DEF Publish
<1>12. CASE Respond(r)   BY <1>12 DEF Respond
<1>13. CASE Abort(r)     BY <1>13 DEF Abort
<1>14. QED
  BY <1>1, <1>2, <1>3, <1>4, <1>5, <1>6, <1>7, <1>8, <1>9, <1>10, <1>11, <1>12,
     <1>13 DEF Serve

LEMMA StutterTypeInv == TypeInv /\ UNCHANGED vars => TypeInv'
BY DEF TypeInv, TypeOK, Progress, vars

\* Every variable of the checkout keeps to its type.
THEOREM TypeCorrect == Spec => []TypeOK
<1>1. TypeInv /\ [Next]_vars => TypeInv'
  BY EnvironmentTypeInv, RequestTypeInv, StutterTypeInv DEF Next
<1>2. TypeInv => TypeOK
  BY DEF TypeInv
<1>3. QED
  BY InitTypeInv, <1>1, <1>2, PTL DEF Spec

-------------------------------------------------------------------------------
(* Where a request stands and what it has written *)

Journey ==
  \A r \in Requests :
    /\ Placed(r) => pc[r] \in Committed \union {"done"}
    /\ pc[r] \in Committed => Placed(r)
    /\ Placed(r) => /\ orders[r].key = key[r]
                    /\ orders[r].cart = cartOf[r]
                    /\ orders[r].promo = promo[r]
    /\ r \in published => Placed(r)
    /\ pc[r] = "respond" => r \in published
    /\ pc[r] # "done" => reply[r] = NoReply

\* The row of a key belongs to the order placed under it; a transaction that
\* has inserted its key is alone with it.
KeysHeld ==
  /\ \A r \in Requests, k \in Keys : owner[k] = r <=> Placed(r) /\ key[r] = k
  /\ \A r \in Requests :
       pc[r] = "commit" /\ key[r] # NoKey => owner[key[r]] = NoRequest
  /\ \A r, q \in Requests :
       pc[r] = "commit" /\ pc[q] = "commit" /\ key[r] = key[q] /\ key[r] # NoKey
         => r = q

OrderInv == TypeInv /\ Journey /\ KeysHeld

LEMMA InitOrderInv == Init => OrderInv
BY InitTypeInv, NullsAssumption
   DEF Init, OrderInv, Journey, KeysHeld, Placed, Committed

LEMMA EnvironmentOrderInv == OrderInv /\ Environment => OrderInv'
<1> SUFFICES ASSUME OrderInv, Environment PROVE OrderInv'
  OBVIOUS
<1>1. TypeInv'
  BY EnvironmentTypeInv DEF OrderInv
<1>2. UNCHANGED <<pc, key, cartOf, promo, reply, orders, owner, published>>
  BY DEF Environment, EditLoad, EditSave, Lapse, UpdatePromotion, UpdatePrices,
         reqVars, tables
<1>3. Journey' /\ KeysHeld'
  BY <1>2 DEF OrderInv, Journey, KeysHeld, Placed
<1>4. QED
  BY <1>1, <1>3 DEF OrderInv

\* A step of r leaves what is written of other requests alone.
LEMMA RequestJourney ==
  ASSUME OrderInv, NEW r \in Requests, Start(r) \/ Serve(r) \/ Abort(r)
  PROVE  Journey'
<1> USE NullsAssumption, NoOrderAssumption
    DEF OrderInv, TypeInv, TypeOK, Journey, Placed, Committed, InFlight, Goto,
        Answer, tables
<1>1. CASE Start(r)      BY <1>1 DEF Start
<1>2. CASE Lookup(r)     BY <1>2, SMTT(30) DEF Lookup
<1>3. CASE Load(r)       BY <1>3 DEF Load
<1>4. CASE Price(r)      BY <1>4 DEF Price
<1>5. CASE Select(r)     BY <1>5 DEF Select
<1>6. CASE Reserve(r)    BY <1>6 DEF Reserve
<1>7. CASE Begin(r)      BY <1>7 DEF Begin
<1>8. CASE InsertKey(r)  BY <1>8 DEF InsertKey
<1>9. CASE Commit(r)
  <2>1. orders' \in [Requests -> Order \union {NoOrder}]
    BY <1>9, RequestTypeInv
  <2>2. orders'[r] \in Order
    BY <1>9, <2>1 DEF Commit, Progress, PastLoad, PastPrice, Order
  <2>3. QED
    BY <1>9, <2>2 DEF Commit
<1>10. CASE DeleteCart(r) BY <1>10 DEF DeleteCart
<1>11. CASE Publish(r)   BY <1>11 DEF Publish
<1>12. CASE Respond(r)   BY <1>12 DEF Respond
<1>13. CASE Abort(r)     BY <1>13 DEF Abort
<1>14. QED
  BY <1>1, <1>2, <1>3, <1>4, <1>5, <1>6, <1>7, <1>8, <1>9, <1>10, <1>11, <1>12,
     <1>13 DEF Serve

LEMMA RequestKeysHeld ==
  ASSUME OrderInv, NEW r \in Requests, Start(r) \/ Serve(r) \/ Abort(r)
  PROVE  KeysHeld'
<1> USE DEF OrderInv, TypeInv, TypeOK, KeysHeld, Placed, Goto, Answer, tables
<1>1. CASE InsertKey(r)
  BY <1>1 DEF InsertKey, KeyLocked
<1>2. CASE Commit(r)
  <2>1. orders'[r] # NoOrder /\ key' = key
    BY <1>2, RequestTypeInv, NoOrderAssumption
       DEF Commit, Progress, PastLoad, PastPrice, Order
  <2>2. orders[r] = NoOrder
    BY <1>2 DEF Journey, Commit, Committed
  <2>3. QED
    BY <1>2, <2>1, <2>2, NullsAssumption DEF Commit
<1>3. CASE Begin(r)
  BY <1>3, NullsAssumption DEF Begin
<1>4. CASE Start(r) \/ Lookup(r) \/ Load(r) \/ Price(r) \/ Select(r) \/ Reserve(r)
           \/ DeleteCart(r) \/ Publish(r) \/ Respond(r) \/ Abort(r)
  <2>1. UNCHANGED <<key, orders, owner>>
    BY <1>4 DEF Start, Lookup, Load, Price, Select, Reserve, DeleteCart, Publish,
                Respond, Abort
  <2>2. \A q \in Requests : pc'[q] = "commit" => pc[q] = "commit"
    BY <1>4 DEF Start, Lookup, Load, Price, Select, Reserve, DeleteCart, Publish,
                Respond, Abort
  <2>3. QED
    BY <2>1, <2>2
<1>5. QED
  BY <1>1, <1>2, <1>3, <1>4 DEF Serve

LEMMA OrderInvInductive == OrderInv /\ [Next]_vars => OrderInv'
<1>1. ASSUME OrderInv, NEW r \in Requests, Start(r) \/ Serve(r) \/ Abort(r)
      PROVE  OrderInv'
  BY <1>1, RequestTypeInv, RequestJourney, RequestKeysHeld DEF OrderInv
<1>2. ASSUME OrderInv, UNCHANGED vars PROVE OrderInv'
  BY <1>2, StutterTypeInv DEF OrderInv, Journey, KeysHeld, Placed, vars
<1>3. QED
  BY <1>1, <1>2, EnvironmentOrderInv DEF Next

\* The inductive invariant behind the safety results: orders, key rows and the
\* requests that hold a key agree in every reachable state.
THEOREM OrderInvariant == Spec => []OrderInv
BY InitOrderInv, OrderInvInductive, PTL DEF Spec

\* An idempotency key never yields two orders, and a key row and its order are
\* always both there or both absent.
THEOREM KeyCorrect == Spec => []OneOrderPerKey
<1>1. OrderInv => OneOrderPerKey
  BY DEF OrderInv, TypeInv, TypeOK, Journey, KeysHeld, OneOrderPerKey
<1>2. QED
  BY <1>1, OrderInvariant, PTL

-------------------------------------------------------------------------------
(* What clients are told *)

\* A reply stays backed as long as orders, rows and announcements only grow
\* and the request itself has ended.
LEMMA BackingKept ==
  ASSUME OrderInv, OrderInv', NEW q \in Requests, ReplyBacked(q),
         key' = key, reply'[q] = reply[q],
         published \subseteq published',
         \A p \in Requests : Placed(p) => Placed(p)',
         \A k \in Keys : owner[k] # NoRequest => owner'[k] = owner[k],
         reply[q] # NoReply => (Placed(q)' => Placed(q))
  PROVE  ReplyBacked(q)'
<1> USE DEF OrderInv, TypeInv, TypeOK, ReplyBacked, Placed
<1>1. CASE reply[q].status = "created"
  BY <1>1
<1>2. CASE reply[q].status = "replayed"
  <2>1. key[q] \in Keys
    BY <1>2
  <2>2. reply[q] # NoReply
    BY <1>2 DEF NoReply
  <2>3. owner'[key'[q]] = owner[key[q]]
    BY <1>2, <2>1, NullsAssumption
  <2>4. QED
    BY <1>2, <2>2, <2>3
<1>3. CASE reply[q].status = "raced"
  <2>1. key[q] \in Keys
    BY <1>3
  <2>2. reply[q] # NoReply
    BY <1>3 DEF NoReply
  <2>3. owner'[key'[q]] = owner[key[q]]
    BY <1>3, <2>1, NullsAssumption
  <2>4. QED
    BY <1>3, <2>2, <2>3
<1>4. CASE reply[q].status \notin {"created", "replayed", "raced"}
  BY <1>4
<1>5. QED
  BY <1>1, <1>2, <1>3, <1>4

Replies == \A r \in Requests : ReplyBacked(r)

LEMMA InitReplies == Init => Replies
BY DEF Init, Replies, ReplyBacked, NoReply

\* No step takes back an order, a key row or an announcement, and only the step
\* of a request that is still running writes an order.
LEMMA Grows ==
  ASSUME OrderInv, [Next]_vars
  PROVE  /\ key' = key
         /\ published \subseteq published'
         /\ \A p \in Requests : Placed(p) => Placed(p)'
         /\ \A k \in Keys : owner[k] # NoRequest => owner'[k] = owner[k]
         /\ \A q \in Requests :
              reply[q] # NoReply => (Placed(q)' => Placed(q)) /\ reply'[q] = reply[q]
<1>1. CASE UNCHANGED vars
  BY <1>1 DEF vars, Placed
<1>2. CASE Environment
  BY <1>2 DEF Environment, EditLoad, EditSave, Lapse, UpdatePromotion,
              UpdatePrices, reqVars, tables, Placed
<1>3. ASSUME NEW r \in Requests, Start(r) \/ Serve(r) \/ Abort(r)
      PROVE  /\ key' = key
             /\ published \subseteq published'
             /\ \A p \in Requests : Placed(p) => Placed(p)'
             /\ \A k \in Keys : owner[k] # NoRequest => owner'[k] = owner[k]
             /\ \A q \in Requests :
                  reply[q] # NoReply
                    => (Placed(q)' => Placed(q)) /\ reply'[q] = reply[q]
  <2> USE DEF OrderInv, TypeInv, TypeOK, Journey, Placed, InFlight, Goto, Answer,
              tables
  <2>1. CASE Commit(r)
    <3>1. pc[r] # "done" /\ reply[r] = NoReply
      BY <2>1 DEF Commit
    <3>2. orders[r] = NoOrder
      BY <2>1 DEF Commit, Committed
    <3>3. key[r] # NoKey => owner[key[r]] = NoRequest
      BY <2>1 DEF Commit, KeysHeld
    <3>4. QED
      BY <2>1, <3>1, <3>2, <3>3 DEF Commit
  <2>2. CASE ~Commit(r)
    <3>1. /\ UNCHANGED <<key, orders, owner>>
          /\ published \subseteq published'
      BY <1>3, <2>2
         DEF Serve, Start, Lookup, Load, Price, Select, Reserve, Begin, InsertKey,
             DeleteCart, Publish, Respond, Abort
    <3>2. pc[r] # "done" /\ reply[r] = NoReply
      BY <1>3
         DEF Serve, Start, Lookup, Load, Price, Select, Reserve, Begin, InsertKey,
             Commit, DeleteCart, Publish, Respond, Abort
    <3>3. \A q \in Requests \ {r} : reply'[q] = reply[q]
      BY <1>3
         DEF Serve, Start, Lookup, Load, Price, Select, Reserve, Begin, InsertKey,
             Commit, DeleteCart, Publish, Respond, Abort
    <3>4. QED
      BY <3>1, <3>2, <3>3
  <2>3. QED
    BY <2>1, <2>2
<1>4. QED
  BY <1>1, <1>2, <1>3 DEF Next

LEMMA RequestReplies ==
  ASSUME OrderInv, OrderInv', Replies, [Next]_vars,
         NEW r \in Requests, Start(r) \/ Serve(r) \/ Abort(r),
         reply[r] = NoReply
  PROVE  ReplyBacked(r)'
<1> USE NullsAssumption
    DEF OrderInv, TypeInv, TypeOK, Journey, ReplyBacked, Placed, InFlight, Goto,
        Answer, NoReply, Committed, tables
<1>1. CASE Lookup(r)
  <2>1. CASE owner[key[r]] = NoRequest
    BY <1>1, <2>1 DEF Lookup
  <2>2. CASE owner[key[r]] # NoRequest
    <3>1. key[r] \in Keys /\ owner[key[r]] \in Requests
      BY <1>1, <2>2 DEF Lookup, Progress
    <3>2. Placed(owner[key[r]]) /\ ~Placed(r)
      BY <1>1, <3>1 DEF Lookup, KeysHeld
    <3>3. QED
      BY <1>1, <2>2, <3>1, <3>2 DEF Lookup
  <2>3. QED
    BY <2>1, <2>2
<1>2. CASE InsertKey(r)
  <2>1. CASE owner[key[r]] = NoRequest
    BY <1>2, <2>1 DEF InsertKey
  <2>2. CASE owner[key[r]] # NoRequest
    <3>1. key[r] \in Keys /\ owner[key[r]] \in Requests
      BY <1>2, <2>2 DEF InsertKey, Progress
    <3>2. owner[key[r]] # r /\ ~Placed(r)
      BY <1>2, <3>1 DEF InsertKey, KeysHeld
    <3>3. QED
      BY <1>2, <2>2, <3>1, <3>2 DEF InsertKey
  <2>3. QED
    BY <2>1, <2>2
<1>3. CASE Respond(r)
  BY <1>3 DEF Respond
<1>4. CASE Start(r) \/ Load(r) \/ Price(r) \/ Select(r) \/ Reserve(r) \/ Begin(r)
           \/ Commit(r) \/ DeleteCart(r) \/ Publish(r) \/ Abort(r)
  <2>1. reply'[r].status \in {"none", "failed"}
    BY <1>4 DEF Start, Load, Price, Select, Reserve, Begin, Commit, DeleteCart,
                Publish, Abort
  <2>2. QED
    BY <2>1
<1>5. QED
  BY <1>1, <1>2, <1>3, <1>4 DEF Serve

\* Whatever a client was told is durable and stays so.
THEOREM AnswersCorrect == Spec => []AnswersBacked
<1>1. ASSUME OrderInv, OrderInv', Replies, [Next]_vars
      PROVE  Replies'
  <2>1. ASSUME NEW q \in Requests, reply'[q] = reply[q] PROVE ReplyBacked(q)'
    BY <1>1, <2>1, Grows, BackingKept DEF Replies
  <2>2. ASSUME NEW q \in Requests, reply'[q] # reply[q] PROVE ReplyBacked(q)'
    <3>1. reply[q] = NoReply
      BY <1>1, <2>2, Grows
    <3>2. Start(q) \/ Serve(q) \/ Abort(q)
      BY <1>1, <2>2
         DEF Next, vars, Environment, EditLoad, EditSave, Lapse, UpdatePromotion,
             UpdatePrices, reqVars, Start, Serve, Abort, Lookup, Load, Price,
             Select, Reserve, Begin, InsertKey, Commit, DeleteCart, Publish,
             Respond, Answer, OrderInv, TypeInv, TypeOK
    <3>3. QED
      BY <1>1, <3>1, <3>2, RequestReplies
  <2>3. QED
    BY <2>1, <2>2 DEF Replies
<1>2. OrderInv /\ Replies => AnswersBacked
  BY DEF OrderInv, TypeInv, TypeOK, Journey, Replies, AnswersBacked
<1>3. QED
  BY InitReplies, OrderInvariant, <1>1, <1>2, PTL DEF Spec

-------------------------------------------------------------------------------
(* The budget of a promotion *)

Taken(p) == {r \in Requests : taken[r] = p}

BeforeReserve == {"idle", "lookup", "load", "price", "select", "reserve"}
PastReserve   == {"begin", "insertKey", "commit"} \union Committed

\* Each use counted was taken by one request, and a request that carries a
\* promotion beyond Reserve took a use of it.  The cap in force may be lowered
\* below the uses; the largest cap so far may not be exceeded.
Budget ==
  /\ \A p \in Promos : uses[p] = Cardinality(Taken(p))
  /\ \A r \in Requests :
       /\ pc[r] \in BeforeReserve => taken[r] = NoPromo
       /\ pc[r] \in PastReserve \/ Placed(r) => promo[r] \in {NoPromo, taken[r]}
  /\ \A p \in Promos :
       peak[p] # Unlimited =>
         /\ maxUses[p] # Unlimited
         /\ maxUses[p] <= peak[p]
         /\ uses[p] <= peak[p]

BudgetInv == OrderInv /\ Budget

LEMMA InitBudget == Init => Budget
<1> SUFFICES ASSUME Init PROVE Budget
  OBVIOUS
<1> USE DEF Init
<1>1. \A p \in Promos : Taken(p) = {}
  BY NullsAssumption DEF Taken
<1>2. \A p \in Promos : uses[p] = Cardinality(Taken(p))
  BY <1>1, FS_EmptySet
<1>3. \A p \in Promos :
       peak[p] # Unlimited =>
         maxUses[p] # Unlimited /\ maxUses[p] <= peak[p] /\ uses[p] <= peak[p]
  <2> SUFFICES ASSUME NEW p \in Promos, peak[p] # Unlimited
               PROVE  maxUses[p] # Unlimited /\ maxUses[p] <= peak[p] /\ uses[p] <= peak[p]
    OBVIOUS
  <2>1. maxUses[p] = peak[p] /\ uses[p] = 0
    OBVIOUS
  <2>2. peak[p] \in Nat
    BY CapsAssumption
  <2>3. QED
    BY <2>1, <2>2
<1>4. \A r \in Requests :
       /\ pc[r] \in BeforeReserve => taken[r] = NoPromo
       /\ pc[r] \in PastReserve \/ Placed(r) => promo[r] \in {NoPromo, taken[r]}
  BY DEF Placed, PastReserve, Committed
<1>5. QED
  BY <1>2, <1>3, <1>4 DEF Budget

\* Taking a use adds one request to those that took one.
LEMMA TakeOne ==
  ASSUME TypeInv, Budget, NEW r \in Requests, NEW p \in Promos,
         taken[r] = NoPromo, taken' = [taken EXCEPT ![r] = p]
  PROVE  /\ Cardinality(Taken(p))' = Cardinality(Taken(p)) + 1
         /\ \A q \in Promos \ {p} : Taken(q)' = Taken(q)
<1>1. Taken(p)' = Taken(p) \union {r} /\ r \notin Taken(p)
  BY NullsAssumption DEF Taken, TypeInv, TypeOK
<1>2. IsFiniteSet(Taken(p))
  BY RequestsFinite, FS_Subset DEF Taken
<1>3. Cardinality(Taken(p) \union {r}) = Cardinality(Taken(p)) + 1
  BY <1>1, <1>2, FS_AddElement
<1>4. \A q \in Promos \ {p} : Taken(q)' = Taken(q)
  BY NullsAssumption DEF Taken, TypeInv, TypeOK
<1>5. QED
  BY <1>1, <1>3, <1>4

LEMMA RequestBudget ==
  ASSUME BudgetInv, NEW r \in Requests, Start(r) \/ Serve(r) \/ Abort(r)
  PROVE  Budget'
<1> USE DEF BudgetInv, OrderInv, TypeInv, TypeOK, Goto, Answer, tables, promoVars
<1>1. CASE Reserve(r) /\ HasRoom(promo[r])
  <2>1. /\ promo[r] \in Promos
        /\ taken[r] = NoPromo
        /\ taken' = [taken EXCEPT ![r] = promo[r]]
        /\ uses' = [uses EXCEPT ![promo[r]] = @ + 1]
        /\ UNCHANGED <<maxUses, peak, promo, orders>>
    BY <1>1 DEF Reserve, Progress, Budget, BeforeReserve
  <2>2. \A p \in Promos : uses'[p] = Cardinality(Taken(p))'
    <3>1. /\ Cardinality(Taken(promo[r]))' = Cardinality(Taken(promo[r])) + 1
          /\ \A q \in Promos \ {promo[r]} : Taken(q)' = Taken(q)
      BY <2>1, TakeOne
    <3>2. QED
      BY <2>1, <3>1 DEF Budget
  <2>3. \A q \in Requests :
         /\ pc'[q] \in BeforeReserve => taken'[q] = NoPromo
         /\ pc'[q] \in PastReserve \/ Placed(q)' => promo'[q] \in {NoPromo, taken'[q]}
    BY <1>1, <2>1 DEF Reserve, Budget, BeforeReserve, PastReserve, Committed, Placed
  <2>4. ASSUME NEW p \in Promos, peak'[p] # Unlimited
        PROVE  maxUses'[p] # Unlimited /\ maxUses'[p] <= peak'[p] /\ uses'[p] <= peak'[p]
    <3>1. /\ peak[p] # Unlimited /\ maxUses[p] # Unlimited
          /\ maxUses[p] <= peak[p] /\ uses[p] <= peak[p]
      BY <2>1, <2>4 DEF Budget
    <3>2. CASE p = promo[r]
      <4>1. uses[p] < maxUses[p]
        BY <1>1, <3>1, <3>2 DEF HasRoom
      <4>2. /\ uses[p] \in Nat /\ maxUses[p] \in Nat /\ peak[p] \in Nat
            /\ uses'[p] = uses[p] + 1
        BY <2>1, <3>1, <3>2, CapsAssumption
      <4>3. QED
        BY <2>1, <3>1, <4>1, <4>2
    <3>3. CASE p # promo[r]
      BY <2>1, <3>1, <3>3
    <3>4. QED
      BY <3>2, <3>3
  <2>5. QED
    BY <2>2, <2>3, <2>4 DEF Budget
<1>2. CASE ~(Reserve(r) /\ HasRoom(promo[r]))
  <2>1. UNCHANGED <<uses, maxUses, peak, taken>>
    BY <1>2 DEF Serve, Start, Lookup, Load, Price, Select, Reserve, Begin,
                InsertKey, Commit, DeleteCart, Publish, Respond, Abort
  <2>2. \A p \in Promos : uses'[p] = Cardinality(Taken(p))'
    BY <2>1 DEF Budget, Taken
  <2>3. ASSUME NEW q \in Requests
        PROVE  /\ pc'[q] \in BeforeReserve => taken'[q] = NoPromo
               /\ pc'[q] \in PastReserve \/ Placed(q)'
                    => promo'[q] \in {NoPromo, taken'[q]}
    <3>1. CASE Select(r) \/ Reserve(r)
      BY <1>2, <2>1, <3>1
         DEF Select, Reserve, Budget, BeforeReserve, PastReserve, Committed,
             Placed, Journey
    <3>2. CASE Commit(r)
      BY <2>1, <3>2
         DEF Commit, Budget, BeforeReserve, PastReserve, Committed, Placed
    <3>3. CASE ~(Select(r) \/ Reserve(r) \/ Commit(r))
      <4>1. UNCHANGED <<promo, orders>>
        BY <3>3 DEF Serve, Start, Lookup, Load, Price, Begin, InsertKey,
                    DeleteCart, Publish, Respond, Abort
      <4>2. /\ pc'[q] \in BeforeReserve => pc[q] \in BeforeReserve
            /\ pc'[q] \in PastReserve => pc[q] \in PastReserve
        BY <3>3 DEF Serve, Start, Lookup, Load, Price, Begin, InsertKey,
                    DeleteCart, Publish, Respond, Abort, BeforeReserve,
                    PastReserve, Committed
      <4>3. QED
        BY <2>1, <4>1, <4>2 DEF Budget, Placed
    <3>4. QED
      BY <3>1, <3>2, <3>3
  <2>4. QED
    BY <2>1, <2>2, <2>3 DEF Budget
<1>3. QED
  BY <1>1, <1>2

LEMMA EnvironmentBudget == BudgetInv /\ Environment => Budget'
<1> SUFFICES ASSUME BudgetInv, Environment PROVE Budget'
  OBVIOUS
<1>1. UNCHANGED <<pc, promo, orders, uses, taken>>
  BY DEF Environment, EditLoad, EditSave, Lapse, UpdatePromotion, UpdatePrices,
         reqVars, tables, promoVars
<1>2. ASSUME NEW p \in Promos, peak'[p] # Unlimited
      PROVE  maxUses'[p] # Unlimited /\ maxUses'[p] <= peak'[p] /\ uses'[p] <= peak'[p]
  <2>1. CASE UNCHANGED <<maxUses, peak>>
    BY <1>1, <1>2, <2>1 DEF BudgetInv, Budget
  <2>2. ASSUME NEW q \in Promos, UpdatePromotion(q)
        PROVE  maxUses'[p] # Unlimited /\ maxUses'[p] <= peak'[p] /\ uses'[p] <= peak'[p]
    <3>1. PICK cap \in Caps \union {Unlimited} :
             /\ maxUses' = [maxUses EXCEPT ![q] = cap]
             /\ peak' = [peak EXCEPT ![q] = LargerCap(@, cap)]
      BY <2>2 DEF UpdatePromotion
    <3>2. /\ maxUses \in [Promos -> Caps \union {Unlimited}]
          /\ peak \in [Promos -> Caps \union {Unlimited}]
          /\ uses[p] \in Nat
      BY DEF BudgetInv, OrderInv, TypeInv, TypeOK
    <3>3. CASE p = q
      <4>1. peak'[p] = LargerCap(peak[p], cap) /\ maxUses'[p] = cap
        BY <3>1, <3>2, <3>3
      <4>2. peak[p] # Unlimited /\ cap # Unlimited
        BY <1>2, <4>1 DEF LargerCap
      <4>3. peak[p] \in Nat /\ cap \in Nat /\ uses[p] <= peak[p]
        BY <3>2, <4>2, CapsAssumption DEF BudgetInv, Budget
      <4>4. peak[p] <= LargerCap(peak[p], cap) /\ cap <= LargerCap(peak[p], cap)
            /\ LargerCap(peak[p], cap) \in Nat
        BY <4>2, <4>3 DEF LargerCap
      <4>5. QED
        BY <1>1, <3>2, <4>1, <4>2, <4>3, <4>4
    <3>4. CASE p # q
      BY <1>1, <1>2, <3>1, <3>2, <3>4 DEF BudgetInv, Budget
    <3>5. QED
      BY <3>3, <3>4
  <2>3. QED
    BY <2>1, <2>2 DEF Environment, EditLoad, EditSave, Lapse, UpdatePrices, promoVars
<1>3. \A p \in Promos : Cardinality(Taken(p))' = Cardinality(Taken(p))
  BY <1>1 DEF Taken
<1>4. QED
  BY <1>1, <1>2, <1>3 DEF BudgetInv, Budget, Placed

\* Orders with a promotion's discount never outnumber its largest max_uses.
THEOREM BudgetCorrect == Spec => []PromoBudget
<1>1. OrderInv /\ Budget /\ UNCHANGED vars => Budget'
  BY DEF Budget, Placed, Taken, vars
<1>2. OrderInv /\ Budget /\ [Next]_vars => Budget'
  BY <1>1, RequestBudget, EnvironmentBudget DEF Next, BudgetInv
<1>3. OrderInv /\ Budget => PromoBudget
  <2> SUFFICES ASSUME OrderInv, Budget, NEW p \in Promos, peak[p] # Unlimited
               PROVE  Cardinality(PlacedWith(p)) <= peak[p]
    BY DEF PromoBudget
  <2>1. PlacedWith(p) \subseteq Taken(p)
    BY NullsAssumption DEF PlacedWith, Taken, Budget, OrderInv, Journey
  <2>2. IsFiniteSet(Taken(p))
    BY RequestsFinite, FS_Subset DEF Taken
  <2>3. /\ Cardinality(PlacedWith(p)) <= Cardinality(Taken(p))
        /\ Cardinality(PlacedWith(p)) \in Nat
    BY <2>1, <2>2, FS_Subset, FS_CardinalityType
  <2>4. uses[p] = Cardinality(Taken(p)) /\ uses[p] <= peak[p] /\ uses[p] \in Nat
        /\ peak[p] \in Nat
    BY CapsAssumption DEF Budget, OrderInv, TypeInv, TypeOK
  <2>5. QED
    BY <2>3, <2>4
<1>4. QED
  BY InitBudget, OrderInvariant, <1>2, <1>3, PTL DEF Spec

-------------------------------------------------------------------------------
(* Carts *)

\* A cart only disappears because it was ordered or lapsed.
THEOREM CartCorrect == Spec => []CartGoneMeansOrdered
<1>1. Init => CartGoneMeansOrdered
  BY NullsAssumption DEF Init, CartGoneMeansOrdered
<1>2. ASSUME OrderInv, CartGoneMeansOrdered, [Next]_vars
      PROVE  CartGoneMeansOrdered'
  <2> SUFFICES ASSUME NEW c \in Carts, carts'[c] = NoCart
               PROVE  c \in lapsed'
                        \/ \E r \in Requests : Placed(r)' /\ orders'[r].cart = c
    BY DEF CartGoneMeansOrdered
  <2> USE <1>2 DEF OrderInv, TypeInv, TypeOK
  <2>1. lapsed \subseteq lapsed'
    BY DEF Next, Environment, EditLoad, EditSave, Lapse, UpdatePromotion,
           UpdatePrices, cartVars, Start, Serve, Abort, Lookup, Load, Price,
           Select, Reserve, Begin, InsertKey, Commit, DeleteCart, Publish,
           Respond, vars
  <2>2. \A r \in Requests : Placed(r) => Placed(r)' /\ orders'[r] = orders[r]
    <3>1. CASE UNCHANGED orders
      BY <3>1 DEF Placed
    <3>2. CASE ~UNCHANGED orders
      <4>1. PICK r \in Requests : Commit(r)
        BY <3>2 DEF Next, Environment, EditLoad, EditSave, Lapse, UpdatePromotion,
                    UpdatePrices, tables, Start, Serve, Abort, Lookup, Load, Price,
                    Select, Reserve, Begin, InsertKey, DeleteCart, Publish,
                    Respond, vars
      <4>2. ~Placed(r)
        BY <4>1 DEF Commit, Journey, Committed
      <4>3. QED
        BY <4>1, <4>2 DEF Commit, Placed
    <3>3. QED
      BY <3>1, <3>2
  <2>3. CASE carts[c] = NoCart
    BY <2>1, <2>2, <2>3 DEF CartGoneMeansOrdered
  <2>4. CASE carts[c] # NoCart
    <3>1. CASE Environment
      BY <2>4, <3>1, NullsAssumption
         DEF Environment, EditLoad, EditSave, Lapse, UpdatePromotion, UpdatePrices,
             cartVars, Contents
    <3>2. CASE ~Environment
      <4>1. PICK r \in Requests : DeleteCart(r) /\ cartOf[r] = c
        BY <2>4, <3>2 DEF Next, Start, Serve, Abort, Lookup, Load, Price, Select,
                          Reserve, Begin, InsertKey, Commit, DeleteCart, Publish,
                          Respond, cartVars, vars
      <4>2. Placed(r) /\ orders[r].cart = c
        BY <4>1 DEF DeleteCart, Journey, Committed
      <4>3. QED
        BY <2>2, <4>2
    <3>3. QED
      BY <3>1, <3>2
  <2>5. QED
    BY <2>3, <2>4
<1>3. QED
  BY <1>1, <1>2, OrderInvariant, PTL DEF Spec

-------------------------------------------------------------------------------
(* The ledger *)

\* A request that answers with no order, or not at all, is a stutter.
LEMMA LedgerStutter ==
  ASSUME UNCHANGED <<key, orders, owner>>,
         [q \in Requests |-> reply'[q].order] = [q \in Requests |-> reply[q].order]
  PROVE  UNCHANGED Ledger!vars
BY DEF Ledger!vars

LEMMA RequestLedger ==
  ASSUME OrderInv, OrderInv', NEW r \in Requests, Start(r) \/ Serve(r) \/ Abort(r)
  PROVE  [Ledger!Next]_(Ledger!vars)
<1> USE DEF OrderInv, TypeInv, TypeOK, Journey, Goto, Answer, tables, InFlight
<1> DEFINE answer == [q \in Requests |-> reply[q].order]
<1>1. pc[r] # "done" /\ reply[r] = NoReply /\ answer[r] = NoRequest
  BY DEF Serve, Start, Lookup, Load, Price, Select, Reserve, Begin, InsertKey,
         Commit, DeleteCart, Publish, Respond, Abort, NoReply
<1>2. CASE Commit(r)
  <2>1. Placed(r)' /\ orders'[r] \in Order
    <3>1. lines[r] \in Baskets /\ quote[r] \in Prices
      BY <1>2 DEF Commit, Progress, PastLoad, PastPrice
    <3>2. orders'[r] \in Order
      BY <1>2, <3>1 DEF Commit, Order
    <3>3. QED
      BY <3>2, NoOrderAssumption DEF Placed
  <2>2. orders[r] = NoOrder
    BY <1>2 DEF Commit, Placed, Committed
  <2>3. orders' = [orders EXCEPT ![r] = orders'[r]]
    BY <1>2 DEF Commit
  <2>4. IF key[r] = NoKey
        THEN owner' = owner
        ELSE /\ owner[key[r]] = NoRequest
             /\ owner' = [owner EXCEPT ![key[r]] = r]
    BY <1>2 DEF Commit, KeysHeld
  <2>5. UNCHANGED <<key, answer>>
    BY <1>2 DEF Commit
  <2>6. Ledger!Place(r)
    BY <1>1, <2>1, <2>2, <2>3, <2>4, <2>5 DEF Ledger!Place
  <2>7. QED
    BY <2>6 DEF Ledger!Next
<1>3. CASE Respond(r)
  <2>1. answer' = [answer EXCEPT ![r] = r]
    BY <1>3 DEF Respond
  <2>2. orders[r] # NoOrder /\ UNCHANGED <<key, orders, owner>>
    BY <1>3 DEF Respond, Placed, Committed
  <2>3. Ledger!Confirm(r)
    BY <1>1, <2>1, <2>2 DEF Ledger!Confirm
  <2>4. QED
    BY <2>3 DEF Ledger!Next
<1>4. CASE Lookup(r) /\ owner[key[r]] # NoRequest
  <2>1. answer' = [answer EXCEPT ![r] = owner[key[r]]]
    <3>1. reply' = [reply EXCEPT ![r] =
                     [status |-> "replayed", order |-> owner[key[r]]]]
      BY <1>4 DEF Lookup
    <3>2. QED
      BY <3>1
  <2>2. key[r] # NoKey /\ orders[r] = NoOrder /\ UNCHANGED <<key, orders, owner>>
    BY <1>4 DEF Lookup, Progress, Placed, Committed
  <2>3. Ledger!Replay(r)
    BY <1>1, <1>4, <2>1, <2>2 DEF Ledger!Replay
  <2>4. QED
    BY <2>3 DEF Ledger!Next
<1>5. CASE /\ ~Commit(r) /\ ~Respond(r)
           /\ ~(Lookup(r) /\ owner[key[r]] # NoRequest)
  <2>1. UNCHANGED <<key, orders, owner>>
    BY <1>5 DEF Serve, Start, Lookup, Load, Price, Select, Reserve, Begin,
                InsertKey, DeleteCart, Publish, Abort
  <2>2. \/ reply' = reply
        \/ reply' = [reply EXCEPT ![r] = [status |-> "failed", order |-> NoRequest]]
        \/ reply' = [reply EXCEPT ![r] = [status |-> "raced", order |-> NoRequest]]
    BY <1>5 DEF Serve, Start, Lookup, Load, Price, Select, Reserve, Begin,
                InsertKey, DeleteCart, Publish, Abort
  <2>3. answer' = answer
    <3>1. reply[r].order = NoRequest
      BY <1>1 DEF NoReply
    <3>2. QED
      BY <2>2, <3>1
  <2>4. QED
    BY <2>1, <2>3, LedgerStutter
<1>6. QED
  BY <1>2, <1>3, <1>4, <1>5

\* The orders module implements the ledger: every step of a checkout is one
\* atomic step of it or changes nothing it shows.
THEOREM CheckoutImplementsLedger == Spec => ImplementsLedger
<1>1. Init => Ledger!Init
  BY DEF Init, NoReply, Ledger!Init
<1>2. OrderInv /\ OrderInv' /\ [Next]_vars => [Ledger!Next]_(Ledger!vars)
  <2> SUFFICES ASSUME OrderInv, OrderInv', [Next]_vars
               PROVE  [Ledger!Next]_(Ledger!vars)
    OBVIOUS
  <2>1. ASSUME UNCHANGED <<key, orders, owner, reply>>
        PROVE  UNCHANGED Ledger!vars
    BY <2>1 DEF Ledger!vars
  <2>2. CASE UNCHANGED vars \/ Environment
    BY <2>1, <2>2 DEF vars, Environment, EditLoad, EditSave, Lapse,
                      UpdatePromotion, UpdatePrices, reqVars, tables
  <2>3. QED
    BY <2>2, RequestLedger DEF Next
<1>3. QED
  BY <1>1, <1>2, OrderInvariant, PTL DEF Spec, ImplementsLedger, Ledger!Spec

-------------------------------------------------------------------------------
(* The money math: rounding *)

\* Division by ten thousand as the provers know it.
LEMMA Division ==
  ASSUME NEW n \in Nat
  PROVE  /\ n \div 10000 \in Nat
         /\ n % 10000 \in 0 .. 9999
         /\ n = 10000 * (n \div 10000) + (n % 10000)
OBVIOUS

\* mulBps rounds to the nearest cent, halves to the even one.
LEMMA RoundingCorrect ==
  ASSUME NEW n \in Nat
  PROVE  RoundHalfEven(n) \in Nat /\ Rounded(n, RoundHalfEven(n))
<1>0. /\ n \div 10000 \in Nat
      /\ n % 10000 \in 0 .. 9999
      /\ n = 10000 * (n \div 10000) + (n % 10000)
  BY Division
<1> DEFINE q == n \div 10000
<1> DEFINE r == n % 10000
<1>1. q \in Nat /\ r \in 0 .. 9999 /\ n = 10000 * q + r
  BY <1>0
<1>2. RoundHalfEven(n) = IF r * 2 < 10000 THEN q
                         ELSE IF r > 5000 THEN q + 1
                         ELSE IF q % 2 = 0 THEN q ELSE q + 1
  BY DEF RoundHalfEven
<1> HIDE DEF q, r
<1>3. QED
  BY <1>1, <1>2 DEF Rounded

LEMMA ProductNat ==
  ASSUME NEW c \in Nat, NEW b \in Nat
  PROVE  c * b \in Nat /\ (c = 0 \/ b = 0 => c * b = 0)
OBVIOUS

LEMMA ProductAtMost ==
  ASSUME NEW c \in Nat, NEW b \in 0 .. 10000
  PROVE  c * b <= c * 10000
OBVIOUS

\* mulBps, for every amount and every rate, is the product of both rounded to the
\* nearest cent, a half to the even one.
THEOREM MulBpsCorrect ==
  \A c, b \in Nat : MulBps(c, b) \in Nat /\ Rounded(c * b, MulBps(c, b))
<1> TAKE c, b \in Nat
<1>1. CASE b = 0 \/ c = 0
  <2>1. c * b = 0
    BY <1>1, ProductNat
  <2>2. QED
    BY <1>1, <2>1 DEF MulBps, Rounded
<1>2. CASE ~(b = 0 \/ c = 0)
  BY <1>2, ProductNat, RoundingCorrect DEF MulBps
<1>3. QED
  BY <1>1, <1>2

\* A rate of at most 100 % never yields more than the amount.
LEMMA MulBpsAtMost ==
  ASSUME NEW c \in Nat, NEW b \in Nat, b <= 10000
  PROVE  MulBps(c, b) <= c
<1>1. c * b \in Nat /\ c * b <= 10000 * c
  BY ProductNat, ProductAtMost
<1>2. MulBps(c, b) \in Nat /\ Rounded(c * b, MulBps(c, b))
  BY MulBpsCorrect
<1> DEFINE product == c * b
<1> DEFINE rounded == MulBps(c, b)
<1>3. /\ product \in Nat /\ product <= 10000 * c
      /\ rounded \in Nat /\ 10000 * rounded - product <= 5000
  BY <1>1, <1>2 DEF Rounded
<1> HIDE DEF product, rounded
<1>4. rounded <= c
  BY <1>3
<1>5. QED
  BY <1>4 DEF rounded

-------------------------------------------------------------------------------
(* The money math: types *)

TotalsTypeInv == TotalsTypeOK /\ (phase = "select" => Len(cart) > 0)

LEMMA CartType == TotalsTypeOK => cart \in Seq(Line) /\ candidates \in Seq(Promotion)
BY LinesAssumption, CandidatesAssumption DEF TotalsTypeOK

LEMMA RateRange == \A t \in TaxRates : t \in Nat /\ t <= 10000
<1> SUFFICES ASSUME NEW t \in TaxRates PROVE t \in Nat /\ t <= 10000
  OBVIOUS
<1>1. t \in 0 .. 10000
  BY TaxRatesAssumption
<1>2. QED
  BY <1>1

LEMMA TaxRateType ==
  ASSUME TotalsTypeOK PROVE taxRate \in Nat /\ taxRate <= 10000
<1>1. taxRate \in TaxRates
  BY DEF TotalsTypeOK
<1>2. QED
  BY <1>1, RateRange

LEMMA DiscountType ==
  ASSUME TotalsTypeOK, NEW n \in 1 .. Len(candidates)
  PROVE  ComputeDiscount(candidates[n]) \in 0 .. subtotal
<1> DEFINE p == candidates[n]
<1>1. p \in Promotion
  BY CartType
<1>2. p.action.value \in Nat /\ subtotal \in Nat
  BY <1>1 DEF Promotion, TotalsTypeOK
<1>3. MulBps(subtotal, p.action.value) \in Nat
  BY <1>2, MulBpsCorrect
<1> HIDE DEF p
<1>4. ApplyAction(p) \in 0 .. subtotal
  BY <1>2, <1>3 DEF ApplyAction, ClampNonNegative, Smaller
<1>5. ComputeDiscount(p) \in 0 .. subtotal
  BY <1>2, <1>4 DEF ComputeDiscount
<1>6. QED
  BY <1>5 DEF p

LEMMA ReceiptType ==
  ASSUME TotalsTypeOK, ComputeTotals
  PROVE  /\ totals' \in [subtotal : Nat, discount : Nat, taxed : Nat, tax : Nat,
                        grand : Nat]
         /\ totals'.subtotal = subtotal
         /\ totals'.discount = BestDiscount
         /\ totals'.discount <= totals'.subtotal
         /\ totals'.tax = MulBps(subtotal - BestDiscount, taxRate)
         /\ totals'.grand = subtotal - BestDiscount + totals'.tax
<1>1. BestDiscount \in 0 .. subtotal /\ subtotal \in Nat
  BY DiscountType DEF BestDiscount, TotalsTypeOK
<1>2. taxRate \in Nat
  BY TaxRateType
<1>3. subtotal - BestDiscount \in Nat
  BY <1>1
<1>4. MulBps(subtotal - BestDiscount, taxRate) \in Nat
  BY <1>2, <1>3, MulBpsCorrect
<1>5. ClampNonNegative(Smaller(subtotal, BestDiscount)) = BestDiscount
  BY <1>1 DEF ClampNonNegative, Smaller
<1>6. ClampNonNegative(subtotal - BestDiscount) = subtotal - BestDiscount
  BY <1>3 DEF ClampNonNegative
<1>7. totals' = [subtotal |-> subtotal, discount |-> BestDiscount,
                 taxed |-> subtotal - BestDiscount,
                 tax |-> MulBps(subtotal - BestDiscount, taxRate),
                 grand |-> subtotal - BestDiscount
                             + MulBps(subtotal - BestDiscount, taxRate)]
  BY <1>5, <1>6 DEF ComputeTotals
<1>8. QED
  BY <1>1, <1>3, <1>4, <1>7

LEMMA StepType == TotalsTypeInv /\ [TotalsNext]_totalsVars => TotalsTypeInv'
<1> SUFFICES ASSUME TotalsTypeInv, [TotalsNext]_totalsVars PROVE TotalsTypeInv'
  OBVIOUS
<1> USE DEF TotalsTypeInv, inputs
<1>1. CASE SumLine
  <2>1. cart[i].price \in Nat /\ cart[i].qty \in Nat
    <3>1. cart[i] \in Line
      BY <1>1, CartType DEF SumLine, TotalsTypeOK
    <3>2. QED
      BY <3>1 DEF Line
  <2>2. subtotal' \in Nat /\ i' \in Nat \ {0}
    <3> DEFINE amount == cart[i].price * cart[i].qty
    <3>1. amount \in Nat
      BY <2>1, ProductNat
    <3>2. subtotal' = subtotal + amount /\ i' = i + 1
      BY <1>1 DEF SumLine
    <3> HIDE DEF amount
    <3>3. QED
      BY <3>1, <3>2 DEF TotalsTypeOK
  <2>3. QED
    BY <1>1, <2>2 DEF SumLine, TotalsTypeOK
<1>2. CASE SumDone
  BY <1>2, CartType DEF SumDone, TotalsTypeOK
<1>3. CASE Consider
  BY <1>3, CartType DEF Consider, TotalsTypeOK
<1>4. CASE SelectDone
  BY <1>4 DEF SelectDone, TotalsTypeOK
<1>5. CASE ComputeTotals
  BY <1>5, ReceiptType DEF ComputeTotals, TotalsTypeOK
<1>6. CASE UNCHANGED totalsVars
  BY <1>6 DEF totalsVars, TotalsTypeOK
<1>7. QED
  BY <1>1, <1>2, <1>3, <1>4, <1>5, <1>6 DEF TotalsNext

LEMMA InitType == TotalsInit => TotalsTypeInv
BY DEF TotalsInit, TotalsTypeInv, TotalsTypeOK, NoTotals

\* Every variable keeps its type and the loops stay within their sequences.
THEOREM TotalsTypeCorrect == TotalsSpec => []TotalsTypeInv
BY InitType, StepType, PTL DEF TotalsSpec

-------------------------------------------------------------------------------
(* The money math: the receipt *)

\* Every receipt adds up.
THEOREM ReceiptCorrect == TotalsSpec => []ReceiptAddsUp
<1>1. TotalsInit => ReceiptAddsUp
  BY DEF TotalsInit, ReceiptAddsUp
<1>2. ASSUME TotalsTypeInv, ReceiptAddsUp, [TotalsNext]_totalsVars PROVE ReceiptAddsUp'
  <2>1. CASE ComputeTotals
    <3>1. TotalsTypeOK
      BY <1>2 DEF TotalsTypeInv
    <3>2. /\ BestDiscount \in 0 .. subtotal /\ subtotal \in Nat
          /\ taxRate \in Nat /\ taxRate <= 10000
      BY <3>1, DiscountType, TaxRateType DEF BestDiscount, TotalsTypeOK
    <3> DEFINE t == subtotal - BestDiscount
    <3>3. t \in Nat
      BY <3>2
    <3>4. /\ totals'.subtotal = subtotal /\ totals'.discount = BestDiscount
          /\ totals'.tax = MulBps(t, taxRate)
          /\ totals'.grand = t + totals'.tax
      BY <2>1, <3>1, ReceiptType
    <3>5. /\ MulBps(t, taxRate) \in Nat /\ Rounded(t * taxRate, MulBps(t, taxRate))
          /\ MulBps(t, taxRate) <= t
      BY <3>2, <3>3, MulBpsCorrect, MulBpsAtMost
    <3>6. totals'.subtotal - totals'.discount = t /\ taxRate' = taxRate
      BY <2>1, <3>4 DEF ComputeTotals, inputs
    <3>7. Rounded((totals'.subtotal - totals'.discount) * taxRate', totals'.tax)
      BY <3>4, <3>5, <3>6
    <3>8. totals'.grand + totals'.discount = totals'.subtotal + totals'.tax
      BY <3>2, <3>4, <3>5
    <3>9. QED
      BY <3>2, <3>4, <3>5, <3>6, <3>7, <3>8 DEF ReceiptAddsUp, Rounded
  <2>2. CASE phase' # "done"
    BY <2>2 DEF ReceiptAddsUp
  <2>3. CASE phase' = "done" /\ ~ComputeTotals
    BY <1>2, <2>3 DEF TotalsNext, totalsVars, SumLine, SumDone, Consider, SelectDone,
                      ReceiptAddsUp, inputs, Rounded
  <2>4. QED
    BY <2>1, <2>2, <2>3
<1>3. QED
  BY <1>1, <1>2, TotalsTypeCorrect, PTL DEF TotalsSpec

-------------------------------------------------------------------------------
(* The money math: the selection *)

D(n) == ComputeDiscount(candidates[n])

\* b is the best of the first upto candidates.
BestOf(b, upto) ==
  /\ b = 0 => \A n \in 1 .. upto : D(n) = 0
  /\ b # 0 =>
       /\ D(b) > 0
       /\ \A n \in 1 .. upto :
            D(n) < D(b) \/ (D(n) = D(b) /\ candidates[b].id <= candidates[n].id)

SelectInv ==
  /\ phase = "sum" => best = 0
  /\ phase = "select" => i <= Len(candidates) + 1 /\ BestOf(best, i - 1)
  /\ phase \in {"compute", "done"} /\ Len(cart) > 0 => BestOf(best, Len(candidates))

LEMMA CandidateType ==
  ASSUME TotalsTypeOK
  PROVE  /\ Len(candidates) \in Nat
         /\ \A n \in 1 .. Len(candidates) : D(n) \in Nat /\ candidates[n].id \in Nat
<1>1. Len(candidates) \in Nat
  BY CartType
<1>2. ASSUME NEW n \in 1 .. Len(candidates)
      PROVE  D(n) \in Nat /\ candidates[n].id \in Nat
  <2>1. D(n) \in 0 .. subtotal /\ subtotal \in Nat
    BY DiscountType DEF TotalsTypeOK, D
  <2>2. candidates[n] \in Promotion
    BY CartType
  <2>3. QED
    BY <2>1, <2>2 DEF Promotion
<1>3. QED
  BY <1>1, <1>2

\* Considering candidate i keeps the best of the first i.
LEMMA ConsiderBest ==
  ASSUME TotalsTypeOK, i <= Len(candidates), BestOf(best, i - 1)
  PROVE  BestOf(IF Beats(i) THEN i ELSE best, i)
<1>1. /\ Len(candidates) \in Nat /\ i \in 1 .. Len(candidates)
      /\ best \in 0 .. Len(candidates)
  BY CandidateType DEF TotalsTypeOK
<1>2. /\ \A n \in 1 .. Len(candidates) : D(n) \in Nat /\ candidates[n].id \in Nat
      /\ \A n \in 1 .. i : n \in 1 .. i - 1 \/ n = i
  BY <1>1, CandidateType
<1>3. CASE Beats(i)
  <2>1. /\ D(i) > 0
        /\ \/ best = 0
           \/ D(i) > D(best)
           \/ (D(i) = D(best) /\ candidates[i].id < candidates[best].id)
    BY <1>3 DEF Beats, D
  <2>2. D(i) \in Nat /\ candidates[i].id \in Nat /\ i # 0
    BY <1>1, <1>2
  <2>3. ASSUME NEW n \in 1 .. i
        PROVE  D(n) < D(i) \/ (D(n) = D(i) /\ candidates[i].id <= candidates[n].id)
    <3>1. D(n) \in Nat /\ candidates[n].id \in Nat
      BY <1>1, <1>2
    <3>2. CASE n = i
      BY <2>2, <3>2
    <3>3. CASE n # i /\ best = 0
      <4>1. D(n) = 0
        BY <1>2, <3>3 DEF BestOf
      <4>2. QED
        BY <2>1, <2>2, <4>1
    <3>4. CASE n # i /\ best # 0
      <4>1. D(n) < D(best) \/ (D(n) = D(best) /\ candidates[best].id <= candidates[n].id)
        BY <1>2, <3>4 DEF BestOf
      <4>2. D(best) \in Nat /\ candidates[best].id \in Nat
        BY <1>1, <1>2, <3>4
      <4>3. QED
        BY <2>1, <2>2, <3>1, <3>4, <4>1, <4>2
    <3>5. QED
      BY <3>2, <3>3, <3>4
  <2>4. QED
    BY <1>3, <2>1, <2>2, <2>3 DEF BestOf
<1>4. CASE ~Beats(i)
  <2>1. \/ ~(D(i) > 0)
        \/ /\ best # 0
           /\ ~(D(i) > D(best))
           /\ ~(D(i) = D(best) /\ candidates[i].id < candidates[best].id)
    BY <1>4 DEF Beats, D
  <2>2. D(i) \in Nat /\ candidates[i].id \in Nat
    BY <1>1, <1>2
  <2>3. CASE best = 0
    BY <1>2, <1>4, <2>1, <2>2, <2>3 DEF BestOf
  <2>4. CASE best # 0
    <3>1. D(best) > 0
      BY <2>4 DEF BestOf
    <3>2. D(best) \in Nat /\ candidates[best].id \in Nat
      BY <1>1, <1>2, <2>4
    <3>3. D(i) < D(best) \/ (D(i) = D(best) /\ candidates[best].id <= candidates[i].id)
      BY <2>1, <2>2, <3>1, <3>2
    <3>4. QED
      BY <1>2, <1>4, <2>4, <3>1, <3>3 DEF BestOf
  <2>5. QED
    BY <2>3, <2>4
<1>5. QED
  BY <1>3, <1>4

\* What a candidate is worth does not change once the lines are summed.
LEMMA SameDiscounts ==
  ASSUME UNCHANGED <<cart, candidates, coupon, subtotal>>, NEW b, NEW u,
         BestOf(b, u)
  PROVE  /\ b = 0 => \A n \in 1 .. u : D(n)' = 0
         /\ b # 0 =>
              /\ D(b)' > 0
              /\ \A n \in 1 .. u :
                   D(n)' < D(b)'
                     \/ (D(n)' = D(b)' /\ candidates'[b].id <= candidates'[n].id)
<1>1. ASSUME NEW n PROVE D(n)' = D(n)
  BY DEF D, ComputeDiscount, Applies, ConditionMet, ApplyAction
<1>2. D(b)' = D(b)
  BY <1>1
<1>3. QED
  BY <1>1, <1>2 DEF BestOf

LEMMA CarryIndex ==
  ASSUME UNCHANGED <<cart, candidates, coupon, subtotal>>,
         BestOf(best', i' - 1)
  PROVE  BestOf(best, i - 1)'
BY SameDiscounts DEF BestOf

LEMMA CarryAll ==
  ASSUME UNCHANGED <<cart, candidates, coupon, subtotal>>,
         BestOf(best', Len(candidates))
  PROVE  BestOf(best, Len(candidates))'
BY SameDiscounts DEF BestOf

\* The promotion applied is the best single one.
THEOREM SelectionCorrect == TotalsSpec => []BestSingle
<1>1. TotalsInit => SelectInv
  BY DEF TotalsInit, SelectInv
<1>2. ASSUME TotalsTypeInv, SelectInv, [TotalsNext]_totalsVars PROVE SelectInv'
  <2>1. TotalsTypeOK /\ Len(candidates) \in Nat /\ i \in Nat
    BY <1>2, CandidateType DEF TotalsTypeInv, TotalsTypeOK
  <2>2. CASE SumLine
    BY <1>2, <2>2 DEF SumLine, SelectInv
  <2>3. CASE SumDone
    <3>1. best' = 0 /\ i' = 1 /\ candidates' = candidates /\ cart' = cart
      BY <1>2, <2>3 DEF SumDone, SelectInv, inputs
    <3>2. BestOf(best, i - 1)'
      BY <3>1 DEF BestOf
    <3>3. phase' = "select" \/ (phase' = "compute" /\ ~(Len(cart') > 0))
      BY <2>1, <2>3 DEF SumDone, TotalsTypeOK, inputs
    <3>4. QED
      BY <2>1, <3>1, <3>2, <3>3 DEF SelectInv
  <2>4. CASE Consider
    <3>1. /\ i <= Len(candidates) /\ BestOf(best, i - 1)
          /\ best' = IF Beats(i) THEN i ELSE best
          /\ i' = i + 1 /\ phase' = "select"
          /\ UNCHANGED <<cart, candidates, coupon, subtotal>>
      BY <1>2, <2>4 DEF Consider, SelectInv, inputs
    <3>2. BestOf(best', i)
      BY <2>1, <3>1, ConsiderBest
    <3>3. i' - 1 = i
      BY <2>1, <3>1
    <3>4. BestOf(best, i - 1)'
      BY <3>1, <3>2, <3>3, CarryIndex
    <3>5. QED
      BY <2>1, <3>1, <3>4 DEF SelectInv
  <2>5. CASE SelectDone
    <3>1. /\ i <= Len(candidates) + 1 /\ i > Len(candidates) /\ BestOf(best, i - 1)
          /\ phase' = "compute" /\ best' = best
          /\ UNCHANGED <<cart, candidates, coupon, subtotal>>
      BY <1>2, <2>5 DEF SelectDone, SelectInv, inputs
    <3>2. i - 1 = Len(candidates)
      BY <2>1, <3>1
    <3>3. BestOf(best, Len(candidates))'
      BY <3>1, <3>2, CarryAll
    <3>4. QED
      BY <3>1, <3>3 DEF SelectInv
  <2>6. CASE ComputeTotals
    <3>1. /\ Len(cart) > 0 => BestOf(best, Len(candidates))
          /\ phase' = "done" /\ best' = best
          /\ UNCHANGED <<cart, candidates, coupon, subtotal>>
      BY <1>2, <2>6 DEF ComputeTotals, SelectInv, inputs
    <3>2. Len(cart') > 0 => BestOf(best, Len(candidates))'
      BY <3>1, CarryAll
    <3>3. QED
      BY <3>1, <3>2 DEF SelectInv
  <2>7. CASE UNCHANGED totalsVars
    <3>1. /\ UNCHANGED <<cart, candidates, coupon, subtotal>>
          /\ phase' = phase /\ best' = best /\ i' = i
      BY <2>7 DEF totalsVars
    <3>2. BestOf(best, i - 1) => BestOf(best, i - 1)'
      BY <3>1, CarryIndex
    <3>3. BestOf(best, Len(candidates)) => BestOf(best, Len(candidates))'
      BY <3>1, CarryAll
    <3>4. QED
      BY <1>2, <3>1, <3>2, <3>3 DEF SelectInv
  <2>8. QED
    BY <1>2, <2>2, <2>3, <2>4, <2>5, <2>6, <2>7 DEF TotalsNext
<1>3. SelectInv => BestSingle
  BY DEF SelectInv, BestSingle, BestOf, BestDiscount, D
<1>4. QED
  BY <1>1, <1>2, <1>3, TotalsTypeCorrect, PTL DEF TotalsSpec
===============================================================================
