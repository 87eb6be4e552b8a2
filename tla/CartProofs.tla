------------------------------ MODULE CartProofs ------------------------------
(***************************************************************************)
(* Proofs about Cart: the types, that the cookie names a cart that is      *)
(* there, and that the basket of a shopper who waits for each answer is    *)
(* kept.  The second rests on who knows a cart: until the response that    *)
(* sets its cookie arrives, only the tab that created it, so no checkout   *)
(* can delete it; and a cart that was deleted is named by the cookie only  *)
(* while a response that clears the cookie is on its way.  The third keeps *)
(* the books of the one action under way.                                  *)
(***************************************************************************)
EXTENDS Cart, SequenceTheorems, TLAPS

Labels == {"idle", "create", "load", "save", "order", "place", "delete",
           "done", "refused"}

Edits == {"add", "set", "coupon", "remove"}

\* How far an action is says what it is and what it has.
Journey ==
  \A t \in Tabs :
    /\ pc[t] # "idle" => action[t] \in Action
    /\ pc[t] \in {"create", "load", "save"} => action[t].kind \in Edits
    /\ pc[t] \in {"load", "save", "order", "place", "delete"} => cartOf[t] \in used
    /\ pc[t] \in {"save", "place"} => copy[t] \in Contents

TypeInv == TypeOK /\ Journey

-------------------------------------------------------------------------------
(* Contents of a cart *)

\* An action on a line names a product and a quantity.
LEMMA LineArguments ==
  ASSUME NEW a \in Action, a.kind \in {"add", "set"}
  PROVE  a.product \in Products /\ a.qty \in Nat
<1>1. CASE a \in [kind : {"add", "set"}, product : Products, qty : Nat]
  BY <1>1
<1>2. CASE a \in [kind : {"coupon", "remove", "checkout"}]
  BY <1>2
<1>3. QED
  BY <1>1, <1>2 DEF Action

\* What an edit makes of a cart is a cart.
LEMMA ChangedContents ==
  ASSUME NEW x \in Contents, NEW a \in Action, a.kind \in Edits
  PROVE  Changed(x, a) \in Contents
<1>1. CASE a.kind = "add"
  <2>1. a.product \in Products /\ a.qty \in Nat
    BY <1>1, LineArguments
  <2>2. MergeLine(x.lines, a.product, a.qty) \in [Products -> Nat]
    BY <2>1 DEF MergeLine, Contents
  <2>3. QED
    BY <1>1, <2>2 DEF Changed, Contents
<1>2. CASE a.kind = "set"
  <2>1. a.product \in Products /\ a.qty \in Nat
    BY <1>2, LineArguments
  <2>2. SetLine(x.lines, a.product, a.qty) \in [Products -> Nat]
    BY <2>1 DEF SetLine, Contents
  <2>3. QED
    BY <1>2, <2>2 DEF Changed, Contents
<1>3. CASE a.kind = "coupon"
  BY <1>3 DEF Changed, Contents
<1>4. CASE a.kind = "remove"
  BY <1>4 DEF Changed, Contents
<1>5. QED
  BY <1>1, <1>2, <1>3, <1>4 DEF Edits

LEMMA EmptyContents == EmptyCart \in Contents
BY DEF EmptyCart, NoLines, Contents

\* What the shopper expects of an answer is a cart.
LEMMA ExpectedContents ==
  ASSUME basket \in Contents, NEW a \in Action
  PROVE  Expected(a) \in Contents
<1>1. CASE a.kind \in {"add", "set"}
  <2>1. a.product \in Products /\ a.qty \in Nat
    BY <1>1, LineArguments
  <2>2. [basket.lines EXCEPT ![a.product] = @ + a.qty] \in [Products -> Nat]
    BY <2>1 DEF Contents
  <2>3. [basket.lines EXCEPT ![a.product] = a.qty] \in [Products -> Nat]
    BY <2>1 DEF Contents
  <2>4. QED
    BY <1>1, <2>1, <2>2, <2>3 DEF Expected, Contents
<1>2. CASE a.kind \in {"coupon", "remove"}
  BY <1>2 DEF Expected, Contents
<1>3. CASE a.kind = "checkout"
  BY <1>3, EmptyContents DEF Expected
<1>4. QED
  BY <1>1, <1>2, <1>3 DEF Action

\* A page shows a cart or none.
LEMMA PageContents ==
  ASSUME TypeOK, NEW ck \in used \union {NoCart}
  PROVE  Page(ck) \in Contents \union {NoCart}
<1>1. CASE ck = NoCart
  BY <1>1 DEF Page
<1>2. CASE ck \in Carts
  <2>1. stored[ck] \in Contents \union {NoCart}
    BY <1>2 DEF TypeOK
  <2>2. QED
    BY <2>1 DEF Page
<1>3. QED
  BY <1>1, <1>2 DEF TypeOK

\* Whatever a page shows, its buttons ask for actions there are.
LEMMA OfferedActions ==
  ASSUME TypeOK, NEW t \in Tabs, NEW a \in Offered(t)
  PROVE  a \in Action
<1>1. CASE a \in AddToCartButton
  BY <1>1 DEF AddToCartButton, Action
<1>2. CASE a \in CouponBlock(shown[t]) \union CheckoutButton
  BY <1>2 DEF CouponBlock, CheckoutButton, Action
<1>3. ASSUME shown[t] # NoCart, NEW p \in Products, shown[t].lines[p] > 0,
             a \in CartLineRow(p, shown[t].lines[p])
      PROVE  a \in Action
  <2>1. shown[t].lines[p] \in Nat
    BY <1>3 DEF TypeOK, Contents
  <2>2. {0, shown[t].lines[p] - 1, shown[t].lines[p] + 1} \subseteq Nat
    BY <1>3, <2>1
  <2>3. QED
    BY <1>3, <2>2 DEF CartLineRow, Action
<1>4. CASE a \notin AddToCartButton
  <2>1. shown[t] # NoCart /\ a \in CartView(shown[t])
    BY <1>4 DEF Offered
  <2>2. QED
    BY <1>2, <1>3, <2>1 DEF CartView
<1>5. QED
  BY <1>1, <1>4
-------------------------------------------------------------------------------
(* Types *)

USE DEF TypeInv, Labels

LEMMA InitTypes == Init => TypeInv
<1> SUFFICES ASSUME Init PROVE TypeInv
  OBVIOUS
<1>1. <<>> \in Seq([cart : Carts, contents : Contents]) /\ <<>> \in Seq(Contents)
  OBVIOUS
<1>2. 0 \in 0 .. MaxActions /\ 0 \in 0 .. MaxFaults
  BY CartAssumption
<1>3. /\ stored \in [Carts -> Contents \union {NoCart}]
      /\ pc \in [Tabs -> Labels]
      /\ action \in [Tabs -> Action \union {NoAction}]
      /\ cartOf \in [Tabs -> used \union {NoCart}]
      /\ copy \in [Tabs -> Contents \union {NoCart}]
      /\ setCookie \in [Tabs -> used \union {NoCart, Keep}]
      /\ shown \in [Tabs -> Contents \union {NoCart}]
  BY DEF Init
<1>4. TypeOK
  BY <1>1, <1>2, <1>3, EmptyContents DEF Init, TypeOK
<1>5. QED
  BY <1>4 DEF Init, Journey

LEMMA StartTypes ==
  ASSUME TypeInv, NEW t \in Tabs, Start(t)
  PROVE  TypeInv'
<1>1. PICK a \in Action :
        /\ cookie = NoCart => a.kind \in {"add", "coupon"}
        /\ action' = [action EXCEPT ![t] = a]
        /\ Goto(t, Begins(a))
        /\ shown' = [shown EXCEPT ![t] = IF a.kind = "add" THEN NoCart ELSE @]
  BY OfferedActions DEF Start
<1>2. a.kind \in Edits \union {"checkout"}
  BY DEF Action, Edits
<1>3. Begins(a) \in {"create", "order", "load"}
  BY DEF Begins
<1>4. pc' \in [Tabs -> Labels] /\ action' \in [Tabs -> Action \union {NoAction}]
  BY <1>1, <1>3 DEF TypeOK, Goto
<1>5. /\ cartOf' \in [Tabs -> used' \union {NoCart}]
      /\ setCookie' \in [Tabs -> used' \union {NoCart, Keep}]
  BY DEF Start, TypeOK, api
<1>6. /\ overlapped' \in BOOLEAN /\ actions' \in 0 .. MaxActions
      /\ shown' \in [Tabs -> Contents \union {NoCart}]
  BY <1>1, CartAssumption DEF Start, TypeOK
<1>7. TypeOK'
  BY <1>4, <1>5, <1>6 DEF Start, TypeOK, api
<1>8. Journey'
  <2> SUFFICES ASSUME NEW u \in Tabs
               PROVE  /\ pc'[u] # "idle" => action'[u] \in Action
                      /\ pc'[u] \in {"create", "load", "save"} => action'[u].kind \in Edits
                      /\ pc'[u] \in {"load", "save", "order", "place", "delete"}
                           => cartOf'[u] \in used'
                      /\ pc'[u] \in {"save", "place"} => copy'[u] \in Contents
    BY DEF Journey
  <2>1. CASE u = t
    <3>1. pc'[u] = Begins(a) /\ action'[u] = a /\ cartOf'[u] = cookie /\ used' = used
      BY <1>1, <2>1 DEF Start, Goto, TypeOK, api
    <3>2. QED
      BY <1>1, <1>2, <3>1 DEF Begins, TypeOK
  <2>2. CASE u # t
    BY <1>1, <2>2 DEF Start, Goto, TypeOK, Journey, api
  <2>3. QED
    BY <2>1, <2>2
<1>9. QED
  BY <1>7, <1>8

LEMMA CreateTypes ==
  ASSUME TypeInv, NEW t \in Tabs, Create(t)
  PROVE  TypeInv'
<1>1. PICK c \in Carts \ used :
        /\ stored' = [stored EXCEPT ![c] = EmptyCart]
        /\ used' = used \union {c}
        /\ cartOf' = [cartOf EXCEPT ![t] = c]
        /\ setCookie' = [setCookie EXCEPT ![t] = c]
  BY DEF Create
<1>2. stored' \in [Carts -> Contents \union {NoCart}]
  BY <1>1, EmptyContents DEF TypeOK
<1>3. pc' \in [Tabs -> Labels]
  BY DEF Create, Goto, TypeOK
<1>4. /\ cartOf' \in [Tabs -> used' \union {NoCart}]
      /\ setCookie' \in [Tabs -> used' \union {NoCart, Keep}]
  BY <1>1 DEF TypeOK
<1>5. TypeOK'
  BY <1>1, <1>2, <1>3, <1>4 DEF Create, TypeOK, browser, bounds
<1>6. QED
  BY <1>1, <1>5 DEF Create, Goto, TypeOK, Journey, browser, bounds

\* The steps that only move an action on and fetch its copy of the cart.
LEMMA LoadTypes ==
  ASSUME TypeInv, NEW t \in Tabs, Load(t) \/ LoadOrder(t)
  PROVE  TypeInv'
<1>1. stored[cartOf[t]] \in Contents \union {NoCart}
  <2>1. cartOf[t] \in used
    BY DEF Load, LoadOrder, Journey
  <2>2. QED
    BY <2>1 DEF TypeOK
<1>2. CASE Goto(t, "refused") /\ UNCHANGED copy
  BY <1>2 DEF Load, LoadOrder, Goto, TypeOK, Journey, api, browser, bounds
<1>3. ASSUME NEW l \in {"save", "place"}, Goto(t, l), stored[cartOf[t]] # NoCart,
             copy' = [copy EXCEPT ![t] = stored[cartOf[t]]],
             l = "save" <=> pc[t] = "load"
      PROVE  TypeInv'
  <2>1. copy' \in [Tabs -> Contents \union {NoCart}] /\ pc' \in [Tabs -> Labels]
    BY <1>1, <1>3 DEF TypeOK, Goto
  <2>2. TypeOK'
    BY <2>1 DEF Load, LoadOrder, TypeOK, api, browser, bounds
  <2>3. \A u \in Tabs : pc'[u] = IF u = t THEN l ELSE pc[u]
    BY <1>3 DEF Goto, TypeOK
  <2>4. \A u \in Tabs : copy'[u] = IF u = t THEN stored[cartOf[t]] ELSE copy[u]
    BY <1>3 DEF TypeOK
  <2>5. Journey'
    BY <1>1, <1>3, <2>3, <2>4 DEF Load, LoadOrder, Journey, api, browser, bounds
  <2>6. QED
    BY <2>2, <2>5
<1>4. CASE Load(t)
  BY <1>2, <1>3, <1>4 DEF Load, Refused
<1>5. CASE LoadOrder(t)
  BY <1>2, <1>3, <1>5 DEF LoadOrder
<1>6. QED
  BY <1>4, <1>5

LEMMA SaveTypes ==
  ASSUME TypeInv, NEW t \in Tabs, Save(t)
  PROVE  TypeInv'
<1>1. Changed(copy[t], action[t]) \in Contents
  BY ChangedContents DEF Save, Journey
<1>2. stored' \in [Carts -> Contents \union {NoCart}]
  BY <1>1 DEF Save, TypeOK
<1>3. pc' \in [Tabs -> Labels]
  BY DEF Save, Goto, TypeOK
<1>4. TypeOK'
  BY <1>2, <1>3 DEF Save, TypeOK, browser, bounds
<1>5. Journey'
  BY DEF Save, Goto, TypeOK, Journey, browser, bounds
<1>6. QED
  BY <1>4, <1>5

LEMMA PlaceOrderTypes ==
  ASSUME TypeInv, NEW t \in Tabs, PlaceOrder(t)
  PROVE  TypeInv'
<1>1. cartOf[t] \in Carts /\ copy[t] \in Contents
  BY DEF PlaceOrder, Journey, TypeOK
<1>2. ordered' \in Seq([cart : Carts, contents : Contents])
  BY <1>1 DEF PlaceOrder, TypeOK
<1>3. pc' \in [Tabs -> Labels]
  BY DEF PlaceOrder, Goto, TypeOK
<1>4. TypeOK'
  BY <1>2, <1>3 DEF PlaceOrder, TypeOK, browser, bounds
<1>5. Journey'
  BY DEF PlaceOrder, Goto, TypeOK, Journey, browser, bounds
<1>6. QED
  BY <1>4, <1>5

LEMMA DeleteCartTypes ==
  ASSUME TypeInv, NEW t \in Tabs, DeleteCart(t)
  PROVE  TypeInv'
<1>1. stored' \in [Carts -> Contents \union {NoCart}]
  BY DEF DeleteCart, TypeOK
<1>2. pc' \in [Tabs -> Labels] /\ setCookie' \in [Tabs -> used' \union {NoCart, Keep}]
  BY DEF DeleteCart, Goto, TypeOK
<1>3. TypeOK'
  BY <1>1, <1>2 DEF DeleteCart, TypeOK, browser, bounds
<1>4. Journey'
  BY DEF DeleteCart, Goto, TypeOK, Journey, browser, bounds
<1>5. QED
  BY <1>3, <1>4

\* An action that ends leaves nothing behind in its tab.
LEMMA EndTypes ==
  ASSUME TypeInv, NEW t \in Tabs, Answer(t) \/ Fail(t)
  PROVE  TypeInv'
<1>1. /\ pc' = [pc EXCEPT ![t] = "idle"]
      /\ action' = [action EXCEPT ![t] = NoAction]
      /\ cartOf' = [cartOf EXCEPT ![t] = NoCart]
      /\ copy' = [copy EXCEPT ![t] = NoCart]
      /\ setCookie' = [setCookie EXCEPT ![t] = Keep]
      /\ UNCHANGED <<stored, used, ordered, overlapped, actions>>
  BY DEF Answer, Fail, Goto, api, browser, bounds
<1>2. /\ pc' \in [Tabs -> Labels]
      /\ action' \in [Tabs -> Action \union {NoAction}]
      /\ cartOf' \in [Tabs -> used' \union {NoCart}]
      /\ copy' \in [Tabs -> Contents \union {NoCart}]
      /\ setCookie' \in [Tabs -> used' \union {NoCart, Keep}]
  BY <1>1 DEF TypeOK
<1>3. cookie' \in used' \union {NoCart}
  BY <1>1 DEF Answer, Fail, TypeOK, browser
<1>4. basket' \in Contents /\ receipts' \in Seq(Contents)
  <2>1. CASE Fail(t)
    BY <2>1 DEF Fail, TypeOK, browser
  <2>2. CASE Answer(t)
    <3>1. Expected(action[t]) \in Contents
      BY <2>2, ExpectedContents DEF Answer, Journey, TypeOK
    <3>2. Append(receipts, basket) \in Seq(Contents)
      BY DEF TypeOK
    <3>3. QED
      BY <2>2, <3>1, <3>2 DEF Answer, TypeOK
  <2>3. QED
    BY <2>1, <2>2
<1>5. faults' \in 0 .. MaxFaults
  BY CartAssumption DEF Answer, Fail, TypeOK, bounds
<1>6. shown' \in [Tabs -> Contents \union {NoCart}]
  <2>1. CASE Fail(t)
    BY <2>1 DEF Fail, TypeOK, browser
  <2>2. CASE Answer(t)
    <3>1. Page(cookie') \in Contents \union {NoCart}
      BY <1>1, <1>3, PageContents
    <3>2. Answered(t, cookie') \in Contents \union {NoCart}
      BY <3>1 DEF Answered, TypeOK
    <3>3. QED
      BY <2>2, <3>2 DEF Answer, TypeOK
  <2>3. QED
    BY <2>1, <2>2
<1>7. TypeOK'
  BY <1>1, <1>2, <1>3, <1>4, <1>5, <1>6 DEF TypeOK
<1>8. Journey'
  BY <1>1 DEF TypeOK, Journey
<1>9. QED
  BY <1>7, <1>8

LEMMA LapseTypes ==
  ASSUME TypeInv, NEW c \in Carts, Lapse(c)
  PROVE  TypeInv'
<1>1. stored' \in [Carts -> Contents \union {NoCart}] /\ faults' \in 0 .. MaxFaults
  BY CartAssumption DEF Lapse, TypeOK
<1>2. QED
  BY <1>1 DEF Lapse, TypeOK, Journey, browser

LEMMA RenderTypes ==
  ASSUME TypeInv, NEW t \in Tabs, Render(t)
  PROVE  TypeInv'
<1>1. shown' \in [Tabs -> Contents \union {NoCart}]
  BY PageContents DEF Render, TypeOK
<1>2. QED
  BY <1>1 DEF Render, TypeOK, Journey, api, bounds

LEMMA StutterTypes == TypeInv /\ UNCHANGED vars => TypeInv'
BY DEF TypeOK, Journey, vars

LEMMA StepTypes == TypeInv /\ [Next]_vars => TypeInv'
BY StartTypes, CreateTypes, LoadTypes, SaveTypes, PlaceOrderTypes, DeleteCartTypes,
   EndTypes, LapseTypes, RenderTypes, StutterTypes DEF Next

\* Every variable keeps its type: an api operation only ever works on a cart id
\* that was given out, and carts, orders and receipts hold proper contents.
THEOREM TypeCorrect == Spec => []TypeOK
<1>1. TypeInv => TypeOK
  OBVIOUS
<1>2. QED
  BY <1>1, InitTypes, StepTypes, PTL DEF Spec

-------------------------------------------------------------------------------
(* The cookie *)

Clears(t) == pc[t] = "done" /\ setCookie[t] = NoCart

\* Only the tab that created a cart knows it until its response arrives.
Own(t) ==
  setCookie[t] \in Carts =>
    /\ pc[t] \in {"load", "save", "done", "refused"}
    /\ cartOf[t] = setCookie[t]
    /\ cookie # setCookie[t]
    /\ stored[setCookie[t]] # NoCart
    /\ \A u \in Tabs \ {t} : cartOf[u] # setCookie[t]

Known ==
  /\ \A t \in Tabs : Own(t) /\ (setCookie[t] = NoCart => pc[t] = "done")
  /\ cookie # NoCart /\ stored[cookie] = NoCart => \E t \in Tabs : Clears(t)

CookieInv == TypeInv /\ (faults = 0 => Known)

LEMMA InitCookie == Init => CookieInv
BY InitTypes, CartAssumption DEF Init, CookieInv, Known, Own

LEMMA StartCookie ==
  ASSUME CookieInv, faults = 0, NEW t \in Tabs, Start(t)
  PROVE  Known'
<1>1. /\ \A u \in Tabs : pc'[u] # pc[u] => u = t
      /\ cartOf' = [cartOf EXCEPT ![t] = cookie]
      /\ setCookie' = [setCookie EXCEPT ![t] = Keep]
      /\ pc[t] = "idle" /\ UNCHANGED <<stored, used, cookie>>
  BY DEF Start, Goto, CookieInv, TypeOK, api
<1>2. \A u \in Tabs : Own(u)'
  BY <1>1, CartAssumption DEF CookieInv, Known, Own, TypeOK
<1>3. \A u \in Tabs : setCookie'[u] = NoCart => pc'[u] = "done"
  BY <1>1, CartAssumption DEF CookieInv, Known, TypeOK
<1>4. cookie' # NoCart /\ stored'[cookie'] = NoCart => \E u \in Tabs : Clears(u)'
  BY <1>1 DEF CookieInv, Known, Clears, TypeOK
<1>5. QED
  BY <1>2, <1>3, <1>4 DEF Known

LEMMA CreateCookie ==
  ASSUME CookieInv, faults = 0, NEW t \in Tabs, Create(t)
  PROVE  Known'
<1>1. PICK c \in Carts \ used :
        /\ stored' = [stored EXCEPT ![c] = EmptyCart]
        /\ used' = used \union {c}
        /\ cartOf' = [cartOf EXCEPT ![t] = c]
        /\ setCookie' = [setCookie EXCEPT ![t] = c]
  BY DEF Create
<1>2. UNCHANGED cookie /\ pc[t] = "create" /\ pc' = [pc EXCEPT ![t] = "load"]
  BY DEF Create, Goto, browser
<1>3. EmptyCart # NoCart
  BY EmptyContents, NullsAssumption
<1>4. \A u \in Tabs : cartOf[u] # c /\ setCookie[u] # c
  BY CartAssumption DEF CookieInv, TypeOK
<1>5. cookie # c
  BY CartAssumption DEF CookieInv, TypeOK
<1>6. Own(t)'
  BY <1>1, <1>2, <1>3, <1>4, <1>5 DEF CookieInv, TypeOK, Own
<1>7. ASSUME NEW u \in Tabs \ {t} PROVE Own(u)'
  <2>1. setCookie'[u] = setCookie[u] /\ cartOf'[u] = cartOf[u] /\ pc'[u] = pc[u]
    BY <1>1, <1>2 DEF CookieInv, TypeOK
  <2>2. Own(u)
    BY DEF CookieInv, Known
  <2>3. \A v \in Tabs \ {u} : setCookie[u] \in Carts => cartOf'[v] # setCookie[u]
    BY <1>1, <1>4, <2>2 DEF CookieInv, TypeOK, Own
  <2>4. setCookie[u] \in Carts => stored'[setCookie[u]] # NoCart
    BY <1>1, <1>4, <2>2 DEF CookieInv, TypeOK, Own
  <2>5. QED
    BY <1>2, <2>1, <2>2, <2>3, <2>4 DEF Own
<1>8. \A u \in Tabs : setCookie'[u] = NoCart => pc'[u] = "done"
  BY <1>1, <1>2, CartAssumption DEF CookieInv, Known, TypeOK
<1>9. cookie' # NoCart /\ stored'[cookie'] = NoCart => \E u \in Tabs : Clears(u)'
  BY <1>1, <1>2, <1>5 DEF CookieInv, Known, Clears, TypeOK
<1>10. QED
  BY <1>6, <1>7, <1>8, <1>9 DEF Known

\* Steps of t that only move on or write its own cart keep what is known.
LEMMA WorkCookie ==
  ASSUME CookieInv, faults = 0, NEW t \in Tabs,
         Load(t) \/ Save(t) \/ LoadOrder(t) \/ PlaceOrder(t)
  PROVE  Known'
<1>1. /\ UNCHANGED <<cookie, cartOf, setCookie>>
      /\ \A u \in Tabs \ {t} : pc'[u] = pc[u]
      /\ pc[t] \in {"load", "save", "order", "place"}
      /\ pc[t] \in {"load", "save"} => pc'[t] \in {"save", "done", "refused"}
  BY DEF Load, Save, LoadOrder, PlaceOrder, Goto, CookieInv, TypeOK, browser
<1>2. \A c \in Carts : stored[c] # NoCart => stored'[c] # NoCart
  <2>1. CASE Save(t)
    <3>1. Changed(copy[t], action[t]) \in Contents
      BY <2>1, ChangedContents DEF Save, CookieInv, Journey
    <3>2. QED
      BY <2>1, <3>1, NullsAssumption DEF Save, CookieInv, TypeOK
  <2>2. CASE Load(t) \/ LoadOrder(t) \/ PlaceOrder(t)
    BY <2>2 DEF Load, LoadOrder, PlaceOrder, api
  <2>3. QED
    BY <2>1, <2>2
<1>3. \A u \in Tabs : Own(u)'
  BY <1>1, <1>2 DEF CookieInv, Known, Own
<1>4. \A u \in Tabs : setCookie'[u] = NoCart => pc'[u] = "done"
  BY <1>1 DEF CookieInv, Known
<1>5. cookie' # NoCart /\ stored'[cookie'] = NoCart => \E u \in Tabs : Clears(u)'
  <2> SUFFICES ASSUME cookie # NoCart, stored'[cookie] = NoCart
               PROVE  \E u \in Tabs : Clears(u)'
    BY <1>1
  <2>1. cookie \in Carts
    BY DEF CookieInv, TypeOK
  <2>2. PICK u \in Tabs : Clears(u)
    BY <1>2, <2>1 DEF CookieInv, Known
  <2>3. u # t
    BY <1>1, <2>2 DEF Clears
  <2>4. QED
    BY <1>1, <2>2, <2>3 DEF Clears
<1>6. QED
  BY <1>3, <1>4, <1>5 DEF Known

LEMMA DeleteCookie ==
  ASSUME CookieInv, faults = 0, NEW t \in Tabs, DeleteCart(t)
  PROVE  Known'
<1>1. /\ UNCHANGED <<cookie, cartOf>>
      /\ setCookie' = [setCookie EXCEPT ![t] = NoCart]
      /\ pc[t] = "delete" /\ pc' = [pc EXCEPT ![t] = "done"]
  BY DEF DeleteCart, Goto, browser
<1>2. pc'[t] = "done" /\ setCookie'[t] = NoCart
  BY <1>1 DEF CookieInv, TypeOK
<1>3. \A c \in Carts \ {cartOf[t]} : stored'[c] = stored[c]
  BY DEF DeleteCart, CookieInv, TypeOK
<1>4. Own(t)'
  BY <1>2, CartAssumption DEF Own
<1>5. ASSUME NEW u \in Tabs \ {t} PROVE Own(u)'
  <2>1. setCookie'[u] = setCookie[u] /\ pc'[u] = pc[u]
    BY <1>1 DEF CookieInv, TypeOK
  <2>2. Own(u)
    BY DEF CookieInv, Known
  <2>3. setCookie[u] \in Carts => cartOf[t] # setCookie[u]
    BY <2>2 DEF Own
  <2>4. QED
    BY <1>1, <1>3, <2>1, <2>2, <2>3 DEF Own
<1>6. \A u \in Tabs : setCookie'[u] = NoCart => pc'[u] = "done"
  BY <1>1 DEF CookieInv, Known, TypeOK
<1>7. QED
  BY <1>2, <1>4, <1>5, <1>6 DEF Known, Clears

LEMMA AnswerCookie ==
  ASSUME CookieInv, faults = 0, NEW t \in Tabs, Answer(t)
  PROVE  Known'
<1>1. /\ pc' = [pc EXCEPT ![t] = "idle"]
      /\ cartOf' = [cartOf EXCEPT ![t] = NoCart]
      /\ setCookie' = [setCookie EXCEPT ![t] = Keep]
      /\ cookie' = IF setCookie[t] = Keep THEN cookie ELSE setCookie[t]
      /\ UNCHANGED stored
  BY DEF Answer, Goto, api
<1>2. Own(t)'
  BY <1>1, CartAssumption DEF CookieInv, TypeOK, Own
<1>3. ASSUME NEW u \in Tabs \ {t} PROVE Own(u)'
  <2>1. setCookie'[u] = setCookie[u] /\ pc'[u] = pc[u] /\ cartOf'[u] = cartOf[u]
    BY <1>1 DEF CookieInv, TypeOK
  <2>2. Own(u) /\ Own(t)
    BY DEF CookieInv, Known
  <2>3. setCookie[u] \in Carts => cookie' # setCookie[u]
    <3> SUFFICES ASSUME setCookie[u] \in Carts PROVE cookie' # setCookie[u]
      OBVIOUS
    <3>1. CASE setCookie[t] = Keep
      BY <1>1, <2>2, <3>1 DEF Own
    <3>2. CASE setCookie[t] = NoCart
      BY <1>1, <3>2, CartAssumption
    <3>3. CASE setCookie[t] \in Carts
      BY <1>1, <2>2, <3>3, CartAssumption DEF Own
    <3>4. QED
      BY <3>1, <3>2, <3>3 DEF CookieInv, TypeOK
  <2>4. setCookie[u] \in Carts => \A v \in Tabs \ {u} : cartOf'[v] # setCookie[u]
    BY <1>1, <2>2, CartAssumption DEF CookieInv, TypeOK, Own
  <2>5. QED
    BY <1>1, <2>1, <2>2, <2>3, <2>4 DEF Own
<1>4. \A u \in Tabs : setCookie'[u] = NoCart => pc'[u] = "done"
  BY <1>1, CartAssumption DEF CookieInv, Known, TypeOK
<1>5. cookie' # NoCart /\ stored'[cookie'] = NoCart => \E u \in Tabs : Clears(u)'
  <2> SUFFICES ASSUME cookie' # NoCart, stored[cookie'] = NoCart
               PROVE  \E u \in Tabs : Clears(u)'
    BY <1>1
  <2>1. setCookie[t] = Keep
    BY <1>1 DEF CookieInv, Known, Own, TypeOK
  <2>2. PICK u \in Tabs : Clears(u)
    BY <1>1, <2>1 DEF CookieInv, Known
  <2>3. u # t
    BY <2>1, <2>2, CartAssumption DEF Clears
  <2>4. QED
    BY <1>1, <2>2, <2>3 DEF Clears, CookieInv, TypeOK
<1>6. QED
  BY <1>2, <1>3, <1>4, <1>5 DEF Known

LEMMA RestCookie ==
  ASSUME CookieInv, faults = 0, (\E t \in Tabs : Render(t)) \/ UNCHANGED vars
  PROVE  Known'
<1>1. UNCHANGED <<stored, cookie, pc, cartOf, setCookie>>
  BY DEF Render, vars, api
<1>2. QED
  BY <1>1 DEF CookieInv, Known, Own, Clears

\* Nothing failed or lapsed in a step after which nothing ever did.
LEMMA Untroubled ==
  ASSUME TypeInv, [Next]_vars, faults' = 0
  PROVE  /\ faults = 0
         /\ \A t \in Tabs : ~Fail(t)
         /\ \A c \in Carts : ~Lapse(c)
<1>1. UNCHANGED faults \/ faults' = faults + 1
  <2>1. ASSUME NEW t \in Tabs, Start(t) PROVE UNCHANGED faults
    BY <2>1 DEF Start
  <2>2. ASSUME NEW t \in Tabs, Fail(t) PROVE faults' = faults + 1
    BY <2>2 DEF Fail
  <2>3. ASSUME NEW c \in Carts, Lapse(c) PROVE faults' = faults + 1
    BY <2>3 DEF Lapse
  <2>4. ASSUME NEW t \in Tabs,
               Create(t) \/ Load(t) \/ Save(t) \/ LoadOrder(t) \/ PlaceOrder(t)
                 \/ DeleteCart(t) \/ Answer(t)
        PROVE  UNCHANGED faults
    BY <2>4 DEF Create, Load, Save, LoadOrder, PlaceOrder, DeleteCart, Answer, bounds
  <2>5. CASE (\E t \in Tabs : Render(t)) \/ UNCHANGED vars
    BY <2>5 DEF Render, vars, bounds
  <2> QED
    BY <2>1, <2>2, <2>3, <2>4, <2>5 DEF Next
<1>2. faults = 0
  BY <1>1, CartAssumption DEF TypeInv, TypeOK
<1> QED
  BY <1>2 DEF Fail, Lapse

LEMMA StepCookie == CookieInv /\ [Next]_vars => CookieInv'
<1> SUFFICES ASSUME CookieInv, [Next]_vars, faults' = 0 PROVE Known'
  BY StepTypes DEF CookieInv
<1> QED
  BY Untroubled, StartCookie, CreateCookie, WorkCookie, DeleteCookie, AnswerCookie,
     RestCookie DEF Next, CookieInv

\* However many tabs act at once and in whatever order their requests and answers
\* cross: unless a cart lapsed or a request failed, a browser at rest never holds
\* the cookie of a cart that is gone.
THEOREM CookieCorrect == Spec => []CookieAlive
<1>1. CookieInv => CookieAlive
  BY DEF CookieInv, Known, CookieAlive, Quiet, Clears
<1>2. QED
  BY <1>1, InitCookie, StepCookie, PTL DEF Spec

-------------------------------------------------------------------------------
(* The basket *)

OneAction == \A t, u \in Tabs : pc[t] # "idle" /\ pc[u] # "idle" => t = u

Placed == [n \in 1 .. Len(ordered) |-> ordered[n].contents]

\* What a browser with the cookie ck has in its cart.
Holds(ck) == IF ck = NoCart THEN EmptyCart ELSE stored[ck]

\* The cookie that the browser has once the response of t arrived.
NextCookie(t) == IF setCookie[t] = Keep THEN cookie ELSE setCookie[t]

\* How far the only action under way is says what the shopper does not know yet.
Underway(t) ==
  /\ pc[t] \in {"create", "load", "save", "order", "place", "refused"} =>
       basket = Holds(NextCookie(t))
  /\ pc[t] \in {"load", "save", "order", "place"} => cartOf[t] = NextCookie(t)
  /\ pc[t] \in {"save", "place"} => copy[t] = basket
  /\ pc[t] \in {"order", "place", "delete"} => action[t].kind = "checkout"
  /\ pc[t] = "create" => cookie = NoCart /\ setCookie[t] = Keep
  /\ pc[t] = "done" => Expected(action[t]) = Holds(NextCookie(t))
  /\ pc[t] = "delete" \/ (pc[t] = "done" /\ action[t].kind = "checkout") =>
       Placed = Append(receipts, basket)
  /\ pc[t] # "delete" /\ (pc[t] = "done" => action[t].kind # "checkout") =>
       Placed = receipts

\* An action that does not overlap another finds the cart as the shopper knows it.
InTurn ==
  /\ OneAction
  /\ \A t \in Tabs : pc[t] # "idle" => Underway(t)
  /\ Quiet => basket = Holds(cookie) /\ Placed = receipts
  /\ \A t \in Tabs : pc[t] = "idle" => setCookie[t] = Keep

BasketInv == TypeInv /\ (faults = 0 /\ ~overlapped => InTurn)

LEMMA InitBasket == Init => BasketInv
<1> SUFFICES ASSUME Init PROVE InTurn
  BY InitTypes DEF BasketInv
<1>1. basket = Holds(cookie) /\ Placed = receipts
  BY DEF Init, Holds, Placed
<1> QED
  BY <1>1 DEF Init, InTurn, OneAction, Quiet

\* While t is at work, nobody else is.
LEMMA Moved ==
  ASSUME InTurn, NEW t \in Tabs, pc[t] # "idle", pc'[t] # "idle", Underway(t)',
         \A u \in Tabs : u # t => pc'[u] = pc[u] /\ setCookie'[u] = setCookie[u]
  PROVE  InTurn'
<1>1. \A u \in Tabs : u # t => pc'[u] = "idle"
  BY DEF InTurn, OneAction
<1> QED
  BY <1>1 DEF InTurn, OneAction, Quiet

LEMMA StartBasket ==
  ASSUME TypeInv, InTurn, NEW t \in Tabs, Start(t), ~overlapped'
  PROVE  InTurn'
<1>1. PICK a \in Offered(t) :
        /\ cookie = NoCart => a.kind \in {"add", "coupon"}
        /\ action' = [action EXCEPT ![t] = a]
        /\ pc' = [pc EXCEPT ![t] = Begins(a)]
  BY DEF Start, Goto
<1>2. /\ cartOf' = [cartOf EXCEPT ![t] = cookie]
      /\ setCookie' = [setCookie EXCEPT ![t] = Keep]
      /\ UNCHANGED <<stored, ordered, cookie, basket, receipts>>
  BY DEF Start, api
<1>3. \A u \in Tabs : pc[u] = "idle"
  BY DEF Start
<1>4. /\ action'[t] = a /\ pc'[t] = Begins(a)
      /\ cartOf'[t] = cookie /\ setCookie'[t] = Keep
      /\ \A u \in Tabs : u # t => pc'[u] = "idle" /\ setCookie'[u] = Keep
  BY <1>1, <1>2, <1>3 DEF TypeInv, TypeOK, InTurn
<1>5. basket = Holds(cookie) /\ Placed = receipts
  BY <1>3 DEF InTurn, Quiet
<1>6. NextCookie(t)' = cookie /\ Holds(cookie)' = Holds(cookie) /\ Placed' = Placed
  BY <1>2, <1>4 DEF NextCookie, Holds, Placed
<1>7. /\ Begins(a) \in {"create", "load", "order"}
      /\ Begins(a) = "create" <=> cookie = NoCart
      /\ Begins(a) = "order" => a.kind = "checkout"
  BY DEF Begins
<1>8. Underway(t)'
  <2>1. basket' = Holds(NextCookie(t))'
    BY <1>2, <1>5, <1>6 DEF Holds
  <2> QED
    BY <1>2, <1>4, <1>5, <1>6, <1>7, <2>1 DEF Underway
<1> QED
  BY <1>4, <1>7, <1>8 DEF InTurn, OneAction, Quiet

LEMMA CreateBasket ==
  ASSUME TypeInv, InTurn, NEW t \in Tabs, Create(t)
  PROVE  InTurn'
<1>1. PICK c \in Carts \ used :
        /\ stored' = [stored EXCEPT ![c] = EmptyCart]
        /\ cartOf' = [cartOf EXCEPT ![t] = c]
        /\ setCookie' = [setCookie EXCEPT ![t] = c]
  BY DEF Create
<1>2. /\ pc[t] = "create" /\ pc' = [pc EXCEPT ![t] = "load"]
      /\ UNCHANGED <<ordered, cookie, basket, receipts, action>>
  BY DEF Create, Goto, browser
<1>3. /\ pc'[t] = "load" /\ cartOf'[t] = c /\ setCookie'[t] = c /\ stored'[c] = EmptyCart
      /\ \A u \in Tabs : u # t => pc'[u] = pc[u] /\ setCookie'[u] = setCookie[u]
  BY <1>1, <1>2 DEF TypeInv, TypeOK
<1>4. basket = EmptyCart /\ Placed = receipts
  BY <1>2 DEF InTurn, Underway, Holds, NextCookie
<1>5. NextCookie(t)' = c /\ Holds(NextCookie(t))' = EmptyCart /\ Placed' = Placed
  BY <1>1, <1>2, <1>3, CartAssumption DEF NextCookie, Holds, Placed
<1>6. Underway(t)'
  BY <1>2, <1>3, <1>4, <1>5 DEF Underway
<1> QED
  BY <1>2, <1>3, <1>6, Moved

\* The cart that is there is the one the shopper knows.
LEMMA LoadBasket ==
  ASSUME TypeInv, InTurn, NEW t \in Tabs, Load(t) \/ LoadOrder(t)
  PROVE  InTurn'
<1>1. /\ UNCHANGED <<stored, ordered, cookie, basket, receipts, action, cartOf, setCookie>>
      /\ pc[t] \in {"load", "order"}
      /\ \A u \in Tabs : u # t => pc'[u] = pc[u]
  BY DEF Load, LoadOrder, Goto, api, browser, TypeInv, TypeOK
<1>2. \/ pc'[t] = "refused"
      \/ pc'[t] = "save" /\ pc[t] = "load" /\ copy'[t] = stored[cartOf[t]]
      \/ pc'[t] = "place" /\ pc[t] = "order" /\ copy'[t] = stored[cartOf[t]]
  BY DEF Load, LoadOrder, Goto, TypeInv, TypeOK
<1>3. Underway(t) /\ cartOf[t] # NoCart
  BY <1>1, CartAssumption DEF InTurn, TypeInv, TypeOK, Journey
<1>4. Holds(NextCookie(t)) = stored[cartOf[t]]
  BY <1>1, <1>3 DEF Underway, Holds
<1>5. UNCHANGED <<NextCookie(t), Holds(NextCookie(t)), Placed>>
  BY <1>1 DEF NextCookie, Holds, Placed
<1>6. Underway(t)'
  BY <1>1, <1>2, <1>3, <1>4, <1>5 DEF Underway
<1> QED
  BY <1>1, <1>2, <1>6, Moved

\* The api makes of a cart what the shopper expects of it.
LEMMA ChangedExpected ==
  ASSUME basket \in Contents, NEW a \in Action, a.kind \in Edits
  PROVE  Changed(basket, a) = Expected(a)
<1>1. CASE a.kind = "add"
  <2>1. a.product \in Products /\ a.qty \in Nat
    BY <1>1, LineArguments
  <2>2. MergeLine(basket.lines, a.product, a.qty)
          = [basket.lines EXCEPT ![a.product] = basket.lines[a.product] + a.qty]
    BY DEF MergeLine
  <2> QED
    BY <1>1, <2>1, <2>2 DEF Changed, Expected
<1>2. CASE a.kind = "set"
  BY <1>2 DEF Changed, Expected, SetLine
<1>3. CASE a.kind \in {"coupon", "remove"}
  BY <1>3 DEF Changed, Expected
<1> QED
  BY <1>1, <1>2, <1>3 DEF Edits

LEMMA SaveBasket ==
  ASSUME TypeInv, InTurn, NEW t \in Tabs, Save(t)
  PROVE  InTurn'
<1>1. /\ UNCHANGED <<ordered, cookie, basket, receipts, action, cartOf, setCookie>>
      /\ pc[t] = "save" /\ pc' = [pc EXCEPT ![t] = "done"]
      /\ stored' = [stored EXCEPT ![cartOf[t]] = Changed(copy[t], action[t])]
  BY DEF Save, Goto, browser
<1>2. Underway(t) /\ cartOf[t] \in Carts /\ cartOf[t] # NoCart
  BY <1>1, CartAssumption DEF InTurn, TypeInv, TypeOK, Journey
<1>3. action[t] \in Action /\ action[t].kind \in Edits
  BY <1>1 DEF TypeInv, Journey
<1>4. Changed(copy[t], action[t]) = Expected(action[t])
  BY <1>1, <1>2, <1>3, ChangedExpected DEF Underway, TypeInv, TypeOK
<1>5. /\ NextCookie(t)' = cartOf[t] /\ Placed' = Placed
      /\ Expected(action[t])' = Expected(action[t])
  BY <1>1, <1>2 DEF Underway, NextCookie, Placed, Expected
<1>6. Holds(NextCookie(t))' = Expected(action[t])
  <2>1. stored'[cartOf[t]] = Expected(action[t])
    BY <1>1, <1>2, <1>4 DEF TypeInv, TypeOK
  <2> QED
    BY <1>2, <1>5, <2>1 DEF Holds
<1>7. /\ pc'[t] = "done"
      /\ \A u \in Tabs : u # t => pc'[u] = pc[u] /\ setCookie'[u] = setCookie[u]
  BY <1>1 DEF TypeInv, TypeOK
<1>8. Underway(t)'
  BY <1>1, <1>2, <1>3, <1>5, <1>6, <1>7 DEF Underway, Edits
<1> QED
  BY <1>1, <1>7, <1>8, Moved

LEMMA PlaceBasket ==
  ASSUME TypeInv, InTurn, NEW t \in Tabs, PlaceOrder(t)
  PROVE  InTurn'
<1> DEFINE order == [cart |-> cartOf[t], contents |-> copy[t]]
<1>1. /\ UNCHANGED <<stored, cookie, basket, receipts, action, setCookie>>
      /\ pc[t] = "place" /\ pc' = [pc EXCEPT ![t] = "delete"]
      /\ ordered' = Append(ordered, order)
  BY DEF PlaceOrder, Goto, browser
<1>2. Underway(t)
  BY <1>1 DEF InTurn
<1>3. order \in [cart : Carts, contents : Contents] /\ order.contents = basket
  BY <1>1, <1>2 DEF Underway, TypeInv, TypeOK, Journey
<1>4. Placed' = Append(Placed, basket)
  <2>1. ordered \in Seq([cart : Carts, contents : Contents])
    BY DEF TypeInv, TypeOK
  <2>2. \A n \in 1 .. Len(ordered) : ordered[n].contents \in Contents
    <3>1. \A n \in 1 .. Len(ordered) : ordered[n] \in [cart : Carts, contents : Contents]
      BY <2>1, ElementOfSeq
    <3> QED
      BY <3>1
  <2> HIDE DEF order
  <2>3. /\ Len(ordered') = Len(ordered) + 1 /\ Len(ordered) \in Nat
        /\ \A n \in 1 .. Len(ordered) : ordered'[n] = ordered[n]
        /\ ordered'[Len(ordered) + 1] = order
    BY <1>1, <1>3, <2>1
  <2>4. Placed \in Seq(Contents) /\ Len(Placed) = Len(ordered)
    BY <2>2, <2>3 DEF Placed
  <2>5. Placed' \in Seq(Contents)
    <3>1. basket \in Contents
      BY DEF TypeInv, TypeOK
    <3>2. \A n \in 1 .. Len(ordered') : ordered'[n].contents \in Contents
      BY <1>3, <2>2, <2>3, <3>1
    <3> QED
      BY <2>3, <3>2 DEF Placed
  <2>6. /\ Len(Placed') = Len(Placed) + 1
        /\ \A n \in 1 .. Len(Placed) : Placed'[n] = Placed[n]
        /\ Placed'[Len(Placed) + 1] = basket
    BY <1>3, <2>3, <2>4 DEF Placed
  <2>7. basket \in Contents
    BY DEF TypeInv, TypeOK
  <2>8. /\ Append(Placed, basket) \in Seq(Contents)
        /\ Len(Append(Placed, basket)) = Len(Placed) + 1
        /\ \A n \in 1 .. Len(Placed) : Append(Placed, basket)[n] = Placed[n]
        /\ Append(Placed, basket)[Len(Placed) + 1] = basket
    BY <2>4, <2>7
  <2>9. \A n \in 1 .. Len(Placed') : Placed'[n] = Append(Placed, basket)[n]
    BY <2>4, <2>6, <2>8
  <2> QED
    BY <2>5, <2>6, <2>8, <2>9, SeqEqual
<1>5. /\ pc'[t] = "delete"
      /\ \A u \in Tabs : u # t => pc'[u] = pc[u] /\ setCookie'[u] = setCookie[u]
  BY <1>1 DEF TypeInv, TypeOK
<1>6. Underway(t)'
  BY <1>1, <1>2, <1>4, <1>5 DEF Underway
<1> QED
  BY <1>1, <1>5, <1>6, Moved

LEMMA DeleteBasket ==
  ASSUME TypeInv, InTurn, NEW t \in Tabs, DeleteCart(t)
  PROVE  InTurn'
<1>1. /\ UNCHANGED <<ordered, cookie, basket, receipts, action>>
      /\ pc[t] = "delete" /\ pc' = [pc EXCEPT ![t] = "done"]
      /\ setCookie' = [setCookie EXCEPT ![t] = NoCart]
  BY DEF DeleteCart, Goto, browser
<1>2. /\ pc'[t] = "done" /\ setCookie'[t] = NoCart
      /\ \A u \in Tabs : u # t => pc'[u] = pc[u] /\ setCookie'[u] = setCookie[u]
  BY <1>1 DEF TypeInv, TypeOK
<1>3. Underway(t)
  BY <1>1 DEF InTurn
<1>4. Holds(NextCookie(t))' = EmptyCart /\ Expected(action[t])' = EmptyCart
  BY <1>1, <1>2, <1>3, CartAssumption DEF Underway, NextCookie, Holds, Expected
<1>5. Placed' = Placed
  BY <1>1 DEF Placed
<1>6. Underway(t)'
  BY <1>1, <1>2, <1>3, <1>4, <1>5 DEF Underway
<1> QED
  BY <1>1, <1>2, <1>6, Moved

LEMMA AnswerBasket ==
  ASSUME TypeInv, InTurn, NEW t \in Tabs, Answer(t)
  PROVE  InTurn'
<1>1. /\ UNCHANGED <<stored, ordered>>
      /\ pc[t] \in {"done", "refused"} /\ pc' = [pc EXCEPT ![t] = "idle"]
      /\ setCookie' = [setCookie EXCEPT ![t] = Keep]
      /\ cookie' = NextCookie(t)
  BY DEF Answer, Goto, api, NextCookie
<1>2. \A u \in Tabs : pc'[u] = "idle" /\ setCookie'[u] = Keep
  BY <1>1 DEF InTurn, OneAction, TypeInv, TypeOK
<1>3. Underway(t) /\ Placed' = Placed /\ Holds(cookie)' = Holds(NextCookie(t))
  BY <1>1 DEF InTurn, Placed, Holds
<1>4. basket' = Holds(cookie)' /\ Placed' = receipts'
  <2>1. CASE pc[t] = "refused"
    BY <1>3, <2>1 DEF Answer, Underway
  <2>2. CASE pc[t] = "done"
    BY <1>3, <2>2 DEF Answer, Underway
  <2> QED BY <1>1, <2>1, <2>2
<1> QED
  BY <1>2, <1>4 DEF InTurn, OneAction, Quiet

LEMMA RestBasket ==
  ASSUME InTurn, (\E t \in Tabs : Render(t)) \/ UNCHANGED vars
  PROVE  InTurn'
<1>1. UNCHANGED <<stored, ordered, cookie, basket, receipts, pc, action, cartOf, copy,
                  setCookie>>
  BY DEF Render, vars, api
<1>2. \A t \in Tabs : Underway(t)' = Underway(t)
  BY <1>1 DEF Underway, Holds, NextCookie, Placed, Expected
<1> QED
  BY <1>1, <1>2 DEF InTurn, OneAction, Quiet, Holds, Placed

LEMMA StepBasket == BasketInv /\ [Next]_vars => BasketInv'
<1> SUFFICES ASSUME BasketInv, [Next]_vars, faults' = 0, ~overlapped' PROVE InTurn'
  BY StepTypes DEF BasketInv
<1>1. /\ faults = 0
      /\ \A t \in Tabs : ~Fail(t)
      /\ \A c \in Carts : ~Lapse(c)
  BY Untroubled DEF BasketInv
<1>2. ~overlapped
  <2>1. ASSUME NEW t \in Tabs, Start(t) PROVE ~overlapped
    BY <2>1 DEF Start
  <2>2. ASSUME NEW t \in Tabs,
               Create(t) \/ Load(t) \/ Save(t) \/ LoadOrder(t) \/ PlaceOrder(t)
                 \/ DeleteCart(t) \/ Answer(t)
        PROVE  ~overlapped
    BY <2>2 DEF Create, Load, Save, LoadOrder, PlaceOrder, DeleteCart, Answer, bounds
  <2>3. CASE (\E t \in Tabs : Render(t)) \/ UNCHANGED vars
    BY <2>3 DEF Render, vars, bounds
  <2> QED
    BY <1>1, <2>1, <2>2, <2>3 DEF Next
<1>3. TypeInv /\ InTurn
  BY <1>1, <1>2 DEF BasketInv
<1> QED
  BY <1>1, <1>3, StartBasket, CreateBasket, LoadBasket, SaveBasket, PlaceBasket,
     DeleteBasket, AnswerBasket, RestBasket DEF Next

\* A shopper who waits for each answer and meets no failure has in the cart what
\* the answers add up to and got the orders of the baskets that were checked out,
\* whatever cart the cookie names by then: every edit starts from the cart that
\* the shopper knows, and a checkout takes it with it.
THEOREM BasketCorrect == Spec => []BasketKept
<1>1. BasketInv => BasketKept
  BY DEF BasketInv, InTurn, BasketKept, InCart, Holds, Placed
<1>2. QED
  BY <1>1, InitBasket, StepBasket, PTL DEF Spec

===============================================================================
