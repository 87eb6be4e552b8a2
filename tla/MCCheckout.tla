------------------------------ MODULE MCCheckout ------------------------------
(* Small instances of Checkout: one cart, one key and one promotion are where  *)
(* two requests meet.                                                          *)
EXTENDS Checkout

CONSTANTS r1, r2, k1, c1, b1, p1, x1

TwoRequests == {r1, r2}
OneKey      == {k1}
OneCart     == {c1}
OneBasket   == {b1}
OnePromo    == {p1}
OnePrice    == {x1}
===============================================================================
