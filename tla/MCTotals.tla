------------------------------- MODULE MCTotals -------------------------------
(***************************************************************************)
(* Totals on hand-picked carts, promotions and rates: every reason for a   *)
(* promotion not to apply, ties between promotions, discounts beyond the   *)
(* subtotal, products and rates whose percentage falls below, on and above *)
(* half a cent with an even and an odd quotient (money-ops.spec.ts).       *)
(***************************************************************************)
EXTENDS Totals, SequencesExt

L(p, c, q) == [product |-> p, price |-> c, qty |-> q]

MCLines ==
  {<<>>, <<L("a", 0, 1)>>, <<L("a", 100, 1)>>, <<L("a", 100, 3)>>,
   <<L("b", 500, 1)>>, <<L("a", 100, 2), L("b", 500, 1)>>, <<L("b", 333, 3)>>}

P(id, code, type, value, condition) ==
  [id |-> id, active |-> TRUE, expired |-> FALSE, maxUses |-> NoCap, usesCount |-> 0,
   code |-> code, condition |-> condition, action |-> [type |-> type, value |-> value]]

Always   == [type |-> "always", min |-> 0, product |-> ""]
AtLeast  == [type |-> "cart-total-min", min |-> 300, product |-> ""]
WithB   == [type |-> "contains-product", min |-> 0, product |-> "b"]

MCPromotions ==
  {P(1, NoCode, "percent", 50, Always),
   P(2, NoCode, "fixed", 100, AtLeast),
   P(3, NoCode, "fixed", 100, WithB),
   P(4, "save", "fixed", 900, Always),
   P(5, NoCode, "percent", 12000, WithB),
   [P(6, NoCode, "fixed", 5000, Always) EXCEPT !.active = FALSE],
   [P(7, NoCode, "fixed", 5000, Always) EXCEPT !.expired = TRUE],
   [P(8, NoCode, "fixed", 5000, Always) EXCEPT !.maxUses = 2, !.usesCount = 2],
   [P(9, NoCode, "fixed", 100, Always) EXCEPT !.maxUses = 2, !.usesCount = 1]}

\* Up to three candidates in any order.
MCCandidates ==
  {s \in SeqOf(MCPromotions, 3) :
     \A m, n \in 1 .. Len(s) : s[m].id = s[n].id => m = n}
===============================================================================
