-------------------------------- MODULE Totals --------------------------------
(***************************************************************************)
(* The money math of packages/modules/pricing: what a set of lines costs   *)
(* (totals.service.ts), which promotion applies (promotion-selector.ts),   *)
(* how a percentage is rounded (money-ops.ts) and how the totals are put   *)
(* together (totals-calculator.ts).  The two loops, over the lines and     *)
(* over the candidates in whatever order the database returned them, are   *)
(* steps; the rest are operators.  Checkout runs the same functions on the *)
(* prices and candidates it read.                                          *)
(*                                                                         *)
(* Amounts are integer cents.  Beyond 2^53 the code's numbers would lose   *)
(* cents; the integers of this module do not.                              *)
(***************************************************************************)
EXTENDS Integers, Sequences

CONSTANTS LineSeqs,      \* carts: sequences of lines with their price rows
          CandidateSeqs, \* what listActiveCandidates may return
          Coupons,       \* coupon codes a shopper may have typed
          TaxRates,      \* basis points
          NoCode,        \* no coupon typed; the code of an automatic promotion
          NoCap          \* max_uses IS NULL

Line == [product : STRING, price : Nat, qty : Nat \ {0}]

Promotion == [id : Nat, active : BOOLEAN, expired : BOOLEAN,
              maxUses : Nat \union {NoCap}, usesCount : Nat,
              code : Coupons \union {NoCode},
              condition : [type : {"always", "cart-total-min", "contains-product"},
                           min : Nat, product : STRING],
              action : [type : {"percent", "fixed"}, value : Nat \ {0}]]

\* Column checks of the pricing tables, their primary key, the range of a rate.
ASSUME LinesAssumption == LineSeqs \subseteq Seq(Line)
ASSUME CandidatesAssumption ==
  /\ CandidateSeqs \subseteq Seq(Promotion)
  /\ \A s \in CandidateSeqs : \A m, n \in 1 .. Len(s) : s[m].id = s[n].id => m = n
ASSUME TaxRatesAssumption == TaxRates \subseteq 0 .. 10000

VARIABLES cart,       \* the lines
          candidates, \* the candidates
          coupon,     \* the coupon typed, or NoCode
          taxRate,
          i,          \* the next line, then the next candidate
          subtotal,   \* the sum of the lines seen
          best,       \* the index of the best candidate seen, or 0
          totals,     \* the result
          phase

inputs == <<cart, candidates, coupon, taxRate>>
totalsVars == <<cart, candidates, coupon, taxRate, i, subtotal, best, totals, phase>>

NoTotals == [subtotal |-> 0, discount |-> 0, taxed |-> 0, tax |-> 0, grand |-> 0]

-------------------------------------------------------------------------------
(* money-ops.ts *)

Smaller(a, b) == IF a < b THEN a ELSE b

ClampNonNegative(n) == IF n < 0 THEN 0 ELSE n

\* n ten-thousandths, rounded half to even.
RoundHalfEven(n) ==
  LET quotient  == n \div 10000
      remainder == n % 10000
  IN  IF remainder * 2 < 10000 THEN quotient
      ELSE IF remainder > 5000 THEN quotient + 1
      ELSE IF quotient % 2 = 0 THEN quotient ELSE quotient + 1

MulBps(cents, bps) ==
  IF bps = 0 \/ cents = 0 THEN 0 ELSE RoundHalfEven(cents * bps)

-------------------------------------------------------------------------------
(* promotion-selector.ts *)

ConditionMet(p) ==
  CASE p.condition.type = "always" -> TRUE
    [] p.condition.type = "cart-total-min" -> subtotal >= p.condition.min
    [] p.condition.type = "contains-product" ->
         \E n \in 1 .. Len(cart) : cart[n].product = p.condition.product

ApplyAction(p) ==
  ClampNonNegative(Smaller(subtotal, IF p.action.type = "percent"
                                     THEN MulBps(subtotal, p.action.value)
                                     ELSE p.action.value))

Applies(p) ==
  /\ p.active
  /\ ~p.expired
  /\ p.maxUses = NoCap \/ p.usesCount < p.maxUses
  /\ p.code # NoCode => p.code = coupon
  /\ ConditionMet(p)

\* 0 where the code returns null: a discount of 0 is none.
ComputeDiscount(p) == IF Applies(p) THEN ApplyAction(p) ELSE 0

\* Mutant of Beats: of two equal discounts the later one wins.
BeatsOrTies(n) ==
  LET d == ComputeDiscount(candidates[n])
  IN  d > 0 /\ (best = 0 \/ d >= ComputeDiscount(candidates[best]))

\* Whether candidate n takes the place of the best one seen so far.
Beats(n) ==
  LET d == ComputeDiscount(candidates[n])
  IN  /\ d > 0
      /\ \/ best = 0
         \/ d > ComputeDiscount(candidates[best])
         \/ /\ d = ComputeDiscount(candidates[best])
            /\ candidates[n].id < candidates[best].id

BestDiscount == IF best = 0 THEN 0 ELSE ComputeDiscount(candidates[best])

-------------------------------------------------------------------------------

TotalsInit ==
  /\ cart \in LineSeqs
  /\ candidates \in CandidateSeqs
  /\ coupon \in Coupons \union {NoCode}
  /\ taxRate \in TaxRates
  /\ i = 1
  /\ subtotal = 0
  /\ best = 0
  /\ totals = NoTotals
  /\ phase = "sum"

SumLine ==
  /\ phase = "sum"
  /\ i <= Len(cart)
  /\ subtotal' = subtotal + cart[i].price * cart[i].qty
  /\ i' = i + 1
  /\ UNCHANGED <<inputs, best, totals, phase>>

\* A cart without lines is priced without asking for candidates.
SumDone ==
  /\ phase = "sum"
  /\ i > Len(cart)
  /\ phase' = IF Len(cart) = 0 THEN "compute" ELSE "select"
  /\ i' = 1
  /\ UNCHANGED <<inputs, subtotal, best, totals>>

Consider ==
  /\ phase = "select"
  /\ i <= Len(candidates)
  /\ best' = IF Beats(i) THEN i ELSE best
  /\ i' = i + 1
  /\ UNCHANGED <<inputs, subtotal, totals, phase>>

SelectDone ==
  /\ phase = "select"
  /\ i > Len(candidates)
  /\ phase' = "compute"
  /\ UNCHANGED <<inputs, i, subtotal, best, totals>>

\* Mutant of ComputeTotals: the tax is that of the subtotal.
ComputeTotalsTaxFirst ==
  /\ phase = "compute"
  /\ LET discount == ClampNonNegative(Smaller(subtotal, BestDiscount))
         taxed    == ClampNonNegative(subtotal - discount)
         tax      == MulBps(subtotal, taxRate)
     IN  totals' = [subtotal |-> subtotal, discount |-> discount,
                    taxed |-> taxed, tax |-> tax, grand |-> taxed + tax]
  /\ phase' = "done"
  /\ UNCHANGED <<inputs, i, subtotal, best>>

ComputeTotals ==
  /\ phase = "compute"
  /\ LET discount == ClampNonNegative(Smaller(subtotal, BestDiscount))
         taxed    == ClampNonNegative(subtotal - discount)
         tax      == MulBps(taxed, taxRate)
     IN  totals' = [subtotal |-> subtotal, discount |-> discount,
                    taxed |-> taxed, tax |-> tax, grand |-> taxed + tax]
  /\ phase' = "done"
  /\ UNCHANGED <<inputs, i, subtotal, best>>

TotalsNext == SumLine \/ SumDone \/ Consider \/ SelectDone \/ ComputeTotals

TotalsSpec == TotalsInit /\ [][TotalsNext]_totalsVars

-------------------------------------------------------------------------------
(* Properties *)

TotalsTypeOK ==
  /\ phase \in {"sum", "select", "compute", "done"}
  /\ cart \in LineSeqs /\ candidates \in CandidateSeqs
  /\ coupon \in Coupons \union {NoCode} /\ taxRate \in TaxRates
  /\ i \in Nat \ {0} /\ subtotal \in Nat
  /\ best \in 0 .. Len(candidates)
  /\ totals \in [subtotal : Nat, discount : Nat, taxed : Nat, tax : Nat, grand : Nat]

\* m is n ten-thousandths rounded to the nearest integer, a half to the even one.
Rounded(n, m) ==
  /\ 10000 * m - n <= 5000 /\ n - 10000 * m <= 5000
  /\ 10000 * m - n = 5000 \/ n - 10000 * m = 5000 => m % 2 = 0

\* Whatever the order the candidates come in, the promotion applied is the one
\* with the largest discount, of those the one with the smallest id, and none
\* only if none gives a discount ("best-single ... tie-broken by id").
BestSingle ==
  phase = "done" /\ Len(cart) > 0 =>
    /\ best = 0 => \A n \in 1 .. Len(candidates) : ComputeDiscount(candidates[n]) = 0
    /\ best # 0 =>
         /\ ComputeDiscount(candidates[best]) > 0
         /\ \A n \in 1 .. Len(candidates) :
              LET d == ComputeDiscount(candidates[n])
              IN  \/ d < BestDiscount
                  \/ d = BestDiscount /\ candidates[best].id <= candidates[n].id

\* The totals are what a receipt promises: no discount beyond the subtotal, the
\* tax is that of the discounted amount, rounded to the nearest cent with halves
\* to even, no more than the amount it taxes, and everything adds up.
ReceiptAddsUp ==
  phase = "done" =>
    /\ totals.discount <= totals.subtotal
    /\ totals.grand + totals.discount = totals.subtotal + totals.tax
    /\ Rounded((totals.subtotal - totals.discount) * taxRate, totals.tax)
    /\ totals.tax <= totals.subtotal - totals.discount
===============================================================================
