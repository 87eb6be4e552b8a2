-------------------------------- MODULE MCBrowse --------------------------------
(* Five products on pages of two. *)
EXTENDS Browse, TLC

CONSTANTS p1, p2, p3, p4, p5

Five == {p1, p2, p3, p4, p5}

Document(name, cat, color, price, stock, score) ==
  [name |-> name, cat |-> cat, attr |-> [a \in {"color"} |-> color],
   price |-> price, stock |-> stock,
   score |-> [t \in {"shi", "sho"} |-> IF t = "shi" THEN score ELSE 2 - score]]

\* p1 and p2 have the same name and tie unless their price or score tells them
\* apart; p5 has no price.
FiveDocs ==
  p1 :> Document(1, "shirts", "red",  2, TRUE,  2) @@ p2 :> Document(1, "shirts", "blue", 1, TRUE, 2)
    @@ p3 :> Document(2, "shirts", "red", 1, FALSE, 1) @@ p4 :> Document(3, "shoes", "red", 2, TRUE, 0)
    @@ p5 :> Document(4, "shoes", "blue", NoPrice, FALSE, 0)
MCFickle == {p1, p5}
TwoBands == {AnyBand, [lo |-> NoBound, hi |-> 1]}

\* One order and its reverse.
EitherWay ==
  LET t == p1 :> 1 @@ p2 :> 2 @@ p3 :> 3 @@ p4 :> 4 @@ p5 :> 5
  IN  {t, [p \in Five |-> 6 - t[p]]}

\* The home page, a category, and urls no link leads to: two values of a facet,
\* and pages far out.
FourBookmarks ==
  {BareUrl(Home), BareUrl("shirts"),
   [BareUrl(Home) EXCEPT !.sel = [a \in {"color"} |-> {"red", "blue"}], !.page = 3],
   [BareUrl("shirts") EXCEPT !.q = "shi", !.page = 7]}

================================================================================
