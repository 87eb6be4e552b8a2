-------------------------------- MODULE MCCart --------------------------------
(* Small instances of Cart: two tabs, and a second cart after the first. *)
EXTENDS Cart, TLC

CONSTANTS t1, t2, c1, c2, p1, p2

TwoTabs     == {t1, t2}
TwoCarts    == {c1, c2}
OneProduct  == {p1}
TwoProducts == {p1, p2}

TabAndCartSymmetry == Permutations(Tabs) \union Permutations(Carts)
===============================================================================
