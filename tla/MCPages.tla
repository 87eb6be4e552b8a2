-------------------------------- MODULE MCPages --------------------------------
(* Two tenants, one product each, and three categories, two of which are *)
(* spellings of one slug. *)
EXTENDS Pages

CONSTANTS t1, t2, p1, c1, c2, c3

TwoTenants      == {t1, t2}
OneProduct      == {p1}
ThreeCategories == {c1, c2, c3}
TwoSlugs        == [c \in ThreeCategories |-> IF c = c3 THEN "shoes" ELSE "shirts"]
================================================================================
