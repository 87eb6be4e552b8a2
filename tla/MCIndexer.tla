------------------------------ MODULE MCIndexer ------------------------------
(* Small instances of Indexer: one product is where edits collide. *)
EXTENDS Indexer, TLC

CONSTANTS p1, c1, c2, r1

OneProduct    == {p1}
OneCategory   == {c1}
TwoCategories == {c1, c2}
OneFetch      == {r1}

CategorySymmetry == Permutations(Categories)
==============================================================================
