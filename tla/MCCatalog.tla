------------------------------- MODULE MCCatalog -------------------------------
(***************************************************************************)
(* Two tenants, the second only seeded; two of: runs of the seed, admin    *)
(* requests.                                                               *)
(***************************************************************************)
EXTENDS Seed, TLC

CONSTANTS t1, t2, bulk, viaApi, other, c1

MCIds == 1 .. 7
MCDrawn == {2, 4, 6, 7}
MCUuid == [n \in 1 .. MaxActs |-> [t \in Tenants |-> IF t = t1 THEN 2 * n ELSE 5 + n]]
MCFixtures == <<t1, t2>>
MCAttributes == <<c1>>

\* Two products of the first tenant to begin with, one with the seed's sku.
MCStarts ==
  LET Row(s) == [tenant |-> t1, sku |-> s, codes |-> {}]
  IN  {[row |-> [i \in Ids |-> CASE i = 1 -> Row(other) [] i = 5 -> Row(viaApi)
                                 [] OTHER -> NoRow],
        defined |-> [t \in Tenants |-> IF t = t1 THEN {c1} ELSE {}]]}

MCSymmetry == Permutations(Requests)

\* Creates of a free sku and of a taken one, renames to one sku, new attributes,
\* deletions, prices, a definition, a listing.
MCAdminOps ==
  {o \in Operation :
     /\ o.tenant = t1
     /\ \/ o.kind = "create" /\ o.id = Unsaid /\ o.sku \in {bulk, viaApi} /\ o.codes = {c1}
        \/ o.kind = "update" /\ o.id \in {1, 2, 5} /\ o.sku = bulk /\ o.codes = {Unsaid}
        \/ o.kind = "update" /\ o.id = 1 /\ o.sku = Unsaid /\ o.codes = {c1}
        \/ o.kind = "delete" /\ o.id \in {1, 2} /\ o.sku = Unsaid /\ o.codes = {}
        \/ o.kind = "price" /\ o.id \in {1, 3} /\ o.sku = Unsaid /\ o.codes = {}
        \/ o.kind = "define" /\ o.id = Unsaid /\ o.sku = Unsaid /\ o.codes = {c1}
        \/ o.kind = "list" /\ o.id = Unsaid /\ o.sku = Unsaid /\ o.codes = {}}
================================================================================
