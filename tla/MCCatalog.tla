------------------------------ MODULE MCCatalog ------------------------------
(* Small instances of Catalog for TLC. *)
EXTENDS Catalog, TLC

CONSTANTS a1, a2, p, k1, k2, s

MCProviderOf == [k \in Key |-> p]

\* One key, and no group yet or one that the key is in.
MCStored ==
  {[NoTables EXCEPT !.providers = [q \in Provider |-> "active"],
                    !.keys = [k \in Key |-> IF k = k1 THEN "active" ELSE "absent"],
                    !.groups = [r \in Slug |-> g],
                    !.members = IF g = NoGroup THEN {} ELSE {<<g, k1>>}] :
     g \in {NoGroup, 1}}

MCSymmetry == Permutations(Admin)
=============================================================================
