-------------------------- MODULE MCCatalogueImport --------------------------
(* Instances of CatalogueImport for TLC: the catalogues that are fetched.    *)
EXTENDS CatalogueImport, TLC

SlotSymmetry == Permutations(Request)

Ours(sku, axo, price, packaging) ==
    [sku |-> sku, axo |-> axo, price |-> price, packaging |-> packaging]
Theirs(sku, family, group, price) ==
    [sku |-> sku, family |-> family, group |-> group, price |-> price]

\* first and renamed are the catalogue of Axonaut before and after product 1
\* took another reference and product 2 lost its id; shelf is a listing of Husse.
Sources == [first |-> "axonaut", renamed |-> "axonaut", shelf |-> "husse"]

Catalogues ==
    [first   |-> << Ours("a", 1, 1, "box"), Ours("b", 2, 0, None) >>,
     renamed |-> << Ours("c", 1, 1, "box"), Ours(None, 0, 1, None), Ours("b", 0, 1, None) >>,
     shelf   |-> << Theirs("a", "F", "G", NoPrice), Theirs(None, "F", None, 1),
                    Theirs("b", None, "G", 1) >>]
=============================================================================
