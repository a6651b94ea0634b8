-------------------------- MODULE MCDocumentIngest --------------------------
(* Instances of DocumentIngest for TLC: the documents that are sent.        *)
EXTENDS DocumentIngest, TLC

SlotSymmetry == Permutations(Request)

ItemA(axo, price, qty) == [ref |-> "A", name |-> "A", axo |-> axo, price |-> price, qty |-> qty]
\* B is a reference whose product carries the name A.
ItemB(axo, price, qty) == [ref |-> "B", name |-> "A", axo |-> axo, price |-> price, qty |-> qty]
NoItem(axo)            == [ref |-> NoRef, name |-> "A", axo |-> axo, price |-> NoPrice, qty |-> 1]

Invoice(lines) == [type |-> "FACTURE", sign |-> "none", tracked |-> TRUE,
                   axonaut |-> TRUE, lines |-> lines]
Credit(lines) == [Invoice(lines) EXCEPT !.type = "AVOIR"]
Delivery(lines) == [type |-> "BON_LIVRAISON", sign |-> "none", tracked |-> TRUE,
                    axonaut |-> FALSE, lines |-> lines]
Anonymous(sign, lines) == [type |-> "OTHER", sign |-> sign, tracked |-> FALSE,
                           axonaut |-> FALSE, lines |-> lines]

SerialDocs == [invoice  |-> Invoice(<<ItemA(1, 2, 1), ItemB(2, 0, 1)>>),
               delivery |-> Delivery(<<ItemB(0, NoPrice, -1), NoItem(2), ItemA(0, 1, 1)>>),
               credit   |-> Credit(<<ItemB(1, 1, 1)>>),
               scrap    |-> Anonymous("OUT", <<ItemA(0, 1, 1)>>)]

\* Without prices other than 0, which the questions of that run do not need.
SharedDocs == [invoice  |-> Invoice(<<ItemA(1, 0, 1), NoItem(1)>>),
               delivery |-> Delivery(<<ItemA(0, NoPrice, 1), ItemB(0, NoPrice, 1)>>)]

Catalog == [A |-> [axo |-> 1, price |-> 2]]
UnpricedCatalog == [A |-> [axo |-> 1, price |-> NoPrice]]
=============================================================================
