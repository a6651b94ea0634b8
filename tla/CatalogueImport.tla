--------------------------- MODULE CatalogueImport ---------------------------
(***************************************************************************)
(* The two imports of a catalogue, POST /axonaut/import-products and       *)
(* POST /husse/import.  Both go through the fetched items one by one, find  *)
(* or create the packaging, or the family and sub-family, that an item      *)
(* names, then look for its product and create or update it: one action    *)
(* per database call, and other imports and the users write in between.    *)
(* The Axonaut import notes the error of an item and goes on with the next  *)
(* one; the Husse import dies of it.                                        *)
(***************************************************************************)
EXTENDS Integers, Sequences, FiniteSets

CONSTANTS Request,     \* request slots of the server
          Import,      \* the imports that may be asked for
          Source,      \* which of the two imports each of them is
          Fetched,     \* the items that each of them reads from the other side
          Sku,         \* references
          None,        \* the absence of a reference, a packaging, a family, a group
          Price,       \* the prices of the items and of the users
          NoPrice,     \* a Husse item without a legible price
          MaxImports,  \* bound: imports started
          MaxEvents    \* bound: writes of the users and calls that fail

AxonautItem == [sku : Sku \cup {None}, axo : Nat, price : Price, packaging : STRING]
HusseItem   == [sku : Sku \cup {None}, family : STRING, group : STRING,
                price : Price \cup {NoPrice}]

ASSUME CatalogueAssumption ==
    /\ 0 \in Price /\ Price \subseteq Nat
    /\ NoPrice \notin Nat
    /\ Sku \subseteq STRING /\ None \in STRING \ Sku
    /\ {"user", "fault"} \cap Import = {}
    /\ Source \in [Import -> {"axonaut", "husse"}]
    /\ \A j \in Import :
         /\ Fetched[j] \in Seq(IF Source[j] = "axonaut" THEN AxonautItem ELSE HusseItem)
         /\ Fetched[j] # << >>
         /\ Source[j] = "axonaut" =>  \* an id serves as reference too
              \A n \in DOMAIN Fetched[j] : Fetched[j][n].sku = None => Fetched[j][n].axo = 0
    /\ MaxImports \in Nat /\ MaxEvents \in Nat

VARIABLES products,  \* the catalogue, by id
          names,     \* the packagings, families and sub-families there are
          req,       \* what each request slot waits for
          lost,      \* history: the items of a catalogue for which a call failed, in
                     \* the imports of it that are at work or in one they overlapped
          imports, events  \* imports started and events so far, for the bounds

vars == <<products, names, req, lost, imports, events>>

\* A name that is unique in its table, that of a sub-family in its family.
Name == [kind : {"packaging", "family", "sub-family"}, of : STRING, name : STRING]
Packaging(name)         == [kind |-> "packaging", of |-> None, name |-> name]
Family(name)            == [kind |-> "family", of |-> None, name |-> name]
SubFamily(family, name) == [kind |-> "sub-family", of |-> family, name |-> name]

Product == [sku : Sku, axo : Nat, price : Nat, sale : Nat,
            packaging : STRING, family : STRING, group : STRING]
Ids == DOMAIN products

Idle == [step |-> "idle"]

\* names are those still to be ensured for the current item, id and found the
\* product as it was read.  The rest is history: errors are the items that
\* failed; writers are who wrote or died since the import started, and who had
\* since those writers started theirs; torn tells whether an item answered to two
\* products or a product to two items, for the import or those that wrote; stale
\* whether anyone wrote since the current item was begun.
Work == [step : {"pass", "find name", "create name", "find", "create", "update",
                 "done", "failed"},
         job : Import, item : Nat, names : Seq(Name), id : Nat,
         found : [sku : Sku \cup {None}, axo : Nat, price : Nat],
         errors : SUBSET Nat, writers : SUBSET (Import \cup {"user", "fault"}),
         torn : BOOLEAN, stale : BOOLEAN]

\* No product has been read yet.
Unread == [sku |-> None, axo |-> 0, price |-> 0]

Current(work) == Fetched[work.job][work.item]
OfAxonaut(work) == work # Idle /\ Source[work.job] = "axonaut"
OfHusse(work) == work # Idle /\ Source[work.job] = "husse"

TypeOK ==
    /\ products \in Seq(Product)
    /\ names \subseteq Name
    /\ req \in [Request -> {Idle} \cup Work]
    /\ \A r \in Request : req[r] # Idle =>
         /\ req[r].item \in DOMAIN Fetched[req[r].job]
         /\ req[r].step \in {"find name", "create name"} <=> req[r].names # << >>
         /\ req[r].step = "update" => req[r].id \in Ids
         /\ req[r].errors \subseteq DOMAIN Fetched[req[r].job]
    /\ lost \in [Import -> SUBSET Nat]
    /\ imports \in 0 .. MaxImports /\ events \in 0 .. MaxEvents

Init == /\ products = << >>
        /\ names = {}
        /\ req = [r \in Request |-> Idle]
        /\ lost = [j \in Import |-> {}]
        /\ imports = 0 /\ events = 0

-----------------------------------------------------------------------------
Become(r, work) == req' = [req EXCEPT ![r] = work]

\* After a write, whoever is at work may hold what is no longer so.
Disturbed(work, writers, torn) ==
    IF work = Idle THEN Idle
    ELSE [work EXCEPT !.writers = @ \cup writers, !.torn = @ \/ torn, !.stale = TRUE]

BecomeWriting(r, work) ==
    req' = [q \in Request |->
              IF q = r THEN work
              ELSE Disturbed(req[q], {req[r].job} \cup req[r].writers, req[r].torn)]

\* What has to be there before the product: the packaging of an Axonaut item;
\* the family of a Husse item and, with a family only, its sub-family.
NamesOf(job, item) ==
    CASE Source[job] = "axonaut" /\ item.packaging # None -> << Packaging(item.packaging) >>
      [] Source[job] = "husse" /\ item.family # None /\ item.group = None ->
            << Family(item.family) >>
      [] Source[job] = "husse" /\ item.family # None /\ item.group # None ->
            << Family(item.family), SubFamily(item.family, item.group) >>
      [] OTHER -> << >>

\* Mutant: a name is looked for when none is left.
EnsuringOneMore(work, left) == [work EXCEPT !.names = left, !.step = "find name"]

\* The next call for the item once some of its names are ensured.
Ensuring(work, left) ==
    [work EXCEPT !.names = left, !.step = IF left = << >> THEN "find" ELSE "find name"]

AtItem(work, n) ==
    LET item  == Fetched[work.job][n]
        begun == [work EXCEPT !.item = n, !.stale = FALSE, !.names = << >>,
                              !.id = 0, !.found = Unread]
    IN  IF item.sku = None THEN [begun EXCEPT !.step = "pass"]
        ELSE Ensuring(begun, NamesOf(work.job, item))

NextItem(work) ==
    IF work.item < Len(Fetched[work.job]) THEN AtItem(work, work.item + 1)
    ELSE [work EXCEPT !.step = "done", !.names = << >>]

\* Mutant: an Axonaut item is looked up by its reference only.
MatchesSku(job, item) == {id \in Ids : products[id].sku = item.sku}

\* The products an item may be about: by Axonaut id or sku, or by sku alone.
Matches(job, item) ==
    {id \in Ids : \/ products[id].sku = item.sku
                  \/ Source[job] = "axonaut" /\ item.axo # 0 /\ products[id].axo = item.axo}

\* An error of one of the calls for an item: importProducts of Axonaut notes it
\* and continues, upsertProducts of Husse lets it through.
Refused(work) ==
    IF Source[work.job] = "husse" THEN [work EXCEPT !.step = "failed", !.names = << >>]
    ELSE NextItem([work EXCEPT !.errors = @ \cup {work.item}])

\* The catalogue has been fetched; what follows is in the database.
Start(r, j) ==
    LET work == [step |-> "pass", job |-> j, item |-> 1, names |-> << >>, id |-> 0,
                 found |-> Unread,
                 errors |-> {}, writers |-> {}, torn |-> FALSE, stale |-> FALSE] IN
    /\ req[r] = Idle
    /\ imports < MaxImports
    /\ Become(r, AtItem(work, 1))
    /\ imports' = imports + 1
    /\ UNCHANGED <<products, names, lost, events>>

\* An item without a reference: an error of the Axonaut import, skipped by the other.
Pass(r) ==
    /\ req[r].step = "pass"
    /\ Become(r, NextItem(IF Source[req[r].job] = "axonaut"
                          THEN [req[r] EXCEPT !.errors = @ \cup {req[r].item}]
                          ELSE req[r]))
    /\ UNCHANGED <<products, names, lost, imports, events>>

\* Mutant: names are created without looking whether they exist.
FindNoName(r) ==
    /\ req[r].step = "find name"
    /\ Become(r, [req[r] EXCEPT !.step = "create name"])
    /\ UNCHANGED <<products, names, lost, imports, events>>

FindName(r) ==
    /\ req[r].step = "find name"
    /\ Become(r, IF Head(req[r].names) \in names THEN Ensuring(req[r], Tail(req[r].names))
                 ELSE [req[r] EXCEPT !.step = "create name"])
    /\ UNCHANGED <<products, names, lost, imports, events>>

\* The loser of two creations of a name is refused by its unique key.
CreateName(r) ==
    /\ req[r].step = "create name"
    /\ IF Head(req[r].names) \in names
       THEN Become(r, Refused(req[r])) /\ UNCHANGED names
       ELSE /\ names' = names \cup {Head(req[r].names)}
            /\ BecomeWriting(r, Ensuring(req[r], Tail(req[r].names)))
    /\ UNCHANGED <<products, lost, imports, events>>

\* Two products answer to an item, or one of them answers to another item too.
Disputed(job, n) ==
    LET matches(m) == Matches(job, Fetched[job][m]) IN
    \/ Cardinality(matches(n)) > 1
    \/ \E m \in DOMAIN Fetched[job] \ {n} : matches(n) \cap matches(m) # {}

\* History: a disputed item tears every import of its catalogue that is under way.
Torn(job, n, work) ==
    IF work # Idle /\ work.job = job /\ Disputed(job, n) THEN [work EXCEPT !.torn = TRUE]
    ELSE work

\* findFirst without an order: any of the products that match.
Find(r) ==
    LET work    == req[r]
        matches == Matches(work.job, Current(work))
        seen    == [q \in Request |-> Torn(work.job, work.item, req[q])] IN
    /\ work.step = "find"
    /\ \/ matches = {} /\ Become(r, [work EXCEPT !.step = "create"])
       \/ \E id \in matches :
            req' = [seen EXCEPT ![r].step = "update", ![r].id = id,
                                ![r].found = [sku   |-> products[id].sku,
                                              axo   |-> products[id].axo,
                                              price |-> products[id].price]]
    /\ UNCHANGED <<products, names, lost, imports, events>>

\* The unique keys of Product, id being the one that is written.
Clashes(id, product) ==
    \E other \in Ids \ {id} :
        \/ products[other].sku = product.sku
        \/ product.axo # 0 /\ products[other].axo = product.axo

\* What importProducts and upsertProducts create.
Made(work) ==
    LET item == Current(work) IN
    IF Source[work.job] = "axonaut"
    THEN [sku |-> item.sku, axo |-> item.axo, price |-> item.price, sale |-> item.price,
          packaging |-> item.packaging, family |-> None, group |-> None]
    ELSE [sku |-> item.sku, axo |-> 0, price |-> IF item.price = NoPrice THEN 0 ELSE item.price,
          sale |-> 0, packaging |-> None, family |-> item.family,
          group |-> IF item.family = None THEN None ELSE item.group]

Create(r) ==
    /\ req[r].step = "create"
    /\ IF Clashes(0, Made(req[r]))
       THEN Become(r, Refused(req[r])) /\ UNCHANGED products
       ELSE /\ products' = Append(products, Made(req[r]))
            /\ BecomeWriting(r, NextItem(req[r]))
    /\ UNCHANGED <<names, lost, imports, events>>

\* importProducts: the reference and the id only when they differ from those
\* that were read, the prices always.
Refreshed(product, item, found) ==
    [product EXCEPT !.sku = IF item.sku # found.sku THEN item.sku ELSE @,
                    !.axo = IF item.axo # 0 /\ item.axo # found.axo THEN item.axo ELSE @,
                    !.price = item.price, !.sale = item.price,
                    !.packaging = IF item.packaging # None THEN item.packaging ELSE @]

UpdateAxonaut(r) ==
    LET id      == req[r].id
        product == Refreshed(products[id], Current(req[r]), req[r].found) IN
    /\ req[r].step = "update" /\ OfAxonaut(req[r])
    /\ IF Clashes(id, product)
       THEN Become(r, Refused(req[r])) /\ UNCHANGED products
       ELSE /\ products' = [products EXCEPT ![id] = product]
            /\ BecomeWriting(r, NextItem(req[r]))
    /\ UNCHANGED <<names, lost, imports, events>>

\* upsertProducts: the price, not the sale price; without a price in the item
\* the one that was read is written back.
Scraped(product, item, found) ==
    [product EXCEPT !.price = IF item.price = NoPrice THEN found.price ELSE item.price,
                    !.family = item.family,
                    !.group = IF item.family = None THEN None ELSE item.group]

\* The update goes to the product that has the reference by now, if any.
UpdateHusse(r) ==
    LET item   == Current(req[r])
        owners == {id \in Ids : products[id].sku = item.sku} IN
    /\ req[r].step = "update" /\ OfHusse(req[r])
    /\ \/ owners = {} /\ Become(r, Refused(req[r])) /\ UNCHANGED products
       \/ \E id \in owners :
            /\ products' = [products EXCEPT ![id] = Scraped(@, item, req[r].found)]
            /\ BecomeWriting(r, NextItem(req[r]))
    /\ UNCHANGED <<names, lost, imports, events>>

\* Mutant: a failed call ends the loop, and the import answers.
FailsForGood(r) ==
    /\ req[r].step \in {"find name", "create name", "find", "create", "update"}
    /\ OfAxonaut(req[r])
    /\ Become(r, [req[r] EXCEPT !.errors = @ \cup {req[r].item}, !.step = "done", !.names = << >>])
    /\ lost' = [lost EXCEPT ![req[r].job] = @ \cup {req[r].item}]
    /\ events < MaxEvents
    /\ events' = events + 1
    /\ UNCHANGED <<products, names, imports>>

\* importProducts: a call for an item fails for a reason of its own, a database
\* that is busy or too slow, and writes nothing.
Fails(r) ==
    /\ req[r].step \in {"find name", "create name", "find", "create", "update"}
    /\ OfAxonaut(req[r])
    /\ Become(r, Refused(req[r]))
    /\ lost' = [lost EXCEPT ![req[r].job] = @ \cup {req[r].item}]
    /\ events < MaxEvents
    /\ events' = events + 1
    /\ UNCHANGED <<products, names, imports>>

\* History: what an import and those it overlapped lost is told until the last
\* of them has ended.
Over(r) ==
    lost' = IF \E q \in Request \ {r} : req[q] # Idle /\ req[q].job = req[r].job THEN lost
            ELSE [lost EXCEPT ![req[r].job] = {}]

\* The import answers.
Return(r) ==
    /\ req[r].step \in {"done", "failed"}
    /\ Become(r, Idle)
    /\ Over(r)
    /\ UNCHANGED <<products, names, imports, events>>

\* The server stops in the middle, or a call of a Husse import fails, which
\* nothing catches.
Abort(r) ==
    /\ req[r].step \notin {"idle", "done", "failed"}
    /\ req' = [q \in Request |->
                 IF q = r \/ req[q] = Idle THEN Idle
                 ELSE [req[q] EXCEPT !.writers = @ \cup {"fault"}]]
    /\ Over(r)
    /\ UNCHANGED <<products, names, imports, events>>

-----------------------------------------------------------------------------
ByUser == /\ events < MaxEvents
          /\ events' = events + 1
          /\ req' = [q \in Request |-> Disturbed(req[q], {"user"}, FALSE)]
          /\ UNCHANGED <<lost, imports>>

\* ProductsService.create and update: the price and the sale price together.
AddProduct(sku, price) ==
    LET product == [sku |-> sku, axo |-> 0, price |-> price, sale |-> price,
                    packaging |-> None, family |-> None, group |-> None] IN
    /\ ByUser
    /\ ~ Clashes(0, product)
    /\ products' = Append(products, product)
    /\ UNCHANGED names

EditProduct(id, sku, price) ==
    /\ ByUser
    /\ ~ Clashes(id, [products[id] EXCEPT !.sku = sku])
    /\ products' = [products EXCEPT ![id].sku = sku, ![id].price = price, ![id].sale = price]
    /\ UNCHANGED names

\* PackagingsService.create, FamiliesService.createFamily and createSubFamily.
AddName(name) ==
    /\ ByUser
    /\ name.kind = "sub-family" => Family(name.of) \in names
    /\ names' = names \cup {name}
    /\ UNCHANGED products

Serve(r) ==
    \/ \E j \in Import : Start(r, j)
    \/ Pass(r) \/ FindName(r) \/ CreateName(r)
    \/ Find(r) \/ Create(r) \/ UpdateAxonaut(r) \/ UpdateHusse(r)
    \/ Fails(r) \/ Return(r) \/ Abort(r)

Next ==
    \/ \E r \in Request : Serve(r)
    \/ \E sku \in Sku, price \in Price : AddProduct(sku, price)
    \/ \E id \in Ids, sku \in Sku, price \in Price : EditProduct(id, sku, price)
    \/ \E j \in Import : \E n \in DOMAIN Fetched[j] :
         \E k \in DOMAIN NamesOf(j, Fetched[j][n]) : AddName(NamesOf(j, Fetched[j][n])[k])

Spec == Init /\ [][Next]_vars

-----------------------------------------------------------------------------
\* No two items of the catalogue share a reference or an id.
Distinct(items) ==
    \A n, m \in DOMAIN items : n # m /\ items[n].sku # None =>
        items[n].sku # items[m].sku /\ (items[n].axo # 0 => items[n].axo # items[m].axo)

Shows(product, item) ==
    /\ product.sku = item.sku
    /\ item.axo # 0 => product.axo = item.axo
    /\ product.price = item.price /\ product.sale = item.price
    /\ item.packaging # None =>
         product.packaging = item.packaging /\ Packaging(item.packaging) \in names

\* What importProducts of axonaut.service.ts is for.  When it answers, and only
\* imports of the same catalogue ran meanwhile and none of them died, every item
\* with a reference has a product with its id, prices and packaging, or gets it
\* from an import that is still at work, or is one for which a call failed, in
\* this import or in one it overlapped: a call that fails costs its own item and
\* no other, and of the items that overlapping imports make each other fail, none
\* is lost.  That is so as long as no item answered to two products, an id to one
\* and the reference to the other, and no product to two items: then one import
\* may move a product away that another has just written.
ImportedIsCurrent ==
    \A r \in Request :
        LET work  == req[r]
            items == Fetched[work.job] IN
        /\ OfAxonaut(work) /\ work.step = "done"
        /\ work.writers \subseteq {work.job} /\ ~ work.torn /\ Distinct(items)
        => \A n \in DOMAIN items :
                \/ items[n].sku = None
                \/ n \in lost[work.job]
                \/ \E id \in Ids : Shows(products[id], items[n])
                \/ \E q \in Request : /\ req[q] # Idle /\ req[q].job = work.job
                                      /\ req[q].step # "done" /\ req[q].item <= n

\* Of Husse imports that overlap each other and nothing else, however many they
\* are, never do all die: the one that loses a creation loses it to one that goes
\* on.
OneGetsThrough ==
    \E r \in Request :
        /\ OfHusse(req[r]) /\ (\A j \in req[r].writers : j \in Import /\ Source[j] = "husse")
        => req[r].step # "failed"

\* Where no call failed for a reason of its own, an import is refused by the
\* database only for an item that two products answer to, or after something was
\* written since it began with the item: what it looks for is all that the unique
\* keys can hold against it.
RefusalsExplained ==
    [][\A r \in Request :
         LET work == req[r] IN
         work # Idle /\ work.step \notin {"pass", "done", "failed"} /\ req'[r] # Idle
         /\ (req'[r].step = "failed" \/ work.item \in req'[r].errors \ lost'[work.job]) =>
              work.stale \/ Cardinality(Matches(work.job, Current(work))) > 1]_vars
=============================================================================
