--------------------------- MODULE DocumentIngest ---------------------------
(***************************************************************************)
(* POST /documents/ingest: the lines of a delivery note, an invoice or a   *)
(* credit note become stock movements, products being found, created,      *)
(* linked to their Axonaut id and completed on the way.  One action per    *)
(* database call of the handler, so that other ingests and the edits of    *)
(* the catalogue may run in between; the movements are inserted at the end *)
(* in one statement.  Numbers stand for the ids of the products (their     *)
(* rank of creation) and for Axonaut ids, 0 being an absent one.  Of the   *)
(* fields that mergeAxonautFields fills, sale (priceSaleHt) stands for all *)
(* that it checks, price is the one that it writes along with sale.        *)
(***************************************************************************)
EXTENDS Integers, Sequences, FiniteSets

CONSTANTS Request,      \* request slots of the server
          Document,     \* (docType, sourceDocumentId) pairs, or anonymous documents
          Ref,          \* references, skus and product names
          NoRef,        \* a line without a reference
          Sent,         \* what a client sends for each document
          Catalogue,    \* what Axonaut answers for some references
          Price,        \* the prices that users and Husse write
          NoPrice,      \* a line, an answer or a page without a price
          EditsOverlap, \* may the catalogue be edited during an ingest?
          FaultyCreate, \* may the database refuse a product for no reason seen here?
          MaxBatches    \* bound: how often an anonymous document may be sent

Line == [ref : Ref \cup {NoRef}, name : Ref, axo : Nat,
         price : Nat \cup {NoPrice}, qty : Int]

DocType == {"FACTURE", "AVOIR", "BON_LIVRAISON", "OTHER"}

ASSUME IngestAssumption ==
    /\ NoRef \notin Ref
    /\ 0 \in Price /\ Price \subseteq Nat /\ NoPrice \notin Nat
    /\ EditsOverlap \in BOOLEAN /\ FaultyCreate \in BOOLEAN
    /\ Sent \in [Document -> [type : DocType, sign : {"IN", "OUT", "none"},
                              tracked : BOOLEAN, axonaut : BOOLEAN, lines : Seq(Line)]]
    /\ \A d \in Document : Sent[d].lines # << >> /\ (Sent[d].axonaut => Sent[d].tracked)
    /\ MaxBatches \in Nat
    /\ DOMAIN Catalogue \subseteq Ref
    /\ \A ref \in DOMAIN Catalogue :
         Catalogue[ref] \in [axo : Nat \ {0}, price : Nat \cup {NoPrice}]

VARIABLES products,  \* the catalogue
          booked,    \* per document, the batches of movements inserted for it
          req        \* what each request slot waits for

vars == <<products, booked, req>>

Product == [sku : Ref, name : Ref, axo : Nat, price : Nat, sale : Nat]
Ids == DOMAIN products
Blank == [sku |-> NoRef, name |-> NoRef, axo |-> 0, price |-> 0, sale |-> 0]

\* line is history: the line of the document that a movement comes from.
Movement == [line : Nat, product : Ids, delta : Int]

Idle == [step |-> "idle"]

WorkStep == {"enrich", "byAxo", "byRef", "create", "attach", "link", "merge", "insert"}

\* line is the rank of the current line, id and found the product resolved for
\* it as it was read, batch the movements of the lines so far.
Work == [step : WorkStep, doc : Document, lines : Seq(Line), line : Nat,
         id : Nat, found : Product \cup {Blank}, batch : Seq(Movement)]

TypeOK == /\ products \in Seq(Product)
          /\ booked \in [Document -> Seq(Seq(Movement))]
          /\ req \in [Request -> {Idle} \cup Work]
          /\ \A r \in Request : req[r] # Idle =>
               /\ req[r].line \in DOMAIN req[r].lines
               /\ req[r].step \in {"attach", "link", "merge"} => req[r].id \in Ids
               /\ req[r].step = "create" => req[r].lines[req[r].line].ref # NoRef

Init == /\ products = << >>
        /\ booked = [d \in Document |-> << >>]
        /\ req = [r \in Request |-> Idle]

Become(r, state) == req' = [req EXCEPT ![r] = state]
Goto(r, step) == Become(r, [req[r] EXCEPT !.step = step])

Current(r) == req[r].lines[req[r].line]

Abs(n) == IF n < 0 THEN -n ELSE n

\* deltaFromDocType
Delta(doc, qty) ==
    CASE doc.sign = "IN"  -> Abs(qty)
      [] doc.sign = "OUT" -> - Abs(qty)
      [] doc.sign = "none" /\ doc.type = "FACTURE" -> - Abs(qty)
      [] doc.sign = "none" /\ doc.type \in {"AVOIR", "BON_LIVRAISON"} -> Abs(qty)
      [] doc.sign = "none" /\ doc.type = "OTHER" -> qty

\* The first query for line n, findFirst by Axonaut id or by sku and name.
AtLine(work, n) ==
    [work EXCEPT !.line = n, !.step = IF work.lines[n].axo # 0 THEN "byAxo" ELSE "byRef"]

\* On to the next line, or to the insert; nothing to insert ends the request.
Advance(work) ==
    IF work.line < Len(work.lines) THEN AtLine(work, work.line + 1)
    ELSE IF work.batch = << >> THEN Idle
    ELSE [work EXCEPT !.step = "insert"]

\* The movement of the current line joins the batch.
Book(work, id) ==
    [work EXCEPT !.batch = Append(@,
        [line    |-> work.line,
         product |-> id,
         delta   |-> Delta(Sent[work.doc], work.lines[work.line].qty)])]

-----------------------------------------------------------------------------
Begin(r, d) ==
    LET work == [step |-> "enrich", doc |-> d, lines |-> Sent[d].lines, line |-> 1,
                 id |-> 0, found |-> Blank, batch |-> << >>] IN
    /\ req[r].step = "idle"
    /\ Become(r, IF Sent[d].axonaut THEN AtLine(work, 1) ELSE work)
    /\ UNCHANGED <<products, booked>>

\* Mutant: the movements already there are not looked for.
CheckNothing(r, d) == Len(booked[d]) < MaxBatches /\ Begin(r, d)

\* ingest: a document whose movements are there answers alreadyImported; an
\* anonymous one is never recognised.
Check(r, d) ==
    /\ IF Sent[d].tracked THEN booked[d] = << >> ELSE Len(booked[d]) < MaxBatches
    /\ Begin(r, d)

Enriched(line) ==
    IF line.ref \notin DOMAIN Catalogue THEN line
    ELSE [line EXCEPT !.axo = Catalogue[line.ref].axo,
                      !.price = IF Catalogue[line.ref].price = NoPrice THEN @
                                ELSE Catalogue[line.ref].price]

\* enrichLinesWithAxonaut: every line, or none when Axonaut is not configured,
\* not needed, or does not answer.
Enrich(r) ==
    /\ req[r].step = "enrich"
    /\ \E lines \in {req[r].lines, [l \in DOMAIN req[r].lines |-> Enriched(req[r].lines[l])]} :
         Become(r, AtLine([req[r] EXCEPT !.lines = lines], 1))
    /\ UNCHANGED <<products, booked>>

Found(r, id, step) ==
    Become(r, [req[r] EXCEPT !.step = step, !.id = id, !.found = products[id]])

\* Mutant: an existing product is never linked.
NeverAttach(r, id) == "merge"

\* What tryAttachAxonautId does first with a product: nothing to link when the
\* line has no Axonaut id or the product has one.
AttachOrMerge(r, id) ==
    IF Current(r).axo # 0 /\ products[id].axo = 0 THEN "attach" ELSE "merge"

\* Mutant: products are looked up by reference only.
FindByNothing(r) ==
    /\ req[r].step = "byAxo"
    /\ Goto(r, "byRef")
    /\ UNCHANGED <<products, booked>>

\* findExistingProduct: by Axonaut id when the line has one, then by reference.
FindByAxo(r) ==
    /\ req[r].step = "byAxo"
    /\ LET hits == {id \in Ids : products[id].axo = Current(r).axo} IN
         \/ hits = {} /\ Goto(r, "byRef")
         \/ \E id \in hits : Found(r, id, "merge")
    /\ UNCHANGED <<products, booked>>

\* Mutant: a line without a reference makes a product too.
FindByAnyRef(r) ==
    /\ req[r].step = "byRef"
    /\ LET ref  == Current(r).ref
           hits == {id \in Ids : products[id].sku = ref \/ products[id].name = ref} IN
         \/ hits = {} /\ Goto(r, "create")
         \/ \E id \in hits : Found(r, id, AttachOrMerge(r, id))
    /\ UNCHANGED <<products, booked>>

FindByRef(r) ==
    /\ req[r].step = "byRef"
    /\ LET ref  == Current(r).ref
           hits == {id \in Ids : products[id].sku = ref \/ products[id].name = ref} IN
         \/ ref = NoRef /\ Become(r, Advance(req[r]))
         \/ ref # NoRef /\ hits = {} /\ Goto(r, "create")
         \/ \E id \in hits : Found(r, id, AttachOrMerge(r, id))
    /\ UNCHANGED <<products, booked>>

Clashes(sku, axo) ==
    \E id \in Ids : products[id].sku = sku \/ (axo # 0 /\ products[id].axo = axo)

\* createProductFromLine: both prices are what pickPrice finds, 0 without one.
Create(r) ==
    LET line  == Current(r)
        price == IF line.price = NoPrice THEN 0 ELSE line.price
        made  == [sku |-> line.ref, name |-> line.name, axo |-> line.axo,
                  price |-> price, sale |-> price] IN
    /\ req[r].step = "create"
    /\ ~ Clashes(line.ref, line.axo)
    /\ products' = Append(products, made)
    /\ Become(r, [req[r] EXCEPT !.step = "merge", !.id = Len(products'), !.found = made])
    /\ UNCHANGED booked

\* createProductFromLine: whatever the database objects, the line is skipped.
CreateFails(r) ==
    /\ req[r].step = "create"
    /\ Clashes(Current(r).ref, Current(r).axo) \/ FaultyCreate
    /\ Become(r, Advance(req[r]))
    /\ UNCHANGED <<products, booked>>

\* tryAttachAxonautId: no link when another product carries the id.
Attach(r) ==
    /\ req[r].step = "attach"
    /\ IF \E id \in Ids \ {req[r].id} : products[id].axo = Current(r).axo
       THEN Goto(r, "merge")
       ELSE Goto(r, "link")
    /\ UNCHANGED <<products, booked>>

Link(r) ==
    LET id == req[r].id IN
    /\ req[r].step = "link"
    /\ \A other \in Ids \ {id} : products[other].axo # Current(r).axo
    /\ products' = [products EXCEPT ![id].axo = Current(r).axo]
    /\ Become(r, [req[r] EXCEPT !.step = "merge", !.found = products'[id]])
    /\ UNCHANGED booked

\* P2002 on the Axonaut id, which nothing catches: the whole request fails.
LinkFails(r) ==
    /\ req[r].step = "link"
    /\ \E other \in Ids \ {req[r].id} : products[other].axo = Current(r).axo
    /\ Become(r, Idle)
    /\ UNCHANGED <<products, booked>>

Priced(id, price) == [products EXCEPT ![id].price = price, ![id].sale = price]

\* Mutant: the price of the line always wins.
MergeAlways(r) ==
    LET id == req[r].id IN
    /\ req[r].step = "merge"
    /\ products' = IF Current(r).price # NoPrice THEN Priced(id, Current(r).price) ELSE products
    /\ Become(r, Advance(Book(req[r], id)))
    /\ UNCHANGED booked

\* mergeAxonautFields, then the movement of the line.  By the sale price as it was
\* read, 0 counting as missing, a price of the line replaces both prices.
Merge(r) ==
    LET id == req[r].id IN
    /\ req[r].step = "merge"
    /\ products' = IF req[r].found.sale = 0 /\ Current(r).price # NoPrice
                   THEN Priced(id, Current(r).price)
                   ELSE products
    /\ Become(r, Advance(Book(req[r], id)))
    /\ UNCHANGED booked

\* createMany: all the movements of the document, or none.
Insert(r) ==
    /\ req[r].step = "insert"
    /\ booked' = [booked EXCEPT ![req[r].doc] = Append(@, req[r].batch)]
    /\ Become(r, Idle)
    /\ UNCHANGED products

\* A database error or a crash: products already written stay, movements do not
\* exist yet, and the client may send the document again.
Abort(r) ==
    /\ req[r].step # "idle"
    /\ Become(r, Idle)
    /\ UNCHANGED <<products, booked>>

\* POST and PATCH /products, by a user who cannot set the Axonaut id and sets the
\* two prices together.
Editable == EditsOverlap \/ \A r \in Request : req[r].step = "idle"

AddProduct(sku, name, price) ==
    /\ Editable
    /\ ~ Clashes(sku, 0)
    /\ products' = Append(products, [sku |-> sku, name |-> name, axo |-> 0,
                                     price |-> price, sale |-> price])
    /\ UNCHANGED <<booked, req>>

EditProduct(id, sku, name, price) ==
    /\ Editable
    /\ \A other \in Ids \ {id} : products[other].sku # sku
    /\ products' = [products EXCEPT ![id].sku = sku, ![id].name = name,
                                    ![id].price = price, ![id].sale = price]
    /\ UNCHANGED <<booked, req>>

\* upsertProducts of the Husse import: name and price, never the sale price.
ImportProduct(sku, name, price) ==
    /\ Editable
    /\ \/ \E id \in Ids :
            /\ products[id].sku = sku
            /\ products' = [products EXCEPT ![id].name = name,
                                            ![id].price = IF price = NoPrice THEN @ ELSE price]
       \/ /\ ~ Clashes(sku, 0)
          /\ products' = Append(products, [sku |-> sku, name |-> name, axo |-> 0,
                                           price |-> IF price = NoPrice THEN 0 ELSE price,
                                           sale |-> 0])
    /\ UNCHANGED <<booked, req>>

Serve(r) ==
    \/ \E d \in Document : Check(r, d)
    \/ Enrich(r) \/ FindByAxo(r) \/ FindByRef(r)
    \/ Create(r) \/ CreateFails(r)
    \/ Attach(r) \/ Link(r) \/ LinkFails(r)
    \/ Merge(r) \/ Insert(r) \/ Abort(r)

Next ==
    \/ \E r \in Request : Serve(r)
    \/ \E sku, name \in Ref, price \in Price : AddProduct(sku, name, price)
    \/ \E id \in Ids, sku, name \in Ref, price \in Price : EditProduct(id, sku, name, price)
    \/ \E sku, name \in Ref, price \in Price \cup {NoPrice} : ImportProduct(sku, name, price)

Spec == Init /\ [][Next]_vars

-----------------------------------------------------------------------------
\* The movements of a document are inserted at most once per request slot: a
\* retry never books again what an earlier call booked, only calls that overlap
\* can, each of them once.  With one request at a time, once in all.
BookedOncePerOverlap ==
    \A d \in Document : Sent[d].tracked => Len(booked[d]) <= Cardinality(Request)

\* Requests served one at a time by a database without faults: whatever earlier
\* attempts died halfway, the batch of a document holds a movement for every
\* line that has a reference, none is skipped.
BatchIsComplete ==
    \A d \in Document : \A k \in DOMAIN booked[d] : \A l \in DOMAIN Sent[d].lines :
        \/ Sent[d].lines[l].ref = NoRef
        \/ \E m \in DOMAIN booked[d][k] : booked[d][k][m].line = l

\* Requests served one at a time: the movement of a line that came with an
\* Axonaut id is on a product that Axonaut knows, so that sync-stock reaches it.
BookedOnLinkedProduct ==
    \A d \in Document : \A k \in DOMAIN booked[d] : \A m \in DOMAIN booked[d][k] :
        LET movement == booked[d][k][m] IN
        Sent[d].lines[movement.line].axo # 0 => products[movement.product].axo # 0

\* Requests served one at a time: no step of an ingest replaces an Axonaut id that
\* a product has; with a sale price, both of its prices are safe too, and the
\* two agree once a step of an ingest has written the price.  Without a sale price
\* a price is not safe: that of a product which Husse imported is replaced, though
\* the comment on mergeAxonautFields says that it adds what is missing.
SalePriceProtects ==
    [][(\E r \in Request : Serve(r)) =>
         \A id \in Ids :
            /\ products[id].axo # 0 => products'[id].axo = products[id].axo
            /\ products[id].sale # 0 =>
                 products'[id].sale = products[id].sale /\ products'[id].price = products[id].price
            /\ products'[id].price # products[id].price =>
                 products'[id].price = products'[id].sale]_vars
=============================================================================
