------------------------ MODULE DocumentIngestProofs ------------------------
(***************************************************************************)
(* Proofs about DocumentIngest, for any documents, catalogue and edits, and *)
(* any finite number of requests served at once.                           *)
(***************************************************************************)
EXTENDS DocumentIngest, FiniteSetTheorems, TLAPS

-----------------------------------------------------------------------------
(***************************************************************************)
(* Types.  Movement and Work depend on the products there are; the same     *)
(* sets with the ids as a parameter can be compared before and after a step. *)
(***************************************************************************)
MovementOn(ids) == [line : Nat, product : ids, delta : Int]

WorkOn(ids) == [step : WorkStep, doc : Document, lines : Seq(Line), line : Nat,
                id : Nat, found : Product \cup {Blank}, batch : Seq(MovementOn(ids))]

RequestOn(ids, state) ==
    \/ state = Idle
    \/ /\ state \in WorkOn(ids)
       /\ state.line \in DOMAIN state.lines
       /\ state.step \in {"attach", "link", "merge"} => state.id \in ids
       /\ state.step = "create" => state.lines[state.line].ref # NoRef

LEMMA WorkIsNotIdle ==
    ASSUME NEW ids, NEW state \in WorkOn(ids)
    PROVE  state # Idle /\ state.step # "idle"
  BY DEF WorkOn, Idle, WorkStep

LEMMA RequestTypes ==
    ASSUME TypeOK, NEW r \in Request
    PROVE  /\ RequestOn(Ids, req[r])
           /\ req[r].step # "idle" => req[r] \in WorkOn(Ids)
           /\ req[r].step = "idle" => req[r] = Idle
  <1>1. RequestOn(Ids, req[r])
    BY DEF TypeOK, RequestOn, Work, WorkOn, Movement, MovementOn
  <1>2. Idle.step = "idle"
    BY DEF Idle
  <1> QED
    BY <1>1, <1>2, WorkIsNotIdle DEF RequestOn

\* Products are never removed, so what refers to one keeps referring to one.
LEMMA RequestsGrow ==
    ASSUME NEW ids, NEW more, ids \subseteq more
    PROVE  /\ Seq(MovementOn(ids)) \subseteq Seq(MovementOn(more))
           /\ WorkOn(ids) \subseteq WorkOn(more)
           /\ \A state : RequestOn(ids, state) => RequestOn(more, state)
  <1>1. MovementOn(ids) \subseteq MovementOn(more)
    BY DEF MovementOn
  <1>2. Seq(MovementOn(ids)) \subseteq Seq(MovementOn(more))
    BY <1>1
  <1>3. WorkOn(ids) \subseteq WorkOn(more)
    BY <1>2 DEF WorkOn
  <1> QED
    BY <1>2, <1>3 DEF RequestOn

\* A step of request r that leaves the other requests alone is well typed when
\* what it writes is.
LEMMA BecomeTypes ==
    ASSUME TypeOK, products' \in Seq(Product), Ids \subseteq Ids',
           booked' \in [Document -> Seq(Seq(MovementOn(Ids')))],
           NEW r \in Request, NEW state, req' = [req EXCEPT ![r] = state],
           RequestOn(Ids', state)
    PROVE  TypeOK'
  <1>1. \A s \in Request : RequestOn(Ids', req'[s])
    <2> TAKE s \in Request
    <2>1. RequestOn(Ids', req[s])
      BY RequestTypes, RequestsGrow
    <2> QED
      BY <2>1 DEF TypeOK
  <1>2. req' \in [Request -> {Idle} \cup WorkOn(Ids')]
    BY <1>1 DEF TypeOK, RequestOn
  <1>3. \A s \in Request : req'[s] # Idle =>
           /\ req'[s].line \in DOMAIN req'[s].lines
           /\ req'[s].step \in {"attach", "link", "merge"} => req'[s].id \in Ids'
           /\ req'[s].step = "create" => req'[s].lines[req'[s].line].ref # NoRef
    BY <1>1 DEF RequestOn
  <1>4. Work' = WorkOn(Ids') /\ Movement' = MovementOn(Ids')
    BY DEF Work, WorkOn, Movement, MovementOn
  <1> QED
    BY <1>2, <1>3, <1>4 DEF TypeOK

LEMMA LineTypes ==
    ASSUME NEW ids, NEW work \in WorkOn(ids), work.line \in DOMAIN work.lines
    PROVE  work.lines[work.line] \in Line
  <1>1. work.lines \in Seq(Line)
    BY DEF WorkOn
  <1> QED
    BY <1>1

LEMMA AtLineTypes ==
    ASSUME NEW ids, NEW work \in WorkOn(ids), NEW n \in DOMAIN work.lines
    PROVE  RequestOn(ids, AtLine(work, n)) /\ AtLine(work, n).doc = work.doc
  <1>1. PICK step \in {"byAxo", "byRef"} :
           AtLine(work, n) = [work EXCEPT !.line = n, !.step = step]
    BY DEF AtLine
  <1>2. n \in Nat
    BY DEF WorkOn
  <1>3. step \in WorkStep /\ step \notin {"attach", "link", "merge", "create"}
    BY <1>1 DEF WorkStep
  <1>4. [work EXCEPT !.line = n, !.step = step] \in WorkOn(ids)
    BY <1>2, <1>3 DEF WorkOn
  <1>5. /\ AtLine(work, n).line = n /\ AtLine(work, n).lines = work.lines
        /\ AtLine(work, n).step = step /\ AtLine(work, n).doc = work.doc
    BY <1>1 DEF WorkOn
  <1> QED
    BY <1>1, <1>3, <1>4, <1>5 DEF RequestOn

LEMMA AdvanceTypes ==
    ASSUME NEW ids, NEW work \in WorkOn(ids), work.line \in DOMAIN work.lines
    PROVE  /\ RequestOn(ids, Advance(work))
           /\ Advance(work) # Idle => Advance(work).doc = work.doc
  <1>1. work.lines \in Seq(Line) /\ work.line \in Nat
    BY DEF WorkOn
  <1>2. CASE work.line < Len(work.lines)
    <2>1. work.line + 1 \in DOMAIN work.lines
      BY <1>1, <1>2
    <2> QED
      BY <1>2, <2>1, AtLineTypes DEF Advance
  <1>3. CASE ~ (work.line < Len(work.lines)) /\ work.batch = << >>
    BY <1>3 DEF Advance, RequestOn
  <1>4. CASE ~ (work.line < Len(work.lines)) /\ work.batch # << >>
    BY <1>4 DEF Advance, RequestOn, WorkOn, WorkStep
  <1> QED
    BY <1>2, <1>3, <1>4

LEMMA DeltaIsInt ==
    ASSUME NEW d \in Document, NEW qty \in Int
    PROVE  Delta(Sent[d], qty) \in Int
  <1>1. Sent[d].sign \in {"IN", "OUT", "none"} /\ Sent[d].type \in DocType
    BY IngestAssumption
  <1> QED
    BY <1>1 DEF Delta, Abs, DocType

LEMMA BookTypes ==
    ASSUME NEW ids, NEW work \in WorkOn(ids), work.line \in DOMAIN work.lines,
           NEW id \in ids
    PROVE  /\ Book(work, id) \in WorkOn(ids)
           /\ Book(work, id).line \in DOMAIN Book(work, id).lines
           /\ Book(work, id).doc = work.doc
  <1>1. work.lines[work.line].qty \in Int
    BY LineTypes DEF Line
  <1>2. Delta(Sent[work.doc], work.lines[work.line].qty) \in Int
    BY <1>1, DeltaIsInt DEF WorkOn
  <1> DEFINE movement == [line |-> work.line, product |-> id,
                          delta |-> Delta(Sent[work.doc], work.lines[work.line].qty)]
  <1>3. movement \in MovementOn(ids)
    BY <1>2 DEF MovementOn, WorkOn
  <1>4. Append(work.batch, movement) \in Seq(MovementOn(ids))
    BY <1>3 DEF WorkOn
  <1>5. Book(work, id) = [work EXCEPT !.batch = Append(@, movement)]
    BY DEF Book
  <1> HIDE DEF movement
  <1>6. [work EXCEPT !.batch = Append(@, movement)] \in WorkOn(ids)
    BY <1>4 DEF WorkOn
  <1>7. /\ Book(work, id).line = work.line /\ Book(work, id).lines = work.lines
        /\ Book(work, id).doc = work.doc
    BY <1>5 DEF WorkOn
  <1> QED
    BY <1>5, <1>6, <1>7

LEMMA EnrichedTypes ==
    ASSUME NEW lines \in Seq(Line)
    PROVE  /\ [l \in DOMAIN lines |-> Enriched(lines[l])] \in Seq(Line)
           /\ DOMAIN [l \in DOMAIN lines |-> Enriched(lines[l])] = DOMAIN lines
  <1>1. ASSUME NEW l \in DOMAIN lines
        PROVE  Enriched(lines[l]) \in Line
    <2>1. lines[l] \in Line
      OBVIOUS
    <2>2. CASE lines[l].ref \notin DOMAIN Catalogue
      BY <2>1, <2>2 DEF Enriched
    <2>3. CASE lines[l].ref \in DOMAIN Catalogue
      <3>1. /\ Catalogue[lines[l].ref].axo \in Nat
            /\ Catalogue[lines[l].ref].price \in Nat \cup {NoPrice}
        BY <2>3, IngestAssumption
      <3> QED
        BY <2>1, <2>3, <3>1 DEF Enriched, Line
    <2> QED
      BY <2>2, <2>3
  <1> QED
    BY <1>1

\* A first step of a document is well typed.
LEMMA BeginTypes ==
    ASSUME NEW ids, NEW d \in Document
    PROVE  LET work == [step |-> "enrich", doc |-> d, lines |-> Sent[d].lines, line |-> 1,
                        id |-> 0, found |-> Blank, batch |-> << >>]
           IN  RequestOn(ids, IF Sent[d].axonaut THEN AtLine(work, 1) ELSE work)
  <1> DEFINE work == [step |-> "enrich", doc |-> d, lines |-> Sent[d].lines, line |-> 1,
                      id |-> 0, found |-> Blank, batch |-> << >>]
  <1>1. Sent[d].lines \in Seq(Line) /\ 1 \in DOMAIN Sent[d].lines
    BY IngestAssumption
  <1>2. work \in WorkOn(ids) /\ 1 \in DOMAIN work.lines
    BY <1>1 DEF WorkOn, WorkStep
  <1>3. RequestOn(ids, AtLine(work, 1))
    BY <1>2, AtLineTypes
  <1>4. RequestOn(ids, work)
    BY <1>2 DEF RequestOn
  <1> QED
    BY <1>3, <1>4

-----------------------------------------------------------------------------
(***************************************************************************)
(* The actions of a request at work.  All but Check and Insert go on with   *)
(* the same document, or give the slot up.                                 *)
(***************************************************************************)
GoesOn(r, state) ==
    /\ req' = [req EXCEPT ![r] = state]
    /\ RequestOn(Ids', state)
    /\ state # Idle => state.doc = req[r].doc

Continues(r) ==
    /\ products' \in Seq(Product)
    /\ Ids \subseteq Ids'
    /\ \E state : GoesOn(r, state)

LEMMA AtWork ==
    ASSUME TypeOK, NEW r \in Request, req[r].step # "idle"
    PROVE  /\ req[r] # Idle
           /\ req[r] \in WorkOn(Ids)
           /\ req[r].line \in DOMAIN req[r].lines
           /\ Current(r) \in Line
           /\ req[r].step \in {"attach", "link", "merge"} => req[r].id \in Ids
           /\ req[r].step = "create" => Current(r).ref # NoRef
  <1>1. req[r] # Idle
    BY DEF Idle
  <1>2. req[r] \in WorkOn(Ids) /\ RequestOn(Ids, req[r])
    BY RequestTypes
  <1> QED
    BY <1>1, <1>2, LineTypes DEF RequestOn, Current

\* Steps that leave the catalogue alone.
LEMMA ReadOnly ==
    ASSUME TypeOK, NEW r \in Request, UNCHANGED products, NEW state, Become(r, state),
           RequestOn(Ids, state), state # Idle => state.doc = req[r].doc
    PROVE  Continues(r)
  <1>1. products' \in Seq(Product) /\ Ids' = Ids
    BY DEF TypeOK, Ids
  <1>2. GoesOn(r, state)
    BY <1>1 DEF GoesOn, Become
  <1> QED
    BY <1>1, <1>2 DEF Continues

LEMMA GotoContinues ==
    ASSUME TypeOK, NEW r \in Request, req[r].step # "idle", UNCHANGED products,
           NEW step \in WorkStep, Goto(r, step),
           step \in {"attach", "link", "merge"} => req[r].id \in Ids,
           step = "create" => Current(r).ref # NoRef
    PROVE  Continues(r)
  <1> DEFINE state == [req[r] EXCEPT !.step = step]
  <1>1. req[r] \in WorkOn(Ids) /\ req[r].line \in DOMAIN req[r].lines
    BY AtWork
  <1>2. state \in WorkOn(Ids) /\ state.doc = req[r].doc
    BY <1>1 DEF WorkOn
  <1>3. state.line = req[r].line /\ state.lines = req[r].lines
        /\ state.step = step /\ state.id = req[r].id
    BY <1>1 DEF WorkOn
  <1>4. RequestOn(Ids, state)
    BY <1>1, <1>2, <1>3 DEF RequestOn, Current
  <1>5. Become(r, state)
    BY DEF Goto
  <1> QED
    BY <1>2, <1>4, <1>5, ReadOnly

LEMMA FoundContinues ==
    ASSUME TypeOK, NEW r \in Request, req[r].step # "idle", UNCHANGED products,
           NEW id \in Ids, NEW step \in {"attach", "merge"}, Found(r, id, step)
    PROVE  Continues(r)
  <1> DEFINE state == [req[r] EXCEPT !.step = step, !.id = id, !.found = products[id]]
  <1>1. req[r] \in WorkOn(Ids) /\ req[r].line \in DOMAIN req[r].lines
    BY AtWork
  <1>2. products[id] \in Product /\ id \in Nat
    BY DEF TypeOK, Ids
  <1>3. state \in WorkOn(Ids) /\ state.doc = req[r].doc
    BY <1>1, <1>2 DEF WorkOn, WorkStep
  <1>4. state.line = req[r].line /\ state.lines = req[r].lines /\ state.id = id
    BY <1>1 DEF WorkOn
  <1>5. RequestOn(Ids, state)
    BY <1>1, <1>3, <1>4 DEF RequestOn
  <1>6. Become(r, state)
    BY DEF Found
  <1> QED
    BY <1>3, <1>5, <1>6, ReadOnly

\* The end of a line, which may have completed its product.
LEMMA AdvanceContinues ==
    ASSUME TypeOK, NEW r \in Request, req[r].step # "idle",
           products' \in Seq(Product), Ids \subseteq Ids',
           NEW work \in WorkOn(Ids), work.doc = req[r].doc,
           work.line \in DOMAIN work.lines, Become(r, Advance(work))
    PROVE  Continues(r)
  <1>1. RequestOn(Ids, Advance(work)) /\ (Advance(work) # Idle => Advance(work).doc = work.doc)
    BY AdvanceTypes
  <1>2. RequestOn(Ids', Advance(work))
    BY <1>1, RequestsGrow
  <1>3. GoesOn(r, Advance(work))
    BY <1>1, <1>2 DEF GoesOn, Become
  <1> QED
    BY <1>3 DEF Continues

LEMMA EnrichContinues ==
    ASSUME TypeOK, NEW r \in Request, Enrich(r)
    PROVE  Continues(r)
  <1>1. req[r].step # "idle" /\ UNCHANGED products
    BY DEF Enrich
  <1>2. req[r] \in WorkOn(Ids) /\ req[r].line \in DOMAIN req[r].lines
    BY <1>1, AtWork
  <1>3. req[r].lines \in Seq(Line) /\ 1 \in DOMAIN req[r].lines
    BY <1>2 DEF WorkOn
  <1>4. PICK lines \in {req[r].lines, [l \in DOMAIN req[r].lines |-> Enriched(req[r].lines[l])]} :
           Become(r, AtLine([req[r] EXCEPT !.lines = lines], 1))
    BY DEF Enrich
  <1>5. lines \in Seq(Line) /\ 1 \in DOMAIN lines
    BY <1>3, <1>4, EnrichedTypes
  <1> DEFINE work == [req[r] EXCEPT !.lines = lines]
  <1>6. work \in WorkOn(Ids) /\ work.doc = req[r].doc /\ 1 \in DOMAIN work.lines
    BY <1>2, <1>5 DEF WorkOn
  <1>7. RequestOn(Ids, AtLine(work, 1)) /\ AtLine(work, 1).doc = work.doc
    BY <1>6, AtLineTypes
  <1> QED
    BY <1>1, <1>4, <1>6, <1>7, ReadOnly

LEMMA FindByAxoContinues ==
    ASSUME TypeOK, NEW r \in Request, FindByAxo(r)
    PROVE  Continues(r)
  <1>1. req[r].step # "idle" /\ UNCHANGED products
    BY DEF FindByAxo
  <1>2. CASE Goto(r, "byRef")
    BY <1>1, <1>2, GotoContinues DEF WorkStep
  <1>3. CASE \E id \in Ids : Found(r, id, "merge")
    BY <1>1, <1>3, FoundContinues
  <1> QED
    BY <1>2, <1>3 DEF FindByAxo

LEMMA FindByRefContinues ==
    ASSUME TypeOK, NEW r \in Request, FindByRef(r)
    PROVE  Continues(r)
  <1>1. req[r].step # "idle" /\ UNCHANGED products
    BY DEF FindByRef
  <1>2. req[r] \in WorkOn(Ids) /\ req[r].line \in DOMAIN req[r].lines
        /\ products' \in Seq(Product) /\ Ids' = Ids
    BY <1>1, AtWork DEF TypeOK, Ids
  <1>3. CASE Become(r, Advance(req[r]))
    BY <1>1, <1>2, <1>3, AdvanceContinues
  <1>4. CASE Current(r).ref # NoRef /\ Goto(r, "create")
    BY <1>1, <1>4, GotoContinues DEF WorkStep
  <1>5. CASE \E id \in Ids : Found(r, id, AttachOrMerge(r, id))
    BY <1>1, <1>5, FoundContinues DEF AttachOrMerge
  <1> QED
    BY <1>3, <1>4, <1>5 DEF FindByRef

LEMMA ProductTypes ==
    ASSUME TypeOK, NEW id \in Ids
    PROVE  products[id] \in Product
  BY DEF TypeOK, Ids

\* Replacing a product.
LEMMA ReplaceTypes ==
    ASSUME TypeOK, NEW id \in Ids, NEW product \in Product,
           products' = [products EXCEPT ![id] = product]
    PROVE  products' \in Seq(Product) /\ Ids' = Ids
  <1>1. products \in Seq(Product)
    BY DEF TypeOK
  <1> HIDE DEF Product
  <1> QED
    BY <1>1 DEF Ids

LEMMA CreateContinues ==
    ASSUME TypeOK, NEW r \in Request, Create(r)
    PROVE  Continues(r)
  <1> DEFINE line == Current(r)
             price == IF line.price = NoPrice THEN 0 ELSE line.price
             made == [sku |-> line.ref, name |-> line.name, axo |-> line.axo,
                      price |-> price, sale |-> price]
             state == [req[r] EXCEPT !.step = "merge", !.id = Len(products'), !.found = made]
  <1>1. req[r].step = "create" /\ req[r].step # "idle" /\ products' = Append(products, made)
        /\ Become(r, state)
    BY DEF Create
  <1>2. req[r] \in WorkOn(Ids) /\ req[r].line \in DOMAIN req[r].lines
        /\ line \in Line /\ line.ref # NoRef
    BY <1>1, AtWork
  <1>3. made \in Product
    BY <1>2 DEF Line, Product
  <1>4. /\ products' \in Seq(Product) /\ Len(products') \in Nat
        /\ Ids \subseteq Ids' /\ Len(products') \in Ids'
    <2>1. products \in Seq(Product)
      BY DEF TypeOK
    <2> HIDE DEF made
    <2>2. Append(products, made) \in Seq(Product)
      BY <2>1, <1>3
    <2>3. Len(Append(products, made)) = Len(products) + 1
      BY <2>1, <1>3
    <2> QED
      BY <1>1, <2>1, <2>2, <2>3 DEF Ids
  <1>5. req[r] \in WorkOn(Ids')
    BY <1>2, <1>4, RequestsGrow
  <1> HIDE DEF made, line
  <1>6. state \in WorkOn(Ids') /\ state.doc = req[r].doc
    BY <1>3, <1>4, <1>5 DEF WorkOn, WorkStep
  <1>7. state.line = req[r].line /\ state.lines = req[r].lines /\ state.id = Len(products')
        /\ state.step = "merge"
    BY <1>5 DEF WorkOn
  <1>8. RequestOn(Ids', state)
    BY <1>2, <1>4, <1>6, <1>7 DEF RequestOn
  <1> QED
    BY <1>1, <1>4, <1>6, <1>8 DEF Continues, GoesOn, Become

LEMMA CreateFailsContinues ==
    ASSUME TypeOK, NEW r \in Request, CreateFails(r)
    PROVE  Continues(r)
  <1>1. req[r].step # "idle" /\ UNCHANGED products /\ Become(r, Advance(req[r]))
    BY DEF CreateFails
  <1>2. req[r] \in WorkOn(Ids) /\ req[r].line \in DOMAIN req[r].lines
        /\ products' \in Seq(Product) /\ Ids' = Ids
    BY <1>1, AtWork DEF TypeOK, Ids
  <1> QED
    BY <1>1, <1>2, AdvanceContinues

LEMMA AttachContinues ==
    ASSUME TypeOK, NEW r \in Request, Attach(r)
    PROVE  Continues(r)
  <1>1. req[r].step = "attach" /\ req[r].step # "idle" /\ UNCHANGED products
    BY DEF Attach
  <1>2. Goto(r, "merge") \/ Goto(r, "link")
    BY DEF Attach
  <1>3. req[r].id \in Ids
    BY <1>1, AtWork
  <1> QED
    BY <1>1, <1>2, <1>3, GotoContinues DEF WorkStep

LEMMA LinkContinues ==
    ASSUME TypeOK, NEW r \in Request, Link(r)
    PROVE  Continues(r)
  <1> DEFINE id == req[r].id
             state == [req[r] EXCEPT !.step = "merge", !.found = products'[id]]
  <1>1. req[r].step = "link" /\ req[r].step # "idle" /\ Become(r, state)
        /\ products' = [products EXCEPT ![id].axo = Current(r).axo]
    BY DEF Link
  <1>2. req[r] \in WorkOn(Ids) /\ req[r].line \in DOMAIN req[r].lines
        /\ Current(r) \in Line /\ id \in Ids
    BY <1>1, AtWork
  <1>3. Current(r).axo \in Nat
    BY <1>2 DEF Line
  <1>4. products' \in Seq(Product) /\ Ids' = Ids
    <2> DEFINE product == [products[id] EXCEPT !.axo = Current(r).axo]
    <2>1. product \in Product
      BY <1>2, <1>3, ProductTypes DEF Product
    <2>2. products' = [products EXCEPT ![id] = product]
      BY <1>1
    <2> HIDE DEF product
    <2> QED
      BY <1>2, <2>1, <2>2, ReplaceTypes
  <1>5. products'[id] \in Product
    BY <1>2, <1>4 DEF Ids
  <1>6. state \in WorkOn(Ids) /\ state.doc = req[r].doc
    BY <1>2, <1>5 DEF WorkOn, WorkStep
  <1>7. state.line = req[r].line /\ state.lines = req[r].lines /\ state.id = id
        /\ state.step = "merge"
    BY <1>2 DEF WorkOn
  <1>8. RequestOn(Ids', state)
    BY <1>2, <1>4, <1>6, <1>7 DEF RequestOn
  <1> QED
    BY <1>1, <1>4, <1>6, <1>8 DEF Continues, GoesOn, Become

LEMMA MergeContinues ==
    ASSUME TypeOK, NEW r \in Request, Merge(r)
    PROVE  Continues(r)
  <1> DEFINE id == req[r].id
             work == Book(req[r], id)
  <1>1. req[r].step = "merge" /\ req[r].step # "idle" /\ Become(r, Advance(work))
    BY DEF Merge
  <1>2. req[r] \in WorkOn(Ids) /\ req[r].line \in DOMAIN req[r].lines
        /\ Current(r) \in Line /\ id \in Ids
    BY <1>1, AtWork
  <1>3. products' \in Seq(Product) /\ Ids' = Ids
    <2>1. Current(r).price \in Nat \cup {NoPrice}
      BY <1>2 DEF Line
    <2>2. CASE products' = products
      BY <2>2 DEF TypeOK, Ids
    <2>3. ASSUME NEW price \in Nat, products' = Priced(id, price)
          PROVE  products' \in Seq(Product) /\ Ids' = Ids
      <3> DEFINE product == [products[id] EXCEPT !.price = price, !.sale = price]
      <3>1. product \in Product
        BY <1>2, <2>3, ProductTypes DEF Product
      <3>2. products' = [products EXCEPT ![id] = product]
        BY <1>2, <2>3 DEF Priced, TypeOK, Ids
      <3> HIDE DEF product
      <3> QED
        BY <1>2, <3>1, <3>2, ReplaceTypes
    <2> QED
      BY <2>1, <2>2, <2>3 DEF Merge
  <1>4. work \in WorkOn(Ids) /\ work.line \in DOMAIN work.lines /\ work.doc = req[r].doc
    BY <1>2, BookTypes
  <1> HIDE DEF work
  <1> QED
    BY <1>1, <1>3, <1>4, AdvanceContinues

LEMMA GivesUp ==
    ASSUME TypeOK, NEW r \in Request, LinkFails(r) \/ Abort(r)
    PROVE  Continues(r)
  <1>1. UNCHANGED products /\ Become(r, Idle)
    BY DEF LinkFails, Abort
  <1>2. RequestOn(Ids, Idle)
    BY DEF RequestOn
  <1> QED
    BY <1>1, <1>2, ReadOnly

-----------------------------------------------------------------------------
LEMMA ContinuesTypes ==
    ASSUME TypeOK, NEW r \in Request, Continues(r), UNCHANGED booked
    PROVE  TypeOK'
  <1>1. PICK state : GoesOn(r, state)
    BY DEF Continues
  <1>2. booked' \in [Document -> Seq(Seq(MovementOn(Ids')))]
    <2>1. booked \in [Document -> Seq(Seq(MovementOn(Ids)))]
      BY DEF TypeOK, Movement, MovementOn
    <2>2. Seq(Seq(MovementOn(Ids))) \subseteq Seq(Seq(MovementOn(Ids')))
      BY RequestsGrow DEF Continues
    <2> QED
      BY <2>1, <2>2
  <1> QED
    BY <1>1, <1>2, BecomeTypes DEF Continues, GoesOn

\* The handler, Check and Insert apart.
LEMMA ServeContinues ==
    ASSUME TypeOK, NEW r \in Request, Serve(r),
           ~ \E d \in Document : Check(r, d), ~ Insert(r)
    PROVE  Continues(r) /\ UNCHANGED booked
  <1>1. CASE Enrich(r)
    BY <1>1, EnrichContinues DEF Enrich
  <1>2. CASE FindByAxo(r)
    BY <1>2, FindByAxoContinues DEF FindByAxo
  <1>3. CASE FindByRef(r)
    BY <1>3, FindByRefContinues DEF FindByRef
  <1>4. CASE Create(r)
    BY <1>4, CreateContinues DEF Create
  <1>5. CASE CreateFails(r)
    BY <1>5, CreateFailsContinues DEF CreateFails
  <1>6. CASE Attach(r)
    BY <1>6, AttachContinues DEF Attach
  <1>7. CASE Link(r)
    BY <1>7, LinkContinues DEF Link
  <1>8. CASE Merge(r)
    BY <1>8, MergeContinues DEF Merge
  <1>9. CASE LinkFails(r) \/ Abort(r)
    BY <1>9, GivesUp DEF LinkFails, Abort
  <1> QED
    BY <1>1, <1>2, <1>3, <1>4, <1>5, <1>6, <1>7, <1>8, <1>9 DEF Serve

LEMMA CheckTypes ==
    ASSUME TypeOK, NEW r \in Request, NEW d \in Document, Check(r, d)
    PROVE  TypeOK'
  <1> DEFINE work == [step |-> "enrich", doc |-> d, lines |-> Sent[d].lines, line |-> 1,
                      id |-> 0, found |-> Blank, batch |-> << >>]
             state == IF Sent[d].axonaut THEN AtLine(work, 1) ELSE work
  <1>1. req' = [req EXCEPT ![r] = state] /\ UNCHANGED <<products, booked>>
    BY DEF Check, Begin, Become
  <1>2. RequestOn(Ids, state)
    BY BeginTypes
  <1>3. products' \in Seq(Product) /\ Ids' = Ids
    BY <1>1 DEF TypeOK, Ids
  <1>4. booked' \in [Document -> Seq(Seq(MovementOn(Ids')))]
    BY <1>1, <1>3 DEF TypeOK, Movement, MovementOn
  <1> HIDE DEF state
  <1> QED
    BY <1>1, <1>2, <1>3, <1>4, BecomeTypes

LEMMA InsertTypes ==
    ASSUME TypeOK, NEW r \in Request, Insert(r)
    PROVE  TypeOK'
  <1>1. req[r].step # "idle" /\ req' = [req EXCEPT ![r] = Idle] /\ UNCHANGED products
        /\ booked' = [booked EXCEPT ![req[r].doc] = Append(@, req[r].batch)]
    BY DEF Insert, Become
  <1>2. req[r].batch \in Seq(MovementOn(Ids)) /\ req[r].doc \in Document
    BY <1>1, AtWork DEF WorkOn
  <1>3. products' \in Seq(Product) /\ Ids' = Ids
    BY <1>1 DEF TypeOK, Ids
  <1>4. booked \in [Document -> Seq(Seq(MovementOn(Ids)))]
    BY DEF TypeOK, Movement, MovementOn
  <1>5. booked' \in [Document -> Seq(Seq(MovementOn(Ids')))]
    BY <1>1, <1>2, <1>3, <1>4
  <1>6. RequestOn(Ids', Idle)
    BY DEF RequestOn
  <1> QED
    BY <1>1, <1>3, <1>5, <1>6, BecomeTypes

\* The user's edits of the catalogue.
LEMMA EditTypes ==
    ASSUME TypeOK, products' \in Seq(Product), Ids \subseteq Ids', UNCHANGED <<booked, req>>
    PROVE  TypeOK'
  <1>1. booked \in [Document -> Seq(Seq(MovementOn(Ids)))]
    BY DEF TypeOK, Movement, MovementOn
  <1>2. Seq(Seq(MovementOn(Ids))) \subseteq Seq(Seq(MovementOn(Ids')))
    BY RequestsGrow
  <1>3. \A r \in Request : RequestOn(Ids', req'[r])
    BY RequestTypes, RequestsGrow
  <1>4. req' \in [Request -> {Idle} \cup WorkOn(Ids')]
    BY <1>3 DEF TypeOK, RequestOn
  <1>5. \A r \in Request : req'[r] # Idle =>
           /\ req'[r].line \in DOMAIN req'[r].lines
           /\ req'[r].step \in {"attach", "link", "merge"} => req'[r].id \in Ids'
           /\ req'[r].step = "create" => req'[r].lines[req'[r].line].ref # NoRef
    BY <1>3 DEF RequestOn
  <1>6. Work' = WorkOn(Ids') /\ Movement' = MovementOn(Ids')
    BY DEF Work, WorkOn, Movement, MovementOn
  <1>7. booked' \in [Document -> Seq(Seq(Movement))']
    BY <1>1, <1>2, <1>6
  <1> QED
    BY <1>4, <1>5, <1>6, <1>7 DEF TypeOK

LEMMA AddProductTypes ==
    ASSUME TypeOK, NEW sku \in Ref, NEW name \in Ref, NEW price \in Price,
           AddProduct(sku, name, price)
    PROVE  TypeOK' /\ UNCHANGED <<booked, req>>
  <1> DEFINE product == [sku |-> sku, name |-> name, axo |-> 0, price |-> price,
                         sale |-> price]
  <1>1. products' = Append(products, product) /\ UNCHANGED <<booked, req>>
    BY DEF AddProduct
  <1>2. product \in Product /\ products \in Seq(Product)
    BY IngestAssumption DEF Product, TypeOK
  <1> HIDE DEF product
  <1>3. products' \in Seq(Product) /\ Ids \subseteq Ids'
    BY <1>1, <1>2 DEF Ids
  <1> QED
    BY <1>1, <1>3, EditTypes

LEMMA EditProductTypes ==
    ASSUME TypeOK, NEW id \in Ids, NEW sku \in Ref, NEW name \in Ref, NEW price \in Price,
           EditProduct(id, sku, name, price)
    PROVE  TypeOK' /\ UNCHANGED <<booked, req>>
  <1> DEFINE product == [products[id] EXCEPT !.sku = sku, !.name = name, !.price = price,
                                             !.sale = price]
  <1>1. /\ products' = [products EXCEPT ![id].sku = sku, ![id].name = name,
                                        ![id].price = price, ![id].sale = price]
        /\ UNCHANGED <<booked, req>>
    BY DEF EditProduct
  <1>2. product \in Product
    BY ProductTypes, IngestAssumption DEF Product
  <1>3. products' = [products EXCEPT ![id] = product]
    BY <1>1 DEF TypeOK, Ids
  <1> HIDE DEF product
  <1>4. products' \in Seq(Product) /\ Ids' = Ids
    BY <1>2, <1>3, ReplaceTypes
  <1> QED
    BY <1>1, <1>4, EditTypes

LEMMA ImportProductTypes ==
    ASSUME TypeOK, NEW sku \in Ref, NEW name \in Ref, NEW price \in Price \cup {NoPrice},
           ImportProduct(sku, name, price)
    PROVE  TypeOK' /\ UNCHANGED <<booked, req>>
  <1>1. UNCHANGED <<booked, req>>
    BY DEF ImportProduct
  <1>2. ASSUME NEW id \in Ids,
               products' = [products EXCEPT ![id].name = name,
                                            ![id].price = IF price = NoPrice THEN @ ELSE price]
        PROVE  products' \in Seq(Product) /\ Ids \subseteq Ids'
    <2> DEFINE product == [products[id] EXCEPT !.name = name,
                                               !.price = IF price = NoPrice THEN @ ELSE price]
    <2>1. product \in Product
      BY ProductTypes, IngestAssumption DEF Product
    <2>2. products' = [products EXCEPT ![id] = product]
      BY <1>2 DEF TypeOK, Ids
    <2> HIDE DEF product
    <2> QED
      BY <2>1, <2>2, ReplaceTypes
  <1>3. ASSUME NEW product, products' = Append(products, product),
               product = [sku |-> sku, name |-> name, axo |-> 0,
                          price |-> IF price = NoPrice THEN 0 ELSE price, sale |-> 0]
        PROVE  products' \in Seq(Product) /\ Ids \subseteq Ids'
    <2>1. product \in Product /\ products \in Seq(Product)
      BY <1>3, IngestAssumption DEF Product, TypeOK
    <2> QED
      BY <1>3, <2>1 DEF Ids
  <1> QED
    BY <1>1, <1>2, <1>3, EditTypes DEF ImportProduct

\* Whatever the client sends and whoever edits the catalogue meanwhile, a
\* request only ever works on a product that exists.
THEOREM TypeCorrect == Spec => []TypeOK
  <1>1. Init => TypeOK
    BY DEF Init, TypeOK, Idle
  <1>2. TypeOK /\ [Next]_vars => TypeOK'
    <2> SUFFICES ASSUME TypeOK, [Next]_vars PROVE TypeOK'
      OBVIOUS
    <2>1. ASSUME NEW r \in Request, Serve(r) PROVE TypeOK'
      BY <2>1, CheckTypes, InsertTypes, ServeContinues, ContinuesTypes
    <2>2. ASSUME NEW sku \in Ref, NEW name \in Ref, NEW price \in Price,
                 AddProduct(sku, name, price)
          PROVE  TypeOK'
      BY <2>2, AddProductTypes
    <2>3. ASSUME NEW id \in Ids, NEW sku \in Ref, NEW name \in Ref, NEW price \in Price,
                 EditProduct(id, sku, name, price)
          PROVE  TypeOK'
      BY <2>3, EditProductTypes
    <2>4. ASSUME NEW sku \in Ref, NEW name \in Ref, NEW price \in Price \cup {NoPrice},
                 ImportProduct(sku, name, price)
          PROVE  TypeOK'
      BY <2>4, ImportProductTypes
    <2>5. CASE UNCHANGED vars
      BY <2>5, EditTypes DEF vars, TypeOK, Ids
    <2> QED
      BY <2>1, <2>2, <2>3, <2>4, <2>5 DEF Next
  <1> QED
    BY <1>1, <1>2, PTL DEF Spec

-----------------------------------------------------------------------------
(***************************************************************************)
(* A document may have been booked for each slot that is no longer at work  *)
(* on it: a slot that starts has seen no movement of the document.          *)
(***************************************************************************)
AtWorkOn(d) == {r \in Request : req[r].step # "idle" /\ req[r].doc = d}

SlotPerBooking ==
    \A d \in Document : Sent[d].tracked =>
        Len(booked[d]) + Cardinality(AtWorkOn(d)) <= Cardinality(Request)

LEMMA AtWorkOnIsFinite ==
    ASSUME IsFiniteSet(Request), NEW d \in Document
    PROVE  /\ IsFiniteSet(AtWorkOn(d)) /\ Cardinality(AtWorkOn(d)) \in Nat
           /\ IsFiniteSet(AtWorkOn(d)') /\ Cardinality(AtWorkOn(d)') \in Nat
           /\ Cardinality(Request) \in Nat
           /\ Cardinality(AtWorkOn(d)') <= Cardinality(Request)
  <1>1. AtWorkOn(d) \subseteq Request /\ AtWorkOn(d)' \subseteq Request
    BY DEF AtWorkOn
  <1> QED
    BY <1>1, FS_Subset, FS_CardinalityType

LEMMA FewerAtWork ==
    ASSUME TypeOK, IsFiniteSet(Request), SlotPerBooking, UNCHANGED booked,
           \A d \in Document : AtWorkOn(d)' \subseteq AtWorkOn(d)
    PROVE  SlotPerBooking'
  <1> SUFFICES ASSUME NEW d \in Document, Sent[d].tracked
               PROVE  Len(booked'[d]) + Cardinality(AtWorkOn(d)') <= Cardinality(Request)
    BY DEF SlotPerBooking
  <1>1. Cardinality(AtWorkOn(d)') <= Cardinality(AtWorkOn(d))
    BY AtWorkOnIsFinite, FS_Subset
  <1>2. Len(booked[d]) \in Nat /\ booked'[d] = booked[d]
    BY DEF TypeOK
  <1>3. Len(booked[d]) + Cardinality(AtWorkOn(d)) <= Cardinality(Request)
    BY DEF SlotPerBooking
  <1> QED
    BY <1>1, <1>2, <1>3, AtWorkOnIsFinite

LEMMA ContinuesCount ==
    ASSUME TypeOK, IsFiniteSet(Request), SlotPerBooking, UNCHANGED booked,
           NEW r \in Request, req[r].step # "idle", Continues(r)
    PROVE  SlotPerBooking'
  <1>1. PICK state : GoesOn(r, state)
    BY DEF Continues
  <1>2. ASSUME NEW d \in Document, NEW s \in AtWorkOn(d)'
        PROVE  s \in AtWorkOn(d)
    <2>1. s \in Request /\ req'[s].step # "idle" /\ req'[s].doc = d
      BY <1>2 DEF AtWorkOn
    <2>2. CASE s # r
      <3>1. req'[s] = req[s]
        BY <1>1, <2>2 DEF GoesOn, TypeOK
      <3> QED
        BY <2>1, <3>1 DEF AtWorkOn
    <2>3. CASE s = r
      <3>1. req'[s] = state
        BY <1>1, <2>3 DEF GoesOn, TypeOK
      <3>2. state # Idle
        BY <2>1, <3>1 DEF Idle
      <3> QED
        BY <1>1, <2>1, <2>3, <3>1, <3>2 DEF GoesOn, AtWorkOn
    <2> QED
      BY <2>2, <2>3
  <1> QED
    BY <1>2, FewerAtWork

LEMMA CheckCounts ==
    ASSUME TypeOK, IsFiniteSet(Request), SlotPerBooking,
           NEW r \in Request, NEW d \in Document, Check(r, d)
    PROVE  SlotPerBooking'
  <1> SUFFICES ASSUME NEW e \in Document, Sent[e].tracked
               PROVE  Len(booked'[e]) + Cardinality(AtWorkOn(e)') <= Cardinality(Request)
    BY DEF SlotPerBooking
  <1>1. req[r].step = "idle" /\ UNCHANGED booked
        /\ \E state : req' = [req EXCEPT ![r] = state]
                     /\ state.doc = d
    <2> DEFINE work == [step |-> "enrich", doc |-> d, lines |-> Sent[d].lines, line |-> 1,
                        id |-> 0, found |-> Blank, batch |-> << >>]
               state == IF Sent[d].axonaut THEN AtLine(work, 1) ELSE work
    <2>1. work.doc = d /\ AtLine(work, 1).doc = d
      BY DEF AtLine
    <2>2. state.doc = d
      BY <2>1
    <2>3. req[r].step = "idle" /\ UNCHANGED booked /\ req' = [req EXCEPT ![r] = state]
      BY DEF Check, Begin, Become
    <2> HIDE DEF state
    <2> QED
      BY <2>2, <2>3
  <1>2. CASE e = d
    <2>1. booked[e] = << >> /\ booked'[e] = << >>
      BY <1>1, <1>2 DEF Check
    <2> QED
      BY <2>1, AtWorkOnIsFinite
  <1>3. CASE e # d
    <2>1. PICK state : req' = [req EXCEPT ![r] = state] /\ state.doc = d
      BY <1>1
    <2>2. ASSUME NEW s \in AtWorkOn(e)' PROVE s \in AtWorkOn(e)
      <3>1. s \in Request /\ req'[s].step # "idle" /\ req'[s].doc = e
        BY <2>2 DEF AtWorkOn
      <3>2. s # r
        BY <1>3, <2>1, <3>1 DEF TypeOK
      <3> QED
        BY <2>1, <3>1, <3>2 DEF AtWorkOn, TypeOK
    <2>3. Cardinality(AtWorkOn(e)') <= Cardinality(AtWorkOn(e))
      BY <2>2, AtWorkOnIsFinite, FS_Subset
    <2>4. Len(booked[e]) \in Nat /\ booked'[e] = booked[e]
      BY <1>1 DEF TypeOK
    <2>5. Len(booked[e]) + Cardinality(AtWorkOn(e)) <= Cardinality(Request)
      BY DEF SlotPerBooking
    <2> QED
      BY <2>3, <2>4, <2>5, AtWorkOnIsFinite
  <1> QED
    BY <1>2, <1>3

LEMMA InsertCounts ==
    ASSUME TypeOK, IsFiniteSet(Request), SlotPerBooking, NEW r \in Request, Insert(r)
    PROVE  SlotPerBooking'
  <1> SUFFICES ASSUME NEW e \in Document, Sent[e].tracked
               PROVE  Len(booked'[e]) + Cardinality(AtWorkOn(e)') <= Cardinality(Request)
    BY DEF SlotPerBooking
  <1>1. /\ req[r].step # "idle" /\ req' = [req EXCEPT ![r] = Idle]
        /\ booked' = [booked EXCEPT ![req[r].doc] = Append(@, req[r].batch)]
    BY DEF Insert, Become
  <1>2. req[r].doc \in Document
    BY <1>1, AtWork DEF WorkOn
  <1>3. AtWorkOn(e)' = AtWorkOn(e) \ {r}
    BY <1>1 DEF AtWorkOn, TypeOK, Idle
  <1>4. Len(booked[e]) \in Nat /\ booked[e] \in Seq(Seq(Movement))
        /\ Len(booked[e]) + Cardinality(AtWorkOn(e)) <= Cardinality(Request)
    BY DEF SlotPerBooking, TypeOK
  <1>5. CASE e = req[r].doc
    <2>1. r \in AtWorkOn(e)
      BY <1>1, <1>5 DEF AtWorkOn
    <2>2. Cardinality(AtWorkOn(e)') = Cardinality(AtWorkOn(e)) - 1
      BY <1>3, <2>1, AtWorkOnIsFinite, FS_RemoveElement
    <2>3. booked'[e] = Append(booked[e], req[r].batch)
      BY <1>1, <1>5 DEF TypeOK
    <2>4. Len(booked'[e]) = Len(booked[e]) + 1
      BY <1>4, <2>3
    <2> QED
      BY <1>4, <2>2, <2>4, AtWorkOnIsFinite
  <1>6. CASE e # req[r].doc
    <2>1. booked'[e] = booked[e]
      BY <1>1, <1>6 DEF TypeOK
    <2>2. Cardinality(AtWorkOn(e)') <= Cardinality(AtWorkOn(e))
      BY <1>3, AtWorkOnIsFinite, FS_Subset
    <2> QED
      BY <1>4, <2>1, <2>2, AtWorkOnIsFinite
  <1> QED
    BY <1>5, <1>6

\* However requests interleave, fail and are sent again, a document whose
\* movements are tracked is booked at most once per request slot.
THEOREM NeverBookedAgain ==
    ASSUME IsFiniteSet(Request)
    PROVE  Spec => []BookedOncePerOverlap
  <1>1. Init => TypeOK /\ SlotPerBooking
    <2> SUFFICES ASSUME Init PROVE TypeOK /\ SlotPerBooking
      OBVIOUS
    <2>1. TypeOK
      BY DEF Init, TypeOK, Idle
    <2>2. ASSUME NEW d \in Document
          PROVE  Len(booked[d]) + Cardinality(AtWorkOn(d)) <= Cardinality(Request)
      <3>1. AtWorkOn(d) = {} /\ booked[d] = << >>
        BY DEF Init, AtWorkOn, Idle
      <3> QED
        BY <3>1, AtWorkOnIsFinite, FS_EmptySet
    <2> QED
      BY <2>1, <2>2 DEF SlotPerBooking
  <1>2. TypeOK /\ TypeOK' /\ SlotPerBooking /\ [Next]_vars => SlotPerBooking'
    <2> SUFFICES ASSUME TypeOK, SlotPerBooking, [Next]_vars PROVE SlotPerBooking'
      OBVIOUS
    <2>1. ASSUME NEW r \in Request, Serve(r) PROVE SlotPerBooking'
      <3>1. CASE \E d \in Document : Check(r, d)
        BY <3>1, CheckCounts
      <3>2. CASE Insert(r)
        BY <3>2, InsertCounts
      <3>3. CASE ~ (\E d \in Document : Check(r, d)) /\ ~ Insert(r)
        <4>1. req[r].step # "idle"
          BY <2>1, <3>3 DEF Serve, Enrich, FindByAxo, FindByRef, Create, CreateFails,
                            Attach, Link, LinkFails, Merge, Abort
        <4> QED
          BY <2>1, <3>3, <4>1, ServeContinues, ContinuesCount
      <3> QED
        BY <3>1, <3>2, <3>3
    <2>2. CASE UNCHANGED <<booked, req>>
      BY <2>2, FewerAtWork DEF AtWorkOn
    <2>3. ASSUME NEW sku \in Ref, NEW name \in Ref, NEW price,
                 \/ AddProduct(sku, name, price) \/ ImportProduct(sku, name, price)
                 \/ \E id \in Ids : EditProduct(id, sku, name, price)
          PROVE  UNCHANGED <<booked, req>>
      BY <2>3 DEF AddProduct, EditProduct, ImportProduct
    <2> QED
      BY <2>1, <2>2, <2>3 DEF Next, vars
  <1>3. TypeOK /\ SlotPerBooking => BookedOncePerOverlap
    <2> SUFFICES ASSUME TypeOK, SlotPerBooking, NEW d \in Document, Sent[d].tracked
                 PROVE  Len(booked[d]) <= Cardinality(Request)
      BY DEF BookedOncePerOverlap
    <2>1. Len(booked[d]) + Cardinality(AtWorkOn(d)) <= Cardinality(Request)
      BY DEF SlotPerBooking
    <2>2. Len(booked[d]) \in Nat
      BY DEF TypeOK
    <2> QED
      BY <2>1, <2>2, AtWorkOnIsFinite
  <1> QED
    BY <1>1, <1>2, <1>3, TypeCorrect, PTL DEF Spec

-----------------------------------------------------------------------------
(***************************************************************************)
(* Requests served one at a time: what a request has read of the catalogue  *)
(* is still so when it acts on it.                                         *)
(***************************************************************************)
OneRequest == \A r, t \in Request : r = t

LineOf(work) == work.lines[work.line]

\* What the queries of the current line found.
Resolved(ps, work) ==
    /\ work.step \in {"byRef", "create", "attach", "link"} /\ LineOf(work).axo # 0 =>
         \A id \in DOMAIN ps : ps[id].axo # LineOf(work).axo
    /\ work.step = "create" => \A id \in DOMAIN ps : ps[id].sku # LineOf(work).ref
    /\ work.step \in {"attach", "link", "merge"} => work.found = ps[work.id]
    /\ work.step \in {"attach", "link"} => LineOf(work).axo # 0 /\ work.found.axo = 0
    /\ work.step = "merge" /\ LineOf(work).axo # 0 => work.found.axo # 0
    /\ work.step = "insert" => work.line = Len(work.lines)

\* The lines are those of the document, enriched or not.
Kept(work) ==
    /\ Len(work.lines) = Len(Sent[work.doc].lines)
    /\ \A l \in DOMAIN work.lines :
         /\ work.lines[l].ref = Sent[work.doc].lines[l].ref
         /\ Sent[work.doc].lines[l].axo # 0 => work.lines[l].axo # 0

OnLinked(ps, d, batch) ==
    \A m \in DOMAIN batch :
        Sent[d].lines[batch[m].line].axo # 0 => ps[batch[m].product].axo # 0

\* The first lines, up to the last one given, have a movement or no reference.
Covers(d, batch, last) ==
    \A l \in DOMAIN Sent[d].lines : l <= last =>
        \/ Sent[d].lines[l].ref = NoRef
        \/ \E m \in DOMAIN batch : batch[m].line = l

LinesDone(work) == IF work.step = "insert" THEN work.line ELSE work.line - 1

Sound(ps, work) ==
    /\ Kept(work)
    /\ Resolved(ps, work)
    /\ OnLinked(ps, work.doc, work.batch)
    /\ ~ FaultyCreate => Covers(work.doc, work.batch, LinesDone(work))

\* Inductive: the requests at work, and what was booked.
SerialInv ==
    /\ \A r \in Request : req[r] # Idle => Sound(products, req[r])
    /\ \A d \in Document : \A k \in DOMAIN booked[d] :
         /\ OnLinked(products, d, booked[d][k])
         /\ ~ FaultyCreate => Covers(d, booked[d][k], Len(Sent[d].lines))

\* What a step of an ingest may do to the catalogue.
Fills ==
    \A id \in Ids :
        /\ id \in Ids'
        /\ products[id].axo # 0 => products'[id].axo = products[id].axo
        /\ products[id].sale # 0 =>
             products'[id].sale = products[id].sale /\ products'[id].price = products[id].price
        /\ products'[id].price # products[id].price => products'[id].price = products'[id].sale

\* A movement on a linked product stays on one.
LEMMA LinkedStays ==
    ASSUME NEW ps, NEW qs,
           \A id \in DOMAIN ps : ps[id].axo # 0 => qs[id].axo # 0,
           NEW d, NEW batch \in Seq(MovementOn(DOMAIN ps)), OnLinked(ps, d, batch)
    PROVE  OnLinked(qs, d, batch)
  <1> SUFFICES ASSUME NEW m \in DOMAIN batch, Sent[d].lines[batch[m].line].axo # 0
               PROVE  qs[batch[m].product].axo # 0
    BY DEF OnLinked
  <1>1. batch[m] \in MovementOn(DOMAIN ps)
    OBVIOUS
  <1>2. batch[m].product \in DOMAIN ps
    BY <1>1 DEF MovementOn
  <1> QED
    BY <1>2 DEF OnLinked

\* On to another line, whose queries have not begun.
LEMMA AtLineSound ==
    ASSUME NEW ps, NEW ids, NEW work \in WorkOn(ids), NEW n \in DOMAIN work.lines, Kept(work),
           OnLinked(ps, work.doc, work.batch),
           ~ FaultyCreate => Covers(work.doc, work.batch, n - 1)
    PROVE  Sound(ps, AtLine(work, n))
  <1> DEFINE step == IF work.lines[n].axo # 0 THEN "byAxo" ELSE "byRef"
             next == AtLine(work, n)
  <1>1. /\ next.line = n /\ next.step = step /\ next.lines = work.lines
        /\ next.doc = work.doc /\ next.batch = work.batch
    BY DEF AtLine, WorkOn
  <1> HIDE DEF next
  <1>2. Kept(next) /\ OnLinked(ps, next.doc, next.batch)
    BY <1>1 DEF Kept
  <1>3. Resolved(ps, next)
    BY <1>1 DEF Resolved, LineOf
  <1>4. ~ FaultyCreate => Covers(next.doc, next.batch, LinesDone(next))
    BY <1>1 DEF LinesDone
  <1>5. Sound(ps, next)
    BY <1>2, <1>3, <1>4 DEF Sound
  <1> QED
    BY <1>5 DEF next

\* On to the next line, or to the insert.
LEMMA AdvanceSound ==
    ASSUME NEW ps, NEW ids, NEW work \in WorkOn(ids), work.line \in DOMAIN work.lines, Kept(work),
           OnLinked(ps, work.doc, work.batch),
           ~ FaultyCreate => Covers(work.doc, work.batch, work.line)
    PROVE  Advance(work) = Idle \/ Sound(ps, Advance(work))
  <1>1. work.lines \in Seq(Line) /\ work.line \in Nat
    BY DEF WorkOn
  <1>2. CASE work.line < Len(work.lines)
    <2>1. work.line + 1 \in DOMAIN work.lines /\ (work.line + 1) - 1 = work.line
      BY <1>1, <1>2
    <2>2. ~ FaultyCreate => Covers(work.doc, work.batch, (work.line + 1) - 1)
      BY <2>1
    <2>3. Sound(ps, AtLine(work, work.line + 1))
      BY <2>1, <2>2, AtLineSound
    <2> QED
      BY <1>2, <2>3 DEF Advance
  <1>3. CASE ~ (work.line < Len(work.lines)) /\ work.batch = << >>
    BY <1>3 DEF Advance
  <1>4. CASE ~ (work.line < Len(work.lines)) /\ work.batch # << >>
    <2> DEFINE next == [work EXCEPT !.step = "insert"]
    <2>1. /\ next.line = work.line /\ next.step = "insert" /\ next.lines = work.lines
          /\ next.doc = work.doc /\ next.batch = work.batch
      BY DEF WorkOn
    <2> HIDE DEF next
    <2>2. work.line = Len(work.lines)
      BY <1>1, <1>4
    <2>3. Sound(ps, next)
      BY <2>1, <2>2 DEF Sound, Kept, Resolved, LinesDone
    <2> QED
      BY <1>4, <2>3 DEF Advance, next
  <1> QED
    BY <1>2, <1>3, <1>4

\* A step that goes on soundly and fills nothing but blanks.
Goes(r) ==
    /\ Fills
    /\ UNCHANGED booked
    /\ \E state : Become(r, state) /\ (state = Idle \/ Sound(products', state))

\* A request at work, as the invariant has it.
LEMMA Works ==
    ASSUME TypeOK, SerialInv, NEW r \in Request, req[r].step # "idle"
    PROVE  /\ req[r] \in WorkOn(Ids) /\ req[r].line \in DOMAIN req[r].lines
           /\ req[r].line \in Nat /\ req[r].lines \in Seq(Line)
           /\ Current(r) = LineOf(req[r])
           /\ Sound(products, req[r])
  BY AtWork DEF SerialInv, WorkOn, Current, LineOf

LEMMA ReadsFillNothing ==
    ASSUME UNCHANGED products
    PROVE  Fills
  BY DEF Fills, Ids

\* A query that leaves the catalogue alone and finds what the next step needs.
LEMMA FindsSound ==
    ASSUME TypeOK, SerialInv, NEW r \in Request, req[r].step \notin {"idle", "insert"},
           NEW step \in WorkStep \ {"insert"}, NEW id \in Nat, NEW found \in Product \cup {Blank},
           LET state == [req[r] EXCEPT !.step = step, !.id = id, !.found = found] IN
               Become(r, state) /\ Resolved(products, state),
           UNCHANGED <<products, booked>>
    PROVE  Goes(r)
  <1> DEFINE state == [req[r] EXCEPT !.step = step, !.id = id, !.found = found]
  <1>1. req[r] \in WorkOn(Ids) /\ Sound(products, req[r])
    BY Works
  <1>2. /\ state.lines = req[r].lines /\ state.line = req[r].line /\ state.doc = req[r].doc
        /\ state.batch = req[r].batch /\ state.step = step
    BY <1>1 DEF WorkOn
  <1>3. Become(r, state) /\ Resolved(products, state)
    OBVIOUS
  <1> HIDE DEF state
  <1>4. Sound(products, state)
    BY <1>1, <1>2, <1>3 DEF Sound, Kept, LinesDone
  <1> QED
    BY <1>3, <1>4, ReadsFillNothing DEF Goes

LEMMA GotoFinds ==
    ASSUME TypeOK, SerialInv, NEW r \in Request, req[r].step \notin {"idle", "insert"},
           NEW step \in WorkStep \ {"insert"}, Goto(r, step),
           Resolved(products, [req[r] EXCEPT !.step = step]),
           UNCHANGED <<products, booked>>
    PROVE  Goes(r)
  <1> DEFINE state == [req[r] EXCEPT !.step = step]
  <1>1. req[r] \in WorkOn(Ids)
    BY Works
  <1>2. state = [req[r] EXCEPT !.step = step, !.id = req[r].id, !.found = req[r].found]
    BY <1>1 DEF WorkOn
  <1>3. req[r].id \in Nat /\ req[r].found \in Product \cup {Blank}
    BY <1>1 DEF WorkOn
  <1>4. Become(r, state) /\ Resolved(products, state)
    BY DEF Goto
  <1> HIDE DEF state
  <1> QED
    BY <1>2, <1>3, <1>4, FindsSound

LEMMA EnrichGoes ==
    ASSUME TypeOK, SerialInv, NEW r \in Request, Enrich(r)
    PROVE  Goes(r)
  <1>1. req[r].step = "enrich" /\ UNCHANGED <<products, booked>>
    BY DEF Enrich
  <1>2. /\ req[r] \in WorkOn(Ids) /\ req[r].line \in DOMAIN req[r].lines
        /\ req[r].lines \in Seq(Line) /\ Sound(products, req[r])
    BY <1>1, Works
  <1>3. PICK lines \in {req[r].lines, [l \in DOMAIN req[r].lines |-> Enriched(req[r].lines[l])]} :
           Become(r, AtLine([req[r] EXCEPT !.lines = lines], 1))
    BY DEF Enrich
  <1>4. lines \in Seq(Line) /\ 1 \in DOMAIN lines
    BY <1>2, <1>3, EnrichedTypes
  <1> DEFINE work == [req[r] EXCEPT !.lines = lines]
  <1>5. /\ work \in WorkOn(Ids) /\ 1 \in DOMAIN work.lines
        /\ work.lines = lines /\ work.doc = req[r].doc /\ work.batch = req[r].batch
    BY <1>2, <1>4 DEF WorkOn
  <1>6. Kept(work)
    <2>1. DOMAIN lines = DOMAIN req[r].lines /\ Len(lines) = Len(req[r].lines)
      BY <1>2, <1>3, <1>4
    <2>2. ASSUME NEW line \in Line
          PROVE  Enriched(line).ref = line.ref /\ (line.axo # 0 => Enriched(line).axo # 0)
      <3>1. CASE line.ref \notin DOMAIN Catalogue
        BY <3>1 DEF Enriched
      <3>2. CASE line.ref \in DOMAIN Catalogue
        <4>1. Catalogue[line.ref].axo \in Nat \ {0}
          BY <3>2, IngestAssumption
        <4> QED
          BY <3>2, <4>1 DEF Enriched, Line
      <3> QED
        BY <3>1, <3>2
    <2>3. \A l \in DOMAIN lines :
            lines[l].ref = req[r].lines[l].ref /\ (req[r].lines[l].axo # 0 => lines[l].axo # 0)
      <3>1. \A l \in DOMAIN req[r].lines : req[r].lines[l] \in Line
        BY <1>2
      <3> QED
        BY <1>3, <2>1, <2>2, <3>1
    <2> QED
      <3>1. Kept(req[r])
        BY <1>2 DEF Sound
      <3> HIDE DEF work
      <3> QED
        BY <1>5, <2>1, <2>3, <3>1, SMTT(60) DEF Kept
  <1>7. ~ FaultyCreate => Covers(work.doc, work.batch, 1 - 1)
    <2>1. \A l \in DOMAIN Sent[work.doc].lines : ~ l <= 1 - 1
      <3>1. work.doc \in Document
        BY <1>5 DEF WorkOn
      <3>2. Sent[work.doc].lines \in Seq(Line)
        BY <3>1, IngestAssumption
      <3> QED
        BY <3>2
    <2> QED
      BY <2>1 DEF Covers
  <1>8. OnLinked(products, work.doc, work.batch)
    BY <1>2, <1>5 DEF Sound
  <1> HIDE DEF work
  <1>9. Sound(products, AtLine(work, 1))
    BY <1>5, <1>6, <1>7, <1>8, AtLineSound
  <1>10. Become(r, AtLine(work, 1))
    BY <1>3 DEF work
  <1> QED
    BY <1>1, <1>9, <1>10, ReadsFillNothing DEF Goes

LEMMA FindByAxoGoes ==
    ASSUME TypeOK, SerialInv, NEW r \in Request, FindByAxo(r)
    PROVE  Goes(r)
  <1> DEFINE hits == {id \in Ids : products[id].axo = Current(r).axo}
  <1>1. req[r].step = "byAxo" /\ UNCHANGED <<products, booked>>
    BY DEF FindByAxo
  <1>2. req[r] \in WorkOn(Ids) /\ Current(r) = LineOf(req[r])
    BY <1>1, Works
  <1>3. CASE hits = {} /\ Goto(r, "byRef")
    <2> DEFINE state == [req[r] EXCEPT !.step = "byRef"]
    <2>1. state.step = "byRef" /\ LineOf(state) = Current(r)
      BY <1>2 DEF WorkOn, LineOf
    <2>2. Resolved(products, state)
      <3> HIDE DEF state
      <3> QED
        BY <1>3, <2>1 DEF Resolved, Ids
    <2> QED
      BY <1>1, <1>3, <2>2, GotoFinds DEF WorkStep
  <1>4. ASSUME NEW id \in hits, Found(r, id, "merge") PROVE Goes(r)
    <2> DEFINE state == [req[r] EXCEPT !.step = "merge", !.id = id, !.found = products[id]]
    <2>1. state.step = "merge" /\ LineOf(state) = Current(r) /\ state.id = id
          /\ state.found = products[id]
      BY <1>2 DEF WorkOn, LineOf
    <2>2. Resolved(products, state)
      <3> HIDE DEF state
      <3> QED
        BY <2>1 DEF Resolved
    <2>3. id \in Nat /\ products[id] \in Product
      BY <1>4 DEF TypeOK, Ids
    <2>4. Become(r, state)
      BY <1>4 DEF Found
    <2> QED
      BY <1>1, <2>2, <2>3, <2>4, FindsSound DEF WorkStep
  <1> QED
    BY <1>3, <1>4 DEF FindByAxo

\* A line that is skipped has no reference, or the database refused its product.
LEMMA SkipGoes ==
    ASSUME TypeOK, SerialInv, NEW r \in Request, req[r].step \notin {"idle", "insert"},
           FaultyCreate \/ Current(r).ref = NoRef,
           Become(r, Advance(req[r])), UNCHANGED <<products, booked>>
    PROVE  Goes(r)
  <1> DEFINE work == req[r]
  <1>1. /\ work \in WorkOn(Ids) /\ work.line \in DOMAIN work.lines
        /\ Current(r) = LineOf(work) /\ Sound(products, work)
        /\ work.line \in Nat /\ work.doc \in Document
    BY Works DEF WorkOn
  <1>2. ~ FaultyCreate => Covers(work.doc, work.batch, work.line)
    <2> SUFFICES ASSUME ~ FaultyCreate, NEW l \in DOMAIN Sent[work.doc].lines, l <= work.line,
                        Sent[work.doc].lines[l].ref # NoRef
                 PROVE  \E m \in DOMAIN work.batch : work.batch[m].line = l
      BY DEF Covers
    <2>1. Covers(work.doc, work.batch, work.line - 1)
      BY <1>1 DEF Sound, LinesDone
    <2>2. l # work.line
      BY <1>1 DEF Sound, Kept, LineOf
    <2>3. l \in Nat
      BY <1>1, IngestAssumption
    <2> QED
      BY <1>1, <2>1, <2>2, <2>3 DEF Covers
  <1>3. Advance(work) = Idle \/ Sound(products, Advance(work))
    BY <1>1, <1>2, AdvanceSound DEF Sound
  <1> QED
    BY <1>3, ReadsFillNothing DEF Goes

LEMMA FindByRefGoes ==
    ASSUME TypeOK, SerialInv, NEW r \in Request, FindByRef(r)
    PROVE  Goes(r)
  <1> DEFINE ref  == Current(r).ref
             hits == {id \in Ids : products[id].sku = ref \/ products[id].name = ref}
  <1>1. req[r].step = "byRef" /\ UNCHANGED <<products, booked>>
    BY DEF FindByRef
  <1>2. /\ req[r] \in WorkOn(Ids) /\ Current(r) = LineOf(req[r])
        /\ Current(r).axo # 0 => \A id \in Ids : products[id].axo # Current(r).axo
    BY <1>1, Works DEF Sound, Resolved, Ids
  <1>3. CASE ref = NoRef /\ Become(r, Advance(req[r]))
    BY <1>1, <1>3, SkipGoes
  <1>4. CASE ref # NoRef /\ hits = {} /\ Goto(r, "create")
    <2> DEFINE state == [req[r] EXCEPT !.step = "create"]
    <2>1. state.step = "create" /\ LineOf(state) = Current(r)
      BY <1>2 DEF WorkOn, LineOf
    <2>2. Resolved(products, state)
      <3> HIDE DEF state
      <3> QED
        BY <1>2, <1>4, <2>1 DEF Resolved, Ids
    <2> QED
      BY <1>1, <1>4, <2>2, GotoFinds DEF WorkStep
  <1>5. ASSUME NEW id \in hits, Found(r, id, AttachOrMerge(r, id)) PROVE Goes(r)
    <2> DEFINE step == AttachOrMerge(r, id)
               state == [req[r] EXCEPT !.step = step, !.id = id, !.found = products[id]]
    <2>1. state.step = step /\ LineOf(state) = Current(r) /\ state.id = id
          /\ state.found = products[id]
      BY <1>2 DEF WorkOn, LineOf
    <2>2. Resolved(products, state)
      <3> HIDE DEF state
      <3>1. step = "attach" => Current(r).axo # 0 /\ products[id].axo = 0
        BY DEF AttachOrMerge
      <3>2. step = "merge" /\ Current(r).axo # 0 => products[id].axo # 0
        BY DEF AttachOrMerge
      <3>3. step \in {"attach", "merge"}
        BY DEF AttachOrMerge
      <3> HIDE DEF step
      <3> QED
        BY <1>2, <2>1, <3>1, <3>2, <3>3 DEF Resolved, Ids
    <2>3. id \in Nat /\ products[id] \in Product /\ step \in WorkStep \ {"insert"}
      BY <1>5 DEF TypeOK, Ids, WorkStep, AttachOrMerge
    <2>4. Become(r, state)
      BY <1>5 DEF Found
    <2> HIDE DEF step
    <2> QED
      BY <1>1, <2>2, <2>3, <2>4, FindsSound
  <1> QED
    BY <1>3, <1>4, <1>5 DEF FindByRef

LEMMA CreateGoes ==
    ASSUME TypeOK, SerialInv, NEW r \in Request, Create(r)
    PROVE  Goes(r)
  <1> DEFINE line == Current(r)
             price == IF line.price = NoPrice THEN 0 ELSE line.price
             made == [sku |-> line.ref, name |-> line.name, axo |-> line.axo,
                      price |-> price, sale |-> price]
             state == [req[r] EXCEPT !.step = "merge", !.id = Len(products'), !.found = made]
  <1>1. req[r].step = "create" /\ products' = Append(products, made) /\ Become(r, state)
        /\ UNCHANGED booked
    BY DEF Create
  <1>2. /\ req[r] \in WorkOn(Ids) /\ Current(r) = LineOf(req[r]) /\ Sound(products, req[r])
    BY <1>1, Works
  <1>3. /\ \A id \in Ids : id \in Ids' /\ products'[id] = products[id]
        /\ products'[Len(products')] = made
    <2>1. products \in Seq(Product)
      BY DEF TypeOK
    <2> HIDE DEF made
    <2> QED
      BY <1>1, <2>1 DEF Ids
  <1>4. /\ state.lines = req[r].lines /\ state.line = req[r].line /\ state.doc = req[r].doc
        /\ state.batch = req[r].batch /\ state.step = "merge" /\ state.found = made
        /\ state.id = Len(products')
    BY <1>2 DEF WorkOn
  <1>5. made.axo = LineOf(req[r]).axo
    BY <1>2
  <1> HIDE DEF state, made
  <1>6. Resolved(products', state)
    BY <1>3, <1>4, <1>5 DEF Resolved, LineOf
  <1>7. OnLinked(products', state.doc, state.batch)
    <2>1. req[r].batch \in Seq(MovementOn(DOMAIN products))
      BY <1>2 DEF WorkOn, Ids
    <2>2. OnLinked(products, req[r].doc, req[r].batch)
      BY <1>2 DEF Sound
    <2>3. \A id \in DOMAIN products : products[id].axo # 0 => products'[id].axo # 0
      BY <1>3 DEF Ids
    <2> QED
      BY <1>4, <2>1, <2>2, <2>3, LinkedStays
  <1>8. Sound(products', state)
    BY <1>1, <1>2, <1>4, <1>6, <1>7 DEF Sound, Kept, LinesDone
  <1>9. Fills
    BY <1>3 DEF Fills
  <1> QED
    BY <1>1, <1>8, <1>9 DEF Goes

LEMMA CreateFailsGoes ==
    ASSUME TypeOK, SerialInv, NEW r \in Request, CreateFails(r)
    PROVE  Goes(r)
  <1>1. /\ req[r].step = "create" /\ UNCHANGED <<products, booked>>
        /\ Become(r, Advance(req[r]))
        /\ Clashes(Current(r).ref, Current(r).axo) \/ FaultyCreate
    BY DEF CreateFails
  <1>2. Current(r) = LineOf(req[r]) /\ Sound(products, req[r])
    BY <1>1, Works
  <1>3. ~ Clashes(Current(r).ref, Current(r).axo)
    BY <1>1, <1>2 DEF Sound, Resolved, Clashes, Ids
  <1> QED
    BY <1>1, <1>3, SkipGoes

\* Nobody took the Axonaut id since the first query looked for it.
LEMMA AttachGoes ==
    ASSUME TypeOK, SerialInv, NEW r \in Request, Attach(r)
    PROVE  Goes(r)
  <1>1. req[r].step = "attach" /\ UNCHANGED <<products, booked>>
    BY DEF Attach
  <1>2. /\ req[r] \in WorkOn(Ids) /\ Current(r) = LineOf(req[r]) /\ Sound(products, req[r])
    BY <1>1, Works
  <1>3. Goto(r, "link")
    BY <1>1, <1>2 DEF Attach, Sound, Resolved, Ids
  <1> DEFINE state == [req[r] EXCEPT !.step = "link"]
  <1>4. state.step = "link" /\ LineOf(state) = Current(r) /\ state.id = req[r].id
        /\ state.found = req[r].found
    BY <1>2 DEF WorkOn, LineOf
  <1>5. Resolved(products, state)
    <2> HIDE DEF state
    <2> QED
      BY <1>1, <1>2, <1>4 DEF Sound, Resolved
  <1> QED
    BY <1>1, <1>3, <1>5, GotoFinds DEF WorkStep

LEMMA LinkGoes ==
    ASSUME TypeOK, SerialInv, NEW r \in Request, Link(r)
    PROVE  Goes(r)
  <1> DEFINE id == req[r].id
             state == [req[r] EXCEPT !.step = "merge", !.found = products'[id]]
  <1>1. /\ req[r].step = "link" /\ Become(r, state) /\ UNCHANGED booked
        /\ products' = [products EXCEPT ![id].axo = Current(r).axo]
    BY DEF Link
  <1>2. /\ req[r] \in WorkOn(Ids) /\ Current(r) = LineOf(req[r]) /\ Sound(products, req[r])
        /\ id \in Ids
    BY <1>1, Works, AtWork
  <1>3. products[id].axo = 0 /\ LineOf(req[r]).axo # 0
    BY <1>1, <1>2 DEF Sound, Resolved
  <1>4. /\ Ids' = Ids /\ products'[id].axo = LineOf(req[r]).axo
        /\ \A other \in Ids \ {id} : products'[other] = products[other]
        /\ products'[id].price = products[id].price /\ products'[id].sale = products[id].sale
    BY <1>1, <1>2, ProductTypes DEF Ids, TypeOK, Product
  <1>5. /\ state.lines = req[r].lines /\ state.line = req[r].line /\ state.doc = req[r].doc
        /\ state.batch = req[r].batch /\ state.step = "merge" /\ state.found = products'[id]
        /\ state.id = id
    BY <1>2 DEF WorkOn
  <1> HIDE DEF state
  <1>6. Resolved(products', state)
    BY <1>3, <1>4, <1>5 DEF Resolved, LineOf
  <1>7. \A other \in Ids : products[other].axo # 0 => products'[other].axo = products[other].axo
    BY <1>3, <1>4
  <1>8. OnLinked(products', state.doc, state.batch)
    <2>1. req[r].batch \in Seq(MovementOn(DOMAIN products))
      BY <1>2 DEF WorkOn, Ids
    <2>2. OnLinked(products, req[r].doc, req[r].batch)
      BY <1>2 DEF Sound
    <2>3. \A other \in DOMAIN products : products[other].axo # 0 => products'[other].axo # 0
      BY <1>7 DEF Ids
    <2> QED
      BY <1>5, <2>1, <2>2, <2>3, LinkedStays
  <1>9. Sound(products', state)
    BY <1>1, <1>2, <1>5, <1>6, <1>8 DEF Sound, Kept, LinesDone
  <1>10. Fills
    BY <1>4, <1>7 DEF Fills
  <1> QED
    BY <1>1, <1>9, <1>10 DEF Goes

\* The movement of the line joins the batch.
LEMMA BookSound ==
    ASSUME NEW ids, NEW work \in WorkOn(ids), NEW id, NEW ps, work.step = "merge",
           Sent[work.doc].lines[work.line].axo # 0 => ps[id].axo # 0,
           OnLinked(ps, work.doc, work.batch), NEW batch, batch = Book(work, id).batch
    PROVE  /\ OnLinked(ps, work.doc, batch)
           /\ Covers(work.doc, work.batch, work.line - 1) /\ Sent[work.doc].lines \in Seq(Line) =>
                Covers(work.doc, batch, work.line)
  <1> DEFINE movement == [line |-> work.line, product |-> id,
                          delta |-> Delta(Sent[work.doc], work.lines[work.line].qty)]
  <1>1. batch = Append(work.batch, movement) /\ work.batch \in Seq(MovementOn(ids))
        /\ work.line \in Nat
    BY DEF Book, WorkOn
  <1>2. movement.line = work.line /\ movement.product = id
    OBVIOUS
  <1> HIDE DEF movement
  <1>3. /\ DOMAIN batch = 1 .. Len(work.batch) + 1 /\ DOMAIN work.batch = 1 .. Len(work.batch)
        /\ \A m \in DOMAIN work.batch : batch[m] = work.batch[m]
        /\ batch[Len(work.batch) + 1] = movement
        /\ Len(work.batch) \in Nat
    BY <1>1
  <1>4. \A m \in DOMAIN batch : m \in DOMAIN work.batch \/ batch[m] = movement
    BY <1>3
  <1>5. OnLinked(ps, work.doc, batch)
    <2> SUFFICES ASSUME NEW m \in DOMAIN batch, Sent[work.doc].lines[batch[m].line].axo # 0
                 PROVE  ps[batch[m].product].axo # 0
      BY DEF OnLinked
    <2>1. CASE batch[m] = movement
      BY <1>2, <2>1
    <2>2. CASE m \in DOMAIN work.batch
      BY <1>3, <2>2 DEF OnLinked
    <2> QED
      BY <1>4, <2>1, <2>2
  <1>6. ASSUME Covers(work.doc, work.batch, work.line - 1), Sent[work.doc].lines \in Seq(Line)
        PROVE  Covers(work.doc, batch, work.line)
    <2> SUFFICES ASSUME NEW l \in DOMAIN Sent[work.doc].lines, l <= work.line,
                        Sent[work.doc].lines[l].ref # NoRef
                 PROVE  \E m \in DOMAIN batch : batch[m].line = l
      BY DEF Covers
    <2>1. CASE l = work.line
      <3>1. Len(work.batch) + 1 \in DOMAIN batch
        BY <1>3
      <3>2. batch[Len(work.batch) + 1].line = l
        BY <1>2, <1>3, <2>1
      <3> QED
        BY <3>1, <3>2
    <2>2. CASE l # work.line
      <3>1. l <= work.line - 1
        BY <1>1, <1>6, <2>2
      <3>2. PICK m \in DOMAIN work.batch : work.batch[m].line = l
        BY <1>6, <3>1 DEF Covers
      <3>3. m \in DOMAIN batch /\ batch[m] = work.batch[m]
        BY <1>3
      <3> QED
        BY <3>2, <3>3
    <2> QED
      BY <2>1, <2>2
  <1> QED
    BY <1>5, <1>6

LEMMA MergeGoes ==
    ASSUME TypeOK, SerialInv, NEW r \in Request, Merge(r)
    PROVE  Goes(r)
  <1> DEFINE id == req[r].id
             work == Book(req[r], id)
  <1>1. /\ req[r].step = "merge" /\ Become(r, Advance(work)) /\ UNCHANGED booked
        /\ products' = IF req[r].found.sale = 0 /\ Current(r).price # NoPrice
                       THEN Priced(id, Current(r).price)
                       ELSE products
    BY DEF Merge
  <1>2. /\ req[r] \in WorkOn(Ids) /\ Current(r) = LineOf(req[r]) /\ Sound(products, req[r])
        /\ id \in Ids /\ req[r].line \in DOMAIN req[r].lines /\ req[r].line \in Nat
    BY <1>1, Works, AtWork
  <1>3. req[r].found = products[id]
    BY <1>1, <1>2 DEF Sound, Resolved
  <1>4. /\ Ids' = Ids
        /\ \A other \in Ids :
             /\ products'[other].axo = products[other].axo
             /\ \/ products'[other] = products[other]
                \/ /\ products[other].sale = 0
                   /\ products'[other].price = products'[other].sale
    <2>1. CASE products' = products
      BY <2>1 DEF Ids
    <2>2. ASSUME NEW price, products' = Priced(id, price), products[id].sale = 0
          PROVE  /\ Ids' = Ids /\ \A other \in Ids \ {id} : products'[other] = products[other]
                 /\ products'[id].axo = products[id].axo
                 /\ products'[id].price = products'[id].sale
      BY <1>2, <2>2, ProductTypes DEF Priced, Ids, TypeOK, Product
    <2> QED
      BY <1>1, <1>3, <2>1, <2>2
  <1>5. Fills
    BY <1>4 DEF Fills
  <1>6. OnLinked(products', req[r].doc, req[r].batch)
    <2>1. req[r].batch \in Seq(MovementOn(DOMAIN products))
      BY <1>2 DEF WorkOn, Ids
    <2>2. OnLinked(products, req[r].doc, req[r].batch)
      BY <1>2 DEF Sound
    <2>3. \A other \in DOMAIN products : products[other].axo # 0 => products'[other].axo # 0
      BY <1>4 DEF Ids
    <2> QED
      BY <2>1, <2>2, <2>3, LinkedStays
  <1>7. Sent[req[r].doc].lines[req[r].line].axo # 0 => products'[id].axo # 0
    BY <1>1, <1>2, <1>3, <1>4 DEF Sound, Resolved, Kept, LineOf
  <1>8. Sent[req[r].doc].lines \in Seq(Line)
    BY <1>2, IngestAssumption DEF WorkOn
  <1>9. /\ work \in WorkOn(Ids) /\ work.line = req[r].line /\ work.doc = req[r].doc
        /\ work.lines = req[r].lines
    BY <1>2, BookTypes DEF Book, WorkOn
  <1>10. OnLinked(products', req[r].doc, work.batch)
    BY <1>1, <1>2, <1>6, <1>7, BookSound
  <1>11. ~ FaultyCreate => Covers(req[r].doc, work.batch, req[r].line)
    <2>1. ~ FaultyCreate => Covers(req[r].doc, req[r].batch, req[r].line - 1)
      BY <1>1, <1>2 DEF Sound, LinesDone
    <2> QED
      BY <1>1, <1>2, <1>6, <1>7, <1>8, <2>1, BookSound
  <1> HIDE DEF work
  <1>12. Kept(work)
    BY <1>2, <1>9 DEF Sound, Kept
  <1>13. Advance(work) = Idle \/ Sound(products', Advance(work))
    <2> DEFINE ps == products'
    <2>1. OnLinked(ps, work.doc, work.batch)
      BY <1>9, <1>10
    <2>2. ~ FaultyCreate => Covers(work.doc, work.batch, work.line)
      BY <1>9, <1>11
    <2>3. work.line \in DOMAIN work.lines
      BY <1>2, <1>9
    <2> HIDE DEF ps
    <2>4. Advance(work) = Idle \/ Sound(ps, Advance(work))
      BY <1>9, <1>12, <2>1, <2>2, <2>3, AdvanceSound
    <2> QED
      BY <2>4 DEF ps
  <1> QED
    BY <1>1, <1>5, <1>13 DEF Goes

LEMMA GivesUpGoes ==
    ASSUME NEW r \in Request, LinkFails(r) \/ Abort(r)
    PROVE  Goes(r)
  <1>1. UNCHANGED <<products, booked>> /\ Become(r, Idle)
    BY DEF LinkFails, Abort
  <1> QED
    BY <1>1, ReadsFillNothing DEF Goes

\* The handler, Check and Insert apart.
LEMMA ServeGoes ==
    ASSUME TypeOK, SerialInv, NEW r \in Request, Serve(r),
           ~ \E d \in Document : Check(r, d), ~ Insert(r)
    PROVE  Goes(r)
  BY EnrichGoes, FindByAxoGoes, FindByRefGoes, CreateGoes, CreateFailsGoes, AttachGoes,
     LinkGoes, MergeGoes, GivesUpGoes DEF Serve

\* What was booked on linked products is.
LEMMA BookedStays ==
    ASSUME TypeOK, SerialInv, UNCHANGED booked,
           \A id \in Ids : products[id].axo # 0 => products'[id].axo # 0
    PROVE  \A d \in Document : \A k \in DOMAIN booked'[d] :
              /\ OnLinked(products', d, booked'[d][k])
              /\ ~ FaultyCreate => Covers(d, booked'[d][k], Len(Sent[d].lines))
  <1> SUFFICES ASSUME NEW d \in Document, NEW k \in DOMAIN booked[d]
               PROVE  /\ OnLinked(products', d, booked[d][k])
                      /\ ~ FaultyCreate => Covers(d, booked[d][k], Len(Sent[d].lines))
    OBVIOUS
  <1>1. booked[d] \in Seq(Seq(MovementOn(DOMAIN products)))
    BY DEF TypeOK, Movement, MovementOn, Ids
  <1>2. booked[d][k] \in Seq(MovementOn(DOMAIN products))
    BY <1>1
  <1>3. OnLinked(products, d, booked[d][k])
        /\ (~ FaultyCreate => Covers(d, booked[d][k], Len(Sent[d].lines)))
    BY DEF SerialInv
  <1>4. \A id \in DOMAIN products : products[id].axo # 0 => products'[id].axo # 0
    BY DEF Ids
  <1>5. OnLinked(products', d, booked[d][k])
    BY <1>2, <1>3, <1>4, LinkedStays
  <1> QED
    BY <1>3, <1>5

\* One request goes on, the others do not exist.
LEMMA GoesOnSerially ==
    ASSUME OneRequest, TypeOK, SerialInv, NEW r \in Request, Goes(r)
    PROVE  SerialInv'
  <1>1. PICK state : Become(r, state) /\ (state = Idle \/ Sound(products', state))
    BY DEF Goes
  <1>2. \A t \in Request : req'[t] = state
    BY <1>1 DEF OneRequest, Become, TypeOK
  <1>3. \A t \in Request : req'[t] # Idle => Sound(products', req'[t])
    BY <1>1, <1>2
  <1>4. \A id \in Ids : products[id].axo # 0 => products'[id].axo # 0
    BY DEF Goes, Fills
  <1>5. \A d \in Document : \A k \in DOMAIN booked'[d] :
           /\ OnLinked(products', d, booked'[d][k])
           /\ ~ FaultyCreate => Covers(d, booked'[d][k], Len(Sent[d].lines))
    BY <1>4, BookedStays DEF Goes
  <1> QED
    BY <1>3, <1>5 DEF SerialInv, Idle

LEMMA CheckSerially ==
    ASSUME OneRequest, TypeOK, SerialInv, NEW r \in Request, NEW d \in Document, Check(r, d)
    PROVE  SerialInv' /\ Fills
  <1> DEFINE work == [step |-> "enrich", doc |-> d, lines |-> Sent[d].lines, line |-> 1,
                      id |-> 0, found |-> Blank, batch |-> << >>]
             state == IF Sent[d].axonaut THEN AtLine(work, 1) ELSE work
  <1>1. Become(r, state) /\ UNCHANGED <<products, booked>>
    BY DEF Check, Begin
  <1>2. Sent[d].lines \in Seq(Line) /\ Sent[d].lines # << >>
    BY IngestAssumption
  <1>3. OnLinked(products, d, << >>) /\ Covers(d, << >>, 0)
    BY <1>2 DEF OnLinked, Covers
  <1>4. work \in WorkOn(Ids) /\ 1 \in DOMAIN work.lines
    <2>1. work.batch \in Seq(MovementOn(Ids))
      OBVIOUS
    <2> QED
      BY <1>2, <2>1 DEF WorkOn, WorkStep
  <1>5. Kept(work)
    BY DEF Kept
  <1>6. Sound(products, work)
    BY <1>3, <1>5 DEF Sound, Resolved, LinesDone
  <1>7. Sound(products, AtLine(work, 1))
    <2>1. OnLinked(products, work.doc, work.batch)
          /\ (~ FaultyCreate => Covers(work.doc, work.batch, 1 - 1))
      BY <1>3
    <2> HIDE DEF work
    <2> QED
      BY <1>4, <1>5, <2>1, AtLineSound
  <1>8. Sound(products, state)
    <2> HIDE DEF work
    <2> QED
      BY <1>6, <1>7
  <1> HIDE DEF state
  <1>9. Goes(r)
    BY <1>1, <1>8, ReadsFillNothing DEF Goes
  <1> QED
    BY <1>9, GoesOnSerially DEF Goes

LEMMA InsertSerially ==
    ASSUME OneRequest, TypeOK, SerialInv, NEW r \in Request, Insert(r)
    PROVE  SerialInv' /\ Fills
  <1> DEFINE doc == req[r].doc
             batch == req[r].batch
  <1>1. req[r].step = "insert" /\ Become(r, Idle) /\ UNCHANGED products
        /\ booked' = [booked EXCEPT ![doc] = Append(@, batch)]
    BY DEF Insert
  <1>2. /\ Sound(products, req[r]) /\ doc \in Document /\ batch \in Seq(MovementOn(Ids))
        /\ req[r].line = Len(Sent[doc].lines)
    BY <1>1, Works DEF Sound, Kept, Resolved, WorkOn
  <1>3. OnLinked(products, doc, batch)
        /\ (~ FaultyCreate => Covers(doc, batch, Len(Sent[doc].lines)))
    BY <1>1, <1>2 DEF Sound, LinesDone
  <1>4. booked \in [Document -> Seq(Seq(MovementOn(Ids)))]
    BY DEF TypeOK, Movement, MovementOn
  <1>5. ASSUME NEW d \in Document, NEW k \in DOMAIN booked'[d]
        PROVE  /\ OnLinked(products', d, booked'[d][k])
               /\ ~ FaultyCreate => Covers(d, booked'[d][k], Len(Sent[d].lines))
    <2> HIDE DEF doc, batch
    <2>1. \/ k \in DOMAIN booked[d] /\ booked'[d][k] = booked[d][k]
          \/ d = doc /\ booked'[d][k] = batch
      BY <1>1, <1>2, <1>4
    <2>2. CASE k \in DOMAIN booked[d] /\ booked'[d][k] = booked[d][k]
      BY <1>1, <2>2 DEF SerialInv
    <2>3. CASE d = doc /\ booked'[d][k] = batch
      BY <1>1, <1>3, <2>3
    <2> QED
      BY <2>1, <2>2, <2>3
  <1>6. \A t \in Request : req'[t] = Idle
    BY <1>1 DEF OneRequest, Become, TypeOK
  <1>7. SerialInv'
    BY <1>5, <1>6 DEF SerialInv, Idle
  <1> QED
    BY <1>1, <1>7, ReadsFillNothing

\* Users and Husse edit the catalogue between requests, and touch no Axonaut id.
LEMMA EditsSerially ==
    ASSUME ~ EditsOverlap, TypeOK, SerialInv,
           \/ \E sku, name \in Ref, price \in Price : AddProduct(sku, name, price)
           \/ \E id \in Ids, sku, name \in Ref, price \in Price : EditProduct(id, sku, name, price)
           \/ \E sku, name \in Ref, price \in Price \cup {NoPrice} :
                ImportProduct(sku, name, price)
    PROVE  SerialInv'
  <1>1. /\ UNCHANGED <<booked, req>>
        /\ \A r \in Request : req[r].step = "idle"
    <2>1. ASSUME NEW sku \in Ref, NEW name \in Ref, NEW price \in Price,
                 AddProduct(sku, name, price)
          PROVE  UNCHANGED <<booked, req>> /\ Editable
      BY <2>1 DEF AddProduct
    <2>2. ASSUME NEW id \in Ids, NEW sku \in Ref, NEW name \in Ref, NEW price \in Price,
                 EditProduct(id, sku, name, price)
          PROVE  UNCHANGED <<booked, req>> /\ Editable
      BY <2>2 DEF EditProduct
    <2>3. ASSUME NEW sku \in Ref, NEW name \in Ref, NEW price \in Price \cup {NoPrice},
                 ImportProduct(sku, name, price)
          PROVE  UNCHANGED <<booked, req>> /\ Editable
      BY <2>3 DEF ImportProduct
    <2>4. UNCHANGED <<booked, req>> /\ Editable
      BY <2>1, <2>2, <2>3
    <2> QED
      BY <2>4 DEF Editable
  <1>2. \A id \in Ids : products[id].axo # 0 => products'[id].axo # 0
    <2>1. ASSUME NEW sku \in Ref, NEW name \in Ref, NEW price \in Price,
                 AddProduct(sku, name, price)
          PROVE  \A id \in Ids : products'[id] = products[id]
      <3> DEFINE product == [sku |-> sku, name |-> name, axo |-> 0, price |-> price,
                             sale |-> price]
      <3>1. products' = Append(products, product) /\ products \in Seq(Product)
        BY <2>1 DEF AddProduct, TypeOK
      <3> HIDE DEF product
      <3> QED
        BY <3>1 DEF Ids
    <2>2. ASSUME NEW id \in Ids, NEW sku \in Ref, NEW name \in Ref, NEW price \in Price,
                 EditProduct(id, sku, name, price)
          PROVE  \A other \in Ids : products'[other].axo = products[other].axo
      <3>1. products' = [products EXCEPT ![id].sku = sku, ![id].name = name,
                                         ![id].price = price, ![id].sale = price]
        BY <2>2 DEF EditProduct
      <3> QED
        BY <3>1, ProductTypes DEF Ids, Product, TypeOK
    <2>3. ASSUME NEW sku \in Ref, NEW name \in Ref, NEW price \in Price \cup {NoPrice},
                 ImportProduct(sku, name, price)
          PROVE  \A other \in Ids : products'[other].axo = products[other].axo
      <3>1. ASSUME NEW product, products' = Append(products, product)
            PROVE  \A other \in Ids : products'[other].axo = products[other].axo
        BY <3>1 DEF Ids, TypeOK
      <3>2. CASE \E product : products' = Append(products, product)
        BY <3>1, <3>2
      <3>3. \/ \E id \in Ids : products' = [products EXCEPT ![id].name = name,
                                   ![id].price = IF price = NoPrice THEN @ ELSE price]
            \/ \E product : products' = Append(products, product)
        BY <2>3 DEF ImportProduct
      <3>4. ASSUME NEW id \in Ids,
                   products' = [products EXCEPT ![id].name = name,
                                   ![id].price = IF price = NoPrice THEN @ ELSE price]
            PROVE  \A other \in Ids : products'[other].axo = products[other].axo
        BY <3>4, ProductTypes DEF Ids, Product, TypeOK
      <3> QED
        BY <3>2, <3>3, <3>4
    <2> QED
      BY <2>1, <2>2, <2>3
  <1>3. \A r \in Request : req'[r] = Idle
    BY <1>1, RequestTypes
  <1>4. \A d \in Document : \A k \in DOMAIN booked'[d] :
           /\ OnLinked(products', d, booked'[d][k])
           /\ ~ FaultyCreate => Covers(d, booked'[d][k], Len(Sent[d].lines))
    BY <1>1, <1>2, BookedStays
  <1> QED
    BY <1>3, <1>4 DEF SerialInv, Idle

LEMMA SerialInvInit == Init => SerialInv
  BY DEF Init, SerialInv

LEMMA ServeSerially ==
    ASSUME OneRequest, TypeOK, SerialInv, NEW r \in Request, Serve(r)
    PROVE  SerialInv' /\ Fills
  <1>1. CASE \E d \in Document : Check(r, d)
    BY <1>1, CheckSerially
  <1>2. CASE Insert(r)
    BY <1>2, InsertSerially
  <1>3. CASE ~ (\E d \in Document : Check(r, d)) /\ ~ Insert(r)
    <2>1. Goes(r)
      BY <1>3, ServeGoes
    <2> QED
      BY <2>1, GoesOnSerially DEF Goes
  <1> QED
    BY <1>1, <1>2, <1>3

LEMMA SerialInvStep ==
    OneRequest /\ ~ EditsOverlap /\ TypeOK /\ SerialInv /\ [Next]_vars => SerialInv'
  <1> SUFFICES ASSUME OneRequest, ~ EditsOverlap, TypeOK, SerialInv, [Next]_vars
               PROVE  SerialInv'
    OBVIOUS
  <1>1. ASSUME NEW r \in Request, Serve(r) PROVE SerialInv'
    BY <1>1, ServeSerially
  <1>2. CASE \/ \E sku, name \in Ref, price \in Price : AddProduct(sku, name, price)
             \/ \E id \in Ids, sku, name \in Ref, price \in Price :
                  EditProduct(id, sku, name, price)
             \/ \E sku, name \in Ref, price \in Price \cup {NoPrice} :
                  ImportProduct(sku, name, price)
    BY <1>2, EditsSerially
  <1>3. CASE UNCHANGED vars
    BY <1>3 DEF vars, SerialInv, Idle
  <1> QED
    BY <1>1, <1>2, <1>3 DEF Next

LEMMA AlwaysSerial ==
    ASSUME OneRequest, ~ EditsOverlap
    PROVE  Spec => []SerialInv
  <1>1. TypeOK /\ SerialInv /\ [Next]_vars => SerialInv'
    BY SerialInvStep
  <1> QED
    BY <1>1, SerialInvInit, TypeCorrect, PTL DEF Spec

\* One request at a time and no edit during it, by a database without faults:
\* every line of a booked document that has a reference has its movement,
\* whatever earlier attempts of any document died halfway.
THEOREM BatchesAlwaysComplete ==
    ASSUME OneRequest, ~ EditsOverlap, ~ FaultyCreate
    PROVE  Spec => []BatchIsComplete
  <1>1. SerialInv => BatchIsComplete
    <2> SUFFICES ASSUME SerialInv, NEW d \in Document, NEW k \in DOMAIN booked[d],
                        NEW l \in DOMAIN Sent[d].lines
                 PROVE  \/ Sent[d].lines[l].ref = NoRef
                        \/ \E m \in DOMAIN booked[d][k] : booked[d][k][m].line = l
      BY DEF BatchIsComplete
    <2>1. Covers(d, booked[d][k], Len(Sent[d].lines))
      BY DEF SerialInv
    <2>2. l <= Len(Sent[d].lines)
      BY IngestAssumption
    <2> QED
      BY <2>1, <2>2 DEF Covers
  <1> QED
    BY <1>1, AlwaysSerial, PTL

\* One request at a time and no edit during it: the movement of a line that the
\* client sent with an Axonaut id is on a product that tryAttachAxonautId or
\* createProductFromLine linked to Axonaut.
THEOREM AlwaysBookedOnLinked ==
    ASSUME OneRequest, ~ EditsOverlap
    PROVE  Spec => []BookedOnLinkedProduct
  <1>1. SerialInv => BookedOnLinkedProduct
    BY DEF SerialInv, OnLinked, BookedOnLinkedProduct
  <1> QED
    BY <1>1, AlwaysSerial, PTL

\* One request at a time and no edit during it: no step of ingest, tryAttachAxonautId
\* and mergeAxonautFields included, replaces an Axonaut id that a product has, or
\* either price of a product with a sale price; where it writes a price, the sale
\* price is the same.
THEOREM SalePriceAlwaysProtects ==
    ASSUME OneRequest, ~ EditsOverlap
    PROVE  Spec => SalePriceProtects
  <1> DEFINE Protected ==
        (\E r \in Request : Serve(r)) =>
          \A id \in Ids :
            /\ products[id].axo # 0 => products'[id].axo = products[id].axo
            /\ products[id].sale # 0 =>
                 products'[id].sale = products[id].sale /\ products'[id].price = products[id].price
            /\ products'[id].price # products[id].price =>
                 products'[id].price = products'[id].sale
  <1>1. TypeOK /\ SerialInv => Protected
    BY ServeSerially DEF Fills
  <1>2. TypeOK /\ SerialInv /\ [Next]_vars => [Protected]_vars
    BY <1>1
  <1> HIDE DEF Protected
  <1>3. Spec => [][Protected]_vars
    BY <1>2, AlwaysSerial, TypeCorrect, PTL DEF Spec
  <1> QED
    BY <1>3 DEF Protected, SalePriceProtects
=============================================================================
