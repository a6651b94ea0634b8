------------------------ MODULE CatalogueImportProofs ------------------------
(***************************************************************************)
(* Proofs about CatalogueImport, for any catalogues, any number of imports  *)
(* at once and any events.                                                  *)
(***************************************************************************)
EXTENDS CatalogueImport, FiniteSetTheorems, TLAPS

-----------------------------------------------------------------------------
(***************************************************************************)
(* Types.  What TypeOK says of a request does not depend on the state but   *)
(* for the products there are, which are never removed.  Only an item with  *)
(* a reference goes past the first step, which TypeOK leaves unsaid.        *)
(***************************************************************************)
RequestOn(ids, state) ==
    \/ state = Idle
    \/ /\ state \in Work
       /\ state.item \in DOMAIN Fetched[state.job]
       /\ state.step \in {"find name", "create name"} <=> state.names # << >>
       /\ state.step = "update" => state.id \in ids
       /\ state.errors \subseteq DOMAIN Fetched[state.job]
       /\ state.step \in {"pass", "done", "failed"} \/ Current(state).sku # None

TypeInv == /\ TypeOK
           /\ \A r \in Request : RequestOn(Ids, req[r])

LEMMA NoNames == << >> \in Seq(Name)
  OBVIOUS

LEMMA UnreadType == Unread \in [sku : Sku \cup {None}, axo : Nat, price : Nat]
  BY DEF Unread

LEMMA FirstName ==
    ASSUME NEW left \in Seq(Name), left # << >>
    PROVE  Head(left) \in Name /\ Tail(left) \in Seq(Name)
  OBVIOUS

LEMMA ItemTypes ==
    ASSUME NEW j \in Import, NEW n \in DOMAIN Fetched[j]
    PROVE  /\ Source[j] \in {"axonaut", "husse"}
           /\ Source[j] = "axonaut" => Fetched[j][n] \in AxonautItem
           /\ Source[j] = "husse" => Fetched[j][n] \in HusseItem
           /\ n \in Nat /\ Len(Fetched[j]) \in Nat /\ DOMAIN Fetched[j] = 1 .. Len(Fetched[j])
  <1>1. CASE Source[j] = "axonaut"
    <2>1. Fetched[j] \in Seq(AxonautItem)
      BY <1>1, CatalogueAssumption
    <2> QED
      BY <1>1, <2>1
  <1>2. CASE Source[j] = "husse"
    <2>1. Fetched[j] \in Seq(HusseItem)
      BY <1>2, CatalogueAssumption
    <2> QED
      BY <1>2, <2>1
  <1>3. Source[j] \in {"axonaut", "husse"}
    BY CatalogueAssumption
  <1> QED
    BY <1>1, <1>2, <1>3

LEMMA NamesTypes ==
    ASSUME NEW j \in Import, NEW n \in DOMAIN Fetched[j]
    PROVE  NamesOf(j, Fetched[j][n]) \in Seq(Name)
  <1> DEFINE item == Fetched[j][n]
  <1>1. CASE Source[j] = "axonaut"
    <2>1. item.packaging \in STRING
      BY <1>1, ItemTypes DEF AxonautItem
    <2>2. Packaging(item.packaging) \in Name
      BY <2>1, CatalogueAssumption DEF Packaging, Name
    <2> QED
      BY <1>1, <2>2 DEF NamesOf
  <1>2. CASE Source[j] = "husse"
    <2>1. item.family \in STRING /\ item.group \in STRING
      BY <1>2, ItemTypes DEF HusseItem
    <2>2. Family(item.family) \in Name /\ SubFamily(item.family, item.group) \in Name
      BY <2>1, CatalogueAssumption DEF Family, SubFamily, Name
    <2> QED
      BY <1>2, <2>2 DEF NamesOf
  <1> QED
    BY <1>1, <1>2, ItemTypes

LEMMA EnsuringTypes ==
    ASSUME NEW ids, NEW work \in Work, NEW left \in Seq(Name),
           work.item \in DOMAIN Fetched[work.job],
           work.errors \subseteq DOMAIN Fetched[work.job],
           Current(work).sku # None
    PROVE  RequestOn(ids, Ensuring(work, left))
  <1>1. PICK step \in {"find", "find name"} :
           /\ Ensuring(work, left) = [work EXCEPT !.names = left, !.step = step]
           /\ step = "find name" <=> left # << >>
    BY DEF Ensuring
  <1>2. Ensuring(work, left) \in Work
    BY <1>1 DEF Work
  <1>3. /\ Ensuring(work, left).step = step /\ Ensuring(work, left).names = left
        /\ Ensuring(work, left).item = work.item /\ Ensuring(work, left).job = work.job
        /\ Ensuring(work, left).errors = work.errors /\ Ensuring(work, left).torn = work.torn
    BY <1>1 DEF Work
  <1>4. Current(Ensuring(work, left)) = Current(work)
    BY <1>3 DEF Current
  <1> QED
    BY <1>1, <1>2, <1>3, <1>4 DEF RequestOn

LEMMA AtItemTypes ==
    ASSUME NEW ids, NEW work \in Work, NEW n \in DOMAIN Fetched[work.job],
           work.errors \subseteq DOMAIN Fetched[work.job]
    PROVE  RequestOn(ids, AtItem(work, n))
  <1> DEFINE begun == [work EXCEPT !.item = n, !.stale = FALSE, !.names = << >>,
                                   !.id = 0, !.found = Unread]
             passed == [begun EXCEPT !.step = "pass"]
  <1>1. work.job \in Import /\ n \in Nat
    BY ItemTypes DEF Work
  <1>2. begun \in Work /\ begun.item = n /\ begun.job = work.job
        /\ begun.errors = work.errors /\ begun.torn = work.torn /\ begun.names = << >>
    BY <1>1, NoNames, UnreadType DEF Work
  <1>3. Current(begun) = Fetched[work.job][n]
    BY <1>2 DEF Current
  <1>4. CASE Fetched[work.job][n].sku = None
    <2>1. AtItem(work, n) = passed
      BY <1>4 DEF AtItem
    <2>2. passed \in Work /\ passed.item = n /\ passed.job = work.job /\ passed.step = "pass"
          /\ passed.errors = work.errors /\ passed.torn = work.torn /\ passed.names = << >>
      BY <1>2 DEF Work
    <2> HIDE DEF passed, begun
    <2> QED
      BY <2>1, <2>2 DEF RequestOn
  <1>5. CASE Fetched[work.job][n].sku # None
    <2>1. AtItem(work, n) = Ensuring(begun, NamesOf(work.job, Fetched[work.job][n]))
      BY <1>5 DEF AtItem
    <2>2. NamesOf(work.job, Fetched[work.job][n]) \in Seq(Name)
      BY <1>1, NamesTypes
    <2> HIDE DEF passed, begun
    <2> QED
      BY <1>2, <1>3, <1>5, <2>1, <2>2, EnsuringTypes
  <1> QED
    BY <1>4, <1>5

LEMMA NextItemTypes ==
    ASSUME NEW ids, NEW work \in Work, work.item \in DOMAIN Fetched[work.job],
           work.errors \subseteq DOMAIN Fetched[work.job]
    PROVE  RequestOn(ids, NextItem(work))
  <1>1. work.job \in Import
    BY DEF Work
  <1>2. CASE work.item < Len(Fetched[work.job])
    <2>1. work.item + 1 \in DOMAIN Fetched[work.job]
      BY <1>1, <1>2, ItemTypes
    <2> QED
      BY <1>2, <2>1, AtItemTypes DEF NextItem
  <1>3. CASE ~ (work.item < Len(Fetched[work.job]))
    <2> DEFINE done == [work EXCEPT !.step = "done", !.names = << >>]
    <2>1. NextItem(work) = done
      BY <1>3 DEF NextItem
    <2>2. done \in Work /\ done.step = "done" /\ done.names = << >> /\ done.item = work.item
          /\ done.job = work.job /\ done.errors = work.errors /\ done.torn = work.torn
      BY NoNames, UnreadType DEF Work
    <2> HIDE DEF done
    <2> QED
      BY <2>1, <2>2 DEF RequestOn
  <1> QED
    BY <1>2, <1>3

\* Noting the error of the current item keeps the types.
LEMMA NotedTypes ==
    ASSUME NEW work \in Work, work.item \in DOMAIN Fetched[work.job],
           work.errors \subseteq DOMAIN Fetched[work.job],
           NEW noted, noted = [work EXCEPT !.errors = @ \cup {work.item}]
    PROVE  /\ noted \in Work /\ noted.job = work.job /\ noted.item = work.item
           /\ noted.step = work.step
           /\ noted.errors = work.errors \cup {work.item} /\ noted.torn = work.torn
           /\ noted.errors \subseteq DOMAIN Fetched[noted.job]
  <1>1. work.job \in Import
    BY DEF Work
  <1>2. work.item \in Nat
    BY <1>1, ItemTypes
  <1> QED
    BY <1>2 DEF Work

LEMMA RefusedTypes ==
    ASSUME NEW ids, NEW work \in Work, work.item \in DOMAIN Fetched[work.job],
           work.errors \subseteq DOMAIN Fetched[work.job]
    PROVE  RequestOn(ids, Refused(work))
  <1>1. CASE Source[work.job] = "husse"
    <2> DEFINE failed == [work EXCEPT !.step = "failed", !.names = << >>]
    <2>1. Refused(work) = failed
      BY <1>1 DEF Refused
    <2>2. failed \in Work /\ failed.step = "failed" /\ failed.names = << >>
          /\ failed.item = work.item /\ failed.job = work.job
          /\ failed.errors = work.errors /\ failed.torn = work.torn
      BY NoNames, UnreadType DEF Work
    <2> HIDE DEF failed
    <2> QED
      BY <2>1, <2>2 DEF RequestOn
  <1>2. CASE Source[work.job] # "husse"
    <2> DEFINE noted == [work EXCEPT !.errors = @ \cup {work.item}]
    <2>1. Refused(work) = NextItem(noted)
      BY <1>2 DEF Refused
    <2>2. noted \in Work /\ noted.item \in DOMAIN Fetched[noted.job]
          /\ noted.errors \subseteq DOMAIN Fetched[noted.job]
      BY NotedTypes
    <2> HIDE DEF noted
    <2> QED
      BY <2>1, <2>2, NextItemTypes
  <1> QED
    BY <1>1, <1>2

-----------------------------------------------------------------------------
(***************************************************************************)
(* What a step does to all requests.                                       *)
(***************************************************************************)
LEMMA AllTypes ==
    ASSUME products' \in Seq(Product), names' \subseteq Name,
           lost' \in [Import -> SUBSET Nat],
           imports' \in 0 .. MaxImports, events' \in 0 .. MaxEvents,
           req' = [q \in Request |-> req'[q]],
           \A q \in Request : RequestOn(Ids', req'[q])
    PROVE  TypeInv'
  <1>1. req' \in [Request -> {Idle} \cup Work]
    BY DEF RequestOn
  <1> QED
    BY <1>1 DEF TypeInv, TypeOK, RequestOn

LEMMA MoreIds ==
    ASSUME NEW ids, NEW more, ids \subseteq more, NEW state, RequestOn(ids, state)
    PROVE  RequestOn(more, state)
  BY DEF RequestOn

LEMMA WorkIsNotIdle ==
    ASSUME NEW work \in Work
    PROVE  work # Idle /\ work.step # "idle"
  <1>1. Idle.step = "idle"
    BY DEF Idle
  <1>2. work.step \in {"pass", "find name", "create name", "find", "create", "update",
                      "done", "failed"}
    BY DEF Work
  <1> QED
    BY <1>1, <1>2

Writers == Import \cup {"user", "fault"}

LEMMA DisturbedTypes ==
    ASSUME NEW ids, NEW state, RequestOn(ids, state), NEW writers \in SUBSET Writers,
           NEW torn \in BOOLEAN
    PROVE  RequestOn(ids, Disturbed(state, writers, torn))
  <1>1. CASE state = Idle
    BY <1>1 DEF Disturbed, RequestOn
  <1>2. CASE state # Idle
    <2> PICK tears \in BOOLEAN : tears = (state.torn \/ torn)
      OBVIOUS
    <2> DEFINE next == [state EXCEPT !.writers = @ \cup writers, !.torn = tears, !.stale = TRUE]
    <2>1. Disturbed(state, writers, torn) = next /\ state \in Work
      BY <1>2 DEF Disturbed, RequestOn
    <2>2. next \in Work /\ next.step = state.step /\ next.names = state.names
          /\ next.item = state.item /\ next.job = state.job /\ next.id = state.id
          /\ next.errors = state.errors
      BY <2>1 DEF Work, Writers
    <2>3. Current(next) = Current(state)
      BY <2>2 DEF Current
    <2> HIDE DEF next
    <2> QED
      BY <1>2, <2>1, <2>2, <2>3 DEF RequestOn
  <1> QED
    BY <1>1, <1>2

LEMMA TornTypes ==
    ASSUME NEW ids, NEW state, RequestOn(ids, state),
           NEW job, NEW n
    PROVE  RequestOn(ids, Torn(job, n, state))
  <1>1. CASE Torn(job, n, state) = state
    BY <1>1
  <1>2. CASE Torn(job, n, state) # state
    <2> DEFINE next == [state EXCEPT !.torn = TRUE]
    <2>1. Torn(job, n, state) = next /\ state \in Work
      BY <1>2 DEF Torn, RequestOn
    <2>3. next \in Work /\ next.step = state.step /\ next.names = state.names
          /\ next.item = state.item /\ next.job = state.job /\ next.id = state.id
          /\ next.errors = state.errors /\ next.torn = TRUE
      BY <2>1 DEF Work
    <2>4. Current(next) = Current(state)
      BY <2>3 DEF Current
    <2>5. state # Idle
      BY <2>1, WorkIsNotIdle
    <2> HIDE DEF next
    <2> QED
      BY <2>1, <2>3, <2>4, <2>5 DEF RequestOn
  <1> QED
    BY <1>1, <1>2

\* A step of request r that leaves the other requests alone.
LEMMA BecomeTypes ==
    ASSUME TypeInv, products' \in Seq(Product), Ids \subseteq Ids', names' \subseteq Name,
           lost' \in [Import -> SUBSET Nat],
           imports' \in 0 .. MaxImports, events' \in 0 .. MaxEvents,
           NEW r \in Request, NEW state, Become(r, state), RequestOn(Ids', state)
    PROVE  TypeInv'
  <1>1. req \in [Request -> {Idle} \cup Work]
    BY DEF TypeInv, TypeOK
  <1>2. \A q \in Request : RequestOn(Ids', req'[q])
    <2> TAKE q \in Request
    <2>1. RequestOn(Ids', req[q])
      BY MoreIds DEF TypeInv
    <2> QED
      BY <1>1, <2>1 DEF Become
  <1>3. req' = [q \in Request |-> req'[q]]
    BY <1>1 DEF Become
  <1> QED
    BY <1>2, <1>3, AllTypes

\* A step of request r that writes.
LEMMA BecomeWritingTypes ==
    ASSUME TypeInv, products' \in Seq(Product), Ids \subseteq Ids', names' \subseteq Name,
           lost' \in [Import -> SUBSET Nat],
           imports' \in 0 .. MaxImports, events' \in 0 .. MaxEvents,
           NEW r \in Request, req[r] \in Work,
           NEW state, BecomeWriting(r, state), RequestOn(Ids', state)
    PROVE  TypeInv'
  <1>1. {req[r].job} \cup req[r].writers \in SUBSET Writers /\ req[r].torn \in BOOLEAN
    BY DEF Work, Writers
  <1>2. \A q \in Request : RequestOn(Ids', req'[q])
    <2> TAKE q \in Request
    <2>1. RequestOn(Ids', req[q])
      BY MoreIds DEF TypeInv
    <2>2. RequestOn(Ids', Disturbed(req[q], {req[r].job} \cup req[r].writers, req[r].torn))
      BY <1>1, <2>1, DisturbedTypes
    <2> QED
      BY <2>2 DEF BecomeWriting
  <1>3. req' = [q \in Request |-> req'[q]]
    BY DEF BecomeWriting
  <1> QED
    BY <1>2, <1>3, AllTypes

LEMMA WorkTypes ==
    ASSUME TypeInv, NEW r \in Request, req[r].step # "idle"
    PROVE  /\ req[r] \in Work /\ req[r] # Idle
           /\ req[r].job \in Import
           /\ req[r].item \in DOMAIN Fetched[req[r].job]
           /\ req[r].errors \subseteq DOMAIN Fetched[req[r].job]
           /\ RequestOn(Ids, req[r])
  <1>1. RequestOn(Ids, req[r]) /\ req[r] # Idle
    BY DEF TypeInv, Idle
  <1> QED
    BY <1>1 DEF RequestOn, Work

\* Products that join, and products that change, are products.
LEMMA MadeTypes ==
    ASSUME NEW work \in Work, work.item \in DOMAIN Fetched[work.job], Current(work).sku # None
    PROVE  Made(work) \in Product
  <1>1. work.job \in Import
    BY DEF Work
  <1>2. CASE Source[work.job] = "axonaut"
    <2>1. Current(work) \in AxonautItem
      BY <1>1, <1>2, ItemTypes DEF Current
    <2> QED
      BY <1>2, <2>1, CatalogueAssumption DEF Made, AxonautItem, Product
  <1>3. CASE Source[work.job] = "husse"
    <2>1. Current(work) \in HusseItem
      BY <1>1, <1>3, ItemTypes DEF Current
    <2> DEFINE price == IF Current(work).price = NoPrice THEN 0 ELSE Current(work).price
               group == IF Current(work).family = None THEN None ELSE Current(work).group
    <2>2. price \in Nat /\ group \in STRING
      BY <2>1, CatalogueAssumption DEF HusseItem
    <2>3. Made(work) = [sku |-> Current(work).sku, axo |-> 0, price |-> price, sale |-> 0,
                        packaging |-> None, family |-> Current(work).family, group |-> group]
      BY <1>3 DEF Made
    <2> HIDE DEF price, group
    <2> QED
      BY <2>1, <2>2, <2>3, CatalogueAssumption DEF HusseItem, Product
  <1> QED
    BY <1>1, <1>2, <1>3, ItemTypes

LEMMA AppendTypes ==
    ASSUME products \in Seq(Product), NEW product \in Product,
           products' = Append(products, product)
    PROVE  products' \in Seq(Product) /\ Ids \subseteq Ids'
  BY DEF Ids

LEMMA ExceptTypes ==
    ASSUME products \in Seq(Product), NEW id \in Ids, NEW product \in Product,
           products' = [products EXCEPT ![id] = product]
    PROVE  products' \in Seq(Product) /\ Ids' = Ids
  BY DEF Ids

LEMMA FirstItem ==
    ASSUME NEW j \in Import
    PROVE  1 \in DOMAIN Fetched[j]
  <1>1. Fetched[j] # << >> /\ Len(Fetched[j]) \in Nat /\ DOMAIN Fetched[j] = 1 .. Len(Fetched[j])
    BY CatalogueAssumption
  <1>2. CASE Source[j] = "axonaut"
    BY <1>2, CatalogueAssumption
  <1>3. CASE Source[j] # "axonaut"
    BY <1>3, CatalogueAssumption
  <1> QED
    BY <1>2, <1>3

\* What is told of the items that were lost, once an import has ended.
LEMMA OverTypes ==
    ASSUME TypeInv, NEW r \in Request, req[r].step # "idle", Over(r)
    PROVE  lost' \in [Import -> SUBSET Nat]
  BY WorkTypes DEF Over, TypeInv, TypeOK

-----------------------------------------------------------------------------
LEMMA TypeStep ==
    ASSUME TypeInv, [Next]_vars
    PROVE  TypeInv'
  <1> USE DEF TypeInv
  <1>a. /\ products \in Seq(Product) /\ names \subseteq Name
        /\ lost \in [Import -> SUBSET Nat]
        /\ imports \in 0 .. MaxImports /\ events \in 0 .. MaxEvents
        /\ MaxImports \in Nat /\ MaxEvents \in Nat
    BY CatalogueAssumption DEF TypeOK
  <1>1. ASSUME NEW r \in Request, NEW j \in Import, Start(r, j)
        PROVE  TypeInv'
    <2> DEFINE work == [step |-> "pass", job |-> j, item |-> 1, names |-> << >>, id |-> 0,
                        found |-> Unread,
                        errors |-> {}, writers |-> {}, torn |-> FALSE, stale |-> FALSE]
    <2>1. work \in Work /\ work.job = j /\ work.errors = {}
      BY NoNames, UnreadType DEF Work
    <2>3. 1 \in DOMAIN Fetched[j]
      BY FirstItem
    <2>4. Become(r, AtItem(work, 1))
      BY <1>1 DEF Start
    <2>5. /\ UNCHANGED <<products, names, lost, events>> /\ imports' = imports + 1
          /\ imports < MaxImports
      BY <1>1 DEF Start
    <2> HIDE DEF work
    <2>6. RequestOn(Ids', AtItem(work, 1))
      BY <2>1, <2>3, AtItemTypes
    <2>7. imports' \in 0 .. MaxImports
      BY <1>a, <2>5
    <2> QED
      BY <1>a, <2>4, <2>5, <2>6, <2>7, BecomeTypes DEF Ids
  <1>2. ASSUME NEW r \in Request, Pass(r)
        PROVE  TypeInv'
    <2> DEFINE work == req[r]
               noted == [work EXCEPT !.errors = @ \cup {work.item}]
    <2>1. work.step = "pass" /\ UNCHANGED <<products, names, lost, imports, events>>
      BY <1>2 DEF Pass
    <2>2. work \in Work /\ work.item \in DOMAIN Fetched[work.job]
          /\ work.errors \subseteq DOMAIN Fetched[work.job]
      BY <2>1, WorkTypes
    <2>3. noted \in Work /\ noted.item \in DOMAIN Fetched[noted.job]
          /\ noted.errors \subseteq DOMAIN Fetched[noted.job]
      BY <2>2, NotedTypes
    <2>4. PICK passed \in {work, noted} : Become(r, NextItem(passed))
      BY <1>2 DEF Pass
    <2> HIDE DEF noted
    <2>5. RequestOn(Ids', NextItem(passed))
      BY <2>2, <2>3, <2>4, NextItemTypes
    <2> QED
      BY <1>a, <2>1, <2>4, <2>5, BecomeTypes DEF Ids
  <1>3. ASSUME NEW r \in Request, FindName(r)
        PROVE  TypeInv'
    <2> DEFINE work == req[r]
               next == [work EXCEPT !.step = "create name"]
    <2>1. work.step = "find name" /\ UNCHANGED <<products, names, lost, imports, events>>
      BY <1>3 DEF FindName
    <2>2. work \in Work /\ work.item \in DOMAIN Fetched[work.job]
          /\ work.errors \subseteq DOMAIN Fetched[work.job]
          /\ work.names # << >> /\ Current(work).sku # None
      BY <2>1, WorkTypes DEF RequestOn
    <2>3. Tail(work.names) \in Seq(Name)
      <3>1. work.names \in Seq(Name)
        BY <2>2 DEF Work
      <3> QED
        BY <2>2, <3>1, FirstName
    <2>4. RequestOn(Ids', Ensuring(work, Tail(work.names)))
      BY <2>2, <2>3, EnsuringTypes
    <2>5. next \in Work /\ next.step = "create name" /\ next.names = work.names
          /\ next.item = work.item /\ next.job = work.job
          /\ next.errors = work.errors /\ next.torn = work.torn
      BY <2>2 DEF Work
    <2>6. RequestOn(Ids', next)
      <3> HIDE DEF next
      <3>1. Current(next) = Current(work)
        BY <2>5 DEF Current
      <3> QED
        BY <2>2, <2>5, <3>1 DEF RequestOn
    <2>7. \/ Become(r, Ensuring(work, Tail(work.names)))
          \/ Become(r, next)
      BY <1>3 DEF FindName
    <2> HIDE DEF next, work
    <2> QED
      BY <1>a, <2>1, <2>4, <2>6, <2>7, BecomeTypes DEF Ids
  <1>4. ASSUME NEW r \in Request, CreateName(r)
        PROVE  TypeInv'
    <2> DEFINE work == req[r]
    <2>1. work.step = "create name" /\ UNCHANGED <<products, lost, imports, events>>
      BY <1>4 DEF CreateName
    <2>2. work \in Work /\ work.item \in DOMAIN Fetched[work.job]
          /\ work.errors \subseteq DOMAIN Fetched[work.job]
          /\ work.names # << >> /\ Current(work).sku # None
      BY <2>1, WorkTypes DEF RequestOn
    <2>3. Tail(work.names) \in Seq(Name) /\ Head(work.names) \in Name
      <3>1. work.names \in Seq(Name)
        BY <2>2 DEF Work
      <3> QED
        BY <2>2, <3>1, FirstName
    <2>4. RequestOn(Ids', Ensuring(work, Tail(work.names))) /\ RequestOn(Ids', Refused(work))
      BY <2>2, <2>3, EnsuringTypes, RefusedTypes
    <2>5. Ids' = Ids
      BY <2>1 DEF Ids
    <2>6. CASE Head(work.names) \in names
      <3>1. Become(r, Refused(work)) /\ UNCHANGED names
        BY <1>4, <2>6 DEF CreateName
      <3> QED
        BY <1>a, <2>1, <2>4, <2>5, <3>1, BecomeTypes
    <2>7. CASE Head(work.names) \notin names
      <3>1. /\ names' = names \cup {Head(work.names)}
            /\ BecomeWriting(r, Ensuring(work, Tail(work.names)))
        BY <1>4, <2>7 DEF CreateName
      <3> QED
        BY <1>a, <2>1, <2>2, <2>3, <2>4, <2>5, <3>1, BecomeWritingTypes
    <2> QED
      BY <2>6, <2>7
  <1>5. ASSUME NEW r \in Request, Find(r)
        PROVE  TypeInv'
    <2> DEFINE work == req[r]
               matches == Matches(work.job, Current(work))
               seen == [q \in Request |-> Torn(work.job, work.item, req[q])]
               creating == [work EXCEPT !.step = "create"]
    <2>1. work.step = "find" /\ UNCHANGED <<products, names, lost, imports, events>>
      BY <1>5 DEF Find
    <2>2. work \in Work /\ work.item \in DOMAIN Fetched[work.job] /\ work.job \in Import
          /\ work.errors \subseteq DOMAIN Fetched[work.job]
          /\ work.names = << >> /\ Current(work).sku # None
      BY <2>1, WorkTypes DEF RequestOn
    <2>3. CASE Become(r, creating)
      <3>1. creating \in Work /\ creating.step = "create" /\ creating.names = << >>
            /\ creating.item = work.item /\ creating.job = work.job
            /\ creating.errors = work.errors /\ creating.torn = work.torn
        BY <2>2 DEF Work
      <3> HIDE DEF creating
      <3>2. Current(creating) = Current(work)
        BY <3>1 DEF Current
      <3>3. RequestOn(Ids', creating)
        BY <2>2, <3>1, <3>2 DEF RequestOn
      <3> QED
        BY <1>a, <2>1, <2>3, <3>3, BecomeTypes DEF Ids
    <2>4. ASSUME NEW id \in matches,
                 req' = [seen EXCEPT ![r].step = "update", ![r].id = id,
                                     ![r].found = [sku   |-> products[id].sku,
                                                   axo   |-> products[id].axo,
                                                   price |-> products[id].price]]
          PROVE  TypeInv'
      <3> DEFINE found == [sku |-> products[id].sku, axo |-> products[id].axo,
                           price |-> products[id].price]
                 next == [seen[r] EXCEPT !.step = "update", !.id = id, !.found = found]
      <3>1. id \in Ids /\ products[id] \in Product /\ id \in Nat
        <4>1. id \in Ids
          BY <2>4 DEF Matches
        <4> QED
          BY <1>a, <4>1 DEF Ids
      <3>2. found \in [sku : Sku \cup {None}, axo : Nat, price : Nat]
        BY <3>1 DEF Product
      <3>3. \A q \in Request : RequestOn(Ids, seen[q])
        BY <2>2, TornTypes
      <3>4. seen[r].job = work.job /\ seen[r].item = work.item /\ seen[r].step = "find"
            /\ seen[r].names = work.names
        BY <2>1, <2>2 DEF Torn, Work
      <3>5. seen[r] \in Work
        <4>1. seen[r] # Idle
          BY <3>4 DEF Idle
        <4> QED
          BY <3>3, <4>1 DEF RequestOn
      <3>6. req' = [q \in Request |-> IF q = r THEN next ELSE seen[q]]
        <4> HIDE DEF found
        <4>1. seen = [q \in Request |-> seen[q]]
          OBVIOUS
        <4> HIDE DEF seen
        <4> QED
          BY <2>4, <4>1 DEF found
      <3> HIDE DEF found
      <3>7. next \in Work /\ next.step = "update" /\ next.names = << >> /\ next.id = id
            /\ next.item = work.item /\ next.job = work.job
            /\ next.errors = seen[r].errors /\ next.torn = seen[r].torn
        <4> HIDE DEF seen
        <4> QED
          BY <2>2, <3>1, <3>2, <3>4, <3>5 DEF Work
      <3> HIDE DEF next
      <3>8. Current(next) = Current(work)
        BY <3>7 DEF Current
      <3>9. seen[r].errors \subseteq DOMAIN Fetched[work.job]
        <4> HIDE DEF seen
        <4> QED
          BY <3>3, <3>4, <3>5, WorkIsNotIdle DEF RequestOn
      <3>10. RequestOn(Ids, next)
        <4> HIDE DEF seen
        <4> QED
          BY <2>2, <3>1, <3>7, <3>8, <3>9 DEF RequestOn
      <3>11. \A q \in Request : RequestOn(Ids', req'[q])
        <4> HIDE DEF seen
        <4> QED
          BY <2>1, <3>3, <3>6, <3>10 DEF Ids
      <3>12. req' = [q \in Request |-> req'[q]]
        BY <3>6
      <3> QED
        BY <1>a, <2>1, <3>11, <3>12, AllTypes
    <2> QED
      BY <1>5, <2>3, <2>4 DEF Find
  <1>6. ASSUME NEW r \in Request, Create(r)
        PROVE  TypeInv'
    <2> DEFINE work == req[r]
    <2>1. work.step = "create" /\ UNCHANGED <<names, lost, imports, events>>
      BY <1>6 DEF Create
    <2>2. work \in Work /\ work.item \in DOMAIN Fetched[work.job]
          /\ work.errors \subseteq DOMAIN Fetched[work.job]
          /\ Current(work).sku # None
      BY <2>1, WorkTypes DEF RequestOn
    <2>3. RequestOn(Ids', Refused(work)) /\ RequestOn(Ids', NextItem(work))
      BY <2>2, RefusedTypes, NextItemTypes
    <2>4. CASE Clashes(0, Made(work))
      <3>1. Become(r, Refused(work)) /\ UNCHANGED products
        BY <1>6, <2>4 DEF Create
      <3> QED
        BY <1>a, <2>1, <2>3, <3>1, BecomeTypes DEF Ids
    <2>5. CASE ~ Clashes(0, Made(work))
      <3>1. products' = Append(products, Made(work)) /\ BecomeWriting(r, NextItem(work))
        BY <1>6, <2>5 DEF Create
      <3>2. products' \in Seq(Product) /\ Ids \subseteq Ids'
        BY <1>a, <2>2, <3>1, MadeTypes, AppendTypes
      <3> QED
        BY <1>a, <2>1, <2>2, <2>3, <3>1, <3>2, BecomeWritingTypes
    <2> QED
      BY <2>4, <2>5
  <1>7. ASSUME NEW r \in Request, UpdateAxonaut(r)
        PROVE  TypeInv'
    <2> DEFINE work == req[r]
               id == work.id
               product == Refreshed(products[id], Current(work), work.found)
    <2>1. work.step = "update" /\ OfAxonaut(work) /\ UNCHANGED <<names, lost, imports, events>>
      BY <1>7 DEF UpdateAxonaut
    <2>2. work \in Work /\ work.item \in DOMAIN Fetched[work.job] /\ work.job \in Import
          /\ work.errors \subseteq DOMAIN Fetched[work.job]
          /\ Current(work).sku # None /\ id \in Ids
      BY <2>1, WorkTypes DEF RequestOn
    <2>3. RequestOn(Ids', Refused(work)) /\ RequestOn(Ids', NextItem(work))
      BY <2>2, RefusedTypes, NextItemTypes
    <2>4. product \in Product
      <3>1. Current(work) \in AxonautItem
        BY <2>1, <2>2, ItemTypes DEF OfAxonaut, Current
      <3>2. products[id] \in Product
        BY <1>a, <2>2 DEF Ids
      <3> QED
        BY <2>2, <3>1, <3>2, CatalogueAssumption DEF Refreshed, AxonautItem, Product
    <2>5. CASE Clashes(id, product)
      <3>1. Become(r, Refused(work)) /\ UNCHANGED products
        BY <1>7, <2>5 DEF UpdateAxonaut
      <3> QED
        BY <1>a, <2>1, <2>3, <3>1, BecomeTypes DEF Ids
    <2>6. CASE ~ Clashes(id, product)
      <3>1. products' = [products EXCEPT ![id] = product] /\ BecomeWriting(r, NextItem(work))
        BY <1>7, <2>6 DEF UpdateAxonaut
      <3> HIDE DEF product
      <3>2. products' \in Seq(Product) /\ Ids' = Ids
        BY <1>a, <2>2, <2>4, <3>1, ExceptTypes
      <3> QED
        BY <1>a, <2>1, <2>2, <2>3, <3>1, <3>2, BecomeWritingTypes
    <2> QED
      BY <2>5, <2>6
  <1>8. ASSUME NEW r \in Request, UpdateHusse(r)
        PROVE  TypeInv'
    <2> DEFINE work == req[r]
               item == Current(work)
               owners == {id \in Ids : products[id].sku = item.sku}
    <2>1. work.step = "update" /\ OfHusse(work) /\ UNCHANGED <<names, lost, imports, events>>
      BY <1>8 DEF UpdateHusse
    <2>2. work \in Work /\ work.item \in DOMAIN Fetched[work.job] /\ work.job \in Import
          /\ work.errors \subseteq DOMAIN Fetched[work.job]
      BY <2>1, WorkTypes
    <2>3. RequestOn(Ids', Refused(work)) /\ RequestOn(Ids', NextItem(work))
      BY <2>2, RefusedTypes, NextItemTypes
    <2>4. CASE Become(r, Refused(work)) /\ UNCHANGED products
      BY <1>a, <2>1, <2>3, <2>4, BecomeTypes DEF Ids
    <2>5. ASSUME NEW id \in owners,
                 products' = [products EXCEPT ![id] = Scraped(@, item, work.found)],
                 BecomeWriting(r, NextItem(work))
          PROVE  TypeInv'
      <3>1. item \in HusseItem
        BY <2>1, <2>2, ItemTypes DEF OfHusse, Current
      <3>2. id \in Ids /\ products[id] \in Product
        BY <1>a DEF Ids
      <3> DEFINE price == IF item.price = NoPrice THEN work.found.price ELSE item.price
                 group == IF item.family = None THEN None ELSE item.group
                 product == Scraped(products[id], item, work.found)
      <3>3. price \in Nat /\ group \in STRING
        BY <2>2, <3>1, CatalogueAssumption DEF HusseItem, Work
      <3>4. product = [products[id] EXCEPT !.price = price, !.family = item.family, !.group = group]
        BY DEF Scraped
      <3>5. product \in Product
        <4> HIDE DEF price, group, product
        <4> QED
          BY <3>1, <3>2, <3>3, <3>4 DEF HusseItem, Product
      <3>6. products' = [products EXCEPT ![id] = product]
        BY <2>5
      <3> HIDE DEF product
      <3>7. products' \in Seq(Product) /\ Ids' = Ids
        BY <1>a, <3>2, <3>5, <3>6, ExceptTypes
      <3> QED
        BY <1>a, <2>1, <2>2, <2>3, <2>5, <3>7, BecomeWritingTypes
    <2> QED
      BY <1>8, <2>4, <2>5 DEF UpdateHusse
  <1>9. ASSUME NEW r \in Request, Return(r)
        PROVE  TypeInv'
    <2>1. Become(r, Idle) /\ UNCHANGED <<products, names, imports, events>>
      BY <1>9 DEF Return
    <2>2. RequestOn(Ids', Idle)
      BY DEF RequestOn
    <2>3. lost' \in [Import -> SUBSET Nat]
      BY <1>9, OverTypes DEF Return
    <2> QED
      BY <1>a, <2>1, <2>2, <2>3, BecomeTypes DEF Ids
  <1>10. ASSUME NEW r \in Request, Abort(r)
         PROVE  TypeInv'
    <2>1. UNCHANGED <<products, names, imports, events>> /\ Ids' = Ids
      BY <1>10 DEF Abort, Ids
    <2>4. lost' \in [Import -> SUBSET Nat]
      BY <1>10, OverTypes DEF Abort
    <2>2. ASSUME NEW q \in Request
          PROVE  RequestOn(Ids', req'[q])
      <3> DEFINE next == [req[q] EXCEPT !.writers = @ \cup {"fault"}]
      <3>1. CASE req'[q] = Idle
        BY <3>1 DEF RequestOn
      <3>2. CASE req'[q] # Idle
        <4>1. req'[q] = next /\ req[q] # Idle
          BY <1>10, <3>2 DEF Abort
        <4>2. RequestOn(Ids, req[q]) /\ req[q] \in Work
          BY <4>1 DEF RequestOn
        <4>3. next \in Work /\ next.step = req[q].step /\ next.names = req[q].names
              /\ next.item = req[q].item /\ next.job = req[q].job /\ next.id = req[q].id
              /\ next.errors = req[q].errors /\ next.torn = req[q].torn
          BY <4>2 DEF Work
        <4>4. Current(next) = Current(req[q])
          BY <4>3 DEF Current
        <4> HIDE DEF next
        <4> QED
          BY <2>1, <4>1, <4>2, <4>3, <4>4 DEF RequestOn
      <3> QED
        BY <3>1, <3>2
    <2>3. req' = [q \in Request |-> req'[q]]
      BY <1>10 DEF Abort
    <2> QED
      BY <1>a, <2>1, <2>2, <2>3, <2>4, AllTypes
  <1>17. ASSUME NEW r \in Request, Fails(r)
         PROVE  TypeInv'
    <2> DEFINE work == req[r]
    <2>1. /\ work.step # "idle" /\ Become(r, Refused(work))
          /\ UNCHANGED <<products, names, imports>>
          /\ lost' = [lost EXCEPT ![work.job] = @ \cup {work.item}]
          /\ events < MaxEvents /\ events' = events + 1
      BY <1>17 DEF Fails
    <2>2. work \in Work /\ work.item \in DOMAIN Fetched[work.job] /\ work.item \in Nat
          /\ work.errors \subseteq DOMAIN Fetched[work.job]
      BY <2>1, WorkTypes DEF Work
    <2>3. RequestOn(Ids', Refused(work))
      BY <2>2, RefusedTypes
    <2>4. lost' \in [Import -> SUBSET Nat]
      BY <1>a, <2>1, <2>2 DEF Work
    <2>5. events' \in 0 .. MaxEvents
      BY <1>a, <2>1
    <2> QED
      BY <1>a, <2>1, <2>3, <2>4, <2>5, BecomeTypes DEF Ids
  <1>11. ASSUME ByUser, products' \in Seq(Product), Ids \subseteq Ids', names' \subseteq Name
         PROVE  TypeInv'
    <2>1. /\ events < MaxEvents /\ events' = events + 1 /\ UNCHANGED <<lost, imports>>
          /\ req' = [q \in Request |-> Disturbed(req[q], {"user"}, FALSE)]
      BY <1>11 DEF ByUser
    <2>2. \A q \in Request : RequestOn(Ids', req'[q])
      BY <1>11, <2>1, MoreIds, DisturbedTypes DEF Writers
    <2>3. req' = [q \in Request |-> req'[q]]
      BY <2>1
    <2>4. imports' \in 0 .. MaxImports /\ events' \in 0 .. MaxEvents
      BY <1>a, <2>1
    <2> QED
      BY <1>a, <1>11, <2>1, <2>2, <2>3, <2>4, AllTypes
  <1>12. ASSUME NEW sku \in Sku, NEW price \in Price, AddProduct(sku, price)
         PROVE  TypeInv'
    <2> DEFINE product == [sku |-> sku, axo |-> 0, price |-> price, sale |-> price,
                           packaging |-> None, family |-> None, group |-> None]
    <2>1. product \in Product
      BY CatalogueAssumption DEF Product
    <2>2. products' = Append(products, product) /\ ByUser /\ UNCHANGED names
      BY <1>12 DEF AddProduct
    <2> HIDE DEF product
    <2> QED
      BY <1>a, <1>11, <2>1, <2>2, AppendTypes
  <1>13. ASSUME NEW id \in Ids, NEW sku \in Sku, NEW price \in Price, EditProduct(id, sku, price)
         PROVE  TypeInv'
    <2> DEFINE product == [products[id] EXCEPT !.sku = sku, !.price = price, !.sale = price]
    <2>1. products[id] \in Product
      BY <1>a DEF Ids
    <2>2. product \in Product
      BY <2>1, CatalogueAssumption DEF Product
    <2>3. products' = [products EXCEPT ![id] = product] /\ ByUser /\ UNCHANGED names
      BY <1>13 DEF EditProduct
    <2> HIDE DEF product
    <2>4. products' \in Seq(Product) /\ Ids' = Ids
      BY <1>a, <2>2, <2>3, ExceptTypes
    <2> QED
      BY <1>a, <1>11, <2>3, <2>4
  <1>14. ASSUME NEW name \in Name, AddName(name)
         PROVE  TypeInv'
    <2>1. ByUser /\ names' = names \cup {name} /\ UNCHANGED products
      BY <1>14 DEF AddName
    <2> QED
      BY <1>a, <1>11, <2>1 DEF Ids
  <1>15. CASE UNCHANGED vars
    BY <1>15 DEF vars, TypeOK, RequestOn, Ids, Current
  <1>16. ASSUME NEW j \in Import, NEW n \in DOMAIN Fetched[j],
                NEW k \in DOMAIN NamesOf(j, Fetched[j][n]), AddName(NamesOf(j, Fetched[j][n])[k])
         PROVE  TypeInv'
    BY <1>14, <1>16, NamesTypes
  <1> QED
    BY <1>1, <1>2, <1>3, <1>4, <1>5, <1>6, <1>7, <1>8, <1>9, <1>10, <1>12, <1>13, <1>15, <1>16,
       <1>17 DEF Next, Serve

\* Whatever is imported and edited, requests and catalogue keep their types.
THEOREM TypeCorrect == Spec => []TypeOK
  <1>1. Init => TypeInv
    BY CatalogueAssumption DEF Init, TypeInv, TypeOK, RequestOn, Idle
  <1>2. TypeInv /\ [Next]_vars => TypeInv'
    BY TypeStep
  <1>3. TypeInv => TypeOK
    BY DEF TypeInv
  <1> QED
    BY <1>1, <1>2, <1>3, PTL DEF Spec

-----------------------------------------------------------------------------
(***************************************************************************)
(* Refusals.  As long as nobody wrote since an import began with an item,   *)
(* what it found out about the item is still so.                           *)
(***************************************************************************)
Known(state) ==
    /\ state.step \notin {"done", "failed"} => \A n \in state.errors : n < state.item
    /\ state.step = "create name" /\ ~ state.stale => Head(state.names) \notin names
    /\ state.step = "create" /\ ~ state.stale => Matches(state.job, Current(state)) = {}
    /\ state.step = "update" /\ ~ state.stale =>
         /\ state.id \in Matches(state.job, Current(state))
         /\ state.found.sku = products[state.id].sku
         /\ state.found.axo = products[state.id].axo

\* The unique keys of the database.
OneOwner ==
    \A one, other \in Ids : one # other =>
        /\ products[one].sku # products[other].sku
        /\ products[one].axo # 0 => products[one].axo # products[other].axo

KnownInv == /\ TypeInv
            /\ OneOwner
            /\ \A r \in Request : req[r] # Idle => Known(req[r])

\* The own steps of a request between its start and its answer.
Own(r) == \/ Pass(r) \/ FindName(r) \/ CreateName(r) \/ Find(r)
          \/ Create(r) \/ UpdateAxonaut(r) \/ UpdateHusse(r) \/ Fails(r)

\* What the steps of others leave of a request.
Alike(old, new) ==
    /\ new # Idle /\ new.step = old.step /\ new.job = old.job /\ new.item = old.item
    /\ new.names = old.names /\ new.id = old.id /\ new.found = old.found
    /\ new.errors = old.errors /\ (old.stale => new.stale)

LEMMA DisturbedAlike ==
    ASSUME NEW work \in Work, NEW writers \in SUBSET Writers, NEW torn \in BOOLEAN
    PROVE  Alike(work, Disturbed(work, writers, torn)) /\ Disturbed(work, writers, torn).stale
  <1> PICK tears \in BOOLEAN : tears = (work.torn \/ torn)
    OBVIOUS
  <1> DEFINE next == [work EXCEPT !.writers = @ \cup writers, !.torn = tears, !.stale = TRUE]
  <1>1. Disturbed(work, writers, torn) = next
    BY WorkIsNotIdle DEF Disturbed
  <1>2. next \in Work /\ Alike(work, next) /\ next.stale
    <2>1. next \in Work
      BY DEF Work, Writers
    <2> QED
      BY <2>1, WorkIsNotIdle, ZenonT(60) DEF Alike, Work
  <1> QED
    BY <1>1, <1>2

LEMMA SameAlike ==
    ASSUME NEW work \in Work
    PROVE  Alike(work, work)
  BY WorkIsNotIdle DEF Alike

\* What a step can be for a request.
LEMMA StepOf ==
    ASSUME TypeInv, [Next]_vars, NEW q \in Request
    PROVE  \/ req'[q] = Idle
           \/ \E j \in Import : Start(q, j)
           \/ Own(q)
           \/ /\ req[q] # Idle /\ Alike(req[q], req'[q])
              /\ req'[q].stale \/ UNCHANGED <<products, names>>
  <1> DEFINE Left == \/ req'[q] = Idle
                     \/ /\ req[q] # Idle /\ Alike(req[q], req'[q])
                        /\ req'[q].stale \/ UNCHANGED <<products, names>>
  <1>a. /\ req \in [Request -> {Idle} \cup Work]
        /\ req[q] = Idle \/ req[q] \in Work
    BY DEF TypeInv, TypeOK
  <1>1. ASSUME NEW r \in Request, r # q, NEW state, Become(r, state), UNCHANGED <<products, names>>
        PROVE  Left
    <2>1. req'[q] = req[q]
      BY <1>a, <1>1 DEF Become
    <2> QED
      BY <1>a, <1>1, <2>1, SameAlike
  <1>2. ASSUME NEW writers \in SUBSET Writers, NEW torn \in BOOLEAN,
               req'[q] = Disturbed(req[q], writers, torn)
        PROVE  Left
    <2>1. CASE req[q] = Idle
      BY <1>2, <2>1 DEF Disturbed
    <2>2. CASE req[q] # Idle
      BY <1>a, <1>2, <2>2, DisturbedAlike
    <2> QED
      BY <2>1, <2>2
  <1>3. ASSUME NEW r \in Request, r # q, NEW state, BecomeWriting(r, state), req[r] \in Work
        PROVE  Left
    <2>1. {req[r].job} \cup req[r].writers \in SUBSET Writers /\ req[r].torn \in BOOLEAN
      BY <1>3 DEF Work, Writers
    <2>2. req'[q] = Disturbed(req[q], {req[r].job} \cup req[r].writers, req[r].torn)
      BY <1>3 DEF BecomeWriting
    <2> HIDE DEF Left
    <2> QED
      BY <1>2, <2>1, <2>2
  <1>4. ASSUME NEW r \in Request, r # q, Find(r)
        PROVE  Left
    <2> DEFINE seen == [s \in Request |-> Torn(req[r].job, req[r].item, req[s])]
    <2>1. UNCHANGED <<products, names>> /\ req[r].step = "find"
      BY <1>4 DEF Find
    <2>2. req[r] \in Work /\ req[r].job \in Import /\ req[r].item \in DOMAIN Fetched[req[r].job]
      BY <2>1, WorkTypes
    <2>3. req'[q] = req[q] \/ req'[q] = Torn(req[r].job, req[r].item, req[q])
      <3>1. CASE Become(r, [req[r] EXCEPT !.step = "create"])
        BY <1>a, <1>4, <3>1 DEF Become
      <3>2. ASSUME NEW id,
                   req' = [seen EXCEPT ![r].step = "update", ![r].id = id,
                                       ![r].found = [sku   |-> products[id].sku,
                                                     axo   |-> products[id].axo,
                                                     price |-> products[id].price]]
            PROVE  req'[q] = seen[q]
        <4>1. seen = [s \in Request |-> seen[s]]
          OBVIOUS
        <4> HIDE DEF seen
        <4> QED
          BY <1>4, <3>2, <4>1
      <3> QED
        BY <1>4, <3>1, <3>2 DEF Find
    <2>4. CASE req'[q] = req[q]
      BY <1>a, <2>1, <2>4, SameAlike
    <2>5. CASE req'[q] # req[q]
      <3> DEFINE next == [req[q] EXCEPT !.torn = TRUE]
      <3>1. req'[q] = next /\ req[q] \in Work
        BY <1>a, <2>3, <2>5 DEF Torn
      <3>3. next \in Work
        BY <3>1 DEF Work
      <3>4. Alike(req[q], next)
        BY <3>1, <3>3, WorkIsNotIdle DEF Alike, Work
      <3> QED
        BY <2>1, <3>1, <3>4, WorkIsNotIdle
    <2> QED
      BY <2>4, <2>5
  <1>5. ASSUME NEW r \in Request, r # q, Abort(r)
        PROVE  Left
    <2>1. UNCHANGED <<products, names>>
      BY <1>5 DEF Abort
    <2>2. CASE req[q] = Idle
      BY <1>5, <2>2 DEF Abort
    <2>3. CASE req[q] # Idle
      <3> DEFINE next == [req[q] EXCEPT !.writers = @ \cup {"fault"}]
      <3>1. req'[q] = next /\ req[q] \in Work
        BY <1>a, <1>5, <2>3 DEF Abort
      <3>2. next \in Work
        BY <3>1 DEF Work
      <3>3. Alike(req[q], next)
        BY <3>1, <3>2, WorkIsNotIdle DEF Alike, Work
      <3> QED
        BY <2>1, <2>3, <3>1, <3>3
    <2> QED
      BY <2>2, <2>3
  <1>6. ASSUME ByUser
        PROVE  Left
    <2>1. req'[q] = Disturbed(req[q], {"user"}, FALSE) /\ {"user"} \in SUBSET Writers
      BY <1>6 DEF ByUser, Writers
    <2> HIDE DEF Left
    <2> QED
      BY <1>2, <2>1
  <1>7. ASSUME NEW r \in Request, r # q, Serve(r)
        PROVE  Left
    <2> HIDE DEF Left
    <2>1. CASE \E j \in Import : Start(r, j)
      BY <1>1, <1>7, <2>1 DEF Start
    <2>2. CASE Pass(r)
      BY <1>1, <1>7, <2>2 DEF Pass
    <2>3. CASE FindName(r)
      BY <1>1, <1>7, <2>3 DEF FindName
    <2>4. CASE CreateName(r)
      <3>1. req[r] \in Work
        BY <2>4, WorkTypes DEF CreateName
      <3> QED
        BY <1>1, <1>3, <1>7, <2>4, <3>1 DEF CreateName
    <2>5. CASE Find(r)
      BY <1>4, <1>7, <2>5
    <2>6. CASE Create(r)
      <3>1. req[r] \in Work
        BY <2>6, WorkTypes DEF Create
      <3> QED
        BY <1>1, <1>3, <1>7, <2>6, <3>1 DEF Create
    <2>7. CASE UpdateAxonaut(r)
      <3>1. req[r] \in Work
        BY <2>7, WorkTypes DEF UpdateAxonaut
      <3> QED
        BY <1>1, <1>3, <1>7, <2>7, <3>1 DEF UpdateAxonaut
    <2>8. CASE UpdateHusse(r)
      <3>1. req[r] \in Work
        BY <2>8, WorkTypes DEF UpdateHusse
      <3> QED
        BY <1>1, <1>3, <1>7, <2>8, <3>1 DEF UpdateHusse
    <2>9. CASE Return(r)
      BY <1>1, <1>7, <2>9 DEF Return
    <2>10. CASE Abort(r)
      BY <1>5, <1>7, <2>10
    <2>11. CASE Fails(r)
      BY <1>1, <1>7, <2>11 DEF Fails
    <2> QED
      BY <1>7, <2>1, <2>2, <2>3, <2>4, <2>5, <2>6, <2>7, <2>8, <2>9, <2>10, <2>11 DEF Serve
  <1>8. ASSUME Serve(q)
        PROVE  req'[q] = Idle \/ (\E j \in Import : Start(q, j)) \/ Own(q)
    <2>1. CASE Return(q) \/ Abort(q)
      BY <1>a, <2>1 DEF Return, Abort, Become
    <2> QED
      BY <1>8, <2>1 DEF Serve, Own
  <1>9. CASE UNCHANGED vars
    BY <1>a, <1>9, SameAlike DEF vars
  <1> HIDE DEF Left
  <1>10. CASE \E r \in Request : Serve(r)
    BY <1>7, <1>8, <1>10 DEF Left
  <1>11. CASE \E sku \in Sku, price \in Price : AddProduct(sku, price)
    BY <1>6, <1>11 DEF AddProduct, Left
  <1>12. CASE \E id \in Ids, sku \in Sku, price \in Price : EditProduct(id, sku, price)
    BY <1>6, <1>12 DEF EditProduct, Left
  <1>13. CASE \E j \in Import : \E n \in DOMAIN Fetched[j] :
                \E k \in DOMAIN NamesOf(j, Fetched[j][n]) : AddName(NamesOf(j, Fetched[j][n])[k])
    BY <1>6, <1>13 DEF AddName, Left
  <1> QED
    BY <1>9, <1>10, <1>11, <1>12, <1>13 DEF Next, Left

\* A request that has found out nothing about its item yet: it is known whatever
\* the catalogue.
Fresh(state) ==
    /\ state.step \in {"pass", "find name", "find", "done", "failed"}
    /\ state.step \notin {"done", "failed"} => \A n \in state.errors : n < state.item

LEMMA EnsuringFresh ==
    ASSUME NEW work \in Work, NEW left \in Seq(Name), \A n \in work.errors : n < work.item
    PROVE  /\ Fresh(Ensuring(work, left)) /\ Ensuring(work, left).errors = work.errors
           /\ Ensuring(work, left).step # "failed"
  BY DEF Ensuring, Fresh, Work

LEMMA AtItemFresh ==
    ASSUME NEW work \in Work, NEW n \in DOMAIN Fetched[work.job], \A m \in work.errors : m < n
    PROVE  /\ Fresh(AtItem(work, n)) /\ AtItem(work, n).errors = work.errors
           /\ AtItem(work, n).step # "failed"
  <1> DEFINE begun == [work EXCEPT !.item = n, !.stale = FALSE, !.names = << >>,
                                   !.id = 0, !.found = Unread]
             passed == [begun EXCEPT !.step = "pass"]
  <1>1. work.job \in Import /\ n \in Nat
    BY ItemTypes DEF Work
  <1>2. begun \in Work /\ begun.item = n /\ begun.errors = work.errors
    BY <1>1, NoNames, UnreadType DEF Work
  <1>3. CASE Fetched[work.job][n].sku = None
    <2>1. AtItem(work, n) = passed
      BY <1>3 DEF AtItem
    <2>2. passed.step = "pass" /\ passed.errors = work.errors /\ passed.item = n
      BY <1>2 DEF Work
    <2> HIDE DEF passed
    <2> QED
      BY <2>1, <2>2 DEF Fresh
  <1>4. CASE Fetched[work.job][n].sku # None
    <2>1. AtItem(work, n) = Ensuring(begun, NamesOf(work.job, Fetched[work.job][n]))
      BY <1>4 DEF AtItem
    <2>2. NamesOf(work.job, Fetched[work.job][n]) \in Seq(Name)
      BY <1>1, NamesTypes
    <2> HIDE DEF begun
    <2> QED
      BY <1>2, <2>1, <2>2, EnsuringFresh
  <1> QED
    BY <1>3, <1>4

LEMMA NextItemFresh ==
    ASSUME NEW work \in Work, work.item \in DOMAIN Fetched[work.job],
           \A n \in work.errors : n <= work.item
    PROVE  /\ Fresh(NextItem(work)) /\ NextItem(work).errors = work.errors
           /\ NextItem(work).step # "failed"
  <1>1. work.job \in Import /\ work.errors \subseteq Nat /\ work.item \in Nat
    BY DEF Work
  <1>2. CASE work.item < Len(Fetched[work.job])
    <2>1. work.item + 1 \in DOMAIN Fetched[work.job]
      BY <1>1, <1>2, ItemTypes
    <2>2. \A n \in work.errors : n < work.item + 1
      BY <1>1
    <2>3. NextItem(work) = AtItem(work, work.item + 1)
      BY <1>2 DEF NextItem
    <2> QED
      BY <2>1, <2>2, <2>3, AtItemFresh
  <1>3. CASE ~ (work.item < Len(Fetched[work.job]))
    <2>1. NextItem(work) = [work EXCEPT !.step = "done", !.names = << >>]
      BY <1>3 DEF NextItem
    <2> QED
      BY <2>1 DEF Fresh, Work
  <1> QED
    BY <1>2, <1>3

LEMMA RefusedFresh ==
    ASSUME NEW work \in Work, work.item \in DOMAIN Fetched[work.job],
           work.errors \subseteq DOMAIN Fetched[work.job],
           \A n \in work.errors : n < work.item
    PROVE  Fresh(Refused(work))
  <1>1. CASE Source[work.job] = "husse"
    <2>1. Refused(work) = [work EXCEPT !.step = "failed", !.names = << >>]
      BY <1>1 DEF Refused
    <2> QED
      BY <2>1 DEF Fresh, Work
  <1>2. CASE Source[work.job] # "husse"
    <2> DEFINE noted == [work EXCEPT !.errors = @ \cup {work.item}]
    <2>1. Refused(work) = NextItem(noted)
      BY <1>2 DEF Refused
    <2>2. noted \in Work /\ noted.item = work.item /\ noted.job = work.job
          /\ noted.errors = work.errors \cup {work.item}
      BY NotedTypes
    <2>3. work.item \in Nat /\ work.errors \subseteq Nat
      BY DEF Work
    <2>4. \A n \in noted.errors : n <= noted.item
      BY <2>2, <2>3
    <2> HIDE DEF noted
    <2> QED
      BY <2>1, <2>2, <2>4, NextItemFresh
  <1> QED
    BY <1>1, <1>2

\* The unique keys, kept by the statements that do not clash.
LEMMA AppendOwners ==
    ASSUME products \in Seq(Product), OneOwner, NEW product \in Product, ~ Clashes(0, product),
           products' = Append(products, product)
    PROVE  OneOwner'
  <1>1. /\ Ids' = Ids \cup {Len(products) + 1} /\ Len(products) \in Nat /\ Ids = 1 .. Len(products)
        /\ products'[Len(products) + 1] = product
        /\ \A id \in Ids : products'[id] = products[id]
    BY DEF Ids
  <1>2. \A other \in Ids : /\ products[other].sku # product.sku
                           /\ product.axo # 0 => products[other].axo # product.axo
    BY <1>1 DEF Clashes
  <1>3. Len(products) + 1 \notin Ids
    BY <1>1
  <1> QED
    BY <1>1, <1>2, <1>3 DEF OneOwner

LEMMA ExceptOwners ==
    ASSUME products \in Seq(Product), OneOwner, NEW id \in Ids, NEW product \in Product,
           ~ Clashes(id, product), products' = [products EXCEPT ![id] = product]
    PROVE  OneOwner'
  <1>1. /\ Ids' = Ids /\ products'[id] = product
        /\ \A other \in Ids \ {id} : products'[other] = products[other]
    BY DEF Ids
  <1>2. \A other \in Ids \ {id} : /\ products[other].sku # product.sku
                                  /\ product.axo # 0 => products[other].axo # product.axo
    BY DEF Clashes
  <1> QED
    BY <1>1, <1>2 DEF OneOwner

LEMMA OwnersStep ==
    ASSUME KnownInv, [Next]_vars
    PROVE  OneOwner'
  <1>a. products \in Seq(Product) /\ OneOwner /\ TypeInv
    BY DEF KnownInv, TypeInv, TypeOK
  <1>1. CASE UNCHANGED products
    BY <1>a, <1>1 DEF OneOwner, Ids
  <1>2. ASSUME NEW r \in Request, Create(r)
        PROVE  OneOwner'
    <2>1. /\ req[r] \in Work /\ req[r].item \in DOMAIN Fetched[req[r].job]
          /\ Current(req[r]).sku # None
      BY <1>a, <1>2, WorkTypes DEF Create, RequestOn
    <2>2. CASE Clashes(0, Made(req[r]))
      BY <1>1, <1>2, <2>2 DEF Create
    <2>3. CASE ~ Clashes(0, Made(req[r]))
      <3>1. products' = Append(products, Made(req[r]))
        BY <1>2, <2>3 DEF Create
      <3> QED
        BY <1>a, <2>1, <2>3, <3>1, MadeTypes, AppendOwners
    <2> QED
      BY <2>2, <2>3
  <1>3. ASSUME NEW r \in Request, UpdateAxonaut(r)
        PROVE  OneOwner'
    <2> DEFINE id == req[r].id
               product == Refreshed(products[id], Current(req[r]), req[r].found)
    <2>1. /\ req[r] \in Work /\ req[r].item \in DOMAIN Fetched[req[r].job] /\ id \in Ids
          /\ Current(req[r]).sku # None /\ Source[req[r].job] = "axonaut" /\ req[r].job \in Import
      BY <1>a, <1>3, WorkTypes DEF UpdateAxonaut, OfAxonaut, RequestOn
    <2>2. product \in Product
      <3>1. Current(req[r]) \in AxonautItem
        BY <2>1, ItemTypes DEF Current
      <3>2. products[id] \in Product
        BY <1>a, <2>1 DEF Ids
      <3> QED
        BY <2>1, <3>1, <3>2, CatalogueAssumption DEF Refreshed, AxonautItem, Product
    <2>3. CASE Clashes(id, product)
      BY <1>1, <1>3, <2>3 DEF UpdateAxonaut
    <2>4. CASE ~ Clashes(id, product)
      <3>1. products' = [products EXCEPT ![id] = product]
        BY <1>3, <2>4 DEF UpdateAxonaut
      <3> HIDE DEF product
      <3> QED
        BY <1>a, <2>1, <2>2, <2>4, <3>1, ExceptOwners
    <2> QED
      BY <2>3, <2>4
  <1>4. ASSUME NEW r \in Request, UpdateHusse(r)
        PROVE  OneOwner'
    <2>1. ASSUME NEW id \in Ids,
                 products' = [products EXCEPT ![id] = Scraped(@, Current(req[r]), req[r].found)]
          PROVE  OneOwner'
      <3>1. products[id] \in Product
        BY <1>a DEF Ids
      <3>2. /\ products'[id].sku = products[id].sku /\ products'[id].axo = products[id].axo
            /\ Ids' = Ids /\ \A other \in Ids \ {id} : products'[other] = products[other]
        BY <1>a, <2>1, <3>1 DEF Scraped, Ids, Product
      <3> QED
        BY <1>a, <3>2 DEF OneOwner
    <2> QED
      BY <1>1, <1>4, <2>1 DEF UpdateHusse
  <1>5. ASSUME NEW sku \in Sku, NEW price \in Price, AddProduct(sku, price)
        PROVE  OneOwner'
    <2> DEFINE product == [sku |-> sku, axo |-> 0, price |-> price, sale |-> price,
                           packaging |-> None, family |-> None, group |-> None]
    <2>1. product \in Product
      BY CatalogueAssumption DEF Product
    <2>2. products' = Append(products, product) /\ ~ Clashes(0, product)
      BY <1>5 DEF AddProduct
    <2> HIDE DEF product
    <2> QED
      BY <1>a, <2>1, <2>2, AppendOwners
  <1>6. ASSUME NEW id \in Ids, NEW sku \in Sku, NEW price \in Price, EditProduct(id, sku, price)
        PROVE  OneOwner'
    <2> DEFINE product == [products[id] EXCEPT !.sku = sku, !.price = price, !.sale = price]
               renamed == [products[id] EXCEPT !.sku = sku]
    <2>1. products[id] \in Product
      BY <1>a DEF Ids
    <2>2. product \in Product /\ product.sku = renamed.sku /\ product.axo = renamed.axo
      BY <2>1, CatalogueAssumption DEF Product
    <2>3. products' = [products EXCEPT ![id] = product] /\ ~ Clashes(id, renamed)
      BY <1>6 DEF EditProduct
    <2> HIDE DEF product, renamed
    <2>4. ~ Clashes(id, product)
      BY <2>2, <2>3 DEF Clashes
    <2> QED
      BY <1>a, <2>2, <2>3, <2>4, ExceptOwners
  <1>7. ASSUME NEW r \in Request, Serve(r)
        PROVE  OneOwner'
    <2>1. CASE \E j \in Import : Start(r, j)
      BY <1>1, <2>1 DEF Start
    <2>2. CASE Pass(r) \/ FindName(r) \/ Find(r) \/ Fails(r) \/ Return(r) \/ Abort(r)
      BY <1>1, <2>2 DEF Pass, FindName, Find, Fails, Return, Abort
    <2>3. CASE CreateName(r)
      BY <1>1, <2>3 DEF CreateName
    <2> QED
      BY <1>2, <1>3, <1>4, <1>7, <2>1, <2>2, <2>3 DEF Serve
  <1>8. CASE UNCHANGED vars
    BY <1>1, <1>8 DEF vars
  <1>9. CASE \E j \in Import : \E n \in DOMAIN Fetched[j] :
               \E k \in DOMAIN NamesOf(j, Fetched[j][n]) : AddName(NamesOf(j, Fetched[j][n])[k])
    BY <1>1, <1>9 DEF AddName
  <1> QED
    BY <1>5, <1>6, <1>7, <1>8, <1>9 DEF Next

-----------------------------------------------------------------------------
\* What was known stays known through the steps of others.
LEMMA KnownThroughOthers ==
    ASSUME NEW old, Known(old), NEW new, Alike(old, new),
           new.stale \/ UNCHANGED <<products, names>>, old.stale \in BOOLEAN
    PROVE  Known(new)'
  <1>1. CASE new.stale
    BY <1>1 DEF Known, Alike
  <1>2. CASE ~ new.stale
    BY <1>2 DEF Known, Alike, Matches, Current, Ids
  <1> QED
    BY <1>1, <1>2

\* An own step leads to an item of which nothing is known yet, or to what it
\* has just found out.
LEMMA OwnStep ==
    ASSUME TypeInv, NEW r \in Request, NEW work, work = req[r], NEW new, new = req'[r],
           Known(work), Own(r)
    PROVE  Known(new)'
  <1>1. work.step \in {"pass", "find name", "create name", "find", "create", "update"}
    BY DEF Own, Pass, FindName, CreateName, Find, Create, UpdateAxonaut, UpdateHusse, Fails
  <1>2. /\ work \in Work /\ work.job \in Import /\ work.item \in DOMAIN Fetched[work.job]
        /\ work.errors \subseteq DOMAIN Fetched[work.job]
        /\ RequestOn(Ids, work) /\ req \in [Request -> {Idle} \cup Work]
    BY <1>1, WorkTypes DEF TypeInv, TypeOK
  <1>3. \A n \in work.errors : n < work.item
    BY <1>1 DEF Known
  <1>4. work.item \in Nat /\ work.errors \subseteq Nat
    BY <1>2 DEF Work
  <1>5. Fresh(Refused(work)) /\ Fresh(NextItem(work))
    <2>1. \A n \in work.errors : n <= work.item
      BY <1>3, <1>4
    <2> QED
      BY <1>2, <1>3, <2>1, RefusedFresh, NextItemFresh
  <1>6. work.step \in {"find name", "create name"} => Fresh(Ensuring(work, Tail(work.names)))
    <2> HAVE work.step \in {"find name", "create name"}
    <2>1. work.names # << >> /\ work.names \in Seq(Name)
      BY <1>2, WorkIsNotIdle DEF RequestOn, Work
    <2>2. Tail(work.names) \in Seq(Name)
      BY <2>1, FirstName
    <2> QED
      BY <1>2, <1>3, <2>2, EnsuringFresh
  <1>7. ASSUME Fresh(new)
        PROVE  Known(new)'
    BY <1>7 DEF Fresh, Known
  <1>8. ASSUME NEW state, Become(r, state) \/ BecomeWriting(r, state)
        PROVE  new = state
    BY <1>2, <1>8 DEF Become, BecomeWriting
  <1>9. CASE Pass(r)
    <2> DEFINE noted == [work EXCEPT !.errors = @ \cup {work.item}]
    <2>1. noted \in Work /\ noted.item = work.item /\ noted.job = work.job
          /\ noted.errors = work.errors \cup {work.item}
      BY <1>2, NotedTypes
    <2>2. new = NextItem(work) \/ new = NextItem(noted)
      BY <1>8, <1>9 DEF Pass
    <2> HIDE DEF noted
    <2>3. \A n \in noted.errors : n <= noted.item
      BY <1>3, <1>4, <2>1
    <2>4. Fresh(NextItem(noted))
      BY <1>2, <2>1, <2>3, NextItemFresh
    <2> QED
      BY <1>5, <1>7, <2>2, <2>4
  <1>10. CASE FindName(r)
    <2> DEFINE next == [work EXCEPT !.step = "create name"]
    <2>1. CASE Head(work.names) \in names
      <3>1. new = Ensuring(work, Tail(work.names)) /\ work.step = "find name"
        BY <1>8, <1>10, <2>1 DEF FindName
      <3> QED
        BY <1>6, <1>7, <3>1
    <2>2. CASE Head(work.names) \notin names
      <3>1. new = next /\ UNCHANGED names
        BY <1>8, <1>10, <2>2 DEF FindName
      <3>2. next.step = "create name" /\ next.names = work.names /\ next.errors = work.errors
            /\ next.item = work.item
        BY <1>2 DEF Work
      <3> HIDE DEF next
      <3> QED
        BY <1>3, <2>2, <3>1, <3>2 DEF Known
    <2> QED
      BY <2>1, <2>2
  <1>11. CASE CreateName(r)
    <2>1. new \in {Refused(work), Ensuring(work, Tail(work.names))} /\ work.step = "create name"
      BY <1>8, <1>11 DEF CreateName
    <2> QED
      BY <1>5, <1>6, <1>7, <2>1
  <1>12. CASE Find(r)
    <2> DEFINE matches == Matches(work.job, Current(work))
               seen == [q \in Request |-> Torn(work.job, work.item, req[q])]
               creating == [work EXCEPT !.step = "create"]
    <2>1. UNCHANGED <<products, names>>
      BY <1>12 DEF Find
    <2>2. ASSUME matches = {}, Become(r, creating)
          PROVE  Known(new)'
      <3>1. new = creating
        BY <1>8, <2>2
      <3>2. creating.step = "create" /\ creating.job = work.job /\ creating.item = work.item
            /\ creating.errors = work.errors
        BY <1>2 DEF Work
      <3> HIDE DEF creating
      <3>3. Current(new) = Current(work)
        BY <3>1, <3>2 DEF Current
      <3>4. Matches(new.job, Current(new))' = matches
        BY <2>1, <3>1, <3>2, <3>3 DEF Matches, Ids, Current
      <3> HIDE DEF matches
      <3> QED
        BY <1>3, <2>2, <3>1, <3>2, <3>4 DEF Known
    <2>3. ASSUME NEW id \in matches,
                 req' = [seen EXCEPT ![r].step = "update", ![r].id = id,
                                     ![r].found = [sku   |-> products[id].sku,
                                                   axo   |-> products[id].axo,
                                                   price |-> products[id].price]]
          PROVE  Known(new)'
      <3> DEFINE found == [sku |-> products[id].sku, axo |-> products[id].axo,
                           price |-> products[id].price]
                 torn == [work EXCEPT !.torn = TRUE]
      <3>1. seen[r] = work \/ seen[r] = torn
        BY DEF Torn
      <3>2. torn \in Work /\ torn.job = work.job /\ torn.item = work.item
            /\ torn.errors = work.errors
        BY <1>2, <1>4 DEF Work
      <3>3. seen[r] \in Work /\ seen[r].job = work.job /\ seen[r].item = work.item
            /\ seen[r].errors = work.errors
        <4> HIDE DEF seen, torn
        <4> QED
          BY <1>2, <3>1, <3>2
      <3>4. seen = [q \in Request |-> seen[q]]
        OBVIOUS
      <3>5. found.sku = products[id].sku /\ found.axo = products[id].axo
        OBVIOUS
      <3> HIDE DEF seen, found
      <3>6. new = [seen[r] EXCEPT !.step = "update", !.id = id, !.found = found]
        BY <2>3, <3>4 DEF found
      <3>7. /\ new.step = "update" /\ new.id = id /\ new.found = found
            /\ new.job = work.job /\ new.item = work.item /\ new.errors = work.errors
        BY <3>3, <3>6 DEF Work
      <3>8. Current(new) = Current(work)
        BY <3>7 DEF Current
      <3>9. Matches(new.job, Current(new))' = matches
        BY <2>1, <3>7, <3>8 DEF Matches, Ids, Current
      <3> HIDE DEF matches
      <3> QED
        BY <1>3, <2>1, <2>3, <3>5, <3>7, <3>9 DEF Known
    <2> QED
      BY <1>12, <2>2, <2>3 DEF Find
  <1>13. CASE Create(r) \/ UpdateAxonaut(r) \/ UpdateHusse(r)
    <2>1. new \in {Refused(work), NextItem(work)}
      BY <1>8, <1>13 DEF Create, UpdateAxonaut, UpdateHusse
    <2> QED
      BY <1>5, <1>7, <2>1
  <1>14. CASE Fails(r)
    <2>1. new = Refused(work)
      BY <1>8, <1>14 DEF Fails
    <2> QED
      BY <1>5, <1>7, <2>1
  <1> QED
    BY <1>9, <1>10, <1>11, <1>12, <1>13, <1>14 DEF Own

\* What every request has found out is known to be so after every step.
LEMMA KnownStep ==
    ASSUME KnownInv, [Next]_vars
    PROVE  KnownInv'
  <1>1. TypeInv' /\ OneOwner'
    BY TypeStep, OwnersStep DEF KnownInv
  <1>2. ASSUME NEW q \in Request, req'[q] # Idle
        PROVE  Known(req[q])'
    <2> PICK new : new = req'[q]
      OBVIOUS
    <2>1. Known(new)'
      <3>1. CASE \E j \in Import : Start(q, j)
        <4> PICK j \in Import : Start(q, j)
          BY <3>1
        <4> DEFINE work == [step |-> "pass", job |-> j, item |-> 1, names |-> << >>, id |-> 0,
                            found |-> Unread,
                            errors |-> {}, writers |-> {}, torn |-> FALSE, stale |-> FALSE]
        <4>1. work \in Work /\ work.job = j /\ work.errors = {}
          BY NoNames, UnreadType DEF Work
        <4>2. new = AtItem(work, 1)
          BY DEF Start, Become, KnownInv, TypeInv, TypeOK
        <4> HIDE DEF work
        <4>3. Fresh(new)
          BY <4>1, <4>2, FirstItem, AtItemFresh
        <4> QED
          BY <4>3 DEF Fresh, Known
      <3>2. CASE Own(q)
        <4>1. req[q].step # "idle"
          BY <3>2 DEF Own, Pass, FindName, CreateName, Find, Create, UpdateAxonaut, UpdateHusse,
                      Fails
        <4>2. req[q] # Idle
          BY <4>1 DEF Idle
        <4> PICK work : work = req[q]
          OBVIOUS
        <4>3. Known(work)
          BY <4>2 DEF KnownInv
        <4> QED
          BY <3>2, <4>3, OwnStep DEF KnownInv
      <3>3. CASE /\ req[q] # Idle /\ Alike(req[q], req'[q])
                 /\ req'[q].stale \/ UNCHANGED <<products, names>>
        <4> PICK work : work = req[q]
          OBVIOUS
        <4>1. Known(work) /\ work \in Work
          BY <3>3 DEF KnownInv, TypeInv, TypeOK
        <4>2. work.stale \in BOOLEAN
          BY <4>1 DEF Work
        <4> QED
          BY <3>3, <4>1, <4>2, KnownThroughOthers
      <3> QED
        BY <1>2, <3>1, <3>2, <3>3, StepOf DEF KnownInv
    <2> QED
      BY <2>1 DEF Known
  <1> QED
    BY <1>1, <1>2 DEF KnownInv
-----------------------------------------------------------------------------
LEMMA TwoMatches ==
    ASSUME products \in Seq(Product), NEW job, NEW item,
           NEW one \in Matches(job, item), NEW other \in Matches(job, item), one # other
    PROVE  Cardinality(Matches(job, item)) > 1
  <1> DEFINE matches == Matches(job, item)
  <1>1. Ids = 1 .. Len(products) /\ Len(products) \in Nat /\ matches \subseteq Ids
    BY DEF Ids, Matches
  <1>2. IsFiniteSet(matches)
    <2>1. IsFiniteSet(Ids)
      BY <1>1, FS_Interval
    <2> HIDE DEF matches
    <2> QED
      BY <1>1, <2>1, FS_Subset
  <1>3. Cardinality(matches) \in Nat
    BY <1>2, FS_CardinalityType
  <1>4. Cardinality({one}) = 1 /\ {one} \subseteq matches /\ {one} # matches
    BY FS_Singleton
  <1>5. Cardinality({one}) <= Cardinality(matches) /\ Cardinality({one}) # Cardinality(matches)
    BY <1>2, <1>4, FS_Subset
  <1> QED
    BY <1>3, <1>4, <1>5

\* What the own steps of a request say of a refusal.
LEMMA OwnRefusal ==
    ASSUME KnownInv, NEW r \in Request, NEW work, work = req[r], Own(r), work.step # "pass",
           NEW new, new = req'[r],
           new.step = "failed" \/ work.item \in new.errors \ lost'[work.job]
    PROVE  work.stale \/ Cardinality(Matches(work.job, Current(work))) > 1
  <1>1. work.step \in {"find name", "create name", "find", "create", "update"}
    BY DEF Own, Pass, FindName, CreateName, Find, Create, UpdateAxonaut, UpdateHusse, Fails
  <1>2. /\ work \in Work /\ work.job \in Import /\ work.item \in DOMAIN Fetched[work.job]
        /\ RequestOn(Ids, work) /\ req \in [Request -> {Idle} \cup Work]
        /\ products \in Seq(Product) /\ TypeInv
    BY <1>1, WorkTypes DEF KnownInv, TypeInv, TypeOK
  <1>3. Known(work)
    BY <1>2, WorkIsNotIdle DEF KnownInv
  <1>4. /\ \A n \in work.errors : n < work.item
        /\ work.item \in Nat /\ work.errors \subseteq Nat
    BY <1>1, <1>2, <1>3 DEF Known, Work
  <1>5. work.item \notin work.errors
    BY <1>4
  <1>6. ~ (new.errors = work.errors /\ new.step # "failed")
    BY <1>5
  <1>7. new # NextItem(work)
    <2>1. \A n \in work.errors : n <= work.item
      BY <1>4
    <2> QED
      BY <1>2, <1>6, <2>1, NextItemFresh
  <1>8. work.step \in {"find name", "create name"} => new # Ensuring(work, Tail(work.names))
    <2> HAVE work.step \in {"find name", "create name"}
    <2>1. work.names # << >> /\ work.names \in Seq(Name)
      BY <1>2, WorkIsNotIdle DEF RequestOn, Work
    <2>2. Tail(work.names) \in Seq(Name)
      BY <2>1, FirstName
    <2> QED
      BY <1>2, <1>4, <1>6, <2>2, EnsuringFresh
  <1>9. ASSUME NEW state, Become(r, state) \/ BecomeWriting(r, state)
        PROVE  new = state
    BY <1>2, <1>9 DEF Become, BecomeWriting
  <1>10. CASE FindName(r)
    <2> DEFINE next == [work EXCEPT !.step = "create name"]
    <2>1. new = Ensuring(work, Tail(work.names)) \/ new = next
      BY <1>9, <1>10 DEF FindName
    <2>2. next.errors = work.errors /\ next.step # "failed"
      BY <1>2 DEF Work
    <2> HIDE DEF next
    <2> QED
      BY <1>6, <1>8, <1>10, <2>1, <2>2 DEF FindName
  <1>11. CASE CreateName(r)
    <2>1. work.step = "create name"
      BY <1>11 DEF CreateName
    <2>2. CASE Head(work.names) \in names
      BY <1>3, <2>1, <2>2 DEF Known
    <2>3. CASE Head(work.names) \notin names
      BY <1>8, <1>9, <1>11, <2>1, <2>3 DEF CreateName
    <2> QED
      BY <2>2, <2>3
  <1>12. CASE Find(r)
    <2> DEFINE matches == Matches(work.job, Current(work))
               seen == [q \in Request |-> Torn(work.job, work.item, req[q])]
               creating == [work EXCEPT !.step = "create"]
    <2>1. ASSUME Become(r, creating)
          PROVE  FALSE
      <3>1. new = creating
        BY <1>9, <2>1
      <3>2. creating.errors = work.errors /\ creating.step # "failed"
        BY <1>2 DEF Work
      <3> HIDE DEF creating
      <3> QED
        BY <1>6, <3>1, <3>2
    <2>2. ASSUME NEW id \in matches,
                 req' = [seen EXCEPT ![r].step = "update", ![r].id = id,
                                     ![r].found = [sku   |-> products[id].sku,
                                                   axo   |-> products[id].axo,
                                                   price |-> products[id].price]]
          PROVE  FALSE
      <3> DEFINE found == [sku |-> products[id].sku, axo |-> products[id].axo,
                           price |-> products[id].price]
                 torn == [work EXCEPT !.torn = TRUE]
      <3>1. seen[r] = work \/ seen[r] = torn
        BY DEF Torn
      <3>2. torn \in Work /\ torn.errors = work.errors
        BY <1>2, <1>4 DEF Work
      <3>3. seen[r] \in Work /\ seen[r].errors = work.errors
        <4> HIDE DEF seen, torn
        <4> QED
          BY <1>2, <3>1, <3>2
      <3>4. seen = [q \in Request |-> seen[q]]
        OBVIOUS
      <3> HIDE DEF seen, found
      <3>5. new = [seen[r] EXCEPT !.step = "update", !.id = id, !.found = found]
        BY <2>2, <3>4 DEF found
      <3>6. new.step = "update" /\ new.errors = work.errors
        BY <3>3, <3>5 DEF Work
      <3> QED
        BY <1>6, <3>6
    <2> QED
      BY <1>12, <2>1, <2>2 DEF Find
  <1>13. CASE Create(r)
    <2>1. work.step = "create" /\ Current(work) = Fetched[work.job][work.item]
      BY <1>13 DEF Create, Current
    <2>2. Clashes(0, Made(work))
      BY <1>7, <1>9, <1>13 DEF Create
    <2>3. PICK other \in Ids : \/ products[other].sku = Made(work).sku
                               \/ Made(work).axo # 0 /\ products[other].axo = Made(work).axo
      BY <2>2 DEF Clashes
    <2>4. /\ Made(work).sku = Current(work).sku
          /\ Made(work).axo # 0 =>
               Source[work.job] = "axonaut" /\ Made(work).axo = Current(work).axo
      BY DEF Made
    <2>5. other \in Matches(work.job, Current(work))
      BY <2>3, <2>4 DEF Matches
    <2> QED
      BY <1>3, <2>1, <2>5 DEF Known
  <1>14. CASE UpdateAxonaut(r)
    <2> DEFINE id == work.id
               item == Current(work)
               product == Refreshed(products[id], item, work.found)
    <2>1. work.step = "update" /\ Source[work.job] = "axonaut" /\ id \in Ids
      BY <1>2, <1>14, WorkIsNotIdle DEF UpdateAxonaut, OfAxonaut, RequestOn
    <2>2. Clashes(id, product)
      BY <1>7, <1>9, <1>14 DEF UpdateAxonaut
    <2>3. PICK other \in Ids \ {id} : \/ products[other].sku = product.sku
                                      \/ product.axo # 0 /\ products[other].axo = product.axo
      BY <2>2 DEF Clashes
    <2>4. SUFFICES ASSUME ~ work.stale
                   PROVE  Cardinality(Matches(work.job, item)) > 1
      OBVIOUS
    <2>5. /\ id \in Matches(work.job, item)
          /\ work.found.sku = products[id].sku /\ work.found.axo = products[id].axo
      BY <1>3, <2>1, <2>4 DEF Known
    <2>6. products[id] \in Product
      BY <1>2, <2>1 DEF Ids
    <2>7. /\ product.sku = item.sku
          /\ product.axo = IF item.axo # 0 THEN item.axo ELSE products[id].axo
      <3> HIDE DEF item, id
      <3> QED
        BY <2>5, <2>6 DEF Refreshed, Product
    <2>8. products[other].axo = products[id].axo => products[id].axo = 0
      BY <2>1, <2>3 DEF KnownInv, OneOwner
    <2>9. other \in Matches(work.job, item)
      <3> HIDE DEF product, item, id
      <3> QED
        BY <2>1, <2>3, <2>7, <2>8 DEF Matches
    <2> QED
      BY <1>2, <2>3, <2>5, <2>9, TwoMatches
  <1>15. CASE UpdateHusse(r)
    <2> DEFINE owners == {id \in Ids : products[id].sku = Current(work).sku}
    <2>1. work.step = "update" /\ Source[work.job] = "husse"
      BY <1>15 DEF UpdateHusse, OfHusse
    <2>2. Matches(work.job, Current(work)) = owners
      BY <2>1 DEF Matches
    <2>3. owners = {}
      BY <1>7, <1>9, <1>15 DEF UpdateHusse
    <2> QED
      BY <1>3, <2>1, <2>2, <2>3 DEF Known
  <1>16. ~ Fails(r)
    <2> SUFFICES ASSUME Fails(r)
                 PROVE  FALSE
      OBVIOUS
    <2> PICK noted : noted = [work EXCEPT !.errors = @ \cup {work.item}]
      OBVIOUS
    <2>1. new = Refused(work) /\ Source[work.job] = "axonaut"
          /\ lost' = [lost EXCEPT ![work.job] = @ \cup {work.item}]
      BY <1>9 DEF Fails, OfAxonaut
    <2>2. new = NextItem(noted)
      BY <2>1 DEF Refused
    <2>3. /\ noted \in Work /\ noted.item = work.item /\ noted.job = work.job
          /\ noted.errors = work.errors \cup {work.item}
      <3>1. work.item \in DOMAIN Fetched[work.job] /\ work.errors \subseteq DOMAIN Fetched[work.job]
        BY <1>2, WorkIsNotIdle DEF RequestOn
      <3> QED
        BY <1>2, <3>1, NotedTypes
    <2>4. \A n \in noted.errors : n <= noted.item
      BY <1>4, <2>3
    <2>5. new.step # "failed"
      BY <1>2, <2>2, <2>3, <2>4, NextItemFresh
    <2>6. work.item \in lost'[work.job]
      <3>1. lost \in [Import -> SUBSET Nat]
        BY <1>2 DEF TypeInv, TypeOK
      <3> QED
        BY <1>2, <2>1, <3>1
    <2> QED
      BY <2>5, <2>6
  <1> QED
    BY <1>10, <1>11, <1>12, <1>13, <1>14, <1>15, <1>16, <1>1 DEF Own, Pass

\* However many imports run and users edit, the database refuses an import only
\* what it could see coming, two products for one item, or what somebody wrote
\* since: the looks of importProducts and upsertProducts before they write miss
\* nothing that the unique keys of schema.prisma hold against them.
THEOREM RefusalsAlwaysExplained == Spec => RefusalsExplained
  <1>1. Init => KnownInv
    <2> SUFFICES ASSUME Init
                 PROVE  KnownInv
      OBVIOUS
    <2>1. TypeInv
      BY CatalogueAssumption DEF Init, TypeInv, TypeOK, RequestOn, Idle
    <2>2. Ids = {}
      BY DEF Init, Ids
    <2> QED
      BY <2>1, <2>2 DEF Init, KnownInv, OneOwner
  <1>2. KnownInv /\ [Next]_vars => KnownInv'
    BY KnownStep
  <1> DEFINE Explained ==
        \A r \in Request :
          LET work == req[r] IN
          work # Idle /\ work.step \notin {"pass", "done", "failed"} /\ req'[r] # Idle
          /\ (req'[r].step = "failed" \/ work.item \in req'[r].errors \ lost'[work.job]) =>
               work.stale \/ Cardinality(Matches(work.job, Current(work))) > 1
  <1>3. KnownInv /\ [Next]_vars => [Explained]_vars
    <2> SUFFICES ASSUME KnownInv, [Next]_vars, NEW r \in Request,
                        req[r] # Idle, req[r].step \notin {"pass", "done", "failed"},
                        req'[r] # Idle,
                        \/ req'[r].step = "failed"
                        \/ req[r].item \in req'[r].errors \ lost'[req[r].job]
                 PROVE  req[r].stale \/ Cardinality(Matches(req[r].job, Current(req[r]))) > 1
      OBVIOUS
    <2>1. TypeInv /\ req[r] \in Work /\ Known(req[r])
      BY DEF KnownInv, TypeInv, TypeOK
    <2>2. CASE \E j \in Import : Start(r, j)
      BY <2>2 DEF Start
    <2>3. CASE Own(r)
      BY <2>3, OwnRefusal
    <2>4. CASE Alike(req[r], req'[r])
      <3>1. \A n \in req[r].errors : n < req[r].item
        BY <2>1 DEF Known
      <3>2. req[r].item \in Nat
        BY <2>1 DEF Work
      <3> QED
        BY <2>4, <3>1, <3>2 DEF Alike
    <2> QED
      BY <2>1, <2>2, <2>3, <2>4, StepOf
  <1> QED
    BY <1>1, <1>2, <1>3, PTL DEF Spec, RefusalsExplained
-----------------------------------------------------------------------------
(***************************************************************************)
(* What importProducts is for.  Take a catalogue of Axonaut without two     *)
(* items of one reference or id, and an import of it that nothing but       *)
(* imports of the same catalogue disturbed and no disputed item tore: Good. *)
(***************************************************************************)
Good(state) ==
    /\ state # Idle /\ Source[state.job] = "axonaut"
    /\ state.writers \subseteq {state.job} /\ ~ state.torn
    /\ Distinct(Fetched[state.job])

Active(state) == state.step \notin {"done", "failed"}

\* About to be refused the name that it looked for in vain.
Doomed(all, state) == state.step = "create name" /\ Head(state.names) \in all

\* A good import that has still to give item n its product.
Ahead(all, state, job, n) ==
    /\ Good(state) /\ state.job = job /\ Active(state)
    /\ state.item < n \/ (state.item = n /\ ~ Doomed(all, state))

Shown(item) == \E id \in Ids : Shows(products[id], item)

\* The packaging of an item that was gone through is there, even if the item was
\* refused, unless a call for it failed: gone are the items that were lost so.
Packed(all, item) == item.sku # None /\ item.packaging # None => Packaging(item.packaging) \in all

Named(all, gone, state) ==
    LET items == Fetched[state.job] IN
    /\ state.step = "pass" => Current(state).sku = None
    /\ state.step \in {"find name", "create name"} =>
         /\ Current(state).packaging # None
         /\ state.names = << Packaging(Current(state).packaging) >>
    /\ state.step \in {"find", "create", "update"} => Packed(all, Current(state))
    /\ state.step = "done" => state.item \in gone \/ Packed(all, Current(state))
    /\ \A n \in DOMAIN items : n < state.item => n \in gone \/ Packed(all, items[n])

\* The product that a good import is about to update is that of its item alone,
\* and has the reference and the id that were read or already those of the item.
Held(state) ==
    LET items == Fetched[state.job]
        item  == Current(state) IN
    /\ Matches(state.job, item) = {state.id}
    /\ \A m \in DOMAIN items \ {state.item} : state.id \notin Matches(state.job, items[m])
    /\ products[state.id].sku \in {state.found.sku, item.sku}
    /\ \/ products[state.id].axo = state.found.axo
       \/ item.axo # 0 /\ products[state.id].axo = item.axo

\* The one that a good import is about to create is not there, or another import
\* has created it as it should be.
Missing(state) == Matches(state.job, Current(state)) = {} \/ Shown(Current(state))

NamesInv == \A r \in Request : OfAxonaut(req[r]) => Named(names, lost[req[r].job], req[r])

HeldInv == \A r \in Request : Good(req[r]) =>
    /\ req[r].step = "update" => Held(req[r])
    /\ req[r].step = "create" => Missing(req[r])

\* Nothing is lost between two imports: an item that one of them was refused is
\* in the catalogue, or another good import has it ahead, or a call for it failed.
HandledInv == \A r \in Request : Good(req[r]) =>
    \A n \in DOMAIN Fetched[req[r].job] :
        Fetched[req[r].job][n].sku # None =>
            \/ n \in lost[req[r].job]
            \/ Shown(Fetched[req[r].job][n])
            \/ \E q \in Request : Ahead(names, req[q], req[r].job, n)

CurrentInv == KnownInv /\ NamesInv /\ HeldInv /\ HandledInv

\* What no own step but a look at a disputed item changes.
Same(old, new) ==
    /\ new # Idle /\ new.job = old.job
    /\ new.writers = old.writers /\ new.torn = old.torn

\* At the first call for an item.
Begun(state) ==
    /\ state.step \in {"pass", "find name", "find"}
    /\ state.step = "pass" => Current(state).sku = None
    /\ state.step # "pass" => state.names = NamesOf(state.job, Current(state))
    /\ state.step = "find" => state.names = << >>
    /\ state.step = "find name" => state.names # << >>

Moved(old, new) ==
    /\ Same(old, new)
    /\ \/ new.item = old.item + 1 /\ new.item \in DOMAIN Fetched[old.job] /\ Begun(new)
       \/ new.item = old.item /\ old.item = Len(Fetched[old.job]) /\ new.step = "done"

LEMMA EnsuringSame ==
    ASSUME NEW work \in Work, NEW left \in Seq(Name)
    PROVE  /\ Same(work, Ensuring(work, left))
           /\ Ensuring(work, left).item = work.item /\ Ensuring(work, left).names = left
           /\ Ensuring(work, left).step = IF left = << >> THEN "find" ELSE "find name"
  <1>1. PICK step \in {"find", "find name"} :
           /\ Ensuring(work, left) = [work EXCEPT !.names = left, !.step = step]
           /\ step = IF left = << >> THEN "find" ELSE "find name"
    BY DEF Ensuring
  <1>2. Ensuring(work, left) \in Work
    BY <1>1 DEF Work
  <1> QED
    BY <1>1, <1>2, WorkIsNotIdle DEF Same, Work

LEMMA AtItemBegins ==
    ASSUME NEW work \in Work, NEW n \in DOMAIN Fetched[work.job]
    PROVE  /\ Same(work, AtItem(work, n)) /\ Begun(AtItem(work, n))
           /\ AtItem(work, n).item = n
  <1> DEFINE begun == [work EXCEPT !.item = n, !.stale = FALSE, !.names = << >>,
                                   !.id = 0, !.found = Unread]
             passed == [begun EXCEPT !.step = "pass"]
             left == NamesOf(work.job, Fetched[work.job][n])
  <1>1. work.job \in Import /\ n \in Nat
    BY ItemTypes DEF Work
  <1>2. begun \in Work /\ begun.item = n /\ Same(work, begun)
    <2>1. begun \in Work
      BY <1>1, NoNames, UnreadType DEF Work
    <2> QED
      BY <2>1, WorkIsNotIdle DEF Same, Work
  <1>3. CASE Fetched[work.job][n].sku = None
    <2>1. AtItem(work, n) = passed
      BY <1>3 DEF AtItem
    <2>2. passed \in Work /\ passed.step = "pass" /\ passed.item = n /\ passed.job = work.job
          /\ passed.writers = work.writers /\ passed.torn = work.torn
      BY <1>2 DEF Work, Same
    <2> HIDE DEF passed
    <2> QED
      BY <1>3, <2>1, <2>2, WorkIsNotIdle DEF Same, Begun, Current
  <1>4. CASE Fetched[work.job][n].sku # None
    <2>1. AtItem(work, n) = Ensuring(begun, left)
      BY <1>4 DEF AtItem
    <2>2. left \in Seq(Name)
      BY <1>1, NamesTypes
    <2> HIDE DEF begun, left
    <2> PICK next : next = Ensuring(begun, left)
      OBVIOUS
    <2>3. /\ Same(begun, next) /\ next.item = begun.item /\ next.names = left
          /\ next.step = IF left = << >> THEN "find" ELSE "find name"
      BY <1>2, <2>2, EnsuringSame
    <2>4. /\ Same(work, next) /\ next.item = n /\ AtItem(work, n) = next
          /\ Current(next) = Fetched[work.job][n]
      BY <1>2, <2>1, <2>3 DEF Same, Current
    <2>5. NamesOf(next.job, Current(next)) = left
      BY <2>4 DEF left, Same
    <2> QED
      BY <2>3, <2>4, <2>5 DEF Begun
  <1> QED
    BY <1>3, <1>4

LEMMA NextItemMoves ==
    ASSUME NEW work \in Work, work.item \in DOMAIN Fetched[work.job]
    PROVE  Moved(work, NextItem(work))
  <1>1. work.job \in Import
    BY DEF Work
  <1>2. CASE work.item < Len(Fetched[work.job])
    <2>1. work.item + 1 \in DOMAIN Fetched[work.job]
      BY <1>1, <1>2, ItemTypes
    <2>2. NextItem(work) = AtItem(work, work.item + 1)
      BY <1>2 DEF NextItem
    <2> QED
      BY <2>1, <2>2, AtItemBegins DEF Moved
  <1>3. CASE ~ (work.item < Len(Fetched[work.job]))
    <2> DEFINE done == [work EXCEPT !.step = "done", !.names = << >>]
    <2>1. NextItem(work) = done
      BY <1>3 DEF NextItem
    <2>2. done \in Work
      BY NoNames, UnreadType DEF Work
    <2>3. Same(work, done) /\ done.item = work.item /\ done.step = "done"
      BY <2>2, WorkIsNotIdle DEF Same, Work
    <2>4. work.item = Len(Fetched[work.job])
      BY <1>1, <1>3, ItemTypes
    <2> HIDE DEF done
    <2> QED
      BY <2>1, <2>3, <2>4 DEF Moved
  <1> QED
    BY <1>2, <1>3

\* The errors that are noted do not matter.
LEMMA NotedMoves ==
    ASSUME NEW work \in Work, work.item \in DOMAIN Fetched[work.job],
           work.errors \subseteq DOMAIN Fetched[work.job],
           NEW noted, noted = [work EXCEPT !.errors = @ \cup {work.item}]
    PROVE  Moved(work, NextItem(noted))
  <1>1. noted \in Work /\ noted.job = work.job /\ noted.item = work.item
    BY NotedTypes
  <1>2. noted.writers = work.writers /\ noted.torn = work.torn
    BY DEF Work
  <1>3. Moved(noted, NextItem(noted))
    BY <1>1, NextItemMoves
  <1> QED
    BY <1>1, <1>2, <1>3 DEF Moved, Same

LEMMA RefusedMoves ==
    ASSUME NEW work \in Work, work.item \in DOMAIN Fetched[work.job],
           work.errors \subseteq DOMAIN Fetched[work.job], Source[work.job] = "axonaut"
    PROVE  Moved(work, Refused(work))
  BY NotedMoves DEF Refused

-----------------------------------------------------------------------------
\* The steps that write to the catalogue for an import.
Writes(r) ==
    \/ CreateName(r) /\ Head(req[r].names) \notin names
    \/ Create(r) /\ ~ Clashes(0, Made(req[r]))
    \/ UpdateAxonaut(r) /\ ~ Clashes(req[r].id, Refreshed(products[req[r].id], Current(req[r]),
                                                          req[r].found))
    \/ UpdateHusse(r)

\* What a step is for the history of the requests: a write, a look that tears, a
\* fault or a user in between, or nothing.
Quiet == /\ UNCHANGED <<products, names>>
         /\ \A q \in Request : \/ req[q] = Idle
                               \/ Same(req[q], req'[q])
                               \/ req'[q] = Idle /\ ~ Active(req[q])

Tearing == /\ UNCHANGED <<products, names>>
           /\ \E job \in Import : \A q \in Request :
                IF req[q] = Idle THEN req'[q] = Idle
                ELSE /\ req'[q] # Idle /\ req'[q].job = req[q].job /\ req'[q].writers = req[q].writers
                     /\ req[q].job = job => req'[q].torn
                     /\ req[q].job # job => Same(req[q], req'[q])

Spoiling == \A q \in Request : req'[q] # Idle => req'[q].writers \cap {"user", "fault"} # {}

Writing(r) ==
    /\ Writes(r) /\ Same(req[r], req'[r])
    /\ \A q \in Request \ {r} :
         req'[q] = Disturbed(req[q], {req[r].job} \cup req[r].writers, req[r].torn)

LEMMA BecomeQuiet ==
    ASSUME TypeInv, NEW r \in Request, NEW state, Become(r, state),
           UNCHANGED <<products, names>>,
           \/ req[r] = Idle
           \/ Same(req[r], state)
           \/ state = Idle /\ ~ Active(req[r])
    PROVE  Quiet
  <1>1. /\ req' = [req EXCEPT ![r] = state] /\ req \in [Request -> {Idle} \cup Work]
    BY DEF Become, TypeInv, TypeOK
  <1>2. ASSUME NEW q \in Request, q # r
        PROVE  req[q] = Idle \/ Same(req[q], req'[q])
    BY <1>1, <1>2 DEF Same
  <1>3. req'[r] = state
    BY <1>1
  <1> QED
    BY <1>2, <1>3 DEF Quiet

LEMMA BecomeWrites ==
    ASSUME NEW r \in Request, NEW state, BecomeWriting(r, state), Same(req[r], state), Writes(r)
    PROVE  Writing(r)
  BY DEF BecomeWriting, Writing

\* What is true of a request on its way, whichever step it takes.
LEMMA AtWork ==
    ASSUME TypeInv, NEW r \in Request, NEW work, work = req[r], work.step # "idle"
    PROVE  /\ work \in Work /\ work # Idle /\ work.job \in Import
           /\ work.item \in DOMAIN Fetched[work.job] /\ work.item \in Nat
           /\ work.errors \subseteq DOMAIN Fetched[work.job]
           /\ Same(work, NextItem(work)) /\ Same(work, Refused(work))
           /\ work.step \notin {"pass", "done", "failed"} => Current(work).sku # None
           /\ work.step \in {"find name", "create name"} <=> work.names # << >>
           /\ work.step \in {"find name", "create name"} =>
                Same(work, Ensuring(work, Tail(work.names)))
           /\ work.step = "update" => work.id \in Ids
  <1>1. /\ work \in Work /\ work # Idle /\ work.job \in Import
        /\ work.item \in DOMAIN Fetched[work.job]
        /\ work.errors \subseteq DOMAIN Fetched[work.job] /\ RequestOn(Ids, work)
    BY WorkTypes
  <1>2. Same(work, NextItem(work))
    BY <1>1, NextItemMoves DEF Moved
  <1>3. Same(work, Refused(work))
    <2>1. CASE Source[work.job] = "husse"
      <3> DEFINE failed == [work EXCEPT !.step = "failed", !.names = << >>]
      <3>1. Refused(work) = failed
        BY <2>1 DEF Refused
      <3>2. failed \in Work
        BY <1>1, NoNames, UnreadType DEF Work
      <3>3. Same(work, failed)
        BY <1>1, <3>2, WorkIsNotIdle DEF Same, Work
      <3> QED
        BY <3>1, <3>3
    <2>2. CASE Source[work.job] = "axonaut"
      BY <1>1, <2>2, RefusedMoves DEF Moved
    <2> QED
      BY <1>1, <2>1, <2>2, ItemTypes
  <1>4. work.step \in {"find name", "create name"} => Same(work, Ensuring(work, Tail(work.names)))
    <2> HAVE work.step \in {"find name", "create name"}
    <2>1. work.names # << >> /\ work.names \in Seq(Name)
      BY <1>1 DEF RequestOn, Work
    <2>2. Tail(work.names) \in Seq(Name)
      BY <2>1, FirstName
    <2> QED
      BY <1>1, <2>2, EnsuringSame
  <1>5. work.item \in Nat
    BY <1>1, ItemTypes
  <1> QED
    BY <1>1, <1>2, <1>3, <1>4, <1>5 DEF RequestOn

\* The look for a product: a disputed item tears every import of its catalogue.
LEMMA FindKind ==
    ASSUME TypeInv, NEW r \in Request, Find(r)
    PROVE  \/ Quiet /\ (req'[r].step = "update" => ~ Disputed(req[r].job, req[r].item))
           \/ Tearing /\ req'[r].torn
  <1> DEFINE work == req[r]
             seen == [q \in Request |-> Torn(work.job, work.item, req[q])]
             creating == [work EXCEPT !.step = "create"]
  <1>1. work.step = "find" /\ UNCHANGED <<products, names>>
    BY DEF Find
  <1>2. work \in Work /\ work # Idle /\ work.job \in Import
    BY <1>1, AtWork
  <1>3. req \in [Request -> {Idle} \cup Work]
    BY DEF TypeInv, TypeOK
  <1>4. CASE Become(r, creating)
    <2>1. creating \in Work
      BY <1>2 DEF Work
    <2>2. Same(work, creating) /\ creating.step = "create"
      BY <1>2, <2>1, WorkIsNotIdle DEF Same, Work
    <2> HIDE DEF creating
    <2>3. req'[r].step # "update"
      BY <1>3, <1>4, <2>2 DEF Become
    <2> QED
      BY <1>1, <1>4, <2>2, <2>3, BecomeQuiet
  <1>5. ASSUME NEW id, NEW found,
               req' = [seen EXCEPT ![r].step = "update", ![r].id = id, ![r].found = found]
        PROVE  \/ Quiet /\ ~ Disputed(work.job, work.item)
               \/ Tearing /\ req'[r].torn
    <2> DEFINE next(q) == IF q = r THEN [seen[q] EXCEPT !.step = "update", !.id = id, !.found = found]
                          ELSE seen[q]
               tears(q) == IF req[q].job = work.job /\ Disputed(work.job, work.item) THEN TRUE
                           ELSE req[q].torn
    <2>1. \A q \in Request : req'[q] = next(q)
      <3>1. seen = [q \in Request |-> seen[q]]
        OBVIOUS
      <3> HIDE DEF seen
      <3> QED
        BY <1>5, <3>1
    <2>2. ASSUME NEW q \in Request, req[q] # Idle
          PROVE  /\ seen[q] \in Work /\ seen[q].job = req[q].job
                 /\ seen[q].writers = req[q].writers /\ seen[q].torn = tears(q)
      <3>1. req[q] \in Work
        BY <1>3, <2>2
      <3>2. CASE req[q].job = work.job /\ Disputed(work.job, work.item)
        <4>1. seen[q] = [req[q] EXCEPT !.torn = TRUE]
          BY <2>2, <3>2 DEF Torn
        <4> HIDE DEF seen
        <4> QED
          BY <3>1, <3>2, <4>1 DEF Work
      <3>3. CASE ~ (req[q].job = work.job /\ Disputed(work.job, work.item))
        <4>1. seen[q] = req[q]
          BY <3>3 DEF Torn
        <4> HIDE DEF seen
        <4> QED
          BY <3>1, <3>3, <4>1
      <3> QED
        BY <3>2, <3>3
    <2>3. ASSUME NEW q \in Request, req[q] # Idle
          PROVE  /\ req'[q] # Idle /\ req'[q].job = req[q].job
                 /\ req'[q].writers = req[q].writers /\ req'[q].torn = tears(q)
      <3> HIDE DEF seen, tears
      <3>1. CASE q = r
        <4> PICK old : old = seen[q]
          OBVIOUS
        <4> DEFINE new == [old EXCEPT !.step = "update", !.id = id, !.found = found]
        <4>1. old \in Work
          BY <2>2, <2>3
        <4>2. new.step = "update" /\ new.job = old.job /\ new.writers = old.writers
              /\ new.torn = old.torn
          BY <4>1 DEF Work
        <4>3. req'[q] = new
          BY <2>1, <3>1
        <4> HIDE DEF new
        <4> QED
          BY <2>2, <2>3, <4>2, <4>3 DEF Idle
      <3>2. CASE q # r
        <4>1. req'[q] = seen[q]
          BY <2>1, <3>2
        <4> QED
          BY <2>2, <2>3, <4>1, WorkIsNotIdle
      <3> QED
        BY <3>1, <3>2
    <2>4. ASSUME NEW q \in Request, req[q] = Idle
          PROVE  req'[q] = Idle
      BY <1>2, <2>1, <2>4 DEF Torn
    <2>5. CASE Disputed(work.job, work.item)
      <3>1. ASSUME NEW q \in Request, req[q] # Idle
            PROVE  /\ req[q].job = work.job => req'[q].torn
                   /\ req[q].job # work.job => Same(req[q], req'[q])
        BY <2>3, <2>5, <3>1 DEF Same
      <3>2. req'[r].torn
        BY <1>2, <3>1
      <3> HIDE DEF next, seen
      <3> QED
        BY <1>1, <1>2, <2>3, <2>4, <3>1, <3>2, ZenonT(60) DEF Tearing
    <2>6. CASE ~ Disputed(work.job, work.item)
      <3>1. ASSUME NEW q \in Request, req[q] # Idle
            PROVE  Same(req[q], req'[q])
        BY <2>3, <2>6, <3>1 DEF Same
      <3> QED
        BY <1>1, <2>6, <3>1 DEF Quiet
    <2> QED
      BY <2>5, <2>6
  <1>6. \/ Become(r, creating)
        \/ \E id \in Matches(work.job, Current(work)) :
             req' = [seen EXCEPT ![r].step = "update", ![r].id = id,
                                 ![r].found = [sku   |-> products[id].sku,
                                               axo   |-> products[id].axo,
                                               price |-> products[id].price]]
    BY DEF Find
  <1>7. ASSUME NEW id,
               req' = [seen EXCEPT ![r].step = "update", ![r].id = id,
                                   ![r].found = [sku   |-> products[id].sku,
                                                 axo   |-> products[id].axo,
                                                 price |-> products[id].price]]
        PROVE  \/ Quiet /\ ~ Disputed(work.job, work.item)
               \/ Tearing /\ req'[r].torn
    <2> PICK found : found = [sku   |-> products[id].sku, axo |-> products[id].axo,
                              price |-> products[id].price]
      OBVIOUS
    <2> HIDE DEF seen
    <2>1. req' = [seen EXCEPT ![r].step = "update", ![r].id = id, ![r].found = found]
      BY <1>7
    <2> QED
      BY <1>5, <2>1
  <1> HIDE DEF seen, creating
  <1> QED
    BY <1>4, <1>6, <1>7

LEMMA StepKind ==
    ASSUME TypeInv, [Next]_vars
    PROVE  Quiet \/ Tearing \/ Spoiling \/ \E r \in Request : Writing(r)
  <1>a. req \in [Request -> {Idle} \cup Work]
    BY DEF TypeInv, TypeOK
  <1>1. ASSUME ByUser
        PROVE  Spoiling
    <2> SUFFICES ASSUME NEW q \in Request, req'[q] # Idle
                 PROVE  "user" \in req'[q].writers
      BY DEF Spoiling
    <2>1. req'[q] = Disturbed(req[q], {"user"}, FALSE)
      BY <1>1 DEF ByUser
    <2>2. req[q] \in Work
      BY <1>a, <2>1 DEF Disturbed
    <2>3. req'[q] = [req[q] EXCEPT !.writers = @ \cup {"user"}, !.torn = @ \/ FALSE, !.stale = TRUE]
      BY <2>1 DEF Disturbed
    <2>4. req'[q].writers = req[q].writers \cup {"user"}
      BY <2>2, <2>3 DEF Work
    <2> QED
      BY <2>4
  <1>2. ASSUME NEW r \in Request, Abort(r)
        PROVE  Spoiling
    <2> SUFFICES ASSUME NEW q \in Request, req'[q] # Idle
                 PROVE  "fault" \in req'[q].writers
      BY DEF Spoiling
    <2>1. req'[q] = [req[q] EXCEPT !.writers = @ \cup {"fault"}] /\ req[q] # Idle
      BY <1>2 DEF Abort
    <2>2. req[q] \in Work
      BY <1>a, <2>1
    <2>3. req'[q].writers = req[q].writers \cup {"fault"}
      BY <2>1, <2>2 DEF Work
    <2> QED
      BY <2>3
  <1>3. ASSUME NEW r \in Request, NEW j \in Import, Start(r, j)
        PROVE  Quiet
    BY <1>3, BecomeQuiet DEF Start
  <1>4. ASSUME NEW r \in Request, Return(r)
        PROVE  Quiet
    BY <1>4, BecomeQuiet DEF Return, Active
  <1>5. ASSUME NEW r \in Request, Pass(r)
        PROVE  Quiet
    <2> PICK work : work = req[r]
      OBVIOUS
    <2> DEFINE noted == [work EXCEPT !.errors = @ \cup {work.item}]
    <2>1. /\ UNCHANGED <<products, names>> /\ work.step = "pass"
          /\ Become(r, NextItem(work)) \/ Become(r, NextItem(noted))
      BY <1>5 DEF Pass
    <2>2. Same(work, NextItem(work)) /\ Same(work, NextItem(noted))
      BY <2>1, AtWork, NotedMoves DEF Moved
    <2> HIDE DEF noted
    <2> QED
      BY <2>1, <2>2, BecomeQuiet
  <1>6. ASSUME NEW r \in Request, FindName(r)
        PROVE  Quiet
    <2> PICK work : work = req[r]
      OBVIOUS
    <2> DEFINE next == [work EXCEPT !.step = "create name"]
    <2>1. /\ UNCHANGED <<products, names>> /\ work.step = "find name"
          /\ Become(r, Ensuring(work, Tail(work.names))) \/ Become(r, next)
      BY <1>6 DEF FindName
    <2>2. work \in Work /\ Same(work, Ensuring(work, Tail(work.names)))
      BY <2>1, AtWork
    <2>3. next \in Work
      BY <2>2 DEF Work
    <2>4. Same(work, next)
      BY <2>2, <2>3, WorkIsNotIdle DEF Same, Work
    <2> HIDE DEF next
    <2> QED
      BY <2>1, <2>2, <2>4, BecomeQuiet
  <1>7. ASSUME NEW r \in Request, CreateName(r)
        PROVE  Quiet \/ Writing(r)
    <2>1. req[r].step = "create name" /\ UNCHANGED products
      BY <1>7 DEF CreateName
    <2>2. Same(req[r], Ensuring(req[r], Tail(req[r].names))) /\ Same(req[r], Refused(req[r]))
      BY <2>1, AtWork
    <2>3. CASE Head(req[r].names) \in names
      BY <1>7, <2>1, <2>2, <2>3, BecomeQuiet DEF CreateName
    <2>4. CASE Head(req[r].names) \notin names
      BY <1>7, <2>1, <2>2, <2>4, BecomeWrites DEF CreateName, Writes
    <2> QED
      BY <2>3, <2>4
  <1>8. ASSUME NEW r \in Request, Create(r)
        PROVE  Quiet \/ Writing(r)
    <2>1. req[r].step = "create" /\ UNCHANGED names
      BY <1>8 DEF Create
    <2>2. Same(req[r], NextItem(req[r])) /\ Same(req[r], Refused(req[r]))
      BY <2>1, AtWork
    <2>3. CASE Clashes(0, Made(req[r]))
      BY <1>8, <2>1, <2>2, <2>3, BecomeQuiet DEF Create
    <2>4. CASE ~ Clashes(0, Made(req[r]))
      BY <1>8, <2>1, <2>2, <2>4, BecomeWrites DEF Create, Writes
    <2> QED
      BY <2>3, <2>4
  <1>9. ASSUME NEW r \in Request, UpdateAxonaut(r)
        PROVE  Quiet \/ Writing(r)
    <2> DEFINE product == Refreshed(products[req[r].id], Current(req[r]), req[r].found)
    <2>1. req[r].step = "update" /\ UNCHANGED names
      BY <1>9 DEF UpdateAxonaut
    <2>2. Same(req[r], NextItem(req[r])) /\ Same(req[r], Refused(req[r]))
      BY <2>1, AtWork
    <2>3. CASE Clashes(req[r].id, product)
      BY <1>9, <2>1, <2>2, <2>3, BecomeQuiet DEF UpdateAxonaut
    <2>4. CASE ~ Clashes(req[r].id, product)
      BY <1>9, <2>1, <2>2, <2>4, BecomeWrites DEF UpdateAxonaut, Writes
    <2> QED
      BY <2>3, <2>4
  <1>10. ASSUME NEW r \in Request, UpdateHusse(r)
         PROVE  Quiet \/ Writing(r)
    <2>1. req[r].step = "update" /\ UNCHANGED names
      BY <1>10 DEF UpdateHusse
    <2>2. Same(req[r], NextItem(req[r])) /\ Same(req[r], Refused(req[r]))
      BY <2>1, AtWork
    <2>3. CASE Become(r, Refused(req[r])) /\ UNCHANGED products
      BY <2>1, <2>2, <2>3, BecomeQuiet
    <2>4. CASE BecomeWriting(r, NextItem(req[r]))
      BY <1>10, <2>2, <2>4, BecomeWrites DEF Writes
    <2> QED
      BY <1>10, <2>3, <2>4 DEF UpdateHusse
  <1>16. ASSUME NEW r \in Request, Fails(r)
         PROVE  Quiet
    <2>1. req[r].step # "idle" /\ Become(r, Refused(req[r])) /\ UNCHANGED <<products, names>>
      BY <1>16 DEF Fails
    <2>2. Same(req[r], Refused(req[r]))
      BY <2>1, AtWork
    <2> QED
      BY <2>1, <2>2, BecomeQuiet
  <1>11. CASE UNCHANGED vars
    BY <1>11 DEF vars, Quiet, Same
  <1>12. CASE \E r \in Request : Serve(r)
    BY <1>2, <1>3, <1>4, <1>5, <1>6, <1>7, <1>8, <1>9, <1>10, <1>12, <1>16, FindKind DEF Serve
  <1>13. CASE \E sku \in Sku, price \in Price : AddProduct(sku, price)
    BY <1>1, <1>13 DEF AddProduct
  <1>14. CASE \E id \in Ids, sku \in Sku, price \in Price : EditProduct(id, sku, price)
    BY <1>1, <1>14 DEF EditProduct
  <1>15. CASE \E j \in Import : \E n \in DOMAIN Fetched[j] :
                \E k \in DOMAIN NamesOf(j, Fetched[j][n]) : AddName(NamesOf(j, Fetched[j][n])[k])
    BY <1>1, <1>15 DEF AddName
  <1> QED
    BY <1>11, <1>12, <1>13, <1>14, <1>15 DEF Next

\* As long as one import of a catalogue stays good, so do the others of it, and
\* whatever is written is written by one of them.
LEMMA GoodStep ==
    ASSUME TypeInv, [Next]_vars, NEW r \in Request, Good(req'[r]), NEW job, job = req'[r].job
    PROVE  /\ req[r] # Idle => Good(req[r]) /\ req[r].job = job
           /\ \A q \in Request : Good(req[q]) /\ req[q].job = job /\ Active(req[q]) =>
                Good(req'[q]) /\ req'[q].job = job
           /\ \/ UNCHANGED <<products, names>>
              \/ \E x \in Request : Writes(x) /\ Good(req[x]) /\ req[x].job = job
  <1>a. /\ req \in [Request -> {Idle} \cup Work]
        /\ \A q \in Request : req[q] # Idle => req[q] \in Work
    BY DEF TypeInv, TypeOK
  <1>b. TypeInv'
    BY TypeStep
  <1>c. req'[r] \in Work /\ job \in Import /\ req'[r] # Idle
    <2>1. req'[r] \in Work
      BY <1>b DEF TypeInv, TypeOK, Good
    <2> QED
      BY <2>1, WorkIsNotIdle DEF Work
  <1>1. ASSUME NEW q \in Request, Same(req[q], req'[q]), req[q] # Idle
        PROVE  Good(req[q]) <=> Good(req'[q])
    BY <1>1 DEF Same, Good
  <1>2. CASE Quiet
    <2>1. req[r] # Idle => Same(req[r], req'[r])
      BY <1>2, <1>c DEF Quiet
    <2>2. ASSUME NEW q \in Request, Good(req[q]), req[q].job = job, Active(req[q])
          PROVE  Same(req[q], req'[q])
      BY <1>2, <2>2 DEF Quiet, Good
    <2>3. req[r] # Idle => Good(req[r]) /\ req[r].job = job
      BY <1>1, <2>1 DEF Same
    <2>4. ASSUME NEW q \in Request, Good(req[q]), req[q].job = job, Active(req[q])
          PROVE  Good(req'[q]) /\ req'[q].job = job
      <3>1. req[q] # Idle
        BY <2>4 DEF Good
      <3> QED
        BY <1>1, <2>2, <2>4, <3>1 DEF Same
    <2> QED
      BY <1>2, <2>3, <2>4 DEF Quiet
  <1>3. CASE Tearing
    <2> PICK torn \in Import : \A q \in Request :
                IF req[q] = Idle THEN req'[q] = Idle
                ELSE /\ req'[q] # Idle /\ req'[q].job = req[q].job
                     /\ req[q].job = torn => req'[q].torn
                     /\ req[q].job # torn => Same(req[q], req'[q])
      BY <1>3 DEF Tearing
    <2>1. req[r] # Idle /\ req[r].job = job
      BY <1>c
    <2>2. torn # job
      BY <2>1 DEF Good
    <2>3. ASSUME NEW q \in Request, req[q] # Idle, req[q].job = job
          PROVE  Same(req[q], req'[q]) /\ req'[q].job = job
      BY <2>2, <2>3
    <2>4. Good(req[r]) /\ req[r].job = job
      BY <1>1, <2>1, <2>3
    <2>5. ASSUME NEW q \in Request, Good(req[q]), req[q].job = job
          PROVE  Good(req'[q]) /\ req'[q].job = job
      <3>1. req[q] # Idle
        BY <2>5 DEF Good
      <3> QED
        BY <1>1, <2>3, <2>5, <3>1
    <2> QED
      BY <1>3, <2>4, <2>5 DEF Tearing
  <1>4. CASE Spoiling
    <2>1. req'[r].writers \cap {"user", "fault"} # {} /\ req'[r].writers \subseteq {job}
      BY <1>4, <1>c DEF Spoiling, Good
    <2>2. job \in {"user", "fault"}
      BY <2>1
    <2> QED
      BY <1>c, <2>2, CatalogueAssumption
  <1>5. ASSUME NEW x \in Request, Writing(x)
        PROVE  /\ req[r] # Idle => Good(req[r]) /\ req[r].job = job
               /\ \A q \in Request : Good(req[q]) /\ req[q].job = job /\ Active(req[q]) =>
                    Good(req'[q]) /\ req'[q].job = job
               /\ Writes(x) /\ Good(req[x]) /\ req[x].job = job
    <2>1. Writes(x) /\ Same(req[x], req'[x])
      BY <1>5 DEF Writing
    <2>2. req[x] \in Work /\ req[x] # Idle
      <3>1. req[x].step # "idle"
        BY <2>1 DEF Writes, CreateName, Create, UpdateAxonaut, UpdateHusse
      <3> QED
        BY <3>1, AtWork
    <2>3. ASSUME NEW q \in Request, q # x, req[q] # Idle
          PROVE  /\ req'[q] # Idle /\ req'[q].job = req[q].job
                 /\ req'[q].writers = req[q].writers \cup {req[x].job} \cup req[x].writers
                 /\ req'[q].torn <=> req[q].torn \/ req[x].torn
      <3>1. req[q] \in Work
        BY <1>a, <2>3
      <3> PICK tears \in BOOLEAN : tears = (req[q].torn \/ req[x].torn)
        OBVIOUS
      <3>2. req'[q] = [req[q] EXCEPT !.writers = @ \cup ({req[x].job} \cup req[x].writers),
                                     !.torn = tears, !.stale = TRUE]
        BY <1>5, <2>3 DEF Writing, Disturbed
      <3>3. /\ req'[q].job = req[q].job /\ req'[q].torn = tears /\ req'[q].step = req[q].step
            /\ req'[q].writers = req[q].writers \cup {req[x].job} \cup req[x].writers
        BY <3>1, <3>2 DEF Work
      <3>4. req'[q] # Idle
        BY <1>b, <3>1, <3>3, WorkIsNotIdle DEF Idle
      <3> QED
        BY <3>3, <3>4
    <2>4. Good(req[x]) /\ req[x].job = job /\ (req[r] # Idle => Good(req[r]) /\ req[r].job = job)
      <3>1. CASE r = x
        BY <1>1, <2>1, <2>2, <3>1 DEF Same
      <3>2. CASE r # x
        <4>1. req[r] # Idle
          BY <1>5, <1>c, <3>2 DEF Writing, Disturbed
        <4>2. /\ req'[r].job = req[r].job
              /\ req'[r].writers = req[r].writers \cup {req[x].job} \cup req[x].writers
              /\ req'[r].torn <=> req[r].torn \/ req[x].torn
          BY <2>3, <3>2, <4>1
        <4>3. req[x].job = job /\ req[x].writers \subseteq {job} /\ req[r].writers \subseteq {job}
          BY <4>2 DEF Good
        <4>4. ~ req[x].torn /\ ~ req[r].torn
          BY <4>2 DEF Good
        <4> QED
          BY <2>2, <4>1, <4>2, <4>3, <4>4 DEF Good
      <3> QED
        BY <3>1, <3>2
    <2>5. ASSUME NEW q \in Request, Good(req[q]), req[q].job = job
          PROVE  Good(req'[q]) /\ req'[q].job = job
      <3>1. CASE q = x
        BY <1>1, <2>1, <2>2, <2>5, <3>1 DEF Same
      <3>2. CASE q # x
        <4>1. /\ req'[q] # Idle /\ req'[q].job = job
              /\ req'[q].writers = req[q].writers \cup {req[x].job} \cup req[x].writers
              /\ req'[q].torn <=> req[q].torn \/ req[x].torn
          BY <2>3, <2>5, <3>2 DEF Good
        <4>2. req'[q].writers \subseteq {job}
          BY <2>4, <2>5, <4>1 DEF Good
        <4>3. ~ req'[q].torn
          BY <2>4, <2>5, <4>1 DEF Good
        <4> QED
          BY <2>5, <4>1, <4>2, <4>3 DEF Good
      <3> QED
        BY <3>1, <3>2
    <2> QED
      BY <2>1, <2>4, <2>5
  <1> QED
    BY <1>2, <1>3, <1>4, <1>5, StepKind

\* How an import begins, and what an own step and a look leave of it.
LEMMA StartBegins ==
    ASSUME TypeInv, NEW r \in Request, NEW j \in Import, Start(r, j)
    PROVE  Begun(req'[r]) /\ req'[r].item = 1 /\ req'[r].job = j
  <1> DEFINE work == [step |-> "pass", job |-> j, item |-> 1, names |-> << >>, id |-> 0,
                      found |-> Unread,
                      errors |-> {}, writers |-> {}, torn |-> FALSE, stale |-> FALSE]
  <1>1. work \in Work /\ work.job = j
    BY NoNames, UnreadType DEF Work
  <1>2. req'[r] = AtItem(work, 1)
    BY DEF Start, Become, TypeInv, TypeOK
  <1> HIDE DEF work
  <1>3. 1 \in DOMAIN Fetched[work.job]
    BY <1>1, FirstItem
  <1> QED
    BY <1>1, <1>2, <1>3, AtItemBegins DEF Same

LEMMA FindStep ==
    ASSUME TypeInv, NEW r \in Request, Find(r)
    PROVE  /\ req'[r].job = req[r].job /\ req'[r].item = req[r].item
           /\ \/ /\ req'[r].step = "create" /\ Matches(req[r].job, Current(req[r])) = {}
              \/ \E id \in Matches(req[r].job, Current(req[r])) :
                   /\ req'[r].step = "update" /\ req'[r].id = id
                   /\ req'[r].found.sku = products[id].sku
                   /\ req'[r].found.axo = products[id].axo
  <1> DEFINE work == req[r]
             matches == Matches(work.job, Current(work))
             seen == [q \in Request |-> Torn(work.job, work.item, req[q])]
             creating == [work EXCEPT !.step = "create"]
  <1>1. work.step = "find"
    BY DEF Find
  <1>2. work \in Work /\ work # Idle /\ req \in [Request -> {Idle} \cup Work]
    BY <1>1, AtWork DEF TypeInv, TypeOK
  <1>3. ASSUME matches = {}, Become(r, creating)
        PROVE  req'[r].step = "create" /\ req'[r].job = work.job /\ req'[r].item = work.item
    <2>1. req'[r] = creating
      BY <1>2, <1>3 DEF Become
    <2>2. creating.step = "create" /\ creating.job = work.job /\ creating.item = work.item
      BY <1>2 DEF Work
    <2> HIDE DEF creating, work
    <2> QED
      BY <2>1, <2>2
  <1>4. ASSUME NEW id \in matches,
               req' = [seen EXCEPT ![r].step = "update", ![r].id = id,
                                   ![r].found = [sku   |-> products[id].sku,
                                                 axo   |-> products[id].axo,
                                                 price |-> products[id].price]]
        PROVE  /\ req'[r].step = "update" /\ req'[r].id = id
               /\ req'[r].job = work.job /\ req'[r].item = work.item
               /\ req'[r].found.sku = products[id].sku
               /\ req'[r].found.axo = products[id].axo
    <2> DEFINE found == [sku |-> products[id].sku, axo |-> products[id].axo,
                         price |-> products[id].price]
               torn == [work EXCEPT !.torn = TRUE]
    <2>1. seen[r] = work \/ seen[r] = torn
      BY DEF Torn
    <2>2. torn \in Work /\ torn.job = work.job /\ torn.item = work.item
      BY <1>2 DEF Work
    <2>3. seen[r] \in Work /\ seen[r].job = work.job /\ seen[r].item = work.item
      <3> HIDE DEF seen, torn
      <3> QED
        BY <1>2, <2>1, <2>2
    <2>4. seen = [q \in Request |-> seen[q]]
      OBVIOUS
    <2>5. found.sku = products[id].sku /\ found.axo = products[id].axo
      OBVIOUS
    <2> HIDE DEF seen, found
    <2>6. req'[r] = [seen[r] EXCEPT !.step = "update", !.id = id, !.found = found]
      BY <1>4, <2>4 DEF found
    <2>7. /\ req'[r].step = "update" /\ req'[r].id = id /\ req'[r].found = found
          /\ req'[r].job = seen[r].job /\ req'[r].item = seen[r].item
      BY <2>3, <2>6 DEF Work
    <2> QED
      BY <2>3, <2>5, <2>7
  <1> QED
    BY <1>3, <1>4 DEF Find

LEMMA OwnJob ==
    ASSUME TypeInv, NEW r \in Request, Own(r)
    PROVE  req'[r].job = req[r].job
  <1>1. req[r].step # "idle"
    BY DEF Own, Pass, FindName, CreateName, Find, Create, UpdateAxonaut, UpdateHusse, Fails
  <1> PICK work : work = req[r]
    OBVIOUS
  <1>2. /\ work \in Work /\ Same(work, NextItem(work)) /\ Same(work, Refused(work))
        /\ work.item \in DOMAIN Fetched[work.job] /\ work.errors \subseteq DOMAIN Fetched[work.job]
        /\ work.step \in {"find name", "create name"} => Same(work, Ensuring(work, Tail(work.names)))
        /\ req \in [Request -> {Idle} \cup Work]
    BY <1>1, AtWork DEF TypeInv, TypeOK
  <1>3. ASSUME NEW state, Become(r, state) \/ BecomeWriting(r, state)
        PROVE  req'[r] = state
    BY <1>2, <1>3 DEF Become, BecomeWriting
  <1>4. CASE Pass(r)
    <2>1. PICK noted : /\ noted = [work EXCEPT !.errors = @ \cup {work.item}]
                       /\ req'[r] = NextItem(work) \/ req'[r] = NextItem(noted)
      BY <1>3, <1>4 DEF Pass
    <2>2. Moved(work, NextItem(noted))
      BY <1>2, <2>1, NotedMoves
    <2> QED
      BY <1>2, <2>1, <2>2 DEF Moved, Same
  <1>5. CASE FindName(r)
    <2> DEFINE next == [work EXCEPT !.step = "create name"]
    <2>1. work.step = "find name" /\ (req'[r] = Ensuring(work, Tail(work.names)) \/ req'[r] = next)
      BY <1>3, <1>5 DEF FindName
    <2>2. next.job = work.job
      BY <1>2 DEF Work
    <2> HIDE DEF next
    <2> QED
      BY <1>2, <2>1, <2>2 DEF Same
  <1>6. CASE CreateName(r)
    <2>1. /\ work.step = "create name"
          /\ req'[r] = Ensuring(work, Tail(work.names)) \/ req'[r] = Refused(work)
      BY <1>3, <1>6 DEF CreateName
    <2> QED
      BY <1>2, <2>1 DEF Same
  <1>7. CASE Create(r) \/ UpdateAxonaut(r) \/ UpdateHusse(r) \/ Fails(r)
    <2>1. req'[r] \in {Refused(work), NextItem(work)}
      BY <1>3, <1>7 DEF Create, UpdateAxonaut, UpdateHusse, Fails
    <2> QED
      BY <1>2, <2>1 DEF Same
  <1> QED
    BY <1>4, <1>5, <1>6, <1>7, FindStep DEF Own

-----------------------------------------------------------------------------
\* The packagings of the items that an import went through are there.
LEMMA BegunNamed ==
    ASSUME NEW all, NEW gone, NEW state, Begun(state), Source[state.job] = "axonaut",
           \A n \in DOMAIN Fetched[state.job] :
             n < state.item => n \in gone \/ Packed(all, Fetched[state.job][n])
    PROVE  Named(all, gone, state)
  <1> DEFINE item == Current(state)
  <1>1. NamesOf(state.job, item) = IF item.packaging # None THEN << Packaging(item.packaging) >>
                                   ELSE << >>
    BY DEF NamesOf
  <1>2. state.step \in {"pass", "find name", "find"}
    BY DEF Begun
  <1>3. CASE state.step = "pass"
    BY <1>2, <1>3 DEF Begun, Named
  <1>4. CASE state.step = "find name"
    <2>1. item.packaging # None /\ state.names = << Packaging(item.packaging) >>
      BY <1>1, <1>4 DEF Begun
    <2> QED
      BY <1>4, <2>1 DEF Named
  <1>5. CASE state.step = "find"
    <2>1. item.packaging = None
      <3>1. NamesOf(state.job, item) = << >>
        BY <1>5 DEF Begun
      <3>2. << Packaging(item.packaging) >> # << >>
        OBVIOUS
      <3> HIDE DEF item
      <3> QED
        BY <1>1, <3>1, <3>2
    <2> QED
      BY <1>5, <2>1 DEF Named, Packed
  <1> QED
    BY <1>2, <1>3, <1>4, <1>5

LEMMA MovedNamed ==
    ASSUME NEW all, NEW gone, NEW old \in Work, old.item \in DOMAIN Fetched[old.job],
           Source[old.job] = "axonaut", NEW new, Moved(old, new),
           \A n \in DOMAIN Fetched[old.job] :
             n <= old.item => n \in gone \/ Packed(all, Fetched[old.job][n])
    PROVE  Named(all, gone, new)
  <1>1. new.job = old.job /\ old.item \in Nat /\ old.job \in Import
    BY DEF Moved, Same, Work
  <1>2. DOMAIN Fetched[old.job] \subseteq Nat
    BY <1>1, ItemTypes
  <1>3. CASE new.item = old.item + 1 /\ Begun(new)
    <2>1. \A n \in DOMAIN Fetched[new.job] :
            n < new.item => n \in gone \/ Packed(all, Fetched[new.job][n])
      BY <1>1, <1>2, <1>3
    <2> QED
      BY <1>1, <1>3, <2>1, BegunNamed
  <1>4. CASE new.item = old.item /\ new.step = "done"
    <2>1. \A n \in DOMAIN Fetched[new.job] :
            n <= new.item => n \in gone \/ Packed(all, Fetched[new.job][n])
      BY <1>1, <1>4
    <2>2. \A n \in DOMAIN Fetched[new.job] : n < new.item => n <= new.item
      BY <1>1, <1>2, <1>4
    <2>3. Current(new) = Fetched[new.job][new.item] /\ new.item <= new.item
      BY <1>1, <1>4 DEF Current
    <2>4. new.item \in DOMAIN Fetched[new.job]
      BY <1>1, <1>4
    <2> QED
      BY <1>4, <2>1, <2>2, <2>3, <2>4 DEF Named
  <1> QED
    BY <1>3, <1>4 DEF Moved

LEMMA MoreNames ==
    ASSUME NEW all, NEW more, all \subseteq more, NEW gone, NEW further, gone \subseteq further,
           NEW state, Named(all, gone, state)
    PROVE  Named(more, further, state)
  BY DEF Named, Packed

\* Names are not removed.
LEMMA NamesGrow ==
    ASSUME [Next]_vars
    PROVE  names \subseteq names'
  <1>1. ASSUME NEW r \in Request, Serve(r)
        PROVE  names \subseteq names'
    BY <1>1 DEF Serve, Start, Pass, FindName, CreateName, Find, Create, UpdateAxonaut,
                UpdateHusse, Fails, Return, Abort
  <1> QED
    BY <1>1 DEF Next, AddProduct, EditProduct, AddName, vars

\* What was lost is told as long as an import of the catalogue is at work.
LEMMA LostStays ==
    ASSUME TypeInv, [Next]_vars, NEW q \in Request, NEW job, req[q] # Idle, req[q].job = job,
           req'[q] # Idle
    PROVE  lost[job] \subseteq lost'[job]
  <1>1. req \in [Request -> {Idle} \cup Work] /\ lost \in [Import -> SUBSET Nat] /\ job \in Import
    BY DEF TypeInv, TypeOK, Work
  <1>2. ASSUME NEW r \in Request, Fails(r)
        PROVE  lost[job] \subseteq lost'[job]
    <2>1. lost' = [lost EXCEPT ![req[r].job] = @ \cup {req[r].item}]
      BY <1>2 DEF Fails
    <2> QED
      BY <1>1, <2>1
  <1>3. ASSUME NEW r \in Request, Return(r) \/ Abort(r)
        PROVE  lost[job] \subseteq lost'[job]
    <2>1. Over(r) /\ req'[r] = Idle
      BY <1>1, <1>3 DEF Return, Abort, Become
    <2>2. r # q
      BY <2>1
    <2>3. CASE req[r].job = job
      BY <2>1, <2>2, <2>3 DEF Over
    <2>4. CASE req[r].job # job
      <3>1. lost' = lost \/ lost' = [lost EXCEPT ![req[r].job] = {}]
        BY <2>1 DEF Over
      <3> QED
        BY <1>1, <2>4, <3>1
    <2> QED
      BY <2>3, <2>4
  <1>4. ASSUME NEW r \in Request, Serve(r)
        PROVE  lost[job] \subseteq lost'[job]
    BY <1>2, <1>3, <1>4 DEF Serve, Start, Pass, FindName, CreateName, Find, Create,
                            UpdateAxonaut, UpdateHusse
  <1> QED
    BY <1>4 DEF Next, AddProduct, EditProduct, AddName, ByUser, vars

LEMMA NamedOwn ==
    ASSUME TypeInv, [Next]_vars, NEW r \in Request, NEW work, work = req[r], NEW new, new = req'[r],
           OfAxonaut(work), Named(names, lost[work.job], work), Own(r), new # Idle
    PROVE  Named(names', lost'[work.job], new)
  <1> DEFINE items == Fetched[work.job]
             item == Current(work)
             gone == lost'[work.job]
  <1>1. work.step \in {"pass", "find name", "create name", "find", "create", "update"}
    BY DEF Own, Pass, FindName, CreateName, Find, Create, UpdateAxonaut, UpdateHusse, Fails
  <1>2. /\ work \in Work /\ work.job \in Import /\ work.item \in DOMAIN items /\ work.item \in Nat
        /\ work.errors \subseteq DOMAIN items /\ Source[work.job] = "axonaut"
        /\ work.step \in {"find name", "create name"} => work.names # << >>
        /\ work.step \notin {"pass", "done", "failed"} => item.sku # None
        /\ req \in [Request -> {Idle} \cup Work]
    BY <1>1, AtWork DEF OfAxonaut, TypeInv, TypeOK
  <1>3. item = items[work.item] /\ DOMAIN items \subseteq Nat
    BY <1>2, ItemTypes DEF Current
  <1>4. \A n \in DOMAIN items : n < work.item => n \in gone \/ Packed(names, items[n])
    <2>1. lost[work.job] \subseteq gone
      BY <1>1, LostStays DEF OfAxonaut
    <2> QED
      BY <2>1 DEF Named
  <1>5. ASSUME NEW all, names \subseteq all, work.item \in gone \/ Packed(all, item),
               Moved(work, new)
        PROVE  Named(all, gone, new)
    <2>1. \A n \in DOMAIN items : n < work.item => n \in gone \/ Packed(all, items[n])
      BY <1>4, <1>5 DEF Packed
    <2>2. \A n \in DOMAIN items : n <= work.item => n < work.item \/ n = work.item
      <3>1. work.item \in Nat
        BY <1>2
      <3>2. \A n \in Nat : n <= work.item => n < work.item \/ n = work.item
        BY <3>1
      <3> HIDE DEF items
      <3> QED
        BY <1>3, <3>2
    <2>3. \A n \in DOMAIN items : n <= work.item => n \in gone \/ Packed(all, items[n])
      BY <1>3, <1>5, <2>1, <2>2
    <2> HIDE DEF items, item, gone
    <2> QED
      BY <1>2, <1>5, <2>3, MovedNamed DEF items
  <1>6. ASSUME NEW state, Become(r, state) \/ BecomeWriting(r, state)
        PROVE  new = state
    BY <1>2, <1>6 DEF Become, BecomeWriting
  <1>7. Moved(work, NextItem(work)) /\ Moved(work, Refused(work))
    BY <1>2, NextItemMoves, RefusedMoves
  <1>8. CASE Pass(r)
    <2>1. UNCHANGED names /\ work.step = "pass" /\ item.sku = None
      BY <1>8 DEF Pass, Named
    <2>2. PICK noted : /\ noted = [work EXCEPT !.errors = @ \cup {work.item}]
                       /\ new = NextItem(work) \/ new = NextItem(noted)
      BY <1>6, <1>8 DEF Pass
    <2>3. Moved(work, new)
      BY <1>2, <1>7, <2>2, NotedMoves
    <2> QED
      BY <1>5, <2>1, <2>3 DEF Packed
  <1>9. ASSUME work.step \in {"find name", "create name"}
        PROVE  /\ item.packaging # None /\ Head(work.names) = Packaging(item.packaging)
               /\ Tail(work.names) = << >>
    <2>1. item.packaging # None /\ work.names = << Packaging(item.packaging) >>
      BY <1>9 DEF Named
    <2> HIDE DEF item
    <2> QED
      BY <2>1
  <1>10. ASSUME NEW all, names \subseteq all, work.step \in {"find name", "create name"},
                Head(work.names) \in all, new = Ensuring(work, Tail(work.names))
         PROVE  Named(all, gone, new)
    <2>1. /\ new.job = work.job /\ new.item = work.item /\ new.step = "find"
      <3>1. new = Ensuring(work, << >>)
        BY <1>9, <1>10
      <3>2. /\ Same(work, Ensuring(work, << >>)) /\ Ensuring(work, << >>).item = work.item
            /\ Ensuring(work, << >>).step = "find"
        BY <1>2, NoNames, EnsuringSame
      <3> QED
        BY <3>1, <3>2 DEF Same
    <2>2. Packed(all, item) /\ Current(new) = item
      BY <1>9, <1>10, <2>1 DEF Packed, Current
    <2>3. \A n \in DOMAIN items : n < work.item => n \in gone \/ Packed(all, items[n])
      BY <1>4, <1>10 DEF Packed
    <2> HIDE DEF item, gone
    <2> QED
      BY <2>1, <2>2, <2>3 DEF Named
  <1>11. CASE FindName(r)
    <2> DEFINE next == [work EXCEPT !.step = "create name"]
    <2>1. UNCHANGED names /\ work.step = "find name"
      BY <1>11 DEF FindName
    <2>2. CASE Head(work.names) \in names
      BY <1>6, <1>10, <1>11, <2>1, <2>2 DEF FindName
    <2>3. CASE Head(work.names) \notin names
      <3>1. new = next
        BY <1>6, <1>11, <2>3 DEF FindName
      <3>2. next.step = "create name" /\ next.job = work.job /\ next.item = work.item
            /\ next.names = work.names
        BY <1>2 DEF Work
      <3>3. new.step = "create name" /\ new.item = work.item /\ Current(new) = item
        BY <3>1, <3>2 DEF Current
      <3>4. /\ Current(new).packaging # None
            /\ new.names = << Packaging(Current(new).packaging) >>
        BY <2>1, <3>1, <3>2, <3>3 DEF Named
      <3>5. \A n \in DOMAIN Fetched[new.job] :
              n < new.item => n \in gone \/ Packed(names', Fetched[new.job][n])
        BY <1>4, <2>1, <3>1, <3>2
      <3> HIDE DEF item, items, next
      <3> QED
        BY <3>3, <3>4, <3>5 DEF Named
    <2> QED
      BY <2>2, <2>3
  <1>12. CASE CreateName(r)
    <2>1. work.step = "create name"
      BY <1>12 DEF CreateName
    <2>2. CASE Head(work.names) \in names
      <3>1. new = Refused(work) /\ UNCHANGED names
        BY <1>6, <1>12, <2>2 DEF CreateName
      <3>2. Packed(names, item)
        BY <1>9, <2>1, <2>2 DEF Packed
      <3> QED
        BY <1>5, <1>7, <3>1, <3>2
    <2>3. CASE Head(work.names) \notin names
      <3>1. names' = names \cup {Head(work.names)} /\ new = Ensuring(work, Tail(work.names))
        BY <1>6, <1>12, <2>3 DEF CreateName
      <3> QED
        BY <1>10, <2>1, <3>1
    <2> QED
      BY <2>2, <2>3
  <1>13. ASSUME work.step \in {"find", "create", "update"}
         PROVE  Packed(names, item)
    BY <1>13 DEF Named
  <1>14. CASE Find(r)
    <2>1. UNCHANGED names /\ work.step = "find"
      BY <1>14 DEF Find
    <2>2. /\ new.job = work.job /\ new.item = work.item
          /\ new.step \in {"create", "update"}
      BY <1>14, FindStep
    <2> QED
      BY <1>4, <1>13, <2>1, <2>2 DEF Named, Current
  <1>15. CASE Create(r) \/ UpdateAxonaut(r) \/ UpdateHusse(r)
    <2>1. UNCHANGED names /\ work.step \in {"create", "update"}
          /\ new \in {Refused(work), NextItem(work)}
      BY <1>6, <1>15 DEF Create, UpdateAxonaut, UpdateHusse
    <2> QED
      BY <1>5, <1>7, <1>13, <2>1
  <1>16. CASE Fails(r)
    <2>1. /\ UNCHANGED names /\ new = Refused(work)
          /\ lost' = [lost EXCEPT ![work.job] = @ \cup {work.item}]
      BY <1>6, <1>16 DEF Fails
    <2>2. work.item \in gone
      BY <1>2, <2>1 DEF TypeInv, TypeOK
    <2> QED
      BY <1>5, <1>7, <2>1, <2>2
  <1> QED
    BY <1>8, <1>11, <1>12, <1>14, <1>15, <1>16 DEF Own

LEMMA NamesStep ==
    ASSUME TypeInv, NamesInv, [Next]_vars
    PROVE  NamesInv'
  <1>1. SUFFICES ASSUME NEW q \in Request, NEW new, new = req'[q], OfAxonaut(new)
                 PROVE  Named(names', lost'[new.job], new)
    BY DEF NamesInv
  <1> PICK work : work = req[q]
    OBVIOUS
  <1>2. names \subseteq names'
    BY NamesGrow
  <1>3. CASE \E j \in Import : Start(q, j)
    <2> PICK j \in Import : Start(q, j)
      BY <1>3
    <2>1. Begun(new) /\ new.item = 1 /\ new.job = j
      BY <1>1, StartBegins
    <2>2. DOMAIN Fetched[j] = 1 .. Len(Fetched[j])
      BY FirstItem, ItemTypes
    <2> QED
      BY <1>1, <2>1, <2>2, BegunNamed DEF OfAxonaut
  <1>4. CASE Own(q)
    <2>1. work.step # "idle"
      BY <1>4 DEF Own, Pass, FindName, CreateName, Find, Create, UpdateAxonaut, UpdateHusse, Fails
    <2>2. new.job = work.job
      BY <1>1, <1>4, OwnJob
    <2>3. OfAxonaut(work)
      BY <1>1, <2>1, <2>2, AtWork DEF OfAxonaut
    <2> QED
      <3>1. Named(names, lost[work.job], work) /\ new # Idle
        BY <1>1, <2>3 DEF NamesInv, OfAxonaut
      <3>2. Named(names', lost'[work.job], new)
        BY <1>1, <1>4, <2>3, <3>1, NamedOwn
      <3> QED
        BY <2>2, <3>2
  <1>5. CASE req[q] # Idle /\ Alike(req[q], req'[q])
    <2>1. OfAxonaut(work)
      BY <1>1, <1>5 DEF OfAxonaut, Alike
    <2>2. lost[work.job] \subseteq lost'[work.job]
      BY <1>1, <1>5, LostStays DEF OfAxonaut
    <2>3. Named(names', lost'[work.job], work)
      BY <1>2, <2>1, <2>2, MoreNames DEF NamesInv
    <2> QED
      BY <1>1, <1>5, <2>3 DEF Named, Alike, Current
  <1> QED
    BY <1>1, <1>3, <1>4, <1>5, StepOf DEF OfAxonaut

-----------------------------------------------------------------------------
\* Item n of the job got its product: the one with the given id, which was that
\* of no other item and has not become so.
Written(job, n, id) ==
    LET items == Fetched[job] IN
    /\ UNCHANGED names /\ Ids' = Ids \cup {id}
    /\ \A other \in Ids \ {id} : products'[other] = products[other]
    /\ Shows(products[id], items[n])'
    /\ Matches(job, items[n]) \subseteq {id} /\ Matches(job, items[n])' = {id}
    /\ \A m \in DOMAIN items \ {n} : /\ id \notin Matches(job, items[m])
                                     /\ Matches(job, items[m])' = Matches(job, items[m])
    /\ id \in Ids /\ items[n].axo = 0 => products'[id].axo = products[id].axo

\* A product as importProducts leaves it for an item.
Fits(product, item) ==
    /\ product.sku = item.sku
    /\ item.axo # 0 => product.axo = item.axo
    /\ product.price = item.price /\ product.sale = item.price
    /\ item.packaging # None => product.packaging = item.packaging

LEMMA ProductWritten ==
    ASSUME NEW job \in Import, Source[job] = "axonaut", Distinct(Fetched[job]),
           NEW n \in DOMAIN Fetched[job], Fetched[job][n].sku # None,
           Packed(names, Fetched[job][n]), UNCHANGED names,
           NEW id, Ids' = Ids \cup {id}, Fits(products'[id], Fetched[job][n]),
           \A other \in Ids \ {id} : products'[other] = products[other],
           Fetched[job][n].axo = 0 =>
             products'[id].axo = IF id \in Ids THEN products[id].axo ELSE 0,
           Matches(job, Fetched[job][n]) \subseteq {id},
           \A m \in DOMAIN Fetched[job] \ {n} : id \notin Matches(job, Fetched[job][m])
    PROVE  Written(job, n, id)
  <1> DEFINE items == Fetched[job]
  <1> PICK item : item = items[n]
    OBVIOUS
  <1> PICK product : product = products'[id]
    OBVIOUS
  <1>a. /\ product.sku = item.sku
        /\ item.axo # 0 => product.axo = item.axo
        /\ product.price = item.price /\ product.sale = item.price
        /\ item.packaging # None => product.packaging = item.packaging
    BY DEF Fits
  <1>b. /\ item.axo = 0 => product.axo = IF id \in Ids THEN products[id].axo ELSE 0
        /\ item.sku # None /\ Packed(names, item) /\ Matches(job, item) \subseteq {id}
    OBVIOUS
  <1>1. ASSUME NEW m \in DOMAIN items \ {n}
        PROVE  Matches(job, items[m])' = Matches(job, items[m])
    <2> PICK next : next = items[m]
      OBVIOUS
    <2>1. item.sku # next.sku /\ (item.axo # 0 => item.axo # next.axo)
      BY <1>1 DEF Distinct
    <2>2. id \notin Matches(job, next)
      BY <1>1
    <2>3. ~ (products'[id].sku = next.sku \/ (next.axo # 0 /\ products'[id].axo = next.axo))
      <3>1. CASE item.axo # 0
        BY <1>a, <2>1, <3>1
      <3>2. CASE item.axo = 0 /\ id \in Ids
        BY <1>a, <1>b, <2>1, <2>2, <3>2 DEF Matches
      <3>3. CASE item.axo = 0 /\ id \notin Ids
        BY <1>a, <1>b, <2>1, <3>3
      <3> QED
        BY <3>1, <3>2, <3>3
    <2>4. \A other \in Ids' : other \in Matches(job, next)' <=> other \in Matches(job, next)
      <3> TAKE other \in Ids'
      <3>1. CASE other = id
        BY <2>2, <2>3, <3>1 DEF Matches
      <3>2. CASE other # id
        BY <3>2 DEF Matches
      <3> QED
        BY <3>1, <3>2
    <2>5. Matches(job, next)' \subseteq Ids' /\ Matches(job, next) \subseteq Ids'
      BY DEF Matches
    <2>6. Matches(job, next)' = Matches(job, next)
      BY <2>4, <2>5
    <2> QED
      BY <2>6
  <1>2. Matches(job, item)' = {id}
    <2>1. id \in Matches(job, item)'
      BY <1>a DEF Matches
    <2>2. ASSUME NEW other \in Matches(job, item)', other # id
          PROVE  FALSE
      <3>1. other \in Matches(job, item)
        BY <2>2 DEF Matches
      <3> QED
        BY <1>b, <2>2, <3>1
    <2> QED
      BY <2>1, <2>2
  <1>3. Shows(products[id], item)'
    BY <1>a, <1>b DEF Shows, Packed
  <1>4. id \in Ids /\ items[n].axo = 0 => products'[id].axo = products[id].axo
    BY <1>b
  <1>5. Shows(products[id], items[n])' /\ Matches(job, items[n])' = {id}
    BY <1>2, <1>3
  <1> QED
    BY <1>1, <1>4, <1>5 DEF Written

\* The items of a good import at work.
LEMMA GoodAtWork ==
    ASSUME TypeInv, NEW r \in Request, NEW work, work = req[r], Good(work),
           work.step \notin {"pass", "done", "failed"}, Named(names, lost[work.job], work)
    PROVE  /\ work \in Work /\ work.job \in Import /\ work.item \in DOMAIN Fetched[work.job]
           /\ Source[work.job] = "axonaut" /\ Distinct(Fetched[work.job])
           /\ Current(work) = Fetched[work.job][work.item] /\ Current(work).sku # None
           /\ Current(work) \in AxonautItem
           /\ work.step \in {"create", "update"} => Packed(names, Current(work))
           /\ Moved(work, NextItem(work)) /\ Moved(work, Refused(work))
           /\ work.step = "update" => work.id \in Ids
           /\ products \in Seq(Product) /\ req \in [Request -> {Idle} \cup Work]
  <1>1. work \in Work /\ Source[work.job] = "axonaut"
    BY DEF Good, TypeInv, TypeOK
  <1>2. work.step # "idle"
    BY <1>1, WorkIsNotIdle
  <1>3. /\ work.job \in Import /\ work.item \in DOMAIN Fetched[work.job]
        /\ work.errors \subseteq DOMAIN Fetched[work.job]
        /\ Current(work).sku # None /\ (work.step = "update" => work.id \in Ids)
    BY <1>2, AtWork
  <1>4. Current(work) \in AxonautItem
    BY <1>1, <1>3, ItemTypes DEF Current
  <1>5. Moved(work, NextItem(work)) /\ Moved(work, Refused(work))
    BY <1>1, <1>3, NextItemMoves, RefusedMoves
  <1>6. work.step \in {"create", "update"} => Packed(names, Current(work))
    BY DEF Named
  <1> QED
    BY <1>1, <1>3, <1>4, <1>5, <1>6 DEF Good, Current, TypeInv, TypeOK

LEMMA CreateWrites ==
    ASSUME TypeInv, NEW r \in Request, NEW work, work = req[r], Good(work),
           Named(names, lost[work.job], work),
           Create(r), ~ Clashes(0, Made(work))
    PROVE  \E id : Written(work.job, work.item, id)
  <1> DEFINE items == Fetched[work.job]
             item == Current(work)
             id == Len(products) + 1
  <1>1. work.step = "create" /\ UNCHANGED names /\ products' = Append(products, Made(work))
    BY DEF Create
  <1>2. /\ work \in Work /\ work.job \in Import /\ work.item \in DOMAIN items
        /\ Source[work.job] = "axonaut" /\ Distinct(items) /\ item = items[work.item]
        /\ item.sku # None /\ Packed(names, item) /\ products \in Seq(Product)
    BY <1>1, GoodAtWork
  <1>3. /\ Made(work).sku = item.sku /\ Made(work).axo = item.axo
        /\ Made(work).price = item.price /\ Made(work).sale = item.price
        /\ Made(work).packaging = item.packaging
    BY <1>2 DEF Made
  <1>4. Made(work) \in Product
    BY <1>2, MadeTypes DEF Current
  <1>5. /\ Ids' = Ids \cup {id} /\ id \notin Ids /\ products'[id] = Made(work)
        /\ \A other \in Ids \ {id} : products'[other] = products[other]
    <2> HIDE DEF item
    <2> QED
      BY <1>1, <1>2, <1>4 DEF Ids
  <1>6. \A other \in Ids : /\ products[other].sku # item.sku
                           /\ item.axo # 0 => products[other].axo # item.axo
    <2>1. 0 \notin Ids
      BY <1>2 DEF Ids
    <2> HIDE DEF item
    <2> QED
      BY <1>3, <2>1 DEF Clashes
  <1>7. Matches(work.job, item) \subseteq {id}
    BY <1>6 DEF Matches
  <1>8. \A m \in DOMAIN items \ {work.item} : id \notin Matches(work.job, items[m])
    BY <1>5 DEF Matches
  <1> HIDE DEF items, item, id
  <1>9. item.axo = 0 => products'[id].axo = IF id \in Ids THEN products[id].axo ELSE 0
    BY <1>3, <1>5
  <1>10. Fits(products'[id], item)
    BY <1>3, <1>5 DEF Fits
  <1>11. Written(work.job, work.item, id)
    BY <1>1, <1>2, <1>5, <1>7, <1>8, <1>9, <1>10, ProductWritten DEF items
  <1> QED
    BY <1>11

\* The update of a good import is not refused.
LEMMA UpdateWrites ==
    ASSUME KnownInv, NEW r \in Request, NEW work, work = req[r], Good(work),
           Named(names, lost[work.job], work),
           Held(work), UpdateAxonaut(r)
    PROVE  /\ Written(work.job, work.item, work.id)
           /\ BecomeWriting(r, NextItem(work))
  <1> DEFINE items == Fetched[work.job]
             item == Current(work)
             id == work.id
             product == Refreshed(products[id], item, work.found)
  <1>1. work.step = "update" /\ UNCHANGED names
    BY DEF UpdateAxonaut
  <1>2. /\ work \in Work /\ work.job \in Import /\ work.item \in DOMAIN items
        /\ Source[work.job] = "axonaut" /\ Distinct(items) /\ item = items[work.item]
        /\ item.sku # None /\ Packed(names, item) /\ products \in Seq(Product)
        /\ id \in Ids /\ item \in AxonautItem /\ OneOwner
    BY <1>1, GoodAtWork DEF KnownInv
  <1>3. /\ Matches(work.job, item) = {id}
        /\ \A m \in DOMAIN items \ {work.item} : id \notin Matches(work.job, items[m])
        /\ products[id].sku \in {work.found.sku, item.sku}
        /\ \/ products[id].axo = work.found.axo
           \/ item.axo # 0 /\ products[id].axo = item.axo
    BY DEF Held
  <1>4. products[id] \in Product
    BY <1>2 DEF Ids
  <1>5. /\ product.sku = item.sku
        /\ product.axo = IF item.axo # 0 THEN item.axo ELSE products[id].axo
        /\ product.price = item.price /\ product.sale = item.price
        /\ item.packaging # None => product.packaging = item.packaging
    <2> HIDE DEF item, id
    <2> QED
      BY <1>3, <1>4 DEF Refreshed, Product
  <1>6. product \in Product
    <2>1. item \in AxonautItem /\ item.sku # None
      BY <1>2
    <2> HIDE DEF item, id
    <2> QED
      BY <1>4, <2>1, CatalogueAssumption DEF Refreshed, AxonautItem, Product
  <1>7. ~ Clashes(id, product)
    <2> SUFFICES ASSUME NEW other \in Ids \ {id},
                        \/ products[other].sku = product.sku
                        \/ product.axo # 0 /\ products[other].axo = product.axo
                 PROVE  FALSE
      BY DEF Clashes
    <2> HIDE DEF item, id, product
    <2>1. other \notin Matches(work.job, item)
      BY <1>3
    <2>2. product.axo # 0 /\ products[other].axo = product.axo /\ item.axo = 0
      BY <1>2, <1>5, <2>1 DEF Matches
    <2>3. products[id].axo # 0 /\ products[other].axo = products[id].axo
      BY <1>5, <2>2
    <2> QED
      BY <1>2, <2>3 DEF OneOwner
  <1>8. products' = [products EXCEPT ![id] = product] /\ BecomeWriting(r, NextItem(work))
    BY <1>7 DEF UpdateAxonaut
  <1> HIDE DEF product
  <1>9. /\ Ids' = Ids \cup {id} /\ products'[id] = product
        /\ \A other \in Ids \ {id} : products'[other] = products[other]
    BY <1>2, <1>6, <1>8 DEF Ids
  <1>10. item.axo = 0 => products'[id].axo = IF id \in Ids THEN products[id].axo ELSE 0
    BY <1>2, <1>5, <1>9
  <1> HIDE DEF items, item, id
  <1>11. Fits(products'[id], item)
    BY <1>5, <1>9 DEF Fits
  <1>12. Matches(work.job, item) \subseteq {id}
    BY <1>3
  <1>13. Written(work.job, work.item, id)
    BY <1>1, <1>2, <1>3, <1>9, <1>10, <1>11, <1>12, ProductWritten DEF items
  <1> QED
    BY <1>8, <1>13 DEF id

LEMMA NameWrites ==
    ASSUME TypeInv, NEW r \in Request, NEW work, work = req[r], Good(work),
           Named(names, lost[work.job], work),
           CreateName(r), Head(work.names) \notin names
    PROVE  /\ UNCHANGED products
           /\ Current(work).packaging # None
           /\ Packaging(Current(work).packaging) \notin names
           /\ names' = names \cup {Packaging(Current(work).packaging)}
           /\ req'[r].step = "find" /\ req'[r].item = work.item
  <1>1. /\ work.step = "create name" /\ UNCHANGED products
        /\ names' = names \cup {Head(work.names)}
        /\ BecomeWriting(r, Ensuring(work, Tail(work.names)))
    BY DEF CreateName
  <1>2. work \in Work
    BY <1>1, GoodAtWork
  <1>3. PICK name : /\ Current(work).packaging # None
                    /\ name = Packaging(Current(work).packaging) /\ work.names = << name >>
    BY <1>1 DEF Named
  <1>4. Head(work.names) = name /\ Tail(work.names) = << >>
    BY <1>3
  <1>5. Ensuring(work, << >>).step = "find" /\ Ensuring(work, << >>).item = work.item
    BY <1>2, NoNames, EnsuringSame
  <1>6. req'[r] = Ensuring(work, << >>)
    BY <1>1, <1>4 DEF BecomeWriting
  <1> QED
    BY <1>1, <1>3, <1>4, <1>5, <1>6

-----------------------------------------------------------------------------
\* All that a step does to the catalogue as long as an import stays good.
LEMMA Effect ==
    ASSUME CurrentInv, [Next]_vars, NEW r \in Request, Good(req'[r]), NEW job, job = req'[r].job
    PROVE  \/ UNCHANGED <<products, names>>
           \/ /\ UNCHANGED products
              /\ \E x \in Request :
                   /\ Good(req[x]) /\ req[x].job = job /\ Current(req[x]).packaging # None
                   /\ Packaging(Current(req[x]).packaging) \notin names
                   /\ names' = names \cup {Packaging(Current(req[x]).packaging)}
                   /\ Good(req'[x]) /\ req'[x].job = job
                   /\ req'[x].step = "find" /\ req'[x].item = req[x].item
           \/ \E n \in DOMAIN Fetched[job] : \E id : Written(job, n, id)
  <1>1. TypeInv /\ KnownInv
    BY DEF CurrentInv, KnownInv
  <1>2. ASSUME NEW x \in Request, Writes(x), Good(req[x]), req[x].job = job
        PROVE  \/ /\ UNCHANGED products
                  /\ Current(req[x]).packaging # None
                  /\ Packaging(Current(req[x]).packaging) \notin names
                  /\ names' = names \cup {Packaging(Current(req[x]).packaging)}
                  /\ Good(req'[x]) /\ req'[x].job = job
                  /\ req'[x].step = "find" /\ req'[x].item = req[x].item
               \/ \E n \in DOMAIN Fetched[job] : \E id : Written(job, n, id)
    <2> PICK work : work = req[x]
      OBVIOUS
    <2>1. Named(names, lost[work.job], work)
      BY <1>2 DEF CurrentInv, NamesInv, OfAxonaut, Good
    <2>2. CASE CreateName(x) /\ Head(work.names) \notin names
      <3>1. Active(work)
        BY <2>2 DEF CreateName, Active
      <3>2. Good(req'[x]) /\ req'[x].job = job
        BY <1>1, <1>2, <3>1, GoodStep
      <3> QED
        BY <1>1, <1>2, <2>1, <2>2, <3>2, NameWrites
    <2>3. CASE Create(x) /\ ~ Clashes(0, Made(work))
      <3>1. work.step \notin {"pass", "done", "failed"}
        BY <2>3 DEF Create
      <3>2. work.item \in DOMAIN Fetched[job]
        BY <1>1, <1>2, <2>1, <3>1, GoodAtWork
      <3>3. \E id : Written(job, work.item, id)
        BY <1>1, <1>2, <2>1, <2>3, CreateWrites
      <3> QED
        BY <3>2, <3>3
    <2>4. CASE UpdateAxonaut(x)
      <3>1. work.step \notin {"pass", "done", "failed"} /\ work.step = "update"
        BY <2>4 DEF UpdateAxonaut
      <3>2. work.item \in DOMAIN Fetched[job]
        BY <1>1, <1>2, <2>1, <3>1, GoodAtWork
      <3>3. Held(work)
        BY <1>2, <3>1 DEF CurrentInv, HeldInv
      <3>4. Written(job, work.item, work.id)
        BY <1>1, <1>2, <2>1, <2>4, <3>3, UpdateWrites
      <3> QED
        BY <3>2, <3>4
    <2>5. CASE UpdateHusse(x)
      BY <1>2, <2>5 DEF UpdateHusse, OfHusse, Good
    <2> QED
      BY <1>2, <2>2, <2>3, <2>4, <2>5 DEF Writes
  <1>3. \/ UNCHANGED <<products, names>>
        \/ \E x \in Request : Writes(x) /\ Good(req[x]) /\ req[x].job = job
    BY <1>1, GoodStep
  <1> QED
    BY <1>2, <1>3

\* An item that is as the catalogue of Axonaut has it stays so.
LEMMA ShownStays ==
    ASSUME CurrentInv, [Next]_vars, NEW r \in Request, Good(req'[r]), NEW job, job = req'[r].job,
           NEW m \in DOMAIN Fetched[job], Shown(Fetched[job][m])
    PROVE  Shown(Fetched[job][m])'
  <1> PICK item : item = Fetched[job][m]
    OBVIOUS
  <1> PICK id \in Ids : Shows(products[id], item)
    BY DEF Shown
  <1>1. names \subseteq names'
    BY NamesGrow
  <1>2. CASE UNCHANGED products
    <2>1. id \in Ids' /\ Shows(products[id], item)'
      BY <1>1, <1>2 DEF Shows, Ids
    <2> QED
      BY <2>1 DEF Shown
  <1>3. ASSUME NEW n \in DOMAIN Fetched[job], NEW written, Written(job, n, written)
        PROVE  Shown(item)'
    <2>1. CASE m = n
      <3>1. Shows(products[written], item)' /\ written \in Ids'
        BY <1>3, <2>1 DEF Written
      <3> QED
        BY <3>1 DEF Shown
    <2>2. CASE m # n
      <3>1. id \in Matches(job, item)
        BY DEF Shows, Matches
      <3>2. id # written
        BY <1>3, <2>2, <3>1 DEF Written
      <3>3. id \in Ids' /\ products'[id] = products[id]
        BY <1>3, <3>2 DEF Written
      <3>4. Shows(products[id], item)'
        BY <1>1, <3>3 DEF Shows
      <3> QED
        BY <3>3, <3>4 DEF Shown
    <2> QED
      BY <2>1, <2>2
  <1>4. Shown(item)'
    BY <1>2, <1>3, Effect
  <1> QED
    BY <1>4

\* A request at work on a product has just looked for it, or had before.
LEMMA OwnLook ==
    ASSUME TypeInv, NEW r \in Request, Own(r), Source[req[r].job] = "axonaut",
           req'[r].step \in {"create", "update"}
    PROVE  Find(r)
  <1> PICK work : work = req[r]
    OBVIOUS
  <1>1. work.step # "idle"
    BY DEF Own, Pass, FindName, CreateName, Find, Create, UpdateAxonaut, UpdateHusse, Fails
  <1>2. /\ work \in Work /\ work.item \in DOMAIN Fetched[work.job]
        /\ work.errors \subseteq DOMAIN Fetched[work.job]
        /\ work.step \in {"find name", "create name"} => work.names # << >>
        /\ req \in [Request -> {Idle} \cup Work]
    BY <1>1, AtWork DEF TypeInv, TypeOK
  <1>3. ASSUME NEW state, Become(r, state) \/ BecomeWriting(r, state)
        PROVE  req'[r] = state
    BY <1>2, <1>3 DEF Become, BecomeWriting
  <1>4. ASSUME Moved(work, req'[r])
        PROVE  FALSE
    BY <1>4 DEF Moved, Begun
  <1>5. Moved(work, NextItem(work)) /\ Moved(work, Refused(work))
    BY <1>2, NextItemMoves, RefusedMoves
  <1>6. work.step \in {"find name", "create name"} =>
          Ensuring(work, Tail(work.names)).step \in {"find", "find name"}
    <2> HAVE work.step \in {"find name", "create name"}
    <2>1. work.names # << >> /\ work.names \in Seq(Name)
      BY <1>2 DEF Work
    <2>2. Tail(work.names) \in Seq(Name)
      BY <2>1, FirstName
    <2> QED
      BY <1>2, <2>2, EnsuringSame
  <1>7. CASE Pass(r)
    <2>1. PICK noted : /\ noted = [work EXCEPT !.errors = @ \cup {work.item}]
                       /\ req'[r] = NextItem(work) \/ req'[r] = NextItem(noted)
      BY <1>3, <1>7 DEF Pass
    <2>2. Moved(work, NextItem(noted))
      BY <1>2, <2>1, NotedMoves
    <2> QED
      BY <1>4, <1>5, <2>1, <2>2
  <1>8. CASE FindName(r)
    <2> DEFINE next == [work EXCEPT !.step = "create name"]
    <2>1. work.step = "find name" /\ (req'[r] = Ensuring(work, Tail(work.names)) \/ req'[r] = next)
      BY <1>3, <1>8 DEF FindName
    <2>2. next.step = "create name"
      BY <1>2 DEF Work
    <2> HIDE DEF next
    <2> QED
      BY <1>6, <2>1, <2>2
  <1>9. CASE CreateName(r)
    <2>1. /\ work.step = "create name"
          /\ req'[r] = Ensuring(work, Tail(work.names)) \/ req'[r] = Refused(work)
      BY <1>3, <1>9 DEF CreateName
    <2> QED
      BY <1>4, <1>5, <1>6, <2>1
  <1>10. CASE Create(r) \/ UpdateAxonaut(r) \/ UpdateHusse(r) \/ Fails(r)
    <2>1. req'[r] \in {Refused(work), NextItem(work)}
      BY <1>3, <1>10 DEF Create, UpdateAxonaut, UpdateHusse, Fails
    <2> QED
      BY <1>4, <1>5, <2>1
  <1> QED
    BY <1>7, <1>8, <1>9, <1>10 DEF Own

\* What an import is about to update or create, it has just looked for.
LEMMA LookHeld ==
    ASSUME CurrentInv, [Next]_vars, NEW r \in Request, NEW new, new = req'[r], Good(new), Find(r)
    PROVE  /\ new.step = "update" => Held(new)'
           /\ new.step = "create" => Missing(new)'
  <1> PICK work : work = req[r]
    OBVIOUS
  <1>1. TypeInv /\ products \in Seq(Product) /\ UNCHANGED <<products, names>>
    BY DEF CurrentInv, KnownInv, TypeInv, TypeOK, Find
  <1>2. /\ new.job = work.job /\ new.item = work.item
        /\ \/ new.step = "create" /\ Matches(work.job, Current(work)) = {}
           \/ \E id \in Matches(work.job, Current(work)) :
                /\ new.step = "update" /\ new.id = id
                /\ new.found.sku = products[id].sku /\ new.found.axo = products[id].axo
    BY <1>1, FindStep
  <1>3. Current(new) = Current(work) /\ Current(work) = Fetched[work.job][work.item]
    BY <1>2 DEF Current
  <1>4. \A item : Matches(work.job, item)' = Matches(work.job, item)
    BY <1>1 DEF Matches, Ids
  <1>5. CASE new.step = "create"
    BY <1>2, <1>3, <1>4, <1>5 DEF Missing
  <1>6. CASE new.step = "update"
    <2> DEFINE items == Fetched[work.job]
               item == items[work.item]
    <2>1. ~ Disputed(work.job, work.item)
      BY <1>1, <1>6, FindKind DEF Good
    <2>2. /\ ~ (Cardinality(Matches(work.job, item)) > 1)
          /\ \A m \in DOMAIN items \ {work.item} :
               Matches(work.job, item) \cap Matches(work.job, items[m]) = {}
      BY <2>1 DEF Disputed
    <2>3. /\ new.id \in Matches(work.job, item)
          /\ new.found.sku = products[new.id].sku /\ new.found.axo = products[new.id].axo
      BY <1>2, <1>3, <1>6
    <2> HIDE DEF item
    <2>4. Matches(work.job, item) = {new.id}
      BY <1>1, <2>2, <2>3, TwoMatches
    <2>5. \A m \in DOMAIN items \ {work.item} : new.id \notin Matches(work.job, items[m])
      BY <2>2, <2>3
    <2> HIDE DEF items
    <2>6. /\ Matches(new.job, Current(new))' = {new.id}
          /\ \A m \in DOMAIN Fetched[new.job] \ {new.item} :
               new.id \notin Matches(new.job, Fetched[new.job][m])'
          /\ products'[new.id].sku = new.found.sku /\ products'[new.id].axo = new.found.axo
      BY <1>1, <1>2, <1>3, <1>4, <2>3, <2>4, <2>5 DEF items, item
    <2> QED
      BY <1>6, <2>6 DEF Held, Current
  <1> QED
    BY <1>5, <1>6

\* What a good import holds survives the writes of the others.
LEMMA HeldThroughOthers ==
    ASSUME CurrentInv, [Next]_vars, NEW r \in Request, NEW work, work = req[r],
           NEW new, new = req'[r], Good(new), work # Idle, Alike(work, new)
    PROVE  /\ new.step = "update" => Held(new)'
           /\ new.step = "create" => Missing(new)'
  <1> DEFINE items == Fetched[work.job]
             item == items[work.item]
  <1>1. TypeInv /\ new.job = work.job /\ Good(work)
    <2>1. TypeInv
      BY DEF CurrentInv, KnownInv
    <2> QED
      BY <2>1, GoodStep
  <1>2. /\ new.step = work.step /\ new.item = work.item /\ new.id = work.id
        /\ new.found = work.found
    BY DEF Alike
  <1>3. Current(new) = item /\ Current(work) = item
    BY <1>1, <1>2 DEF Current
  <1>4. work.item \in DOMAIN items
    BY <1>1 DEF TypeInv, TypeOK
  <1>5. UNCHANGED products \/ \E n \in DOMAIN items : \E id : Written(work.job, n, id)
    <2> HIDE DEF item
    <2> QED
      BY <1>1, Effect
  <1>6. CASE new.step = "update"
    <2> DEFINE id == work.id
               found == work.found
    <2>1. Held(work)
      BY <1>1, <1>2, <1>6 DEF CurrentInv, HeldInv
    <2>2. /\ Matches(work.job, item) = {id}
          /\ \A m \in DOMAIN items \ {work.item} : id \notin Matches(work.job, items[m])
          /\ products[id].sku \in {found.sku, item.sku}
          /\ \/ products[id].axo = found.axo
             \/ item.axo # 0 /\ products[id].axo = item.axo
      BY <1>3, <2>1 DEF Held
    <2>3. id \in Ids
      <3> HIDE DEF item
      <3> QED
        BY <2>2 DEF Matches
    <2> DEFINE StillHeld == /\ Matches(work.job, item)' = {id}
                            /\ \A m \in DOMAIN items \ {work.item} :
                                 id \notin Matches(work.job, items[m])'
                            /\ products'[id].sku \in {found.sku, item.sku}
                            /\ \/ products'[id].axo = found.axo
                               \/ item.axo # 0 /\ products'[id].axo = item.axo
    <2>4. ASSUME UNCHANGED products
          PROVE  StillHeld
      <3>1. \A any : Matches(work.job, any)' = Matches(work.job, any)
        BY <2>4 DEF Matches, Ids
      <3> HIDE DEF item, items, id, found
      <3> QED
        BY <2>2, <2>4, <3>1
    <2>5. ASSUME NEW n \in DOMAIN items, NEW written, Written(work.job, n, written)
          PROVE  StillHeld
      <3>1. /\ \A other \in Ids \ {written} : products'[other] = products[other]
            /\ Matches(work.job, items[n]) \subseteq {written}
            /\ Matches(work.job, items[n])' = {written}
            /\ \A m \in DOMAIN items \ {n} :
                 /\ written \notin Matches(work.job, items[m])
                 /\ Matches(work.job, items[m])' = Matches(work.job, items[m])
            /\ written \in Ids /\ items[n].axo = 0 => products'[written].axo = products[written].axo
        BY <2>5 DEF Written
      <3>2. /\ products'[written].sku = items[n].sku
            /\ items[n].axo # 0 => products'[written].axo = items[n].axo
        BY <2>5 DEF Written, Shows
      <3> HIDE DEF items, id, found
      <3>3. CASE n = work.item
        <4>1. written = id
          BY <2>2, <3>1, <3>3
        <4>2. Matches(work.job, item)' = {id} /\ products'[id].sku = item.sku
          BY <3>1, <3>2, <3>3, <4>1
        <4>3. \/ products'[id].axo = found.axo
              \/ item.axo # 0 /\ products'[id].axo = item.axo
          BY <2>2, <2>3, <3>1, <3>2, <3>3, <4>1
        <4>4. \A m \in DOMAIN items \ {work.item} : id \notin Matches(work.job, items[m])'
          BY <2>2, <3>1, <3>3
        <4> HIDE DEF item
        <4> QED
          BY <4>2, <4>3, <4>4
      <3>4. CASE n # work.item
        <4>1. Matches(work.job, item)' = {id}
          BY <1>4, <2>2, <3>1, <3>4
        <4>2. written # id
          BY <1>4, <2>2, <3>1, <3>4
        <4>3. products'[id] = products[id]
          BY <2>3, <3>1, <4>2
        <4>4. \A m \in DOMAIN items \ {work.item} : id \notin Matches(work.job, items[m])'
          <5> TAKE m \in DOMAIN items \ {work.item}
          <5>1. CASE m = n
            BY <3>1, <4>2, <5>1
          <5>2. CASE m # n
            BY <2>2, <3>1, <5>2
          <5> QED
            BY <5>1, <5>2
        <4> HIDE DEF item
        <4> QED
          BY <2>2, <4>1, <4>3, <4>4
      <3> QED
        BY <3>3, <3>4
    <2> HIDE DEF StillHeld
    <2>6. StillHeld
      BY <1>5, <2>4, <2>5
    <2>7. Held(new)'
      <3>1. new.id = id /\ new.found = found /\ Fetched[new.job] = items
        BY <1>1, <1>2
      <3> HIDE DEF items, item, id, found
      <3> QED
        BY <1>1, <1>2, <1>3, <2>6, <3>1 DEF Held, StillHeld
    <2> QED
      BY <1>6, <2>7
  <1>7. CASE new.step = "create"
    <2>1. Matches(work.job, item) = {} \/ Shown(item)
      BY <1>1, <1>2, <1>3, <1>7 DEF CurrentInv, HeldInv, Missing
    <2>2. CASE Shown(item)
      <3>1. Shown(item)'
        BY <1>1, <1>4, <2>2, ShownStays
      <3> HIDE DEF item
      <3> QED
        BY <1>3, <1>7, <3>1 DEF Missing
    <2>3. CASE Matches(work.job, item) = {} /\ UNCHANGED products
      <3>1. Matches(work.job, item)' = {}
        BY <2>3 DEF Matches, Ids
      <3> HIDE DEF item
      <3> QED
        BY <1>1, <1>3, <1>7, <3>1 DEF Missing
    <2>4. ASSUME Matches(work.job, item) = {},
                 NEW n \in DOMAIN items, NEW written, Written(work.job, n, written)
          PROVE  Matches(work.job, item)' = {} \/ Shown(item)'
      <3>1. CASE n = work.item
        <4>1. Shows(products[written], item)' /\ written \in Ids'
          BY <2>4, <3>1 DEF Written
        <4> HIDE DEF item
        <4> QED
          BY <4>1 DEF Shown
      <3>2. CASE n # work.item
        BY <1>4, <2>4, <3>2 DEF Written
      <3> QED
        BY <3>1, <3>2
    <2> HIDE DEF item
    <2>5. Matches(work.job, item)' = {} \/ Shown(item)' => Missing(new)'
      BY <1>1, <1>3 DEF Missing
    <2> QED
      BY <1>5, <1>7, <2>1, <2>2, <2>3, <2>4, <2>5
  <1> QED
    BY <1>6, <1>7

LEMMA HeldStep ==
    ASSUME CurrentInv, [Next]_vars
    PROVE  HeldInv'
  <1>1. SUFFICES ASSUME NEW r \in Request, NEW new, new = req'[r], Good(new)
                 PROVE  /\ new.step = "update" => Held(new)'
                        /\ new.step = "create" => Missing(new)'
    BY DEF HeldInv
  <1>2. TypeInv
    BY DEF CurrentInv, KnownInv
  <1> PICK work : work = req[r]
    OBVIOUS
  <1>3. CASE \E j \in Import : Start(r, j)
    BY <1>1, <1>2, <1>3, StartBegins DEF Begun
  <1>4. CASE Own(r)
    <2>1. Source[work.job] = "axonaut"
      BY <1>1, <1>2, <1>4, OwnJob DEF Good
    <2>2. new.step \in {"create", "update"} => Find(r)
      BY <1>1, <1>2, <1>4, <2>1, OwnLook
    <2> QED
      BY <1>1, <2>2, LookHeld
  <1>5. CASE work # Idle /\ Alike(work, new)
    BY <1>1, <1>5, HeldThroughOthers
  <1> QED
    BY <1>1, <1>2, <1>3, <1>4, <1>5, StepOf DEF Good

LEMMA OneName ==
    ASSUME NEW name, NEW left, left = << name >>
    PROVE  Head(left) = name /\ Tail(left) = << >>
  OBVIOUS

\* An import that goes on with the next item has that one and all after it ahead.
LEMMA MovedAhead ==
    ASSUME NEW all, NEW old \in Work, old.item \in DOMAIN Fetched[old.job], NEW new,
           Moved(old, new), Good(new), NEW n \in DOMAIN Fetched[old.job], old.item < n
    PROVE  Ahead(all, new, old.job, n)
  <1>1. old.job \in Import /\ old.item \in Nat /\ new.job = old.job
    BY DEF Work, Moved, Same
  <1>2. n \in Nat /\ n <= Len(Fetched[old.job]) /\ Len(Fetched[old.job]) \in Nat
    BY <1>1, ItemTypes
  <1>3. old.item # Len(Fetched[old.job])
    BY <1>1, <1>2
  <1>4. new.item = old.item + 1 /\ new.step \in {"pass", "find name", "find"}
    BY <1>3 DEF Moved, Begun
  <1>5. new.item < n \/ new.item = n
    <2>1. \A i, m \in Nat : i < m => i + 1 < m \/ i + 1 = m
      OBVIOUS
    <2> QED
      BY <1>1, <1>2, <1>4, <2>1
  <1> QED
    BY <1>1, <1>4, <1>5 DEF Ahead, Active, Doomed

\* The own step of a good import with item n ahead gives the item its product or
\* leaves it ahead, unless a call for it fails; a refusal to create it means that
\* another import has.
LEMMA AheadOwn ==
    ASSUME CurrentInv, [Next]_vars, NEW r \in Request, NEW job,
           NEW n \in DOMAIN Fetched[job], Fetched[job][n].sku # None,
           NEW work, work = req[r], Ahead(names, work, job, n), Own(r),
           NEW new, new = req'[r], Good(new), new.job = job,
           Shown(Fetched[job][n]) => Shown(Fetched[job][n])'
    PROVE  n \in lost'[job] \/ Ahead(names', new, job, n) \/ Shown(Fetched[job][n])'
  <1> DEFINE item == Current(work)
  <1>1. /\ TypeInv /\ KnownInv /\ Good(work) /\ work.job = job
        /\ work.step # "idle"
        /\ work.item < n \/ (work.item = n /\ ~ Doomed(names, work))
    BY DEF CurrentInv, KnownInv, Ahead, Own, Pass, FindName, CreateName, Find, Create,
           UpdateAxonaut, UpdateHusse, Fails
  <1>2. /\ work \in Work /\ work.job \in Import /\ work.item \in DOMAIN Fetched[job]
        /\ work.item \in Nat /\ work.errors \subseteq DOMAIN Fetched[job]
        /\ Source[work.job] = "axonaut" /\ n \in Nat
        /\ req \in [Request -> {Idle} \cup Work]
    BY <1>1, AtWork, ItemTypes DEF Good, TypeInv, TypeOK
  <1>3. Named(names, lost[work.job], work)
    BY <1>1 DEF CurrentInv, NamesInv, OfAxonaut, Good
  <1>4. ASSUME NEW state, Become(r, state) \/ BecomeWriting(r, state)
        PROVE  new = state
    BY <1>2, <1>4 DEF Become, BecomeWriting
  <1>5. ASSUME Moved(work, new), work.item # n
        PROVE  Ahead(names', new, job, n)
    <2>1. work.item < n
      BY <1>1, <1>5
    <2> QED
      BY <1>1, <1>2, <1>5, <2>1, MovedAhead
  <1>6. Moved(work, NextItem(work)) /\ Moved(work, Refused(work))
    BY <1>1, <1>2, NextItemMoves, RefusedMoves
  <1>7. ASSUME new.item = work.item, new.step \notin {"done", "failed"},
               new.step = "create name" => Head(new.names) \notin names'
        PROVE  Ahead(names', new, job, n)
    BY <1>1, <1>7 DEF Ahead, Active, Doomed
  <1>8. ASSUME work.item = n
        PROVE  item = Fetched[job][n]
    BY <1>1, <1>8 DEF Current
  <1>9. CASE Pass(r)
    <2>1. PICK noted : /\ noted = [work EXCEPT !.errors = @ \cup {work.item}]
                       /\ new = NextItem(work) \/ new = NextItem(noted)
      BY <1>4, <1>9 DEF Pass
    <2>2. Moved(work, new)
      BY <1>1, <1>2, <1>6, <2>1, NotedMoves
    <2>3. work.step = "pass" /\ item.sku = None
      BY <1>3, <1>9 DEF Pass, Named
    <2> QED
      BY <1>5, <1>8, <2>2, <2>3
  <1>10. work.step \in {"find name", "create name"} =>
           /\ Ensuring(work, Tail(work.names)).item = work.item
           /\ Ensuring(work, Tail(work.names)).step = "find"
    <2> HAVE work.step \in {"find name", "create name"}
    <2>1. work.names = << Packaging(item.packaging) >>
      BY <1>3 DEF Named
    <2>2. Tail(work.names) = << >>
      BY <2>1, OneName
    <2>3. Ensuring(work, << >>).item = work.item /\ Ensuring(work, << >>).step = "find"
      BY <1>2, NoNames, EnsuringSame
    <2> QED
      BY <2>2, <2>3
  <1>11. CASE FindName(r)
    <2> DEFINE next == [work EXCEPT !.step = "create name"]
    <2>1. work.step = "find name" /\ UNCHANGED names
      BY <1>11 DEF FindName
    <2>2. CASE Head(work.names) \in names
      BY <1>4, <1>7, <1>10, <1>11, <2>1, <2>2 DEF FindName
    <2>3. CASE Head(work.names) \notin names
      <3>1. new = next
        BY <1>4, <1>11, <2>3 DEF FindName
      <3>2. next.step = "create name" /\ next.item = work.item /\ next.names = work.names
        BY <1>2 DEF Work
      <3> HIDE DEF next
      <3> QED
        BY <1>7, <2>1, <2>3, <3>1, <3>2
    <2> QED
      BY <2>2, <2>3
  <1>12. CASE CreateName(r)
    <2>1. work.step = "create name"
      BY <1>12 DEF CreateName
    <2>2. CASE Head(work.names) \in names
      <3>1. new = Refused(work)
        BY <1>4, <1>12, <2>2 DEF CreateName
      <3>2. Doomed(names, work)
        BY <2>1, <2>2 DEF Doomed
      <3>3. work.item # n
        BY <1>1, <1>2, <3>2
      <3> QED
        BY <1>5, <1>6, <3>1, <3>3
    <2>3. CASE Head(work.names) \notin names
      <3>1. new = Ensuring(work, Tail(work.names))
        BY <1>4, <1>12, <2>3 DEF CreateName
      <3> QED
        BY <1>7, <1>10, <2>1, <3>1
    <2> QED
      BY <2>2, <2>3
  <1>13. CASE Find(r)
    <2>1. new.item = work.item /\ new.step \in {"create", "update"}
      BY <1>1, <1>13, FindStep
    <2> QED
      BY <1>7, <2>1
  <1>14. ASSUME NEW id, Written(job, work.item, id), Moved(work, new)
         PROVE  Ahead(names', new, job, n) \/ Shown(Fetched[job][n])'
    <2>1. CASE work.item # n
      BY <1>5, <1>14, <2>1
    <2>2. CASE work.item = n
      <3>1. Shows(products[id], Fetched[job][n])' /\ id \in Ids'
        BY <1>14, <2>2 DEF Written
      <3> QED
        BY <3>1 DEF Shown
    <2> QED
      BY <2>1, <2>2
  <1>15. CASE Create(r)
    <2>1. work.step = "create"
      BY <1>15 DEF Create
    <2>2. CASE Clashes(0, Made(work))
      <3>1. new = Refused(work)
        BY <1>4, <1>15, <2>2 DEF Create
      <3>2. Matches(job, item) # {}
        <4>1. PICK other \in Ids : \/ products[other].sku = Made(work).sku
                                   \/ Made(work).axo # 0 /\ products[other].axo = Made(work).axo
          BY <2>2 DEF Clashes
        <4>2. Made(work).sku = item.sku /\ Made(work).axo = item.axo
          BY <1>2 DEF Made
        <4>3. other \in Matches(job, item)
          BY <1>1, <1>2, <4>1, <4>2 DEF Matches
        <4> QED
          BY <4>3
      <3>3. Shown(item)
        BY <1>1, <2>1, <3>2 DEF CurrentInv, HeldInv, Missing
      <3> QED
        BY <1>5, <1>6, <1>8, <3>1, <3>3
    <2>3. CASE ~ Clashes(0, Made(work))
      <3>1. new = NextItem(work)
        BY <1>4, <1>15, <2>3 DEF Create
      <3>2. \E id : Written(job, work.item, id)
        BY <1>1, <1>3, <1>15, <2>3, CreateWrites
      <3> QED
        BY <1>6, <1>14, <3>1, <3>2
    <2> QED
      BY <2>2, <2>3
  <1>16. CASE UpdateAxonaut(r)
    <2>1. Held(work)
      BY <1>1, <1>16 DEF UpdateAxonaut, CurrentInv, HeldInv
    <2>2. Written(job, work.item, work.id) /\ BecomeWriting(r, NextItem(work))
      BY <1>1, <1>3, <1>16, <2>1, UpdateWrites
    <2>3. new = NextItem(work)
      BY <1>4, <2>2
    <2> QED
      BY <1>6, <1>14, <2>2, <2>3
  <1>17. CASE UpdateHusse(r)
    BY <1>2, <1>17 DEF UpdateHusse, OfHusse
  <1>18. CASE Fails(r)
    <2>1. new = Refused(work) /\ lost' = [lost EXCEPT ![job] = @ \cup {work.item}]
      BY <1>1, <1>4, <1>18 DEF Fails
    <2>2. work.item \in lost'[job]
      BY <1>1, <1>2, <2>1 DEF TypeInv, TypeOK
    <2> QED
      BY <1>5, <1>6, <2>1, <2>2
  <1> QED
    BY <1>9, <1>11, <1>12, <1>13, <1>15, <1>16, <1>17, <1>18 DEF Own

\* An item that a good import has ahead gets its product, stays ahead of one, or
\* a call for it fails.
LEMMA AheadStep ==
    ASSUME CurrentInv, [Next]_vars, NEW r \in Request, Good(req'[r]), NEW job, job = req'[r].job,
           NEW n \in DOMAIN Fetched[job], Fetched[job][n].sku # None,
           NEW q \in Request, Ahead(names, req[q], job, n)
    PROVE  \/ n \in lost'[job] \/ Shown(Fetched[job][n])'
           \/ \E p \in Request : Ahead(names', req'[p], job, n)
  <1> PICK work : work = req[q]
    OBVIOUS
  <1> PICK new : new = req'[q]
    OBVIOUS
  <1>1. /\ TypeInv /\ Good(work) /\ work.job = job /\ Active(work)
        /\ work.item < n \/ (work.item = n /\ ~ Doomed(names, work))
    BY DEF CurrentInv, KnownInv, Ahead
  <1>2. Good(new) /\ new.job = job
    BY <1>1, GoodStep
  <1>3. CASE Own(q)
    <2>1. Shown(Fetched[job][n]) => Shown(Fetched[job][n])'
      BY ShownStays
    <2>2. n \in lost'[job] \/ Ahead(names', new, job, n) \/ Shown(Fetched[job][n])'
      BY <1>2, <1>3, <2>1, AheadOwn
    <2> QED
      BY <2>2
  <1>4. CASE Alike(work, new)
    <2>1. new.item = work.item /\ new.step = work.step /\ new.names = work.names
      BY <1>4 DEF Alike
    <2>2. CASE ~ Doomed(names', new) \/ work.item < n
      <3>1. Ahead(names', new, job, n)
        BY <1>1, <1>2, <2>1, <2>2 DEF Ahead, Active
      <3> QED
        BY <3>1
    <2>3. CASE Doomed(names', new) /\ work.item = n
      <3> DEFINE item == Fetched[job][n]
      <3>1. work.step = "create name" /\ Head(work.names) \notin names /\ Head(work.names) \in names'
        <4>1. ~ Doomed(names, work)
          <5>1. work \in Work
            BY <1>1 DEF Good, TypeInv, TypeOK
          <5>2. work.item \in Nat
            BY <5>1 DEF Work
          <5> QED
            BY <1>1, <2>3, <5>2
        <4> QED
          BY <2>1, <2>3, <4>1 DEF Doomed
      <3>2. Head(work.names) = Packaging(item.packaging) /\ item.packaging # None
        <4>1. Named(names, lost[work.job], work)
          BY <1>1 DEF CurrentInv, NamesInv, OfAxonaut, Good
        <4>2. Current(work) = item
          BY <1>1, <2>3 DEF Current
        <4>3. work.names = << Packaging(item.packaging) >> /\ item.packaging # None
          BY <3>1, <4>1, <4>2 DEF Named
        <4> HIDE DEF item
        <4> QED
          BY <4>3
      <3>3. PICK x \in Request :
              /\ Good(req[x]) /\ req[x].job = job
              /\ names' = names \cup {Packaging(Current(req[x]).packaging)}
              /\ Good(req'[x]) /\ req'[x].job = job
              /\ req'[x].step = "find" /\ req'[x].item = req[x].item
        <4>1. names' # names
          BY <3>1
        <4>2. ~ \E m \in DOMAIN Fetched[job] : \E id : Written(job, m, id)
          BY <4>1 DEF Written
        <4> QED
          BY <4>1, <4>2, Effect
      <3>4. Packaging(item.packaging) \notin names
        BY <3>1, <3>2
      <3>5. n \in lost[job] \/ ~ (n < req[x].item)
        <4>1. Named(names, lost[req[x].job], req[x])
          BY <3>3 DEF CurrentInv, NamesInv, OfAxonaut, Good
        <4>2. n < req[x].item => n \in lost[job] \/ Packed(names, item)
          BY <3>3, <4>1 DEF Named
        <4> QED
          BY <3>2, <3>4, <4>2 DEF Packed
      <3>6. req[x].item \in Nat /\ n \in Nat
        <4>1. req[x] \in Work /\ job \in Import
          <5>1. req[x] \in Work
            BY <1>1, <3>3 DEF Good, TypeInv, TypeOK
          <5> QED
            BY <3>3, <5>1 DEF Work
        <4> QED
          BY <4>1, ItemTypes DEF Work
      <3>7. CASE n \in lost[job]
        BY <1>1, <1>2, <3>7, LostStays DEF Good
      <3>8. CASE ~ (n < req[x].item)
        <4>1. req'[x].item < n \/ req'[x].item = n
          BY <3>3, <3>6, <3>8
        <4>2. Ahead(names', req'[x], job, n)
          BY <3>3, <4>1 DEF Ahead, Active, Doomed
        <4> QED
          BY <4>2
      <3> QED
        BY <3>5, <3>7, <3>8
    <2> QED
      BY <1>1, <2>2, <2>3
  <1>5. CASE \E j \in Import : Start(q, j)
    BY <1>1, <1>5 DEF Start, Good
  <1> QED
    BY <1>1, <1>2, <1>3, <1>4, <1>5, StepOf DEF Good

LEMMA HandledStep ==
    ASSUME CurrentInv, [Next]_vars
    PROVE  HandledInv'
  <1>1. SUFFICES ASSUME NEW r \in Request, Good(req'[r]), NEW job, job = req'[r].job,
                        NEW n \in DOMAIN Fetched[job], Fetched[job][n].sku # None
                 PROVE  \/ n \in lost'[job] \/ Shown(Fetched[job][n])'
                        \/ \E q \in Request : Ahead(names', req'[q], job, n)
    BY DEF HandledInv
  <1>2. TypeInv
    BY DEF CurrentInv, KnownInv
  <1>3. CASE req[r] # Idle
    <2>1. Good(req[r]) /\ req[r].job = job
      BY <1>1, <1>2, <1>3, GoodStep
    <2>2. \/ n \in lost[job] \/ Shown(Fetched[job][n])
          \/ \E q \in Request : Ahead(names, req[q], job, n)
      BY <1>1, <2>1 DEF CurrentInv, HandledInv
    <2>3. n \in lost[job] => n \in lost'[job]
      BY <1>1, <1>2, <1>3, <2>1, LostStays DEF Good
    <2> QED
      BY <1>1, <2>2, <2>3, ShownStays, AheadStep
  <1>4. CASE req[r] = Idle
    <2>1. \E j \in Import : Start(r, j)
      <3>1. ~ Own(r)
        BY <1>4 DEF Idle, Own, Pass, FindName, CreateName, Find, Create, UpdateAxonaut, UpdateHusse,
               Fails
      <3> QED
        BY <1>1, <1>2, <1>4, <3>1, StepOf DEF Good
    <2>2. PICK j \in Import : Start(r, j)
      BY <2>1
    <2>3. Begun(req'[r]) /\ req'[r].item = 1 /\ job = j
      BY <1>1, <1>2, <2>2, StartBegins
    <2>4. n \in Nat /\ 1 <= n
      BY <1>1, <2>3, ItemTypes
    <2>5. Ahead(names', req'[r], job, n)
      <3>1. 1 < n \/ 1 = n
        BY <2>4
      <3>2. Active(req'[r]) /\ ~ Doomed(names', req'[r])
        BY <2>3 DEF Begun, Active, Doomed
      <3> QED
        BY <1>1, <2>3, <3>1, <3>2 DEF Ahead
    <2> QED
      BY <1>1, <2>5
  <1> QED
    BY <1>3, <1>4

\* However many imports of a catalogue of Axonaut overlap and whatever calls fail,
\* once one of the imports has answered, if nothing else wrote meanwhile, none of
\* them died and no disputed item tore it, every item with a reference has a
\* product as importProducts makes it, or an import that is still at work has the
\* item ahead, or a call for that very item failed, in this import or in one that
\* it overlapped.
THEOREM ImportedAlwaysCurrent == Spec => []ImportedIsCurrent
  <1>1. Init => CurrentInv
    <2> SUFFICES ASSUME Init
                 PROVE  CurrentInv
      OBVIOUS
    <2>1. TypeInv
      BY CatalogueAssumption DEF Init, TypeInv, TypeOK, RequestOn, Idle
    <2>2. Ids = {} /\ \A r \in Request : req[r] = Idle
      BY DEF Init, Ids
    <2> QED
      BY <2>1, <2>2 DEF CurrentInv, KnownInv, OneOwner, NamesInv, HeldInv, HandledInv, OfAxonaut,
                        Good
  <1>2. CurrentInv /\ [Next]_vars => CurrentInv'
    <2> SUFFICES ASSUME CurrentInv, [Next]_vars
                 PROVE  CurrentInv'
      OBVIOUS
    <2>1. KnownInv' /\ NamesInv'
      BY KnownStep, NamesStep DEF CurrentInv, KnownInv
    <2> QED
      BY <2>1, HeldStep, HandledStep DEF CurrentInv
  <1>3. CurrentInv => ImportedIsCurrent
    <2> SUFFICES ASSUME CurrentInv, NEW r \in Request, NEW work, work = req[r],
                        OfAxonaut(work), work.step = "done", work.writers \subseteq {work.job},
                        ~ work.torn, NEW items, items = Fetched[work.job], Distinct(items),
                        NEW n \in DOMAIN items, items[n].sku # None
                 PROVE  \/ n \in lost[work.job]
                        \/ \E id \in Ids : Shows(products[id], items[n])
                        \/ \E q \in Request : /\ req[q] # Idle /\ req[q].job = work.job
                                              /\ req[q].step # "done" /\ req[q].item <= n
      BY DEF ImportedIsCurrent
    <2>1. Good(work)
      BY DEF Good, OfAxonaut
    <2>2. \/ n \in lost[work.job] \/ Shown(items[n])
          \/ \E q \in Request : Ahead(names, req[q], work.job, n)
      BY <2>1 DEF CurrentInv, HandledInv
    <2>3. ASSUME NEW q \in Request, Ahead(names, req[q], work.job, n)
          PROVE  /\ req[q] # Idle /\ req[q].job = work.job
                 /\ req[q].step # "done" /\ req[q].item <= n
      <3>1. /\ req[q] # Idle /\ req[q].job = work.job /\ req[q].step # "done"
            /\ req[q].item < n \/ req[q].item = n
        BY <2>3 DEF Ahead, Good, Active
      <3>2. req[q] \in Work
        BY <3>1 DEF CurrentInv, KnownInv, TypeInv, TypeOK
      <3>3. req[q].item \in Nat /\ work.job \in Import
        BY <3>1, <3>2 DEF Work
      <3>4. n \in Nat
        BY <3>3, ItemTypes
      <3> QED
        BY <3>1, <3>3, <3>4
    <2> QED
      BY <2>2, <2>3 DEF Shown
  <1> QED
    BY <1>1, <1>2, <1>3, PTL DEF Spec

-----------------------------------------------------------------------------
(***************************************************************************)
(* Husse imports that overlap each other and nothing else.  One that dies   *)
(* has lost a creation to another, and that one is then past its own: the   *)
(* last that wrote is neither dead nor bound to die.                        *)
(***************************************************************************)
OnlyHusse(state) ==
    OfHusse(state) /\ \A j \in state.writers : j \in Import /\ Source[j] = "husse"

\* Refused, or bound to be: what it is about to create is there.
Late(state) ==
    \/ state.step = "failed"
    \/ Doomed(names, state)
    \/ state.step = "create" /\ Matches(state.job, Current(state)) # {}

\* The product that is about to be updated still has the reference.
UpdateKnown(state) == state.step = "update" => products[state.id].sku = Current(state).sku

OneLate ==
    /\ \A r \in Request : OnlyHusse(req[r]) => UpdateKnown(req[r])
    /\ \E r \in Request : OnlyHusse(req[r]) => ~ Late(req[r])

HusseInv == TypeInv /\ OneLate

LEMMA OnlyBefore ==
    ASSUME TypeInv, [Next]_vars, NEW q \in Request, OnlyHusse(req'[q]), req[q] # Idle
    PROVE  /\ OnlyHusse(req[q])
           /\ \/ UNCHANGED <<products, names>>
              \/ \E r \in Request : Writes(r) /\ OnlyHusse(req[r])
  <1>1. req[q] \in Work /\ req'[q] # Idle
    BY DEF TypeInv, TypeOK, OnlyHusse, OfHusse
  <1>2. ASSUME Same(req[q], req'[q])
        PROVE  OnlyHusse(req[q])
    BY <1>2 DEF Same, OnlyHusse, OfHusse
  <1>3. CASE Quiet
    BY <1>1, <1>2, <1>3 DEF Quiet
  <1>4. CASE Tearing
    <2>1. req'[q].job = req[q].job /\ req'[q].writers = req[q].writers
      BY <1>4 DEF Tearing, Same
    <2> QED
      BY <1>4, <2>1 DEF Tearing, OnlyHusse, OfHusse
  <1>5. CASE Spoiling
    <2>1. req'[q].writers \cap {"user", "fault"} # {} /\ req'[q].writers \subseteq Import
      BY <1>1, <1>5 DEF Spoiling, OnlyHusse
    <2> QED
      BY <2>1, CatalogueAssumption
  <1>6. ASSUME NEW r \in Request, Writing(r)
        PROVE  OnlyHusse(req[q]) /\ Writes(r) /\ OnlyHusse(req[r])
    <2>1. Writes(r) /\ Same(req[r], req'[r])
      BY <1>6 DEF Writing
    <2>2. req[r] # Idle
      <3>1. req[r].step # "idle"
        BY <2>1 DEF Writes, CreateName, Create, UpdateAxonaut, UpdateHusse
      <3> QED
        BY <3>1, AtWork
    <2>3. CASE r = q
      BY <1>2, <2>1, <2>3
    <2>4. CASE r # q
      <3> PICK others : others = {req[r].job} \cup req[r].writers
        OBVIOUS
      <3>1. req'[q] = Disturbed(req[q], others, req[r].torn)
        BY <1>6, <2>4 DEF Writing
      <3>2. req'[q].job = req[q].job /\ req'[q].writers = req[q].writers \cup others
        <4>1. req'[q] = [req[q] EXCEPT !.writers = @ \cup others, !.torn = @ \/ req[r].torn,
                                       !.stale = TRUE]
          BY <3>1 DEF Disturbed
        <4> QED
          BY <1>1, <4>1 DEF Work
      <3> QED
        BY <2>1, <2>2, <3>2 DEF OnlyHusse, OfHusse
    <2> QED
      BY <2>1, <2>3, <2>4
  <1> QED
    BY <1>3, <1>4, <1>5, <1>6, StepKind

\* Husse imports never change a reference.
LEMMA SkusStay ==
    ASSUME TypeInv, NEW r \in Request, Writes(r), OfHusse(req[r]), NEW id \in Ids
    PROVE  products'[id].sku = products[id].sku
  <1> PICK work : work = req[r]
    OBVIOUS
  <1>1. work.step # "idle"
    BY DEF Writes, CreateName, Create, UpdateAxonaut, UpdateHusse
  <1>2. /\ work \in Work /\ work.job \in Import /\ work.item \in DOMAIN Fetched[work.job]
        /\ work.step \notin {"pass", "done", "failed"} => Current(work).sku # None
        /\ products \in Seq(Product) /\ Source[work.job] = "husse"
    BY <1>1, AtWork DEF TypeInv, TypeOK, OfHusse
  <1>3. CASE UNCHANGED products
    BY <1>3
  <1>4. CASE Create(r) /\ ~ Clashes(0, Made(work))
    <2>1. products' = Append(products, Made(work)) /\ work.step = "create"
      BY <1>4 DEF Create
    <2> QED
      BY <1>2, <2>1 DEF Ids
  <1>5. CASE UpdateHusse(r)
    <2>1. CASE UNCHANGED products
      BY <2>1
    <2>2. ASSUME NEW owner \in Ids,
                 products' = [products EXCEPT ![owner] = Scraped(@, Current(work), work.found)]
          PROVE  products'[id].sku = products[id].sku
      <3>1. Scraped(products[owner], Current(work), work.found).sku = products[owner].sku
        <4>1. products[owner] \in Product
          BY <1>2 DEF Ids
        <4> QED
          BY <4>1 DEF Scraped, Product
      <3>2. products'[id] = IF id = owner THEN Scraped(products[owner], Current(work), work.found)
                            ELSE products[id]
        BY <1>2, <2>2 DEF Ids
      <3> QED
        BY <3>1, <3>2
    <2> QED
      BY <1>5, <2>1, <2>2 DEF UpdateHusse
  <1> QED
    BY <1>2, <1>3, <1>4, <1>5 DEF Writes, CreateName, UpdateAxonaut, OfAxonaut

\* An own step leaves a Husse import late only where it was refused, and then it
\* was late already and nothing was written; it comes to an update by a look.
LEMMA HusseOwn ==
    ASSUME TypeInv, NEW r \in Request, Own(r), NEW work, work = req[r], NEW new, new = req'[r],
           OfHusse(work), UpdateKnown(work)
    PROVE  /\ new.step = "update" => Find(r)
           /\ Late(new)' => Late(work) /\ UNCHANGED <<products, names>>
  <1> DEFINE Left == /\ new.step = "update" => Find(r)
                     /\ Late(new)' => Late(work) /\ UNCHANGED <<products, names>>
  <1>1. work.step # "idle"
    BY DEF Own, Pass, FindName, CreateName, Find, Create, UpdateAxonaut, UpdateHusse, Fails
  <1>2. /\ work \in Work /\ work.job \in Import /\ work.item \in DOMAIN Fetched[work.job]
        /\ work.step \in {"find name", "create name"} <=> work.names # << >>
        /\ work.step = "update" => work.id \in Ids
        /\ req \in [Request -> {Idle} \cup Work] /\ Source[work.job] = "husse"
    BY <1>1, AtWork DEF TypeInv, TypeOK, OfHusse
  <1>3. ASSUME NEW state, Become(r, state) \/ BecomeWriting(r, state)
        PROVE  new = state
    BY <1>2, <1>3 DEF Become, BecomeWriting
  <1>4. ASSUME new.step \in {"pass", "find name", "find", "done"}
        PROVE  Left
    BY <1>4 DEF Late, Doomed
  <1>5. ASSUME new = NextItem(work)
        PROVE  Left
    <2>1. Moved(work, new)
      BY <1>2, <1>5, NextItemMoves
    <2> QED
      BY <1>4, <2>1 DEF Moved, Begun
  <1>6. ASSUME new = Ensuring(work, Tail(work.names)), work.step \in {"find name", "create name"}
        PROVE  Left
    <2>1. work.names # << >> /\ work.names \in Seq(Name)
      BY <1>2, <1>6 DEF Work
    <2>2. Tail(work.names) \in Seq(Name)
      BY <2>1, FirstName
    <2>3. Ensuring(work, Tail(work.names)).step \in {"find name", "find"}
      BY <1>2, <2>2, EnsuringSame
    <2> QED
      BY <1>4, <1>6, <2>3
  <1>7. ASSUME new = Refused(work), Late(work), UNCHANGED <<products, names>>
        PROVE  Left
    <2> DEFINE failed == [work EXCEPT !.step = "failed", !.names = << >>]
    <2>1. new = failed
      BY <1>2, <1>7 DEF Refused
    <2>2. failed.step = "failed"
      BY <1>2 DEF Work
    <2> HIDE DEF failed
    <2> QED
      BY <1>7, <2>1, <2>2
  <1>8. CASE Pass(r)
    <2>1. new = NextItem(work)
      BY <1>2, <1>3, <1>8 DEF Pass
    <2> QED
      BY <1>5, <2>1
  <1>9. CASE FindName(r)
    <2> DEFINE next == [work EXCEPT !.step = "create name"]
    <2>1. CASE Head(work.names) \in names
      BY <1>3, <1>6, <1>9, <2>1 DEF FindName
    <2>2. CASE Head(work.names) \notin names
      <3>1. new = next /\ UNCHANGED <<products, names>>
        BY <1>3, <1>9, <2>2 DEF FindName
      <3>2. next.step = "create name" /\ next.names = work.names
        BY <1>2 DEF Work
      <3> HIDE DEF next
      <3> QED
        BY <2>2, <3>1, <3>2 DEF Late, Doomed
    <2> QED
      BY <2>1, <2>2
  <1>10. CASE CreateName(r)
    <2>1. work.step = "create name" /\ UNCHANGED products
      BY <1>10 DEF CreateName
    <2>2. CASE Head(work.names) \in names
      <3>1. new = Refused(work) /\ UNCHANGED names
        BY <1>3, <1>10, <2>2 DEF CreateName
      <3> QED
        BY <1>7, <2>1, <2>2, <3>1 DEF Late, Doomed
    <2>3. CASE Head(work.names) \notin names
      BY <1>3, <1>6, <1>10, <2>1, <2>3 DEF CreateName
    <2> QED
      BY <2>2, <2>3
  <1>11. CASE Find(r)
    <2>1. UNCHANGED <<products, names>>
      BY <1>11 DEF Find
    <2>2. /\ new.job = work.job /\ new.item = work.item
          /\ \/ new.step = "create" /\ Matches(work.job, Current(work)) = {}
             \/ new.step = "update"
      BY <1>11, FindStep
    <2>3. Matches(new.job, Current(new))' = Matches(work.job, Current(work))
      BY <2>1, <2>2 DEF Matches, Current, Ids
    <2> QED
      BY <1>11, <2>2, <2>3 DEF Late, Doomed
  <1>12. CASE Create(r)
    <2>1. work.step = "create" /\ UNCHANGED names
      BY <1>12 DEF Create
    <2>2. CASE Clashes(0, Made(work))
      <3>1. new = Refused(work) /\ UNCHANGED products
        BY <1>3, <1>12, <2>2 DEF Create
      <3>2. Made(work).sku = Current(work).sku /\ Made(work).axo = 0
        BY <1>2 DEF Made
      <3>3. PICK other \in Ids : products[other].sku = Current(work).sku
        BY <2>2, <3>2 DEF Clashes
      <3>4. Matches(work.job, Current(work)) # {}
        BY <3>3 DEF Matches
      <3> QED
        BY <1>7, <2>1, <3>1, <3>4 DEF Late
    <2>3. CASE ~ Clashes(0, Made(work))
      BY <1>3, <1>5, <1>12, <2>3 DEF Create
    <2> QED
      BY <2>2, <2>3
  <1>13. CASE UpdateHusse(r)
    <2>1. work.step = "update"
      BY <1>13 DEF UpdateHusse
    <2>2. {id \in Ids : products[id].sku = Current(work).sku} # {}
      BY <1>2, <2>1 DEF UpdateKnown
    <2>3. new = NextItem(work)
      BY <1>3, <1>13, <2>2 DEF UpdateHusse
    <2> QED
      BY <1>5, <2>3
  <1>14. ~ UpdateAxonaut(r) /\ ~ Fails(r)
    BY <1>2 DEF UpdateAxonaut, Fails, OfAxonaut
  <1> QED
    BY <1>8, <1>9, <1>10, <1>11, <1>12, <1>13, <1>14 DEF Own

\* What is so of an import after a step that only Husse imports can have taken.
LEMMA OnlyAfter ==
    ASSUME HusseInv, [Next]_vars, NEW r \in Request, OnlyHusse(req'[r])
    PROVE  /\ UpdateKnown(req[r])'
           /\ Late(req[r])' =>
                /\ OnlyHusse(req[r])
                /\ Own(r) => UNCHANGED <<products, names>>
                /\ UNCHANGED <<products, names>> => Late(req[r])
  <1> PICK work : work = req[r]
    OBVIOUS
  <1> PICK new : new = req'[r]
    OBVIOUS
  <1>1. TypeInv /\ new # Idle
    BY DEF HusseInv, OnlyHusse, OfHusse
  <1>2. CASE \E j \in Import : Start(r, j)
    <2>1. Begun(new)
      BY <1>1, <1>2, StartBegins
    <2>2. new.step \in {"pass", "find name", "find"}
      BY <2>1 DEF Begun
    <2> QED
      BY <2>2 DEF Late, Doomed, UpdateKnown
  <1>3. CASE Own(r)
    <2>1. work.step # "idle"
      BY <1>3 DEF Own, Pass, FindName, CreateName, Find, Create, UpdateAxonaut, UpdateHusse, Fails
    <2>2. OnlyHusse(work)
      BY <1>1, <2>1, AtWork, OnlyBefore
    <2>3. UpdateKnown(work) /\ OfHusse(work)
      BY <2>2 DEF HusseInv, OneLate, OnlyHusse
    <2>4. /\ new.step = "update" => Find(r)
          /\ Late(req[r])' => Late(work) /\ UNCHANGED <<products, names>>
      BY <1>1, <1>3, <2>3, HusseOwn
    <2>5. ASSUME Find(r), new.step = "update"
          PROVE  UpdateKnown(req[r])'
      <3>1. PICK id \in Matches(work.job, Current(work)) :
              new.id = id /\ new.job = work.job /\ new.item = work.item
        BY <1>1, <2>5, FindStep
      <3>2. products[id].sku = Current(work).sku /\ UNCHANGED products
        BY <2>3, <2>5, <3>1 DEF Matches, Find, OfHusse
      <3>3. Current(new) = Current(work)
        BY <3>1 DEF Current
      <3> QED
        BY <3>1, <3>2, <3>3 DEF UpdateKnown, Current
    <2> QED
      BY <2>2, <2>4, <2>5 DEF UpdateKnown
  <1>4. CASE req[r] # Idle /\ Alike(req[r], req'[r])
    <2>1. /\ OnlyHusse(work)
          /\ \/ UNCHANGED <<products, names>>
             \/ \E x \in Request : Writes(x) /\ OnlyHusse(req[x])
      BY <1>1, <1>4, OnlyBefore
    <2>2. /\ new.step = work.step /\ new.job = work.job /\ new.item = work.item
          /\ new.names = work.names /\ new.id = work.id /\ Current(new) = Current(work)
      BY <1>4 DEF Alike, Current
    <2>3. UpdateKnown(req[r])'
      <3> SUFFICES ASSUME work.step = "update"
                   PROVE  products'[work.id].sku = Current(work).sku
        BY <2>2 DEF UpdateKnown, Current
      <3>1. products[work.id].sku = Current(work).sku
        BY <2>1 DEF HusseInv, OneLate, UpdateKnown
      <3>2. work.id \in Ids
        BY <1>1, <1>4, AtWork
      <3> QED
        BY <1>1, <2>1, <3>1, <3>2, SkusStay DEF OnlyHusse
    <2>4. UNCHANGED <<products, names>> => (Late(req[r])' <=> Late(work))
      BY <2>2 DEF Late, Doomed, Matches, Current, Ids
    <2> QED
      BY <1>3, <2>1, <2>3, <2>4
  <1> QED
    BY <1>1, <1>2, <1>3, <1>4, StepOf

\* Of Husse imports that overlap each other and nothing else, however many they
\* are, one has not died: a request that is refused had lost before, and whoever
\* wrote what it lost to is on its way.
THEOREM OneAlwaysGetsThrough ==
    ASSUME Request # {}
    PROVE  Spec => []OneGetsThrough
  <1>1. Init => HusseInv
    <2> SUFFICES ASSUME Init
                 PROVE  HusseInv
      OBVIOUS
    <2>1. TypeInv
      BY CatalogueAssumption DEF Init, TypeInv, TypeOK, RequestOn, Idle
    <2> QED
      BY <2>1 DEF Init, HusseInv, OneLate, OnlyHusse, OfHusse
  <1>2. HusseInv /\ [Next]_vars => HusseInv'
    <2> SUFFICES ASSUME HusseInv, [Next]_vars
                 PROVE  HusseInv'
      OBVIOUS
    <2>1. TypeInv /\ TypeInv'
      BY TypeStep DEF HusseInv
    <2>2. ASSUME NEW r \in Request, OnlyHusse(req'[r])
          PROVE  UpdateKnown(req[r])'
      BY <2>2, OnlyAfter
    <2>3. ASSUME \A r \in Request : OnlyHusse(req'[r]) /\ Late(req[r])'
          PROVE  FALSE
      <3>1. \A r \in Request :
              /\ OnlyHusse(req[r])
              /\ Own(r) => UNCHANGED <<products, names>>
              /\ UNCHANGED <<products, names>> => Late(req[r])
        BY <2>3, OnlyAfter
      <3>2. UNCHANGED <<products, names>>
        <4>1. PICK r \in Request : OnlyHusse(req[r]) /\ OnlyHusse(req'[r])
          BY <2>3, <3>1
        <4>2. \/ UNCHANGED <<products, names>>
              \/ \E x \in Request : Writes(x)
          BY <2>1, <4>1, OnlyBefore DEF OnlyHusse, OfHusse
        <4>3. \A x \in Request : Writes(x) => Own(x)
          BY DEF Writes, Own
        <4> QED
          BY <3>1, <4>2, <4>3
      <3> QED
        BY <3>1, <3>2 DEF HusseInv, OneLate
    <2>4. \E r \in Request : OnlyHusse(req'[r]) => ~ Late(req[r])'
      BY <2>3
    <2> QED
      BY <2>1, <2>2, <2>4 DEF HusseInv, OneLate
  <1>3. HusseInv => OneGetsThrough
    BY DEF HusseInv, OneLate, OneGetsThrough, OnlyHusse, Late
  <1> QED
    BY <1>1, <1>2, <1>3, PTL DEF Spec
=============================================================================
