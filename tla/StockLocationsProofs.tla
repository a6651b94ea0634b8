------------------------ MODULE StockLocationsProofs ------------------------
(***************************************************************************)
(* Proofs about StockLocations, for any number of request slots and codes. *)
(***************************************************************************)
EXTENDS StockLocations, WellFoundedInduction, TLAPS

USE DEF Rows, Idle, Become, Start

\* A row that exists before a step still exists after it, so what a request
\* remembers stays meaningful: no action deletes a location.
LEMMA RequestStateGrows ==
    ASSUME NEW m \in Nat, Len(code') = m, Len(code) <= m,
           code \in Seq(Code), code' \in Seq(Code)
    PROVE  /\ RequestState \subseteq RequestState'
           /\ Rows \subseteq Rows'
  <1>1. Rows \subseteq Rows'
    OBVIOUS
  <1> QED
    BY <1>1 DEF RequestState

\* Calm may end, it does not come back.
LEMMA CalmEnds ==
    ASSUME TypeOK, [Next]_vars
    PROVE  calm' \in BOOLEAN /\ (calm' => calm)
  <1> USE DEF TypeOK
  <1>1. ASSUME NEW r \in Request, NEW c \in Code, NEW dflt \in BOOLEAN,
               CreateCount(r, c, dflt)
        PROVE  calm' \in BOOLEAN /\ (calm' => calm)
    BY <1>1 DEF CreateCount
  <1>2. ASSUME NEW r \in Request, NEW id \in Rows, NEW c \in Code \cup {Keep},
               NEW dflt \in PatchFlag, UpdateFind(r, id, c, dflt)
        PROVE  calm' \in BOOLEAN /\ (calm' => calm)
    BY <1>2 DEF UpdateFind
  <1>3. ASSUME NEW r \in Request, ListCount(r)
        PROVE  calm' \in BOOLEAN /\ (calm' => calm)
    BY <1>3 DEF ListCount
  <1>4. ASSUME UNCHANGED calm
        PROVE  calm' \in BOOLEAN /\ (calm' => calm)
    BY <1>4
  <1> QED
    BY <1>1, <1>2, <1>3, <1>4
    DEF Next, ApiNext, Continue, CreateInsert, UpdateWrite, Conflict, Unset, ListSeed,
        RunScript, Abort, vars

\* The types of StockLocations are kept by every step.
LEMMA TypeStep ==
    ASSUME TypeOK, [Next]_vars
    PROVE  TypeOK'
  <1>0. calm' \in BOOLEAN
    BY CalmEnds
  <1> USE <1>0, LocationAssumption DEF TypeOK
  <1>1. ASSUME NEW r \in Request, NEW c \in Code, NEW dflt \in BOOLEAN,
               CreateCount(r, c, dflt)
        PROVE  TypeOK'
    BY <1>1 DEF CreateCount, RequestState
  <1>2. ASSUME NEW r \in Request, CreateInsert(r)
        PROVE  TypeOK'
    <2>1. req[r] \in [step : {"create"}, code : Code, dflt : BOOLEAN]
      BY <1>2 DEF CreateInsert, RequestState
    <2>2. /\ code' \in Seq(Code)
          /\ Len(code') = Len(code) + 1
          /\ \A i \in Rows : code'[i] = code[i]
          /\ code'[Len(code')] = req[r].code
      BY <1>2, <2>1 DEF CreateInsert
    <2>3. \A i, j \in Rows' : code'[i] = code'[j] => i = j
      BY <1>2, <2>2 DEF CreateInsert, IsTaken
    <2>4. RequestState \subseteq RequestState' /\ Rows \subseteq Rows'
      BY <2>2, RequestStateGrows
    <2>5. defaults' \subseteq Rows' /\ unswept' \subseteq Rows'
      BY <1>2, <2>2, <2>4 DEF CreateInsert
    <2>6. [step |-> "unset", id |-> Len(code')] \in RequestState'
      BY <2>2 DEF RequestState
    <2>7. Idle \in RequestState'
      BY DEF RequestState
    <2>8. req' \in [Request -> RequestState']
      BY <1>2, <2>4, <2>6, <2>7 DEF CreateInsert, AfterWrite
    <2> QED
      BY <2>2, <2>3, <2>5, <2>8
  <1>3. ASSUME NEW r \in Request, NEW id \in Rows, NEW c \in Code \cup {Keep},
               NEW dflt \in PatchFlag, UpdateFind(r, id, c, dflt)
        PROVE  TypeOK'
    BY <1>3 DEF UpdateFind, RequestState
  <1>4. ASSUME NEW r \in Request, UpdateWrite(r)
        PROVE  TypeOK'
    <2>1. req[r] \in [step : {"update"}, id : Rows, code : Code \cup {Keep},
                      dflt : PatchFlag]
      BY <1>4 DEF UpdateWrite, RequestState
    <2>2. /\ code' \in Seq(Code)
          /\ Len(code') = Len(code)
          /\ \A i \in Rows : code'[i] = IF req[r].code # Keep /\ i = req[r].id
                                        THEN req[r].code ELSE code[i]
      BY <1>4, <2>1 DEF UpdateWrite
    <2>3. \A i, j \in Rows' : code'[i] = code'[j] => i = j
      BY <1>4, <2>1, <2>2 DEF UpdateWrite, UpdateClashes
    <2>4. RequestState \subseteq RequestState' /\ Rows \subseteq Rows'
      BY <2>2, RequestStateGrows
    <2>5. defaults' \subseteq Rows' /\ unswept' \subseteq Rows'
      BY <1>4, <2>1, <2>4 DEF UpdateWrite
    <2>6. [step |-> "unset", id |-> req[r].id] \in RequestState'
      BY <2>1, <2>4 DEF RequestState
    <2>7. Idle \in RequestState'
      BY DEF RequestState
    <2>8. req' \in [Request -> RequestState']
      BY <1>4, <2>4, <2>6, <2>7 DEF UpdateWrite, AfterWrite
    <2> QED
      BY <2>2, <2>3, <2>5, <2>8
  <1>5. ASSUME NEW r \in Request, Conflict(r)
        PROVE  TypeOK'
    BY <1>5 DEF Conflict, RequestState
  <1>6. ASSUME NEW r \in Request, Unset(r)
        PROVE  TypeOK'
    BY <1>6 DEF Unset, RequestState
  <1>7. ASSUME NEW r \in Request, ListCount(r)
        PROVE  TypeOK'
    BY <1>7 DEF ListCount, RequestState
  <1>8. ASSUME NEW r \in Request, ListSeed(r)
        PROVE  TypeOK'
    <2>2. /\ code' \in Seq(Code)
          /\ Len(code') = Len(code) + 1
          /\ \A i \in Rows : code'[i] = code[i]
          /\ code'[Len(code')] = MainCode
      BY <1>8 DEF ListSeed
    <2>3. \A i, j \in Rows' : code'[i] = code'[j] => i = j
      BY <1>8, <2>2 DEF ListSeed, IsTaken
    <2>4. RequestState \subseteq RequestState' /\ Rows \subseteq Rows'
      BY <2>2, RequestStateGrows
    <2>5. defaults' \subseteq Rows' /\ unswept' \subseteq Rows'
      BY <1>8, <2>2, <2>4 DEF ListSeed
    <2>6. req' \in [Request -> RequestState']
      BY <1>8, <2>4 DEF ListSeed, RequestState
    <2> QED
      BY <2>2, <2>3, <2>5, <2>6
  <1>9. ASSUME NEW c \in Code, RunScript(c)
        PROVE  TypeOK'
    <2>1. /\ code' \in Seq(Code)
          /\ Len(code) <= Len(code')
      BY <1>9 DEF RunScript
    <2>2. \A i, j \in Rows' : code'[i] = code'[j] => i = j
      <3>1. CASE IsTaken(c)
        BY <1>9, <3>1 DEF RunScript
      <3>2. CASE ~ IsTaken(c)
        <4>1. code' = Append(code, c)
          BY <1>9, <3>2 DEF RunScript
        <4>2. /\ Len(code') = Len(code) + 1
              /\ \A i \in Rows : code'[i] = code[i]
              /\ code'[Len(code')] = c
          BY <4>1
        <4> QED
          BY <2>1, <3>2, <4>2 DEF IsTaken
      <3> QED
        BY <3>1, <3>2
    <2>3. RequestState \subseteq RequestState' /\ Rows \subseteq Rows'
      BY <2>1, RequestStateGrows
    <2>4. defaults' \subseteq Rows' /\ unswept' \subseteq Rows'
      BY <1>9, <2>3 DEF RunScript
    <2>5. req' \in [Request -> RequestState']
      BY <1>9, <2>3 DEF RunScript
    <2> QED
      BY <2>1, <2>2, <2>4, <2>5
  <1>10. ASSUME NEW r \in Request, Abort(r)
         PROVE  TypeOK'
    BY <1>10 DEF Abort, RequestState
  <1>11. ASSUME UNCHANGED vars
         PROVE  TypeOK'
    BY <1>11 DEF vars, RequestState
  <1> QED
    BY <1>1, <1>2, <1>3, <1>4, <1>5, <1>6, <1>7, <1>8, <1>9, <1>10, <1>11
    DEF Next, ApiNext, Continue

\* StockLocations stays well typed: in particular codes stay unique and every
\* id a request or a flag refers to is that of an existing row.
THEOREM TypeCorrect == Spec => []TypeOK
  <1>1. Init => TypeOK
    BY DEF Init, TypeOK, RequestState
  <1> QED
    BY <1>1, TypeStep, PTL DEF Spec

-----------------------------------------------------------------------------
\* Every step keeps duplicate defaults explained: a step that adds a default
\* either leaves its request about to unset the others, or marks the row as
\* unswept; a step that forgets a mark or a pending unset clears the others.
LEMMA ExplainedStep ==
    ASSUME TypeOK, DuplicateDefaultsExplained, [Next]_vars
    PROVE  DuplicateDefaultsExplained'
  <1> USE DEF TypeOK, DuplicateDefaultsExplained, Unsetting
  <1>1. ASSUME NEW r \in Request, NEW c \in Code, NEW dflt \in BOOLEAN,
               CreateCount(r, c, dflt)
        PROVE  DuplicateDefaultsExplained'
    BY <1>1 DEF CreateCount
  <1>2. ASSUME NEW r \in Request, CreateInsert(r)
        PROVE  DuplicateDefaultsExplained'
    <2>1. \A s \in Unsetting : s # r
      BY <1>2 DEF CreateInsert
    <2>2. CASE Len(code') \in defaults'
      <3>1. req' = [req EXCEPT ![r] = [step |-> "unset", id |-> Len(code')]]
        BY <1>2, <2>2 DEF CreateInsert, AfterWrite
      <3>2. defaults' \subseteq defaults \cup {Len(code')}
        BY <1>2 DEF CreateInsert
      <3> QED
        BY <1>2, <2>1, <3>1, <3>2 DEF CreateInsert
    <2>3. CASE Len(code') \notin defaults'
      <3>1. defaults' = defaults
        BY <1>2, <2>3 DEF CreateInsert
      <3> QED
        BY <1>2, <2>1, <2>3, <3>1 DEF CreateInsert, AfterWrite
    <2> QED
      BY <2>2, <2>3
  <1>3. ASSUME NEW r \in Request, NEW id \in Rows, NEW c \in Code \cup {Keep},
               NEW dflt \in PatchFlag, UpdateFind(r, id, c, dflt)
        PROVE  DuplicateDefaultsExplained'
    BY <1>3 DEF UpdateFind
  <1>4. ASSUME NEW r \in Request, UpdateWrite(r)
        PROVE  DuplicateDefaultsExplained'
    <2>1. \A s \in Unsetting : s # r
      BY <1>4 DEF UpdateWrite
    <2>2. /\ defaults' \subseteq defaults \cup {req[r].id}
          /\ unswept' = unswept \cap defaults'
      BY <1>4 DEF UpdateWrite
    <2>3. CASE req[r].id \in defaults'
      <3>1. req' = [req EXCEPT ![r] = [step |-> "unset", id |-> req[r].id]]
        BY <1>4, <2>3 DEF UpdateWrite, AfterWrite
      <3> QED
        BY <2>1, <2>2, <3>1
    <2>4. CASE req[r].id \notin defaults'
      <3>1. req' = [req EXCEPT ![r] = Idle]
        BY <1>4, <2>4 DEF UpdateWrite, AfterWrite
      <3> QED
        BY <2>1, <2>2, <2>4, <3>1
    <2> QED
      BY <2>3, <2>4
  <1>5. ASSUME NEW r \in Request, Conflict(r)
        PROVE  DuplicateDefaultsExplained'
    BY <1>5 DEF Conflict
  <1>6. ASSUME NEW r \in Request, Unset(r)
        PROVE  DuplicateDefaultsExplained'
    BY <1>6 DEF Unset
  <1>7. ASSUME NEW r \in Request, ListCount(r)
        PROVE  DuplicateDefaultsExplained'
    BY <1>7 DEF ListCount
  <1>8. ASSUME NEW r \in Request, ListSeed(r)
        PROVE  DuplicateDefaultsExplained'
    BY <1>8 DEF ListSeed
  <1>9. ASSUME NEW c \in Code, RunScript(c)
        PROVE  DuplicateDefaultsExplained'
    BY <1>9 DEF RunScript
  <1>10. ASSUME NEW r \in Request, Abort(r)
         PROVE  DuplicateDefaultsExplained'
    BY <1>10 DEF Abort
  <1>11. ASSUME UNCHANGED vars
         PROVE  DuplicateDefaultsExplained'
    BY <1>11 DEF vars
  <1> HIDE DEF TypeOK, DuplicateDefaultsExplained, Unsetting
  <1> QED
    BY <1>1, <1>2, <1>3, <1>4, <1>5, <1>6, <1>7, <1>8, <1>9, <1>10, <1>11
    DEF Next, ApiNext, Continue

\* Two locations are default at once only while unsetDefaultExcept is still to
\* run for one of them, or when one was written by a step that never runs it.
THEOREM DuplicateDefaultsAlwaysExplained == Spec => []DuplicateDefaultsExplained
  <1>1. Init => DuplicateDefaultsExplained
    BY DEF Init, DuplicateDefaultsExplained
  <1>2. TypeOK /\ DuplicateDefaultsExplained /\ [Next]_vars
          => DuplicateDefaultsExplained'
    BY ExplainedStep
  <1> QED
    BY <1>1, <1>2, TypeCorrect, PTL DEF Spec

AtMostOneDefault ==
    Unsetting = {} /\ unswept = {} => \A x, y \in defaults : x = y

\* Once every POST and PATCH has finished, and no seed, script or aborted
\* request wrote the flag since the last unset, one location at most is default.
THEOREM AtMostOneDefaultWhenQuiet == Spec => []AtMostOneDefault
  <1>1. DuplicateDefaultsExplained => AtMostOneDefault
    BY DEF DuplicateDefaultsExplained, AtMostOneDefault
  <1> QED
    BY <1>1, DuplicateDefaultsAlwaysExplained, PTL

-----------------------------------------------------------------------------
\* findDefault returns one of the defaults, none of which is older, or nothing.
LEMMA DefaultOfIsOldest ==
    ASSUME NEW ids \in SUBSET Nat
    PROVE  IF ids = {} THEN DefaultOf(ids) = 0
           ELSE DefaultOf(ids) \in ids /\ \A other \in ids : DefaultOf(ids) <= other
  <1>1. CASE ids = {}
    BY <1>1 DEF DefaultOf
  <1>2. CASE ids # {}
    <2> DEFINE Less == {pair \in Nat \X Nat : pair[1] < pair[2]}
    <2>0. IsWellFoundedOn(Less, Nat)
      BY NatLessThanWellFounded DEF OpToRel
    <2>1. PICK x \in ids : \A y \in ids : <<y, x>> \notin Less
      <3> HIDE DEF Less
      <3> QED
        BY <1>2, <2>0, WFMin
    <2>2. ASSUME NEW y \in ids
          PROVE  x <= y
      <3>1. ~ (y < x)
        BY <2>1
      <3> QED
        BY <3>1
    <2> QED
      BY <1>2, <2>2 DEF DefaultOf
  <1> QED
    BY <1>1, <1>2

Busy == {r \in Request : req[r].step # "idle"}

\* What calm adds to the types: one request is in flight at most and it does not
\* clear the flag, there is a default as soon as there is a location, a create
\* that does not ask for the flag has seen one, and nobody else took the flag
\* from the row that the request in flight wrote.
CalmInv ==
    calm =>
        /\ \A r, s \in Busy : r = s
        /\ Rows # {} => defaults # {}
        /\ \A r \in Request :
             /\ req[r].step = "create" => req[r].dflt \/ defaults # {}
             /\ req[r].step = "update" => req[r].dflt # FALSE
             /\ req[r].step = "unset" => req[r].id \in defaults

\* The write of an update that does not clear the flag.
LEMMA UpdateWriteAdds ==
    ASSUME TypeOK, NEW r \in Request, UpdateWrite(r), req[r].dflt # FALSE
    PROVE  /\ Len(code') = Len(code)
           /\ defaults \subseteq defaults'
           /\ defaults' \subseteq Rows
  <1>1. req[r] \in [step : {"update"}, id : Rows, code : Code \cup {Keep},
                    dflt : PatchFlag]
    BY DEF TypeOK, UpdateWrite, RequestState
  <1>3. Len(code') = Len(code)
    BY <1>1 DEF UpdateWrite, TypeOK
  <1>4. defaults' = defaults \cup {req[r].id} \/ defaults' = defaults
    BY DEF UpdateWrite
  <1> QED
    BY <1>1, <1>3, <1>4 DEF TypeOK

\* A step after which all is calm was calm before, and keeps what that adds.
LEMMA CalmStep ==
    ASSUME TypeOK, CalmInv, [Next]_vars, calm'
    PROVE  calm /\ CalmInv'
  <1>0. calm
    BY CalmEnds
  <1> USE <1>0 DEF TypeOK, CalmInv, Busy
  <1>1. ASSUME NEW r \in Request, NEW c \in Code, NEW dflt \in BOOLEAN,
               CreateCount(r, c, dflt)
        PROVE  CalmInv'
    BY <1>1 DEF CreateCount
  <1>2. ASSUME NEW r \in Request, CreateInsert(r)
        PROVE  CalmInv'
    <2>1. defaults' # {}
      BY <1>2 DEF CreateInsert
    <2> QED
      BY <1>2, <2>1 DEF CreateInsert, AfterWrite
  <1>3. ASSUME NEW r \in Request, NEW id \in Rows, NEW c \in Code \cup {Keep},
               NEW dflt \in PatchFlag, UpdateFind(r, id, c, dflt)
        PROVE  CalmInv'
    BY <1>3 DEF UpdateFind
  <1>4. ASSUME NEW r \in Request, UpdateWrite(r)
        PROVE  CalmInv'
    <2>1. Len(code') = Len(code) /\ defaults \subseteq defaults' /\ defaults' \subseteq Rows
      BY <1>4, UpdateWriteAdds DEF UpdateWrite
    <2>2. Rows' = Rows
      BY <1>4, <2>1, TypeStep DEF Next, ApiNext, Continue
    <2> QED
      BY <1>4, <2>1, <2>2 DEF UpdateWrite, AfterWrite
  <1>5. ASSUME NEW r \in Request, Conflict(r)
        PROVE  CalmInv'
    BY <1>5 DEF Conflict
  <1>6. ASSUME NEW r \in Request, Unset(r)
        PROVE  CalmInv'
    <2>1. \A s \in Request \ {r} : req[s].step = "idle"
      BY <1>6 DEF Unset
    <2>2. defaults' = {req[r].id} /\ Rows' = Rows
      BY <1>6, ZenonT(60) DEF Unset
    <2>3. \A s \in Request : req'[s].step = "idle"
      BY <1>6, <2>1 DEF Unset
    <2> QED
      BY <2>2, <2>3
  <1>7. ASSUME NEW r \in Request, ListCount(r)
        PROVE  CalmInv'
    BY <1>7 DEF ListCount
  <1>8. ASSUME NEW r \in Request, ListSeed(r)
        PROVE  CalmInv'
    BY <1>8 DEF ListSeed
  <1>9. ASSUME NEW c \in Code, RunScript(c)
        PROVE  CalmInv'
    BY <1>9 DEF RunScript
  <1>10. ASSUME NEW r \in Request, Abort(r)
         PROVE  CalmInv'
    BY <1>10 DEF Abort
  <1>11. ASSUME UNCHANGED vars
         PROVE  CalmInv'
    BY <1>11 DEF vars
  <1> HIDE DEF TypeOK, CalmInv, Busy
  <1> QED
    BY <1>0, <1>1, <1>2, <1>3, <1>4, <1>5, <1>6, <1>7, <1>8, <1>9, <1>10, <1>11
    DEF Next, ApiNext, Continue

promiseVars == <<Len(code), FindDefault>>

\* A step that adds no row and leaves some default is a promotion, or nothing.
LEMMA SameRowsPromote ==
    ASSUME TypeOK, TypeOK', Len(code') = Len(code), defaults' # {} \/ defaults' = defaults
    PROVE  [Promise!Next]_promiseVars
  <1>1. CASE defaults' = defaults
    BY <1>1 DEF promiseVars, FindDefault
  <1>2. CASE defaults' # {}
    <2>1. FindDefault' \in 1 .. Len(code)
      <3>1. defaults' \in SUBSET Nat /\ defaults' \subseteq 1 .. Len(code)
        BY DEF TypeOK
      <3> QED
        BY <1>2, <3>1, DefaultOfIsOldest DEF FindDefault
    <2>2. Promise!Promote(FindDefault')
      BY <2>1 DEF Promise!Promote
    <2> QED
      BY <2>1, <2>2 DEF Promise!Next
  <1> QED
    BY <1>1, <1>2

\* A step that adds a row, as the default if there was none, is an addition.
LEMMA NewRowAdds ==
    ASSUME TypeOK, TypeOK', Len(code') = Len(code) + 1,
           \/ defaults' = defaults \cup {Len(code')}
           \/ defaults' = defaults /\ defaults # {}
    PROVE  [Promise!Next]_promiseVars
  <1>1. /\ defaults \in SUBSET Nat
        /\ \A id \in defaults : id < Len(code')
        /\ 0 \notin defaults
        /\ Len(code') \in Nat
    BY DEF TypeOK
  <1>2. FindDefault' = IF FindDefault = 0 THEN Len(code') ELSE FindDefault
    <2>1. CASE defaults' = defaults /\ defaults # {}
      BY <1>1, <2>1, DefaultOfIsOldest DEF FindDefault
    <2>2. CASE defaults' = defaults \cup {Len(code')}
      <3>1. defaults' \in SUBSET Nat /\ defaults' # {}
        BY <1>1, <2>2
      <3>2. /\ DefaultOf(defaults') \in defaults \cup {Len(code')}
            /\ \A other \in defaults \cup {Len(code')} : DefaultOf(defaults') <= other
        BY <2>2, <3>1, DefaultOfIsOldest
      <3>3. IF defaults = {} THEN DefaultOf(defaults) = 0
            ELSE DefaultOf(defaults) \in defaults
                 /\ \A other \in defaults : DefaultOf(defaults) <= other
        BY <1>1, DefaultOfIsOldest
      <3>4. CASE defaults = {}
        <4>1. DefaultOf(defaults') = Len(code')
          BY <3>2, <3>4
        <4> QED
          BY <3>3, <3>4, <4>1 DEF FindDefault
      <3>5. CASE defaults # {}
        <4>0. /\ DefaultOf(defaults) \in defaults
              /\ \A other \in defaults : DefaultOf(defaults) <= other
          BY <3>3, <3>5
        <4>1. DefaultOf(defaults') = DefaultOf(defaults)
          <5>1. DefaultOf(defaults') <= DefaultOf(defaults)
            BY <3>2, <4>0
          <5>2. DefaultOf(defaults) \in Nat /\ DefaultOf(defaults) < Len(code')
            BY <1>1, <4>0
          <5>3. DefaultOf(defaults') # Len(code')
            BY <1>1, <5>1, <5>2
          <5>4. DefaultOf(defaults') \in defaults
            BY <3>2, <5>3
          <5>5. DefaultOf(defaults') \in Nat /\ DefaultOf(defaults) <= DefaultOf(defaults')
            BY <1>1, <4>0, <5>4
          <5> QED
            BY <5>1, <5>2, <5>5
        <4>2. DefaultOf(defaults) # 0
          BY <1>1, <3>3, <3>5
        <4> QED
          BY <4>1, <4>2 DEF FindDefault
      <3> QED
        BY <3>4, <3>5
    <2> QED
      BY <2>1, <2>2
  <1>3. Promise!Add
    BY <1>2 DEF Promise!Add
  <1> QED
    BY <1>3 DEF Promise!Next

LEMMA PromiseStep ==
    ASSUME TypeOK, CalmInv, [Next]_vars, calm'
    PROVE  [Promise!Next]_promiseVars
  <1>1. TypeOK'
    BY TypeStep
  <1>2. calm /\ CalmInv'
    BY CalmStep
  <1> USE <1>2 DEF TypeOK, CalmInv
  <1>3. ASSUME NEW r \in Request, CreateInsert(r)
        PROVE  [Promise!Next]_promiseVars
    <2>1. req[r] \in [step : {"create"}, code : Code, dflt : BOOLEAN]
      BY <1>3 DEF CreateInsert, RequestState
    <2>2. Len(code') = Len(code) + 1
      BY <1>3, <2>1 DEF CreateInsert
    <2>3. \/ defaults' = defaults \cup {Len(code')}
          \/ defaults' = defaults /\ defaults # {}
      BY <1>3, <2>1 DEF CreateInsert
    <2> QED
      BY <1>1, <2>2, <2>3, NewRowAdds
  <1>4. ASSUME NEW r \in Request, UpdateWrite(r)
        PROVE  [Promise!Next]_promiseVars
    <2>1. Len(code') = Len(code) /\ defaults \subseteq defaults'
      BY <1>4, UpdateWriteAdds DEF UpdateWrite
    <2>2. Rows # {}
      BY <1>4 DEF UpdateWrite, RequestState
    <2> QED
      BY <1>1, <2>1, <2>2, SameRowsPromote
  <1>5. ASSUME NEW r \in Request, Unset(r)
        PROVE  [Promise!Next]_promiseVars
    BY <1>1, <1>5, SameRowsPromote DEF Unset
  <1>6. ASSUME NEW r \in Request, ListSeed(r)
        PROVE  [Promise!Next]_promiseVars
    <2>1. Len(code') = Len(code) + 1
      BY <1>6, LocationAssumption DEF ListSeed
    <2> QED
      BY <1>1, <1>6, <2>1, NewRowAdds DEF ListSeed
  <1>7. ASSUME NEW c \in Code, RunScript(c)
        PROVE  [Promise!Next]_promiseVars
    <2>1. CASE IsTaken(c)
      BY <1>1, <1>7, <2>1, SameRowsPromote DEF RunScript
    <2>2. CASE ~ IsTaken(c)
      <3>1. code' = Append(code, c)
        BY <1>7, <2>2 DEF RunScript
      <3>2. Len(code') = Len(code) + 1 /\ code'[Len(code')] = c
        BY <3>1
      <3>3. PICK id \in DOMAIN code' : code'[id] = c /\ defaults' = defaults \cup {id}
        BY <1>7 DEF RunScript
      <3>4. id = Len(code')
        BY <1>1, <3>2, <3>3
      <3> QED
        BY <1>1, <3>2, <3>3, <3>4, NewRowAdds
    <2> QED
      BY <2>1, <2>2
  <1>8. ASSUME UNCHANGED <<code, defaults>>
        PROVE  [Promise!Next]_promiseVars
    BY <1>8 DEF promiseVars, FindDefault
  <1> QED
    BY <1>3, <1>4, <1>5, <1>6, <1>7, <1>8
    DEF Next, ApiNext, Continue, CreateCount, UpdateFind, Conflict, ListCount, Abort, vars

\* As long as no two requests overlap and no PATCH sends isDefault: false, the
\* service keeps the promise of DefaultLocation, through crashes, listings and
\* scripts: once there is a location findDefault finds one, and it moves in one
\* step.
THEOREM CalmServiceKeepsPromise == Spec => PromiseKept
  <1>1. Init => CalmInv
    <2> SUFFICES ASSUME Init PROVE CalmInv
      OBVIOUS
    <2>1. \A r \in Request : req[r].step = "idle"
      BY DEF Init
    <2>2. Rows = {}
      BY DEF Init
    <2> QED
      BY <2>1, <2>2 DEF CalmInv, Busy
  <1>2. CalmInv /\ TypeOK /\ [Next]_vars => CalmInv'
    <2> SUFFICES ASSUME CalmInv, TypeOK, [Next]_vars PROVE CalmInv'
      OBVIOUS
    <2>1. CASE calm'
      BY <2>1, CalmStep
    <2>2. CASE ~ calm'
      BY <2>2 DEF CalmInv
    <2> QED
      BY <2>1, <2>2
  <1>3. Init => Promise!Init
    BY DefaultOfIsOldest DEF Init, Promise!Init, FindDefault, DefaultOf
  <1>4. CalmInv /\ TypeOK /\ [Next]_vars
          => [calm' => Promise!Next]_<<Len(code), FindDefault>>
    BY PromiseStep DEF promiseVars
  <1> QED
    BY <1>1, <1>2, <1>3, <1>4, TypeCorrect, PTL DEF Spec, PromiseKept
=============================================================================
