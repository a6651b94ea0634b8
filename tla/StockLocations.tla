--------------------------- MODULE StockLocations ---------------------------
(***************************************************************************)
(* The stock locations of one tenant and the flag isDefault, of which the  *)
(* service tries to keep exactly one set.  Every await of the service is a *)
(* point where another request may run, so each handler is split into one  *)
(* action per database call, and what it read earlier waits in its record. *)
(* Rows are numbered by creation: the id order is the createdAt order.     *)
(* Left out: name, isActive (findDefault does not look at it), wording.    *)
(***************************************************************************)
EXTENDS Naturals, Sequences

CONSTANTS Request,    \* request slots of the server: how many may be in flight
          Code,       \* location codes, unique in the table
          MainCode,   \* the code findAll seeds an empty table with
          PatchFlag,  \* what a PATCH may send as isDefault
          Keep        \* an absent field of a PATCH

ASSUME LocationAssumption == /\ MainCode \in Code
                             /\ Keep \notin Code
                             /\ Keep \notin BOOLEAN
                             /\ PatchFlag \subseteq BOOLEAN \cup {Keep}

VARIABLES code,       \* code[id] for every row, in order of creation
          defaults,   \* the ids of the rows with isDefault
          req,        \* what each request slot waits for
          unswept,    \* history: ids made default by a step that no
                      \* unsetDefaultExcept follows, since the last one ran
          calm        \* history: no two requests overlapped so far, and no PATCH
                      \* sent isDefault: false

vars == <<code, defaults, req, unswept, calm>>

Rows == DOMAIN code

Idle == [step |-> "idle"]

RequestState ==
    [step : {"idle"}]
      \cup [step : {"seed"}]
      \cup [step : {"create"}, code : Code, dflt : BOOLEAN]
      \cup [step : {"update"}, id : Rows, code : Code \cup {Keep}, dflt : PatchFlag]
      \cup [step : {"unset"}, id : Rows]

TypeOK == /\ code \in Seq(Code)
          /\ \A i, j \in Rows : code[i] = code[j] => i = j
          /\ defaults \subseteq Rows
          /\ unswept \subseteq Rows
          /\ calm \in BOOLEAN
          /\ req \in [Request -> RequestState]

Init == /\ code = << >>
        /\ defaults = {}
        /\ unswept = {}
        /\ calm = TRUE
        /\ req = [r \in Request |-> Idle]

IsTaken(c) == \E id \in Rows : code[id] = c

\* findDefault, and getDefaultLocationId of the documents: the oldest default,
\* 0 for none.
DefaultOf(ids) == IF ids = {} THEN 0
                  ELSE CHOOSE id \in ids : \A other \in ids : id <= other

FindDefault == DefaultOf(defaults)

Become(r, state) == req' = [req EXCEPT ![r] = state]

\* A request comes in.
Start(r, state) ==
    /\ req[r].step = "idle"
    /\ Become(r, state)
    /\ calm' = (calm /\ \A other \in Request \ {r} : req[other].step = "idle")

\* Mutant: create and update answer without unsetting the other defaults.
AfterWriteUnswept(r, id) == Become(r, Idle)

\* What follows a write that returned row id: unsetDefaultExcept when it came
\* back as a default, else the answer.
AfterWrite(r, id) ==
    Become(r, IF id \in defaults' THEN [step |-> "unset", id |-> id] ELSE Idle)

-----------------------------------------------------------------------------
\* Mutant: the first location is not forced to be the default.
CreateCountUnforced(r, c, dflt) ==
    /\ Start(r, [step |-> "create", code |-> c, dflt |-> dflt])
    /\ UNCHANGED <<code, defaults, unswept>>

\* create: the count of the defaults, which forces the flag when there is none.
CreateCount(r, c, dflt) ==
    /\ Start(r, [step |-> "create", code |-> c, dflt |-> dflt \/ defaults = {}])
    /\ UNCHANGED <<code, defaults, unswept>>

\* Mutant: the table has no unique constraint on the code.
CreateInsertAgain(r) ==
    /\ req[r].step = "create"
    /\ code' = Append(code, req[r].code)
    /\ defaults' = IF req[r].dflt THEN defaults \cup {Len(code')} ELSE defaults
    /\ AfterWrite(r, Len(code'))
    /\ UNCHANGED <<unswept, calm>>

\* create: the insert, by what the count said.
CreateInsert(r) ==
    /\ req[r].step = "create"
    /\ ~ IsTaken(req[r].code)
    /\ code' = Append(code, req[r].code)
    /\ defaults' = IF req[r].dflt THEN defaults \cup {Len(code')} ELSE defaults
    /\ AfterWrite(r, Len(code'))
    /\ UNCHANGED <<unswept, calm>>

\* update: the lookup of the row.
UpdateFind(r, id, c, dflt) ==
    /\ req[r].step = "idle"
    /\ id \in Rows
    /\ Become(r, [step |-> "update", id |-> id, code |-> c, dflt |-> dflt])
    /\ calm' = (calm /\ dflt # FALSE /\ \A other \in Request \ {r} : req[other].step = "idle")
    /\ UNCHANGED <<code, defaults, unswept>>

UpdateClashes(r) ==
    \E other \in Rows \ {req[r].id} : code[other] = req[r].code

\* update: the write of the fields that were sent.
UpdateWrite(r) ==
    /\ req[r].step = "update"
    /\ ~ UpdateClashes(r)
    /\ LET id == req[r].id IN
         /\ code' = IF req[r].code = Keep THEN code
                    ELSE [code EXCEPT ![id] = req[r].code]
         /\ defaults' = CASE req[r].dflt = TRUE  -> defaults \cup {id}
                          [] req[r].dflt = FALSE -> defaults \ {id}
                          [] OTHER               -> defaults
         /\ AfterWrite(r, id)
         /\ unswept' = unswept \cap defaults'
    /\ UNCHANGED calm

\* P2002 on the code: ConflictException, nothing written.
Conflict(r) ==
    /\ \/ req[r].step = "create" /\ IsTaken(req[r].code)
       \/ req[r].step = "update" /\ UpdateClashes(r)
       \/ req[r].step = "seed" /\ IsTaken(MainCode)
    /\ Become(r, Idle)
    /\ UNCHANGED <<code, defaults, unswept, calm>>

\* unsetDefaultExcept, the last step of create and of update.
Unset(r) ==
    /\ req[r].step = "unset"
    /\ defaults' = defaults \cap {req[r].id}
    /\ unswept' = {}
    /\ Become(r, Idle)
    /\ UNCHANGED <<code, calm>>

\* findAll on an empty table: the count, then the insert of the main location.
ListCount(r) ==
    /\ Rows = {}
    /\ Start(r, [step |-> "seed"])
    /\ UNCHANGED <<code, defaults, unswept>>

ListSeed(r) ==
    /\ req[r].step = "seed"
    /\ ~ IsTaken(MainCode)
    /\ code' = Append(code, MainCode)
    /\ defaults' = defaults \cup {Len(code')}
    /\ unswept' = unswept \cup {Len(code')}
    /\ Become(r, Idle)
    /\ UNCHANGED calm

\* The upsert by code of bootstrap-tenant.ts and of the seed, both of which
\* write isDefault: true and leave the other rows alone.
RunScript(c) ==
    /\ code' = IF IsTaken(c) THEN code ELSE Append(code, c)
    /\ \E id \in DOMAIN code' :
         /\ code'[id] = c
         /\ defaults' = defaults \cup {id}
         /\ unswept' = unswept \cup {id}
    /\ UNCHANGED <<req, calm>>

\* The process dies or the database call fails: what was written stays.
Abort(r) ==
    /\ req[r].step # "idle"
    /\ Become(r, Idle)
    /\ unswept' = IF req[r].step = "unset" THEN unswept \cup ({req[r].id} \cap defaults)
                  ELSE unswept
    /\ UNCHANGED <<code, defaults, calm>>

-----------------------------------------------------------------------------
\* The next database call of a request that is being served.
Continue(r) == CreateInsert(r) \/ UpdateWrite(r) \/ Conflict(r) \/ Unset(r)

ApiNext ==
    \E r \in Request :
        \/ \E c \in Code, dflt \in BOOLEAN : CreateCount(r, c, dflt)
        \/ \E id \in Rows, c \in Code \cup {Keep}, dflt \in PatchFlag :
               UpdateFind(r, id, c, dflt)
        \/ Continue(r)

Next ==
    \/ ApiNext
    \/ \E r \in Request : ListCount(r) \/ ListSeed(r) \/ Abort(r)
    \/ \E c \in Code : RunScript(c)

Spec == Init /\ [][Next]_vars

\* The event loop always comes back to a pending promise: a database call of a
\* request is answered in the end, or the request dies.
FairSpec == Spec /\ \A r \in Request : WF_vars(Continue(r))

-----------------------------------------------------------------------------
Unsetting == {r \in Request : req[r].step = "unset"}

\* Two locations are default at once only while a request that just wrote one
\* of them still has to run unsetDefaultExcept, or when one of them was made
\* default by a writer that never runs it (seed, script, aborted request).
DuplicateDefaultsExplained ==
    \A x, y \in defaults :
        \/ x = y
        \/ {x, y} \cap unswept # {}
        \/ \E r \in Unsetting : req[r].id \in {x, y}

\* Whatever the interleaving, a duplicate default goes away, unless a writer that
\* never unsets the others set one: POST and PATCH end by unsetting them.
DuplicateDefaultsSettle ==
    (\E x, y \in defaults : x # y) ~>
        (unswept # {} \/ \A x, y \in defaults : x = y)

\* What the rest of the program relies on, see DefaultLocation, as long as no
\* two requests overlap and no PATCH sends isDefault: false; requests that die
\* halfway, listings and scripts included.
Promise == INSTANCE DefaultLocation WITH count <- Len(code), current <- FindDefault
PromiseKept ==
    Promise!Init /\ [][calm' => Promise!Next]_<<Len(code), FindDefault>>
=============================================================================
