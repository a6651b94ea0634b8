----------------------------- MODULE StockSync -----------------------------
(***************************************************************************)
(* GET /stock/:id, GET /stock/:id/at/:date and POST /axonaut/sync-stock.    *)
(* All compute a stock in two queries, the last inventory and then the sum  *)
(* of the movements, between which anything may be written; sync-stock does *)
(* so for product after product and sends the result to Axonaut.            *)
(***************************************************************************)
EXTENDS StockLedger

CONSTANTS Caller,  \* request slots of the server
          Linked,  \* products with an Axonaut id
          Ids,     \* the sets of product ids a client may ask to sync
          Asked    \* the instants a client may ask the stock of

ASSUME SyncAssumption == Linked \subseteq Product /\ Asked \subseteq Time

VARIABLES call,      \* what each slot waits for
          answer,    \* history: the last answer to getStockAt by each slot
          axonaut,   \* the stock that Axonaut has for each linked product
          confirmed  \* history: how many rows of each product the syncs that
                     \* Axonaut accepted had seen when they began to read

syncVars == <<now, rows, call, answer, axonaut, confirmed>>

NoCall == [step |-> "idle"]
NoAnswer == [asked |-> -1]

SyncTypeOK ==
    /\ LedgerTypeOK
    /\ \A s \in Caller : call[s] # NoCall =>
         /\ call[s].step \in {"next", "sum", "push"}
         /\ call[s].todo \subseteq Linked
         /\ call[s].step = "next" => call[s].todo # {}
         /\ call[s].step # "next" /\ call[s].sync => call[s].product \in Linked
    /\ answer \in [Caller -> {NoAnswer} \cup
                           [asked : Time, product : Product, target : Time, stock : Int]]
    /\ axonaut \in [Linked -> Int]
    /\ confirmed \in [Linked -> -1 .. MaxRows]

SyncInit ==
    /\ LedgerInit
    /\ call = [s \in Caller |-> NoCall]
    /\ answer = [s \in Caller |-> NoAnswer]
    /\ axonaut = [p \in Linked |-> 0]
    /\ confirmed = [p \in Linked |-> -1]

Await(s, state) == call' = [call EXCEPT ![s] = state]

Seen(p) == Cardinality({k \in DOMAIN rows : rows[k].product = p})

\* The first query, findFirst on the inventories of every location.
ReadBase(s, p, target, sync, dry, todo) ==
    \E base \in Bases(p, Location, target) :
        Await(s, [step |-> "sum", product |-> p, target |-> target, base |-> base,
                   asked |-> now, seen |-> Seen(p), sync |-> sync, dry |-> dry, todo |-> todo])

\* Mutant: the loop goes on after the last product.
ContinueAlways(s, todo) == Await(s, [step |-> "next", todo |-> todo, dry |-> call[s].dry])

\* After a product of a sync: the next one, or the end.
Continue(s, todo) ==
    Await(s, IF todo = {} THEN NoCall
              ELSE [step |-> "next", todo |-> todo, dry |-> call[s].dry])

-----------------------------------------------------------------------------
\* getStockAt; getCurrentStock asks for the present.
GetStockAt(s, p, at) ==
    /\ call[s] = NoCall
    /\ ReadBase(s, p, at, FALSE, FALSE, {})
    /\ UNCHANGED <<ledgerVars, answer, axonaut, confirmed>>

\* syncStock: products that are unknown or not linked are skipped.
SyncStock(s, ids, dry) ==
    /\ call[s] = NoCall
    /\ ids \cap Linked # {}
    /\ Await(s, [step |-> "next", todo |-> ids \cap Linked, dry |-> dry])
    /\ UNCHANGED <<ledgerVars, answer, axonaut, confirmed>>

ReadInventory(s, p) ==
    /\ call[s].step = "next"
    /\ p \in call[s].todo
    /\ ReadBase(s, p, now, TRUE, call[s].dry, call[s].todo \ {p})
    /\ UNCHANGED <<ledgerVars, answer, axonaut, confirmed>>

\* The second query; the stock goes to the client, or on to Axonaut unless the
\* sync is a dry run.
SumMovements(s) ==
    LET c     == call[s]
        stock == c.base.qty + SinceBase(c.product, Location, c.base, c.target) IN
    /\ c.step = "sum"
    /\ \/ /\ c.sync /\ ~ c.dry
          /\ Await(s, [step |-> "push", product |-> c.product, stock |-> stock,
                        seen |-> c.seen, sync |-> TRUE, dry |-> FALSE, todo |-> c.todo])
          /\ UNCHANGED answer
       \/ /\ c.sync /\ c.dry
          /\ Continue(s, c.todo)
          /\ UNCHANGED answer
       \/ /\ ~ c.sync
          /\ Await(s, NoCall)
          /\ answer' = [answer EXCEPT ![s] = [asked |-> c.asked, product |-> c.product,
                                              target |-> c.target, stock |-> stock]]
    /\ UNCHANGED <<ledgerVars, axonaut, confirmed>>

Latter(a, b) == IF a < b THEN b ELSE a

\* Mutant: the stock goes out as a delta.
PushDelta(s) ==
    LET p == call[s].product IN
    /\ call[s].step = "push"
    /\ axonaut' = [axonaut EXCEPT ![p] = @ + call[s].stock]
    /\ confirmed' = [confirmed EXCEPT ![p] = Latter(@, call[s].seen)]
    /\ Continue(s, call[s].todo)
    /\ UNCHANGED <<ledgerVars, answer>>

\* updateStock with a quantity: Axonaut applies it and answers.
Push(s) ==
    LET p == call[s].product IN
    /\ call[s].step = "push"
    /\ axonaut' = [axonaut EXCEPT ![p] = call[s].stock]
    /\ confirmed' = [confirmed EXCEPT ![p] = Latter(@, call[s].seen)]
    /\ Continue(s, call[s].todo)
    /\ UNCHANGED <<ledgerVars, answer>>

\* Axonaut refuses, or its answer is lost after or before it applied the stock;
\* the other products are synced all the same.
PushFails(s) ==
    LET p == call[s].product IN
    /\ call[s].step = "push"
    /\ axonaut' \in {axonaut, [axonaut EXCEPT ![p] = call[s].stock]}
    /\ Continue(s, call[s].todo)
    /\ UNCHANGED <<ledgerVars, answer, confirmed>>

\* POST /axonaut/update-stock: a quantity that owes nothing to the ledger.
UpdateStock(p, quantity) ==
    /\ axonaut' = [axonaut EXCEPT ![p] = quantity]
    /\ confirmed' = [confirmed EXCEPT ![p] = -1]
    /\ UNCHANGED <<ledgerVars, call, answer>>

\* A database error or a crash.
Hangup(s) ==
    /\ call[s] # NoCall
    /\ Await(s, NoCall)
    /\ UNCHANGED <<ledgerVars, answer, axonaut, confirmed>>

ServeCaller(s) ==
    \/ \E p \in Product, at \in Asked : GetStockAt(s, p, at)
    \/ \E ids \in Ids, dry \in BOOLEAN : SyncStock(s, ids, dry)
    \/ \E p \in Linked : ReadInventory(s, p)
    \/ SumMovements(s) \/ Push(s) \/ PushFails(s) \/ Hangup(s)

SyncNext ==
    \/ LedgerNext /\ UNCHANGED <<call, answer, axonaut, confirmed>>
    \/ \E s \in Caller : ServeCaller(s)
    \/ \E p \in Linked, quantity \in Count : UpdateStock(p, quantity)

SyncSpec == SyncInit /\ [][SyncNext]_syncVars

-----------------------------------------------------------------------------
\* Rows dated by the server: the stock told for a past instant, read in two
\* queries among any writes, is what the ledger says of that instant, and later
\* rows never make it wrong.
PastStaysTold ==
    \A s \in Caller : answer[s].asked # -1 /\ answer[s].target < answer[s].asked =>
        answer[s].stock \in Balance(answer[s].product, Location)[answer[s].target]

\* README.md on sync-stock: Axonaut's stock is synced from the stock computed by
\* Petflow.  So once a sync that has seen every row of a product is accepted,
\* Axonaut has the product's stock.
SyncedStockIsCurrent ==
    \A p \in Linked : confirmed[p] = Seen(p) =>
        axonaut[p] \in Balance(p, Location)[now]

\* stock.service.ts on what it returns: the stock at a given date.  So a stock
\* should count what every location holds.
EveryLocationCounts ==
    \A s \in Caller : answer[s].asked # -1 /\ answer[s].target < answer[s].asked =>
        LET held(l) == Balance(answer[s].product, {l})[answer[s].target] IN
        \E f \in [Location -> UNION {held(l) : l \in Location}] :
            /\ \A l \in Location : f[l] \in held(l)
            /\ answer[s].stock = SumFunction(f)
=============================================================================
