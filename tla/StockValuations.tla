-------------------------- MODULE StockValuations --------------------------
(***************************************************************************)
(* GET /stock-valuations: the value of the stock on each of the last days,  *)
(* for every location and for all of them.  A value is computed when it is  *)
(* first asked for, from the ledger and the purchase prices of that moment, *)
(* stored, and read back ever after.  One action per database call; the     *)
(* values of a day are stored in one transaction.                           *)
(***************************************************************************)
EXTENDS StockLedger

CONSTANTS Slot,         \* request slots of the server
          Price,        \* purchase prices, in cents
          FirstOnes,    \* the locations there are at the start
          DayLength,    \* ticks in a day
          Window,       \* the numbers of days a client may ask for
          PricesChange  \* may a user change a purchase price?

ASSUME ValuationAssumption ==
    /\ IsFiniteSet(Product) /\ IsFiniteSet(Location)
    /\ Price \subseteq Nat
    /\ FirstOnes \subseteq Location /\ "all" \notin Location
    /\ DayLength \in Nat \ {0}
    /\ Window \subseteq Nat \ {0}
    /\ PricesChange \in BOOLEAN

VARIABLES price,      \* the purchase price of each product
          locations,  \* the stock locations there are
          stored,     \* DailyStockValuation: per day and scope
          run         \* what each request slot waits for

vars == <<now, rows, price, locations, stored, run>>

Idle == [step |-> "idle"]

All == "all"
Scope == Location \cup {All}
ScopeKeys(locs) == locs \cup {All}

Day(t) == t \div DayLength
EndOf(day) == (day + 1) * DayLength - 1
Days == 0 .. Day(MaxTime)

\* All but the value is history.  closed: was the day over when it was computed?
\* prices: those it was computed with.  alone: was no other request in flight
\* when it was stored?
Valuation == [value : Int, closed : BOOLEAN, prices : [Product -> Price], alone : BOOLEAN]

TypeOK ==
    /\ LedgerTypeOK
    /\ price \in [Product -> Price]
    /\ locations \in SUBSET Location
    /\ DOMAIN stored \subseteq Days \X Scope
    /\ \A key \in DOMAIN stored : stored[key] \in Valuation
    /\ \A s \in Slot : run[s] # Idle =>
         /\ run[s].step \in {"prices", "cached", "inventories", "movements", "persist"}
         /\ run[s].locs \subseteq locations
         /\ run[s].today <= Day(now)
         /\ run[s].step \in {"inventories", "movements", "persist"} =>
              run[s].missing \subseteq Days \X ScopeKeys(run[s].locs) /\ run[s].missing # {}

Init ==
    /\ LedgerInit
    /\ price \in [Product -> Price]
    /\ locations = FirstOnes
    /\ stored = << >>
    /\ run = [s \in Slot |-> Idle]

Become(s, state) == run' = [run EXCEPT ![s] = state]

\* Mutant: a request with nothing to compute goes on all the same.
NextDayAlways(s, missing) ==
    Become(s, [step |-> "inventories", locs |-> run[s].locs, prices |-> run[s].prices,
               today |-> run[s].today, missing |-> missing])

\* The first day with a missing value comes next; after the last, the answer.
NextDay(s, missing) ==
    Become(s, IF missing = {} THEN Idle
              ELSE [step |-> "inventories", locs |-> run[s].locs, prices |-> run[s].prices,
                    today |-> run[s].today, missing |-> missing])

FirstDay(missing) ==
    CHOOSE day \in {key[1] : key \in missing} : \A key \in missing : day <= key[1]

-----------------------------------------------------------------------------
\* getDaily: today, then the locations.
GetDaily(s, days) ==
    /\ run[s] = Idle
    /\ Become(s, [step |-> "prices", today |-> Day(now), days |-> days, locs |-> locations])
    /\ UNCHANGED <<ledgerVars, price, locations, stored>>

\* buildPriceMap
BuildPriceMap(s) ==
    /\ run[s].step = "prices"
    /\ Become(s, [step |-> "cached", today |-> run[s].today, days |-> run[s].days,
                  locs |-> run[s].locs, prices |-> price])
    /\ UNCHANGED <<ledgerVars, price, locations, stored>>

\* Mutant: stored values are not looked for.
LoadNothing(s) ==
    LET r == run[s]
        asked == {day \in Days : r.today - r.days < day /\ day <= r.today} IN
    /\ r.step = "cached"
    /\ NextDay(s, asked \X ScopeKeys(r.locs))
    /\ UNCHANGED <<ledgerVars, price, locations, stored>>

\* loadCachedValuations: what is stored is not computed again.
LoadCached(s) ==
    LET r == run[s]
        asked == {day \in Days : r.today - r.days < day /\ day <= r.today} IN
    /\ r.step = "cached"
    /\ NextDay(s, (asked \X ScopeKeys(r.locs)) \ DOMAIN stored)
    /\ UNCHANGED <<ledgerVars, price, locations, stored>>

\* Mutant: a day in progress is valued as if it was over, a past one up to now.
CutoffNow(day, today) == now

\* computeDayValues: up to now for a day in progress, else to the end of the day.
Cutoff(day, today) == IF day = today /\ day = Day(now) THEN now ELSE EndOf(day)

\* The last inventory of each location and product, any of those that share the
\* date.
LastInventories(t) ==
    {last \in [Location \X Product -> UNION {Bases(p, {l}, t) : l \in Location, p \in Product}] :
       \A l \in Location, p \in Product : last[<<l, p>>] \in Bases(p, {l}, t)}

\* computeDayValues, its first query.
ReadInventories(s) ==
    LET r      == run[s]
        day    == FirstDay(r.missing)
        cutoff == Cutoff(day, r.today) IN
    /\ r.step = "inventories"
    /\ \E last \in LastInventories(cutoff) :
         Become(s, [step |-> "movements", locs |-> r.locs, prices |-> r.prices,
                    today |-> r.today, missing |-> r.missing, day |-> day,
                    cutoff |-> cutoff, last |-> last, closed |-> day < Day(now)])
    /\ UNCHANGED <<ledgerVars, price, locations, stored>>

\* Its second query; the value of each location, and the total of all of them,
\* those that were created meanwhile included.
ReadMovements(s) ==
    LET r == run[s]
        held(l, p)  == r.last[<<l, p>>].qty + SinceBase(p, {l}, r.last[<<l, p>>], r.cutoff)
        value(l, p) == held(l, p) * r.prices[p]
        worth == [l \in Location |-> SumFunction([p \in Product |-> value(l, p)])] IN
    /\ r.step = "movements"
    /\ Become(s, [step |-> "persist", locs |-> r.locs, prices |-> r.prices, today |-> r.today,
                  missing |-> r.missing, day |-> r.day, closed |-> r.closed,
                  value |-> [scope \in Scope |-> IF scope = All THEN SumFunction(worth)
                                                 ELSE worth[scope]]])
    /\ UNCHANGED <<ledgerVars, price, locations, stored>>

Alone(s) == \A t \in Slot \ {s} : run[t] = Idle

Upsert(s, keys) ==
    stored' = [key \in keys \cup DOMAIN stored |->
                 IF key \in keys THEN [value |-> run[s].value[key[2]], closed |-> run[s].closed,
                                       prices |-> run[s].prices, alone |-> Alone(s)]
                 ELSE stored[key]]

\* Mutant: one upsert after the other, without a transaction; a crash leaves
\* some of them.
PersistSome(s) ==
    LET r == run[s] IN
    /\ r.step = "persist"
    /\ \E keys \in SUBSET {key \in r.missing : key[1] = r.day} : Upsert(s, keys)
    /\ NextDay(s, {key \in r.missing : key[1] # r.day})
    /\ UNCHANGED <<ledgerVars, price, locations>>

\* persistDayValuations and cacheDayValuations: the missing scopes of the day,
\* inserted, or updated when another request stored them meanwhile.
Persist(s) ==
    LET r    == run[s]
        keys == {key \in r.missing : key[1] = r.day} IN
    /\ r.step = "persist"
    /\ Upsert(s, keys)
    /\ NextDay(s, r.missing \ keys)
    /\ UNCHANGED <<ledgerVars, price, locations>>

\* A database error or a crash.
Abort(s) ==
    /\ run[s] # Idle
    /\ Become(s, Idle)
    /\ UNCHANGED <<ledgerVars, price, locations, stored>>

\* PATCH /products/:id and the imports.
ChangePrice(p, cents) ==
    /\ PricesChange
    /\ price' = [price EXCEPT ![p] = cents]
    /\ UNCHANGED <<ledgerVars, locations, stored, run>>

\* POST /stock-locations
AddLocation(l) ==
    /\ l \notin locations
    /\ locations' = locations \cup {l}
    /\ UNCHANGED <<ledgerVars, price, stored, run>>

Serve(s) ==
    \/ \E days \in Window : GetDaily(s, days)
    \/ BuildPriceMap(s) \/ LoadCached(s) \/ ReadInventories(s) \/ ReadMovements(s)
    \/ Persist(s) \/ Abort(s)

\* Rows refer to locations that exist.
Write == LedgerNext /\ \A k \in DOMAIN rows' : rows'[k].location \in locations

Next ==
    \/ Write /\ UNCHANGED <<price, locations, stored, run>>
    \/ \E s \in Slot : Serve(s)
    \/ \E p \in Product, cents \in Price : ChangePrice(p, cents)
    \/ \E l \in Location : AddLocation(l)

Spec == Init /\ [][Next]_vars

-----------------------------------------------------------------------------
\* As long as no location is added: however prices change and requests overlap
\* or die, the total stored for a day is that of the values stored for its
\* locations, and none of them is missing.
TotalsAddUp ==
    locations = FirstOnes =>
        \A key \in DOMAIN stored :
            /\ \A scope \in ScopeKeys(locations) : <<key[1], scope>> \in DOMAIN stored
            /\ stored[<<key[1], All>>].value =
                 SumFunction([l \in locations |-> stored[<<key[1], l>>].value])

\* Rows dated by the server: a value computed after its day is over is what the
\* ledger says of the end of that day, at the prices the request had read, so
\* asking late never costs accuracy.
ClosedDaysAreExact ==
    \A day \in Days, l \in Location :
        <<day, l>> \in DOMAIN stored /\ stored[<<day, l>>].closed =>
            LET held(p) == Balance(p, {l})[EndOf(day)]
                cents   == stored[<<day, l>>].prices IN
            \E f \in [Product -> UNION {held(p) : p \in Product}] :
                /\ \A p \in Product : f[p] \in held(p)
                /\ stored[<<day, l>>].value = SumFunction([p \in Product |-> f[p] * cents[p]])

\* A value that was stored with no other request in flight is never revised,
\* whatever is written, priced or asked for afterwards, by however many requests.
StoredIsFinal ==
    [][\A key \in DOMAIN stored :
          stored[key].alone => key \in DOMAIN stored' /\ stored'[key] = stored[key]]_vars
=============================================================================
