---------------------------- MODULE StockLedger ----------------------------
(***************************************************************************)
(* The inventories and the stock movements, and the stock that follows      *)
(* from them: the quantity of the last inventory, plus the movements dated  *)
(* after it.  Rows are only ever added.  One tick of the clock stands for   *)
(* the milliseconds in which the order of two writes cannot be told from    *)
(* their dates.                                                             *)
(***************************************************************************)
EXTENDS Integers, Sequences, FiniteSets, Functions

CONSTANTS Product,
          Location,
          Count,      \* the quantities an inventory may state
          Change,     \* the quantities a movement may carry
          Dated,      \* may a client send the date of a row?
          MaxTime,    \* bound: the last tick
          MaxRows     \* bound: the number of rows

Time == 0 .. MaxTime

ASSUME LedgerAssumption ==
    /\ Count \subseteq Int
    /\ Change \subseteq Int \ {0}
    /\ Dated \in BOOLEAN
    /\ MaxTime \in Nat /\ MaxRows \in Nat

VARIABLES now, rows

ledgerVars == <<now, rows>>

Row == [kind : {"inventory", "movement"}, product : Product, location : Location,
        at : Time, qty : Int]

LedgerTypeOK == now \in Time /\ rows \in Seq(Row)

LedgerInit == now = 0 /\ rows = << >>

Tick == now < MaxTime /\ now' = now + 1 /\ UNCHANGED rows

Dates == IF Dated THEN Time ELSE {now}

Insert(batch) ==
    /\ Len(rows) + Len(batch) <= MaxRows
    /\ rows' = rows \o batch
    /\ UNCHANGED now

CreateInventory(p, l, at, qty) ==
    Insert(<<[kind |-> "inventory", product |-> p, location |-> l, at |-> at, qty |-> qty]>>)

CreateMovement(p, l, at, qty) ==
    Insert(<<[kind |-> "movement", product |-> p, location |-> l, at |-> at, qty |-> qty]>>)

\* createMany: one transaction, here a transfer between two locations.
CreateTransfer(p, from, to, at, qty) ==
    Insert(<<[kind |-> "movement", product |-> p, location |-> from, at |-> at, qty |-> -qty],
             [kind |-> "movement", product |-> p, location |-> to, at |-> at, qty |-> qty]>>)

LedgerNext ==
    \/ Tick
    \/ \E p \in Product, l \in Location, at \in Dates :
         \/ \E qty \in Count : CreateInventory(p, l, at, qty)
         \/ \E qty \in Change : CreateMovement(p, l, at, qty)
         \/ \E to \in Location \ {l}, qty \in Change : CreateTransfer(p, l, to, at, qty)

-----------------------------------------------------------------------------
\* Rows are named by their rank.
Inventories(p, locations) ==
    {k \in DOMAIN rows : rows[k].kind = "inventory" /\ rows[k].product = p
                         /\ rows[k].location \in locations}

Movements(p, locations) ==
    {k \in DOMAIN rows : rows[k].kind = "movement" /\ rows[k].product = p
                         /\ rows[k].location \in locations}

\* The latest of some inventories; the database may return any of those that
\* share the date.
Latest(K) == {k \in K : \A j \in K : rows[j].at <= rows[k].at}

\* Where the sum starts: a quantity and a date, before any date without an
\* inventory.
Bases(p, locations, t) ==
    LET past == {k \in Inventories(p, locations) : rows[k].at <= t} IN
    IF past = {} THEN {[qty |-> 0, at |-> -1]}
    ELSE {[qty |-> rows[k].qty, at |-> rows[k].at] : k \in Latest(past)}

Total(K) == SumFunctionOnSet([k \in DOMAIN rows |-> rows[k].qty], K)

\* Mutant: a movement of the same date as the inventory counts.
FromInventory(p, locations, base, t) ==
    Total({k \in Movements(p, locations) : rows[k].at >= base.at /\ rows[k].at <= t})

SinceBase(p, locations, base, t) ==
    Total({k \in Movements(p, locations) : rows[k].at > base.at /\ rows[k].at <= t})

\* What the ledger says, read as a story: tick after tick, the movements of the
\* tick apply, and an inventory of the tick settles the quantity; either of two
\* inventories of one tick.
Balance(p, locations) ==
    LET of(t)   == {k \in Inventories(p, locations) : rows[k].at = t}
        flow(t) == Total({k \in Movements(p, locations) : rows[k].at = t})
        before(balance, t) == IF t = 0 THEN {0} ELSE balance[t - 1]
        balance[t \in Time] ==
            IF of(t) # {} THEN {rows[k].qty : k \in of(t)}
            ELSE {qty + flow(t) : qty \in before(balance, t)}
    IN  balance
=============================================================================
