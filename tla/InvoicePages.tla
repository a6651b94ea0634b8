---------------------------- MODULE InvoicePages ----------------------------
(***************************************************************************)
(* How listInvoices reads the invoices that one syncInvoices asks for: the *)
(* number of pages first, then page after page, newest first, each page an *)
(* HTTP call, until the last page, an empty one, or one that ends before   *)
(* the window.  InvoiceSync takes all of this as one answer of Axonaut;    *)
(* here the answer is built call by call while invoices may be issued.     *)
(* Invoices are numbered in the order they are issued, so page p of n      *)
(* invoices holds known numbers.  One request, no marks and no clears.     *)
(***************************************************************************)
EXTENDS Integers

CONSTANTS MaxInvoices,   \* bound of the number of invoices
          MaxTime,       \* bound of the clock
          PerPage,       \* invoices on a page
          Lookback,      \* lookbackDays a client may ask for, clamped
          MinFrom,       \* no sync looks before this instant
          MinInterval    \* minIntervalMinutes

ASSUME PagesAssumption ==
    /\ MaxInvoices \in Nat \ {0}
    /\ MaxTime \in Nat \ {0}
    /\ PerPage \in Nat \ {0}
    /\ Lookback \subseteq Nat \ {0}
    /\ MinFrom \in Nat
    /\ MinInterval \in Nat

Invoice == 1 .. MaxInvoices

VARIABLES now,    \* the clock
          count,  \* invoices 1 .. count are issued
          date,   \* the date each one carries, 0 for none
          blob,   \* the saved document, as in InvoiceSync
          list,   \* what the request waits for
          plain   \* history: so far all invoices are dated, the page count
                  \* was told, and no invoice was issued during a listing

vars == <<now, count, date, blob, list, plain>>

Dating == {"prompt", "undated"}

Idle == [step |-> "idle"]

\* What the request stands for while a single answer is awaited.
Awaited ==
    CASE list.step = "idle" -> Idle
      [] list.step \in {"meta", "page"} ->
           [step |-> "fetch", prev |-> blob, from |-> list.from, at |-> list.at]
      [] list.step = "save" ->
           [step |-> "save", next |-> list.next, imports |-> {}, clears |-> {}]

Atomic == INSTANCE InvoiceSync WITH
            Request <- {"sync"}, DayLength <- 1, ResetOffset <- 1,
            issued <- 1 .. count, punctual <- {i \in 1 .. count : date[i] # 0},
            req <- [r \in {"sync"} |-> Awaited],
            seen <- blob.pending, imported <- {}, cleared <- {}, gone <- {}, quotaUntil <- 0

\* held is history: how many invoices there were when the pages were counted.
Listing ==
    [step : {"idle"}]
      \cup [step : {"meta"}, from : Nat, at : Nat]
      \cup [step : {"page"}, from : Nat, at : Nat, got : SUBSET Invoice,
            page : Nat, pages : Nat, held : Nat]
      \cup [step : {"save"}, from : Nat, next : Atomic!Blob, pages : Nat, held : Nat]

TypeOK == /\ now \in 1 .. MaxTime
          /\ count \in 0 .. MaxInvoices
          /\ date \in [Invoice -> 0 .. MaxTime]
          /\ blob \in Atomic!Blob
          /\ list \in Listing
          /\ plain \in BOOLEAN
          /\ list.step = "page" => list.page \in 1 .. list.pages

Init == /\ now = 1
        /\ count = 0
        /\ date = [i \in Invoice |-> 0]
        /\ blob = [last |-> 0, blocked |-> 0, pending |-> {}, since |-> 0]
        /\ list = Idle
        /\ plain = TRUE

-----------------------------------------------------------------------------
Tick == /\ now < MaxTime
        /\ now' = now + 1
        /\ UNCHANGED <<count, date, blob, list, plain>>

Issue(how) ==
    /\ count < MaxInvoices
    /\ count' = count + 1
    /\ \E d \in Atomic!DatesOf(how) : date' = [date EXCEPT ![count + 1] = d]
    /\ plain' = (plain /\ how = "prompt" /\ list.step \in {"idle", "save"})
    /\ UNCHANGED <<now, blob, list>>

SyncStart(force, lookback) ==
    /\ list.step = "idle"
    /\ force \/ blob.last = 0 \/ now - blob.last >= MinInterval
    /\ list' = [step |-> "meta", from |-> Atomic!From(blob, lookback), at |-> now]
    /\ UNCHANGED <<now, count, date, blob, plain>>

-----------------------------------------------------------------------------
FullPages == (count + PerPage - 1) \div PerPage

\* Mutant: without invoices there is no page to read.
PagesOrNone(told) == IF told THEN FullPages ELSE 1

\* Mutant: the last page counts only when it is full.
PagesRoundedDown(told) == IF told /\ count >= PerPage THEN count \div PerPage ELSE 1

\* The page count: told, as such or by the number of results, or else 1.
Pages(told) == IF told /\ count > 0 THEN FullPages ELSE 1

\* listInvoices, the call without a page.
ReadMeta(told) ==
    /\ list.step = "meta"
    /\ list' = [step |-> "page", from |-> list.from, at |-> list.at, got |-> {},
                page |-> 1, pages |-> Pages(told), held |-> count]
    /\ plain' = (plain /\ told)
    /\ UNCHANGED <<now, count, date, blob>>

\* The invoices on page p, the newest ones on page 1.
Page(p) == {i \in 1 .. count : (count - i) \div PerPage = p - 1}

\* Mutant: a page that ends at the first instant of the window is the last.
ReachesWindow(items, from) ==
    items # {} /\ \A i \in items : date[i] # 0 /\ \E j \in items : date[j] <= from

\* The early break: every invoice of the page is dated, one before the window.
LeavesWindow(items, from) ==
    items # {} /\ \A i \in items : date[i] # 0 /\ \E j \in items : date[j] < from

\* filterInvoicesByDate keeps the undated ones.
InWindow(i, from, to) == date[i] = 0 \/ (from <= date[i] /\ date[i] <= to)

\* One turn of the loop: the next page, or the end of the list and what
\* syncInvoices then means to save.
ReadPage ==
    /\ list.step = "page"
    /\ LET items == Page(list.page)
           got == list.got \cup items
           found == {i \in got : InWindow(i, list.from, list.at)}
       IN IF items = {} \/ LeavesWindow(items, list.from) \/ list.page = list.pages
            THEN list' = [step |-> "save", from |-> list.from,
                          pages |-> list.pages, held |-> list.held,
                          next |-> [last |-> list.at, blocked |-> 0,
                                    pending |-> blob.pending \cup found,
                                    since |-> IF blob.last < list.from
                                                THEN list.from ELSE blob.since]]
            ELSE list' = [list EXCEPT !.got = got, !.page = @ + 1]
    /\ UNCHANGED <<now, count, date, blob, plain>>

Save == /\ list.step = "save"
        /\ blob' = list.next
        /\ list' = Idle
        /\ UNCHANGED <<now, count, date, plain>>

\* strict: any call that fails ends the request (what a 429 saves is in
\* InvoiceSync), as do a failed save and a crash.
Abort == /\ list.step # "idle"
         /\ list' = Idle
         /\ UNCHANGED <<now, count, date, blob, plain>>

Next == \/ Tick
        \/ \E how \in Dating : Issue(how)
        \/ \E force \in BOOLEAN, lookback \in Lookback : SyncStart(force, lookback)
        \/ \E told \in BOOLEAN : ReadMeta(told)
        \/ ReadPage
        \/ Save
        \/ Abort

Spec == Init /\ [][Next]_vars

-----------------------------------------------------------------------------
\* As long as no invoice is issued between two pages, all are dated and the
\* page count is told, the page-by-page listing is the atomic answer that
\* InvoiceSync takes it for: the early break and the page arithmetic lose none.
ListingIsAtomic == Atomic!Init /\ [][plain' => Atomic!Next]_(Atomic!vars)

\* Whatever is issued meanwhile, a dated invoice of the window that was there
\* when the pages were counted is found, unless it was pushed past the last
\* of the pages that were counted.
LostOnlyPastLastPage ==
    list.step = "save" =>
      \A i \in 1 .. list.held :
        /\ date[i] # 0
        /\ list.from <= date[i] /\ date[i] <= list.next.last
        /\ count - i + 1 <= list.pages * PerPage
        => i \in list.next.pending
=============================================================================
