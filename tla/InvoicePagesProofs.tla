-------------------------- MODULE InvoicePagesProofs --------------------------
(***************************************************************************)
(* Proofs about InvoicePages, for any number of invoices, any size of a     *)
(* page and any windows: which invoices a listing may miss, and that it is  *)
(* the single answer of InvoiceSync while nothing is issued between pages.  *)
(***************************************************************************)
EXTENDS InvoicePages, TLAPS

-----------------------------------------------------------------------------
(***************************************************************************)
(* The arithmetic of pages.                                                *)
(***************************************************************************)
LEMMA Quotient ==
    ASSUME NEW n \in Nat, NEW d \in Nat \ {0}
    PROVE  n \div d \in Nat /\ d * (n \div d) <= n /\ n < d * (n \div d) + d
  OBVIOUS

LEMMA QuotientIs ==
    ASSUME NEW n \in Nat, NEW d \in Nat \ {0}, NEW q \in Nat,
           d * q <= n, n < d * q + d
    PROVE  n \div d = q
  <1>1. n \div d \in Nat /\ d * (n \div d) <= n /\ n < d * (n \div d) + d
    BY Quotient
  <1>2. ASSUME n \div d < q PROVE FALSE
    <2>1. d * (n \div d + 1) <= d * q
      BY <1>1, <1>2
    <2> QED
      BY <1>1, <2>1
  <1>3. ASSUME q < n \div d PROVE FALSE
    <2>1. d * (q + 1) <= d * (n \div d)
      BY <1>1, <1>3
    <2> QED
      BY <1>1, <2>1
  <1> QED
    BY <1>1, <1>2, <1>3

\* The invoices before page p, and those on it.
Before(p) == {i \in 1 .. count : count - i < PerPage * (p - 1)}

LEMMA OnPage ==
    ASSUME count \in Nat, NEW p \in Nat \ {0}, NEW i \in 1 .. count
    PROVE  i \in Page(p) <=> PerPage * (p - 1) <= count - i /\ count - i < PerPage * p
  <1> DEFINE n == count - i
  <1>1. n \in Nat /\ PerPage \in Nat \ {0} /\ p - 1 \in Nat
    BY PagesAssumption
  <1>2. PerPage * (p - 1) + PerPage = PerPage * p
    BY <1>1
  <1>3. n \div PerPage = p - 1 => PerPage * (p - 1) <= n /\ n < PerPage * p
    BY <1>1, <1>2, Quotient
  <1>4. PerPage * (p - 1) <= n /\ n < PerPage * p => n \div PerPage = p - 1
    BY <1>1, <1>2, QuotientIs
  <1> QED
    BY <1>3, <1>4 DEF Page

\* A page after which there is another one is not empty.
LEMMA NoGaps ==
    ASSUME count \in Nat, NEW p \in Nat \ {0}, NEW i \in 1 .. count,
           PerPage * p <= count - i
    PROVE  Page(p) # {}
  <1> DEFINE j == count - PerPage * (p - 1)
  <1>1. PerPage \in Nat \ {0} /\ PerPage * (p - 1) \in Nat
        /\ PerPage * (p - 1) + PerPage = PerPage * p
    BY PagesAssumption
  <1>2. j \in 1 .. count /\ count - j = PerPage * (p - 1)
    BY <1>1
  <1> HIDE DEF j
  <1>3. j \in Page(p)
    BY <1>1, <1>2, OnPage
  <1> QED
    BY <1>3

\* The counted pages hold all invoices.
LEMMA FullPagesHoldAll ==
    ASSUME count \in Nat \ {0}
    PROVE  FullPages \in Nat \ {0} /\ count <= PerPage * FullPages
  <1> DEFINE n == count + PerPage - 1
  <1>1. n \in Nat /\ PerPage \in Nat \ {0}
    BY PagesAssumption
  <1>2. n \div PerPage \in Nat /\ n < PerPage * (n \div PerPage) + PerPage
    BY <1>1, Quotient
  <1>3. count <= PerPage * (n \div PerPage)
    BY <1>1, <1>2
  <1>4. n \div PerPage # 0
    BY <1>1, <1>2, <1>3
  <1> QED
    BY <1>2, <1>3, <1>4 DEF FullPages

-----------------------------------------------------------------------------
(***************************************************************************)
(* The invariant.                                                          *)
(***************************************************************************)
\* Invoices are dated in the order they are issued.
DatesInv ==
    /\ \A i \in 1 .. count : date[i] <= now
    /\ \A i, j \in 1 .. count :
         i <= j /\ date[i] # 0 /\ date[j] # 0 => date[i] <= date[j]
    /\ plain => \A i \in 1 .. count : date[i] # 0

\* What was before the next page has been read, though it may have moved since.
PageInv ==
    list.step = "page" =>
        /\ list.held <= count /\ list.got \subseteq 1 .. count
        /\ \A i \in 1 .. list.held : i \in Before(list.page) => i \in list.got
        /\ plain => list.held = count /\ list.pages = IF count > 0 THEN FullPages ELSE 1

SaveInv ==
    /\ blob.blocked = 0
    /\ list.step = "save" =>
         /\ list.held <= count
         /\ list.next.blocked = 0 /\ blob.pending \subseteq list.next.pending

Inv == TypeOK /\ DatesInv /\ PageInv /\ SaveInv /\ LostOnlyPastLastPage

LEMMA Numbers ==
    ASSUME TypeOK
    PROVE  /\ now \in Nat /\ count \in Nat /\ count <= MaxInvoices /\ MaxInvoices \in Nat
           /\ PerPage \in Nat \ {0} /\ \A i \in 1 .. count : i \in Invoice /\ date[i] \in Nat
  BY PagesAssumption DEF TypeOK, Invoice

LEMMA Initially == Init => Inv
  <1> SUFFICES ASSUME Init PROVE Inv
    OBVIOUS
  <1>1. TypeOK
    BY PagesAssumption DEF Init, TypeOK, Listing, Idle, Atomic!Blob
  <1>2. 1 .. count = {}
    BY DEF Init
  <1>3. DatesInv /\ PageInv /\ SaveInv /\ LostOnlyPastLastPage
    BY <1>2 DEF Init, DatesInv, PageInv, SaveInv, LostOnlyPastLastPage, Idle
  <1> QED
    BY <1>1, <1>3 DEF Inv

LEMMA TickKeeps == ASSUME Inv, Tick PROVE Inv'
  <1>1. now \in Nat /\ now' = now + 1 /\ now' \in 1 .. MaxTime
        /\ UNCHANGED <<count, date, blob, list, plain>>
    BY PagesAssumption DEF Inv, TypeOK, Tick
  <1>2. \A i \in 1 .. count : date[i] \in Nat
    BY Numbers DEF Inv
  <1>3. TypeOK'
    BY <1>1 DEF Inv, TypeOK, Listing, Atomic!Blob
  <1>4. DatesInv'
    BY <1>1, <1>2 DEF Inv, DatesInv
  <1>5. PageInv' /\ SaveInv' /\ LostOnlyPastLastPage'
    BY <1>1 DEF Inv, PageInv, SaveInv, LostOnlyPastLastPage, Before, FullPages
  <1> QED
    BY <1>3, <1>4, <1>5 DEF Inv

LEMMA IssueKeeps == ASSUME Inv, NEW how \in Dating, Issue(how) PROVE Inv'
  <1>1. /\ count < MaxInvoices /\ count' = count + 1
        /\ plain' = (plain /\ how = "prompt" /\ list.step \in {"idle", "save"})
        /\ UNCHANGED <<now, blob, list>>
    BY DEF Issue
  <1>2. PICK d \in {now, 0} : /\ date' = [date EXCEPT ![count + 1] = d]
                              /\ how = "prompt" => d = now
    BY DEF Issue, Dating, Atomic!DatesOf
  <1>3. TypeOK /\ now \in 1 .. MaxTime /\ MaxTime \in Nat /\ date \in [Invoice -> 0 .. MaxTime]
    BY PagesAssumption DEF Inv, TypeOK
  <1>4. /\ count \in Nat /\ count + 1 \in Invoice /\ 1 .. count' = 1 .. count \cup {count + 1}
        /\ count + 1 \notin 1 .. count /\ 1 .. count \subseteq Invoice
    BY <1>1, <1>3, Numbers DEF Invoice
  <1>5. /\ date' \in [Invoice -> 0 .. MaxTime] /\ date'[count + 1] = d
        /\ \A i \in 1 .. count : date'[i] = date[i] /\ date[i] \in Nat
    BY <1>2, <1>3, <1>4
  <1>prompt. plain' \in BOOLEAN /\ (plain' => plain /\ how = "prompt")
         /\ (plain' => list.step \in {"idle", "save"})
    BY <1>1, Zenon
  <1>6. TypeOK'
    <2>1. count' \in 0 .. MaxInvoices
      BY <1>1, <1>4, Numbers, <1>3
    <2> QED
      BY <1>1, <1>3, <1>5, <1>prompt, <2>1 DEF TypeOK, Listing, Atomic!Blob
  <1>7. DatesInv'
    <2>1. \A i \in 1 .. count' : date'[i] <= now'
      BY <1>1, <1>2, <1>3, <1>4, <1>5 DEF Inv, DatesInv
    <2>2. \A i, j \in 1 .. count' :
            i <= j /\ date'[i] # 0 /\ date'[j] # 0 => date'[i] <= date'[j]
      BY <1>1, <1>2, <1>3, <1>4, <1>5 DEF Inv, DatesInv
    <2>3. plain' => \A i \in 1 .. count' : date'[i] # 0
      <3>1. plain' => d = now /\ now # 0 /\ \A i \in 1 .. count : date[i] # 0
        BY <1>2, <1>3, <1>prompt DEF Inv, DatesInv
      <3> QED
        BY <1>4, <1>5, <3>1
    <2> QED
      BY <2>1, <2>2, <2>3 DEF DatesInv
  <1>8. PageInv'
    <2> SUFFICES ASSUME list.step = "page"
                 PROVE  /\ list.held <= count' /\ list.got \subseteq 1 .. count'
                        /\ ~ plain'
                        /\ \A i \in 1 .. list.held : i \in Before(list.page)' => i \in list.got
      BY <1>1 DEF PageInv
    <2>1. list.held \in Nat /\ list.page \in Nat \ {0}
      BY <1>3 DEF TypeOK, Listing
    <2>2. /\ list.held <= count /\ list.got \subseteq 1 .. count
          /\ \A i \in 1 .. list.held : i \in Before(list.page) => i \in list.got
      BY DEF Inv, PageInv
    <2>3. \A i \in 1 .. list.held : i \in Before(list.page)' => i \in Before(list.page)
      <3>1. PerPage * (list.page - 1) \in Int
        BY <2>1, Numbers, <1>3
      <3> QED
        BY <1>1, <1>4, <2>1, <2>2, <3>1 DEF Before
    <2>4. ~ plain'
      BY <1>prompt
    <2>5. list.held <= count' /\ list.got \subseteq 1 .. count'
      BY <1>1, <1>4, <2>1, <2>2
    <2> QED
      BY <2>2, <2>3, <2>4, <2>5
  <1>9. SaveInv' /\ LostOnlyPastLastPage'
    <2>1. SaveInv'
      <3>1. list.step = "save" => list.held \in Nat
        BY <1>3 DEF TypeOK, Listing
      <3> QED
        BY <1>1, <1>4, <3>1 DEF Inv, SaveInv
    <2>2. ASSUME list.step = "save", NEW i \in 1 .. list.held, date'[i] # 0,
                 list.from <= date'[i], date'[i] <= list.next.last,
                 count' - i + 1 <= list.pages * PerPage
          PROVE  i \in list.next.pending
      <3>1. list.held \in Nat /\ list.pages \in Nat /\ list.held <= count
        BY <1>3, <2>2 DEF TypeOK, Listing, Inv, SaveInv
      <3>2. i \in 1 .. count /\ list.pages * PerPage \in Int
        BY <1>3, <1>4, <3>1, Numbers
      <3>3. count - i + 1 <= list.pages * PerPage
        BY <1>1, <1>4, <2>2, <3>2
      <3> QED
        BY <1>5, <2>2, <3>2, <3>3 DEF Inv, LostOnlyPastLastPage
    <2> QED
      BY <1>1, <2>1, <2>2 DEF LostOnlyPastLastPage
  <1> QED
    BY <1>6, <1>7, <1>8, <1>9 DEF Inv

LEMMA SyncStartKeeps ==
    ASSUME Inv, NEW force \in BOOLEAN, NEW lookback \in Lookback, SyncStart(force, lookback)
    PROVE  Inv'
  <1>1. /\ list' = [step |-> "meta", from |-> Atomic!From(blob, lookback), at |-> now]
        /\ UNCHANGED <<now, count, date, blob, plain>>
    BY DEF SyncStart
  <1>2. Atomic!From(blob, lookback) \in Nat /\ now \in Nat
    BY PagesAssumption DEF Atomic!From, Atomic!Later, Inv, TypeOK, Atomic!Blob
  <1>3. TypeOK'
    BY <1>1, <1>2 DEF Inv, TypeOK, Listing, Atomic!Blob
  <1> QED
    BY <1>1, <1>3 DEF Inv, DatesInv, PageInv, SaveInv, LostOnlyPastLastPage

LEMMA ReadMetaKeeps == ASSUME Inv, NEW told \in BOOLEAN, ReadMeta(told) PROVE Inv'
  <1>1. /\ list.step = "meta"
        /\ list' = [step |-> "page", from |-> list.from, at |-> list.at, got |-> {},
                    page |-> 1, pages |-> Pages(told), held |-> count]
        /\ plain' = (plain /\ told) /\ UNCHANGED <<now, count, date, blob>>
    BY DEF ReadMeta
  <1>2. list.from \in Nat /\ list.at \in Nat /\ TypeOK
    BY <1>1 DEF Inv, TypeOK, Listing
  <1>3. Pages(told) \in Nat \ {0} /\ count \in Nat
    BY <1>2, Numbers, FullPagesHoldAll DEF Pages
  <1>4. TypeOK'
    <2>1. list' \in Listing
      BY <1>1, <1>2, <1>3 DEF Listing
    <2>2. plain' \in BOOLEAN
      BY <1>1, <1>2, Zenon DEF TypeOK
    <2> QED
      BY <1>1, <1>2, <1>3, <2>1, <2>2 DEF TypeOK, Listing, Atomic!Blob
  <1>5. \A i \in 1 .. count : i \notin Before(1)
    BY <1>2, Numbers DEF Before
  <1>6. PageInv'
    BY <1>1, <1>3, <1>5 DEF PageInv, Pages, Before, FullPages
  <1>7. DatesInv' /\ SaveInv' /\ LostOnlyPastLastPage'
    BY <1>1 DEF Inv, DatesInv, SaveInv, LostOnlyPastLastPage
  <1> QED
    BY <1>4, <1>6, <1>7 DEF Inv

\* When the listing ends, what it has not read is before the window or past the
\* pages that were counted.
Ends(items) == items = {} \/ LeavesWindow(items, list.from) \/ list.page = list.pages

LEMMA AllFound ==
    ASSUME Inv, list.step = "page", Ends(Page(list.page)),
           NEW i \in 1 .. list.held, date[i] # 0, list.from <= date[i],
           count - i < PerPage * list.pages
    PROVE  i \in list.got \cup Page(list.page)
  <1>1. /\ TypeOK /\ list.page \in Nat \ {0} /\ list.pages \in Nat /\ list.page <= list.pages
        /\ list.held \in Nat /\ list.held <= count /\ list.from \in Nat
    BY DEF Inv, TypeOK, Listing, PageInv
  <1>2. i \in 1 .. count /\ count \in Nat /\ PerPage \in Nat \ {0} /\ date[i] \in Nat
    BY <1>1, Numbers
  <1>3. CASE count - i < PerPage * (list.page - 1)
    BY <1>2, <1>3 DEF Before, Inv, PageInv
  <1>4. CASE PerPage * (list.page - 1) <= count - i /\ count - i < PerPage * list.page
    BY <1>1, <1>2, <1>4, OnPage
  <1>5. CASE PerPage * list.page <= count - i
    <2>1. Page(list.page) # {} /\ list.page # list.pages
      BY <1>1, <1>2, <1>5, NoGaps
    <2>2. LeavesWindow(Page(list.page), list.from)
      BY <2>1 DEF Ends
    <2>3. PICK j \in Page(list.page) : date[j] # 0 /\ date[j] < list.from
      BY <2>2 DEF LeavesWindow
    <2>4. j \in 1 .. count /\ date[j] \in Nat
      BY <1>1, <2>3, Numbers DEF Page
    <2>5. count - j < PerPage * list.page
      BY <1>1, <1>2, <2>3, <2>4, OnPage
    <2>6. i <= j
      BY <1>1, <1>2, <1>5, <2>4, <2>5
    <2>7. date[i] <= date[j]
      BY <1>2, <2>3, <2>4, <2>6 DEF Inv, DatesInv
    <2> QED
      BY <1>1, <1>2, <2>3, <2>4, <2>7
  <1>6. PerPage * (list.page - 1) \in Int /\ PerPage * list.page \in Int /\ count - i \in Int
    BY <1>1, <1>2
  <1> QED
    BY <1>3, <1>4, <1>5, <1>6

\* What the handler means to save after the last page.
Saved == [last |-> list.at, blocked |-> 0,
          pending |-> blob.pending \cup
                        {i \in list.got \cup Page(list.page) : InWindow(i, list.from, list.at)},
          since |-> IF blob.last < list.from THEN list.from ELSE blob.since]

LEMMA ReadPageSplits ==
    ASSUME ReadPage
    PROVE  /\ list.step = "page" /\ UNCHANGED <<now, count, date, blob, plain>>
           /\ \/ /\ Ends(Page(list.page))
                 /\ list' = [step |-> "save", from |-> list.from, pages |-> list.pages,
                             held |-> list.held, next |-> Saved]
              \/ /\ ~ Ends(Page(list.page))
                 /\ list' = [list EXCEPT !.got = @ \cup Page(list.page), !.page = @ + 1]
  BY DEF ReadPage, Ends, Saved

LEMMA ReadPageKeeps == ASSUME Inv, ReadPage PROVE Inv'
  <1>1. /\ TypeOK /\ count \in Nat /\ PerPage \in Nat \ {0}
        /\ list \in [step : {"page"}, from : Nat, at : Nat, got : SUBSET Invoice,
                     page : Nat, pages : Nat, held : Nat]
        /\ list.page \in 1 .. list.pages /\ list.held <= count
        /\ list.got \subseteq 1 .. count
    BY Numbers, ReadPageSplits DEF Inv, TypeOK, Listing, PageInv
  <1>2. Page(list.page) \subseteq 1 .. count /\ 1 .. count \subseteq Invoice
    BY <1>1, Numbers DEF Page
  <1>3. DatesInv'
    BY ReadPageSplits DEF Inv, DatesInv
  <1>4. ASSUME Ends(Page(list.page)),
               list' = [step |-> "save", from |-> list.from, pages |-> list.pages,
                        held |-> list.held, next |-> Saved]
        PROVE  Inv'
    <2>1. Saved \in Atomic!Blob
      BY <1>1, <1>2 DEF Saved, TypeOK, Atomic!Blob
    <2>2. /\ Saved.last = list.at /\ Saved.blocked = 0 /\ blob.pending \subseteq Saved.pending
          /\ \A i \in list.got \cup Page(list.page) :
               InWindow(i, list.from, list.at) => i \in Saved.pending
      BY DEF Saved
    <2> HIDE DEF Saved
    <2>3. TypeOK'
      <3>1. list' \in Listing
        BY <1>1, <1>4, <2>1 DEF Listing
      <3> QED
        BY <1>1, <1>4, <3>1, ReadPageSplits DEF TypeOK, Listing, Atomic!Blob
    <2>4. PageInv' /\ SaveInv'
      BY <1>1, <1>4, <2>2, ReadPageSplits DEF Inv, PageInv, SaveInv
    <2>5. ASSUME NEW i \in 1 .. list.held, date[i] # 0, list.from <= date[i],
                 date[i] <= list.at, count - i + 1 <= list.pages * PerPage
          PROVE  i \in Saved.pending
      <3>1. count - i < PerPage * list.pages
        <4>1. i \in Int /\ list.pages * PerPage = PerPage * list.pages
              /\ PerPage * list.pages \in Int
          BY <1>1
        <4> QED
          BY <1>1, <2>5, <4>1
      <3>2. i \in list.got \cup Page(list.page)
        BY <1>1, <1>4, <2>5, <3>1, AllFound
      <3> QED
        BY <2>2, <2>5, <3>2 DEF InWindow
    <2>6. LostOnlyPastLastPage'
      BY <1>4, <2>2, <2>5, ReadPageSplits DEF LostOnlyPastLastPage
    <2> QED
      BY <1>3, <2>3, <2>4, <2>6 DEF Inv
  <1>5. ASSUME ~ Ends(Page(list.page)),
               list' = [list EXCEPT !.got = @ \cup Page(list.page), !.page = @ + 1]
        PROVE  Inv'
    <2>1. /\ list' \in [step : {"page"}, from : Nat, at : Nat, got : SUBSET Invoice,
                        page : Nat, pages : Nat, held : Nat]
          /\ list'.got = list.got \cup Page(list.page) /\ list'.page = list.page + 1
          /\ list'.pages = list.pages /\ list'.held = list.held
      <3> DEFINE got == list.got \cup Page(list.page)
      <3>1. got \in SUBSET Invoice /\ list.page + 1 \in Nat
        BY <1>1, <1>2
      <3>2. list' = [list EXCEPT !.got = got, !.page = list.page + 1]
        BY <1>1, <1>5
      <3> HIDE DEF got
      <3>3. list' \in [step : {"page"}, from : Nat, at : Nat, got : SUBSET Invoice,
                       page : Nat, pages : Nat, held : Nat]
            /\ list'.got = got /\ list'.page = list.page + 1
            /\ list'.pages = list.pages /\ list'.held = list.held
        BY <1>1, <3>1, <3>2
      <3> QED
        BY <3>3 DEF got
    <2>2. list'.page \in 1 .. list'.pages
      BY <1>1, <1>5, <2>1 DEF Ends
    <2>3. TypeOK'
      BY <1>1, <2>1, <2>2, ReadPageSplits DEF TypeOK, Listing, Atomic!Blob
    <2>4. ASSUME NEW i \in 1 .. list.held, i \in Before(list.page + 1)
          PROVE  i \in list.got \cup Page(list.page)
      <3>1. i \in 1 .. count /\ count - i < PerPage * list.page
        BY <1>1, <2>4 DEF Before
      <3>2. CASE count - i < PerPage * (list.page - 1)
        BY <1>1, <2>4, <3>1, <3>2 DEF Before, Inv, PageInv
      <3>3. CASE ~ (count - i < PerPage * (list.page - 1))
        <4>1. PerPage * (list.page - 1) <= count - i /\ list.page \in Nat \ {0}
          BY <1>1, <3>1, <3>3
        <4> QED
          BY <1>1, <3>1, <4>1, OnPage
      <3> QED
        BY <3>2, <3>3
    <2>5. PageInv'
      <3>1. (\A p : Before(p)' = Before(p)) /\ FullPages' = FullPages
        BY ReadPageSplits DEF Before, FullPages
      <3>2. \A i \in 1 .. list'.held : i \in Before(list'.page) => i \in list'.got
        BY <2>1, <2>4
      <3>3. \A i \in 1 .. list'.held : i \in Before(list.page)' => i \in list'.got
        BY <3>2, ReadPageSplits DEF Before
      <3>4. list'.held <= count' /\ list'.got \subseteq 1 .. count'
        BY <1>1, <1>2, <2>1, ReadPageSplits
      <3>5. plain => list.held = count /\ list.pages = IF count > 0 THEN FullPages ELSE 1
        BY <1>1 DEF Inv, PageInv
      <3>6. plain' => list'.held = count' /\ list'.pages = IF count' > 0 THEN FullPages' ELSE 1
        BY <2>1, <3>1, <3>5, ReadPageSplits
      <3> QED
        BY <3>3, <3>4, <3>6 DEF PageInv
    <2>6. SaveInv' /\ LostOnlyPastLastPage'
      BY <2>1, ReadPageSplits DEF Inv, SaveInv, LostOnlyPastLastPage
    <2> QED
      BY <1>3, <2>3, <2>5, <2>6 DEF Inv
  <1> QED
    BY <1>4, <1>5, ReadPageSplits

LEMMA SaveKeeps == ASSUME Inv, Save PROVE Inv'
  <1>1. /\ list.step = "save" /\ blob' = list.next /\ list' = Idle
        /\ UNCHANGED <<now, count, date, plain>>
    BY DEF Save
  <1>2. list.next \in Atomic!Blob /\ list.next.blocked = 0
    BY <1>1 DEF Inv, TypeOK, Listing, SaveInv
  <1>3. TypeOK'
    BY <1>1, <1>2 DEF Inv, TypeOK, Listing, Idle, Atomic!Blob
  <1> QED
    BY <1>1, <1>2, <1>3 DEF Inv, DatesInv, PageInv, SaveInv, LostOnlyPastLastPage, Idle

LEMMA AbortKeeps == ASSUME Inv, Abort PROVE Inv'
  <1>1. list' = Idle /\ UNCHANGED <<now, count, date, blob, plain>>
    BY DEF Abort
  <1>2. TypeOK'
    BY <1>1 DEF Inv, TypeOK, Listing, Idle, Atomic!Blob
  <1> QED
    BY <1>1, <1>2 DEF Inv, DatesInv, PageInv, SaveInv, LostOnlyPastLastPage, Idle

LEMMA StutterKeeps == ASSUME Inv, UNCHANGED vars PROVE Inv'
  BY DEF vars, Inv, TypeOK, Listing, Atomic!Blob, DatesInv, PageInv, SaveInv,
         LostOnlyPastLastPage, Before, FullPages

LEMMA NextKeeps == Inv /\ [Next]_vars => Inv'
  BY TickKeeps, IssueKeeps, SyncStartKeeps, ReadMetaKeeps, ReadPageKeeps, SaveKeeps, AbortKeeps,
     StutterKeeps DEF Next

\* The invariant holds in every run, for any number of invoices, pages and days.
THEOREM Invariant == Spec => []Inv
  BY Initially, NextKeeps, PTL DEF Spec

\* Types are kept; the page to read is never past those that were counted.
THEOREM TypeCorrect == Spec => []TypeOK
  <1>1. Inv => TypeOK
    BY DEF Inv
  <1> QED
    BY <1>1, Invariant, PTL

\* Whatever is issued between the pages, a dated invoice of the window that was
\* there when the pages were counted is found, unless pushed past the last one.
THEOREM OnlyPastLastPageLost == Spec => []LostOnlyPastLastPage
  <1>1. Inv => LostOnlyPastLastPage
    BY DEF Inv
  <1> QED
    BY <1>1, Invariant, PTL

-----------------------------------------------------------------------------
(***************************************************************************)
(* The listing as the single answer of InvoiceSync.                        *)
(***************************************************************************)
LEMMA AwaitedIs ==
    /\ list.step = "idle" => Awaited = Idle
    /\ list.step \in {"meta", "page"} =>
         Awaited = [step |-> "fetch", prev |-> blob, from |-> list.from, at |-> list.at]
    /\ list.step = "save" =>
         Awaited = [step |-> "save", next |-> list.next, imports |-> {}, clears |-> {}]
  BY DEF Awaited

LEMMA Becomes ==
    ASSUME NEW state, Awaited' = state
    PROVE  Atomic!Become("sync", state)
  BY DEF Atomic!Become

\* Everything but the request and the list stays.
LEMMA AtomicUnchanged ==
    ASSUME UNCHANGED <<now, count, date, blob>>
    PROVE  UNCHANGED <<Atomic!remote, blob, Atomic!history>>
  BY DEF Atomic!remote, Atomic!history

LEMMA InitiallyAtomic == Init => Atomic!Init
  <1> SUFFICES ASSUME Init PROVE Atomic!Init
    OBVIOUS
  <1>1. 1 .. count = {} /\ blob.pending = {} /\ Awaited = Idle
    BY AwaitedIs DEF Init, Idle
  <1> QED
    BY <1>1 DEF Init, Atomic!Init, Idle, Atomic!Idle

LEMMA TickIsAtomic == ASSUME Tick PROVE Atomic!Tick
  <1>1. Awaited' = Awaited
    BY DEF Tick, Awaited
  <1> QED
    BY <1>1 DEF Tick, Atomic!Tick, Atomic!history

\* An invoice issued while no page is awaited, with the date of the day.
LEMMA IssueIsAtomic ==
    ASSUME Inv, NEW how \in Dating, Issue(how), plain'
    PROVE  \E i \in Invoice, kind \in Dating : Atomic!Issue(i, kind)
  <1>1. how = "prompt"
    BY Zenon DEF Issue
  <1>2. count \in Nat /\ count + 1 \in Invoice /\ count' = count + 1
        /\ UNCHANGED <<now, blob, list>>
    BY Numbers DEF Issue, Invoice, Inv
  <1>3. PICK d \in Atomic!DatesOf("prompt") : date' = [date EXCEPT ![count + 1] = d]
    BY <1>1 DEF Issue
  <1>4. d = now /\ now # 0 /\ date \in [Invoice -> 0 .. MaxTime]
    BY <1>3 DEF Atomic!DatesOf, Inv, TypeOK
  <1>5. 1 .. count' = 1 .. count \cup {count + 1} /\ count + 1 \notin 1 .. count
        /\ 1 .. count \subseteq Invoice
    BY <1>2, Numbers DEF Inv, Invoice
  <1>6. {i \in 1 .. count' : date'[i] # 0} = {i \in 1 .. count : date[i] # 0} \cup {count + 1}
    BY <1>2, <1>3, <1>4, <1>5
  <1>7. Awaited' = Awaited
    BY <1>2 DEF Awaited
  <1>8. Atomic!Issue(count + 1, "prompt")
    BY <1>2, <1>3, <1>5, <1>6, <1>7 DEF Atomic!Issue, Atomic!history
  <1> QED
    BY <1>1, <1>2, <1>8

LEMMA SyncStartIsAtomic ==
    ASSUME Inv, NEW force \in BOOLEAN, NEW lookback \in Lookback, SyncStart(force, lookback)
    PROVE  Atomic!SyncStart("sync", force, lookback)
  <1>1. /\ list.step = "idle" /\ UNCHANGED <<now, count, date, blob>>
        /\ list' = [step |-> "meta", from |-> Atomic!From(blob, lookback), at |-> now]
        /\ force \/ blob.last = 0 \/ now - blob.last >= MinInterval
    BY DEF SyncStart
  <1>2. now >= blob.blocked
    BY DEF Inv, TypeOK, SaveInv
  <1>3. Awaited = Idle
    BY <1>1, AwaitedIs
  <1>4. Awaited' = [step |-> "fetch", prev |-> blob, from |-> Atomic!From(blob, lookback),
                    at |-> now]
    BY <1>1 DEF Awaited
  <1> QED
    BY <1>1, <1>2, <1>3, <1>4, Becomes, AtomicUnchanged DEF Atomic!SyncStart, Idle

LEMMA ReadMetaIsStutter ==
    ASSUME NEW told \in BOOLEAN, ReadMeta(told)
    PROVE  UNCHANGED Atomic!vars
  <1>1. /\ list.step = "meta" /\ UNCHANGED <<now, count, date, blob>>
        /\ list'.step = "page" /\ list'.from = list.from /\ list'.at = list.at
    BY DEF ReadMeta
  <1>2. Awaited' = Awaited
    BY <1>1 DEF Awaited
  <1> QED
    BY <1>1, <1>2, AtomicUnchanged DEF Atomic!vars

\* While nothing is issued between the pages, all of the window is found.
LEMMA FoundIsListed ==
    ASSUME Inv, plain, list.step = "page", Ends(Page(list.page))
    PROVE  {i \in list.got \cup Page(list.page) : InWindow(i, list.from, list.at)} =
             Atomic!Listed(list.from, list.at)
  <1>1. /\ TypeOK /\ list.held = count /\ list.got \subseteq 1 .. count
        /\ list.pages = IF count > 0 THEN FullPages ELSE 1
        /\ \A i \in 1 .. count : date[i] # 0
    BY DEF Inv, PageInv, DatesInv
  <1>2. Page(list.page) \subseteq 1 .. count /\ count \in Nat /\ PerPage \in Nat \ {0}
    BY <1>1, Numbers DEF Page
  <1>3. ASSUME NEW i \in 1 .. count, list.from <= date[i]
        PROVE  i \in list.got \cup Page(list.page)
    <2>1. count > 0 /\ list.pages = FullPages
      BY <1>1, <1>2
    <2>2. count <= PerPage * list.pages /\ list.pages \in Nat
      BY <1>2, <2>1, FullPagesHoldAll
    <2>3. count - i < PerPage * list.pages
      BY <1>2, <2>2
    <2> QED
      BY <1>1, <1>3, <2>3, AllFound
  <1> QED
    BY <1>1, <1>2, <1>3 DEF InWindow, Atomic!Listed

LEMMA ReadPageIsAtomic ==
    ASSUME Inv, ReadPage, plain
    PROVE  Atomic!FetchOk("sync") \/ UNCHANGED Atomic!vars
  <1>1. list.step = "page" /\ UNCHANGED <<now, count, date, blob, plain>>
        /\ Awaited = [step |-> "fetch", prev |-> blob, from |-> list.from, at |-> list.at]
    BY ReadPageSplits, AwaitedIs
  <1>2. ASSUME Ends(Page(list.page)),
               list' = [step |-> "save", from |-> list.from, pages |-> list.pages,
                        held |-> list.held, next |-> Saved]
        PROVE  Atomic!FetchOk("sync")
    <2>1. Saved = [last |-> list.at, blocked |-> 0,
                   pending |-> blob.pending \cup Atomic!Listed(list.from, list.at),
                   since |-> IF blob.last < list.from THEN list.from ELSE blob.since]
      BY <1>1, <1>2, FoundIsListed DEF Saved
    <2>2. Awaited' = [step |-> "save", next |-> Saved, imports |-> {}, clears |-> {}]
      BY <1>2 DEF Awaited
    <2> HIDE DEF Saved
    <2> QED
      BY <1>1, <2>1, <2>2, Becomes, AtomicUnchanged DEF Atomic!FetchOk, Atomic!WillSave
  <1>3. ASSUME list' = [list EXCEPT !.got = @ \cup Page(list.page), !.page = @ + 1]
        PROVE  UNCHANGED Atomic!vars
    <2>1. list \in [step : {"page"}, from : Nat, at : Nat, got : SUBSET Invoice,
                    page : Nat, pages : Nat, held : Nat]
      BY <1>1 DEF Inv, TypeOK, Listing
    <2>2. list'.step = "page" /\ list'.from = list.from /\ list'.at = list.at
      BY <1>3, <2>1
    <2>3. Awaited' = Awaited
      BY <1>1, <2>2 DEF Awaited
    <2> QED
      BY <1>1, <2>3, AtomicUnchanged DEF Atomic!vars
  <1> QED
    BY <1>2, <1>3, ReadPageSplits

LEMMA SaveIsAtomic == ASSUME Inv, Save PROVE Atomic!Save("sync")
  <1>1. /\ list.step = "save" /\ blob' = list.next /\ list' = Idle
        /\ UNCHANGED <<now, count, date>>
    BY DEF Save
  <1>2. Awaited = [step |-> "save", next |-> list.next, imports |-> {}, clears |-> {}]
    BY <1>1, AwaitedIs
  <1>3. Awaited' = Idle
    BY <1>1 DEF Awaited, Idle
  <1>4. /\ blob'.pending = blob.pending \cup list.next.pending
        /\ Atomic!Later(0, list.next.blocked) = 0
    BY <1>1 DEF Inv, SaveInv, Atomic!Later
  <1>5. UNCHANGED Atomic!remote
    BY <1>1 DEF Atomic!remote
  <1> QED
    BY <1>1, <1>2, <1>3, <1>4, <1>5, Becomes DEF Atomic!Save, Idle, Atomic!Idle

LEMMA AbortIsAtomic == ASSUME Inv, Abort PROVE Atomic!Abort("sync")
  <1>1. list.step # "idle" /\ list' = Idle /\ UNCHANGED <<now, count, date, blob>>
    BY DEF Abort
  <1>2. Awaited.step # "idle"
    <2>1. list.step \in {"meta", "page", "save"}
      BY <1>1 DEF Inv, TypeOK, Listing
    <2> QED
      BY <2>1, AwaitedIs
  <1>3. Awaited' = Idle
    BY <1>1 DEF Awaited, Idle
  <1> QED
    BY <1>1, <1>2, <1>3, Becomes, AtomicUnchanged DEF Atomic!Abort, Idle, Atomic!Idle

LEMMA StepIsAtomic ==
    ASSUME Inv, [Next]_vars, plain'
    PROVE  Atomic!Next \/ UNCHANGED Atomic!vars
  <1>1. CASE Tick
    BY <1>1, TickIsAtomic DEF Atomic!Next
  <1>2. ASSUME NEW how \in Dating, Issue(how) PROVE Atomic!Next
    BY <1>2, IssueIsAtomic DEF Atomic!Next
  <1>3. ASSUME NEW force \in BOOLEAN, NEW lookback \in Lookback, SyncStart(force, lookback)
        PROVE  Atomic!Next
    BY <1>3, SyncStartIsAtomic DEF Atomic!Next
  <1>4. ASSUME NEW told \in BOOLEAN, ReadMeta(told) PROVE UNCHANGED Atomic!vars
    BY <1>4, ReadMetaIsStutter
  <1>5. CASE ReadPage
    <2>1. plain
      BY <1>5, ReadPageSplits
    <2> QED
      BY <1>5, <2>1, ReadPageIsAtomic DEF Atomic!Next
  <1>6. CASE Save
    BY <1>6, SaveIsAtomic DEF Atomic!Next
  <1>7. CASE Abort
    BY <1>7, AbortIsAtomic DEF Atomic!Next
  <1>8. CASE UNCHANGED vars
    BY <1>8 DEF vars, Atomic!vars, Atomic!remote, Atomic!history, Awaited
  <1> QED
    BY <1>1, <1>2, <1>3, <1>4, <1>5, <1>6, <1>7, <1>8 DEF Next

\* As long as nothing is issued between two pages, all invoices are dated and the
\* page count is told, listing page by page implements the single answer that
\* InvoiceSync takes it for, so what is proved of that holds of this.
THEOREM ListingImplementsAnswer == Spec => ListingIsAtomic
  <1>1. Inv /\ [Next]_vars => [plain' => Atomic!Next]_(Atomic!vars)
    BY StepIsAtomic
  <1> QED
    BY <1>1, InitiallyAtomic, Invariant, PTL DEF Spec, ListingIsAtomic
=============================================================================
