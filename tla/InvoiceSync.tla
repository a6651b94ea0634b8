---------------------------- MODULE InvoiceSync ----------------------------
(***************************************************************************)
(* The list of Axonaut invoices still to import: one JSON document per     *)
(* tenant (lastSyncAt, blockedUntil, invoices) that sync, mark-imported    *)
(* and clear-pending each load, change in memory and save as a whole.      *)
(* Every await is a step: another request may run between load and save.   *)
(* Instants are numbers, 0 for an absent one.  The pages that listInvoices *)
(* reads are one atomic answer of Axonaut here; that answer, the clock and *)
(* the invoices that are issued are the environment.                       *)
(***************************************************************************)
EXTENDS Integers, FiniteSets

CONSTANTS Request,     \* request slots of the server
          Invoice,     \* invoice ids
          MaxTime,     \* bound of the clock
          MinInterval, \* minIntervalMinutes
          DayLength, ResetOffset, \* a day, and 00:10, in clock units
          Lookback,    \* lookbackDays a client may ask for, clamped
          MinFrom,     \* no sync looks before this instant
          Dating       \* how Axonaut may date an invoice when it is issued

ASSUME SyncAssumption ==
    /\ MaxTime \in Nat \ {0}
    /\ MinInterval \in Nat
    /\ DayLength \in Nat \ {0}
    /\ ResetOffset \in 1 .. DayLength
    /\ Lookback \subseteq Nat \ {0}
    /\ MinFrom \in Nat
    /\ Dating \subseteq {"prompt", "ahead", "late", "undated"}

VARIABLES now,         \* the clock
          issued,      \* the invoices Axonaut holds
          date,        \* the date each one carries, 0 for none
          blob,        \* the saved document
          req,         \* what each request slot waits for
          \* history
          punctual,    \* issued with a date that had not passed yet
          seen,        \* ids that were in a saved list: a client may name them
          imported,    \* ids a saved mark-imported named
          cleared,     \* ids a saved clear-pending dropped
          gone,        \* dated before the watermark when a mark or a clear
                       \* that was alone in the server dropped them
          quotaUntil   \* the latest blockedUntil saved by a request alone

remote == <<now, issued, date, punctual>>
history == <<seen, imported, cleared, gone, quotaUntil>>
vars == <<remote, blob, req, history>>

\* since is history: from this instant on the list claims to be complete.
Blob == [last : Nat, blocked : Nat, pending : SUBSET Invoice, since : Nat]

Idle == [step |-> "idle"]

RequestState ==
    [step : {"idle"}]
      \cup [step : {"fetch"}, prev : Blob, from : Nat, at : Nat]
      \cup [step : {"save"}, next : Blob, imports : SUBSET Invoice, clears : SUBSET Invoice]

TypeOK == /\ now \in 1 .. MaxTime
          /\ issued \subseteq Invoice
          /\ date \in [Invoice -> Nat]
          /\ blob \in Blob
          /\ req \in [Request -> RequestState]
          /\ punctual \subseteq issued
          /\ seen \subseteq Invoice
          /\ imported \subseteq Invoice
          /\ cleared \subseteq Invoice
          /\ gone \subseteq Invoice
          /\ quotaUntil \in Nat

Init == /\ now = 1
        /\ issued = {}
        /\ date = [i \in Invoice |-> 0]
        /\ blob = [last |-> 0, blocked |-> 0, pending |-> {}, since |-> 0]
        /\ req = [r \in Request |-> Idle]
        /\ punctual = {}
        /\ seen = {} /\ imported = {} /\ cleared = {} /\ gone = {}
        /\ quotaUntil = 0

Later(s, t) == IF s < t THEN t ELSE s

Become(r, state) == req' = [req EXCEPT ![r] = state]

WillSave(r, next, imports, clears) ==
    Become(r, [step |-> "save", next |-> next, imports |-> imports, clears |-> clears])

-----------------------------------------------------------------------------
Tick == /\ now < MaxTime
        /\ now' = now + 1
        /\ UNCHANGED <<issued, date, punctual, blob, req, history>>

DatesOf(how) == CASE how = "prompt"  -> {now}
                  [] how = "ahead"   -> now + 1 .. MaxTime
                  [] how = "late"    -> 1 .. now - 1
                  [] how = "undated" -> {0}

Issue(i, how) ==
    /\ i \notin issued
    /\ issued' = issued \cup {i}
    /\ \E d \in DatesOf(how) : date' = [date EXCEPT ![i] = d]
    /\ punctual' = IF how \in {"prompt", "ahead"} THEN punctual \cup {i} ELSE punctual
    /\ UNCHANGED <<now, blob, req, history>>

-----------------------------------------------------------------------------
\* Mutant: the window reaches one instant back "to be safe".
FromOverlap(b, lookback) ==
    Later(MinFrom, IF b.last = 0 THEN now - lookback ELSE b.last - 1)

\* Mutant: the window is not clamped to the first date.
FromUnclamped(b, lookback) == IF b.last = 0 THEN now - lookback ELSE b.last

\* Where a sync that loaded b starts to look.
From(b, lookback) == Later(MinFrom, IF b.last = 0 THEN now - lookback ELSE b.last)

\* syncInvoices: the load and the two checks that answer QUOTA and TOO_RECENT,
\* which change nothing.
SyncStart(r, force, lookback) ==
    /\ req[r].step = "idle"
    /\ now >= blob.blocked
    /\ force \/ blob.last = 0 \/ now - blob.last >= MinInterval
    /\ Become(r, [step |-> "fetch", prev |-> blob, from |-> From(blob, lookback), at |-> now])
    /\ UNCHANGED <<remote, blob, history>>

\* Mutant: an invoice dated at the very watermark is taken for known.
ListedAfter(from, to) == {i \in issued : date[i] = 0 \/ (from < date[i] /\ date[i] <= to)}

\* listInvoices: filterInvoicesByDate keeps the undated ones.
Listed(from, to) == {i \in issued : date[i] = 0 \/ (from <= date[i] /\ date[i] <= to)}

\* Axonaut answers: the fetched invoices join those that were loaded, and the
\* watermark moves to the instant the sync started.
FetchOk(r) ==
    /\ req[r].step = "fetch"
    /\ LET prev == req[r].prev IN
         WillSave(r, [last    |-> req[r].at,
                      blocked |-> 0,
                      pending |-> prev.pending \cup Listed(req[r].from, req[r].at),
                      since   |-> IF prev.last < req[r].from THEN req[r].from ELSE prev.since],
                  {}, {})
    /\ UNCHANGED <<remote, blob, history>>

\* Axonaut answers 429: no sync before the next day, 00:10.
NextReset(t) == (t \div DayLength + 1) * DayLength + ResetOffset

FetchQuota(r) ==
    /\ req[r].step = "fetch"
    /\ WillSave(r, [req[r].prev EXCEPT !.blocked = NextReset(req[r].at)], {}, {})
    /\ UNCHANGED <<remote, blob, history>>

\* markInvoicesImported: the load and the filter.
MarkStart(r, ids) ==
    /\ req[r].step = "idle"
    /\ ids # {}
    /\ WillSave(r, [blob EXCEPT !.pending = @ \ ids], ids, {})
    /\ UNCHANGED <<remote, blob, history>>

\* Mutant: a clear also forgets that the quota is used up.
ClearStartUnblocks(r, advance) ==
    /\ req[r].step = "idle"
    /\ WillSave(r, [last    |-> IF advance THEN now ELSE blob.last,
                    blocked |-> 0,
                    pending |-> {},
                    since   |-> IF advance THEN now ELSE blob.since],
                {}, blob.pending)
    /\ UNCHANGED <<remote, blob, history>>

\* clearPendingInvoices: the load and the empty list.
ClearStart(r, advance) ==
    /\ req[r].step = "idle"
    /\ WillSave(r, [last    |-> IF advance THEN now ELSE blob.last,
                    blocked |-> blob.blocked,
                    pending |-> {},
                    since   |-> IF advance THEN now ELSE blob.since],
                {}, blob.pending)
    /\ UNCHANGED <<remote, blob, history>>

\* No other request could overwrite what r is about to save.
Alone(r) == \A other \in Request \ {r} : req[other].step = "idle"

\* saveInvoiceSyncState: the whole document is replaced.
Save(r) ==
    /\ req[r].step = "save"
    /\ blob' = req[r].next
    /\ seen' = seen \cup req[r].next.pending
    /\ imported' = imported \cup req[r].imports
    /\ cleared' = cleared \cup req[r].clears
    /\ gone' = IF Alone(r) THEN gone \cup {i \in req[r].imports \cup req[r].clears :
                                             date[i] \in 1 .. req[r].next.last - 1}
               ELSE gone
    /\ quotaUntil' = IF Alone(r) THEN Later(quotaUntil, req[r].next.blocked) ELSE quotaUntil
    /\ Become(r, Idle)
    /\ UNCHANGED remote

\* A missing configuration, another HTTP error, a failed save, a crash: the
\* request ends and the saved document stays as it is.
Abort(r) ==
    /\ req[r].step # "idle"
    /\ Become(r, Idle)
    /\ UNCHANGED <<remote, blob, history>>

Next ==
    \/ Tick
    \/ \E i \in Invoice, how \in Dating : Issue(i, how)
    \/ \E r \in Request :
         \/ \E force \in BOOLEAN, lookback \in Lookback : SyncStart(r, force, lookback)
         \/ FetchOk(r)
         \/ FetchQuota(r)
         \/ \E ids \in SUBSET seen : MarkStart(r, ids)
         \/ \E advance \in BOOLEAN : ClearStart(r, advance)
         \/ Save(r)
         \/ Abort(r)

Spec == Init /\ [][Next]_vars

-----------------------------------------------------------------------------
CoveredBy(b, out) ==
    \A i \in punctual : b.since <= date[i] /\ date[i] < b.last => i \in b.pending \cup out

\* Whatever syncs, marks and clears overlap or die, no invoice that was issued
\* on time falls behind the watermark unseen: below lastSyncAt it is in the
\* list, or a client imported or cleared it.  (A request that overwrites the
\* list of another one also takes its watermark back, so the next sync repairs.)
NothingSkipped == CoveredBy(blob, imported \cup cleared)

\* A dated invoice that a mark-imported or a clear-pending drops behind the
\* watermark never comes back, provided no other request was in flight when it
\* was dropped: whatever overlaps or dies later, every sync looks further on.
GoneStaysOut == gone \cap blob.pending = {}

\* Once a 429 is on record, saved while no other request was in flight, no sync
\* calls Axonaut before the reset it stands for, forced or not, whatever marks
\* and clears overlap afterwards.
QuotaRespected == \A r \in Request : req[r].step = "fetch" => quotaUntil <= req[r].at
=============================================================================
