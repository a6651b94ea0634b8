-------------------------- MODULE InvoiceSyncProofs --------------------------
(***************************************************************************)
(* Proofs about InvoiceSync, for any number of request slots and invoices, *)
(* any clock bound and any way Axonaut may date an invoice.                *)
(***************************************************************************)
EXTENDS InvoiceSync, TLAPS

LEMMA LaterIsNat ==
    ASSUME NEW s \in Int, NEW t \in Nat
    PROVE  Later(s, t) \in Nat /\ Later(t, s) \in Nat
  BY DEF Later

\* The step of an action that only ends with a document waiting to be saved.
LEMMA WillSaveTypes ==
    ASSUME TypeOK, NEW r \in Request, NEW next \in Blob,
           NEW imports \in SUBSET Invoice, NEW clears \in SUBSET Invoice,
           WillSave(r, next, imports, clears), UNCHANGED <<remote, blob, history>>
    PROVE  TypeOK'
  <1>1. req' \in [Request -> RequestState]
    BY DEF TypeOK, WillSave, Become, RequestState
  <1> QED
    BY <1>1 DEF TypeOK, remote, history

\* The documents that the handlers compute are documents.
LEMMA NextBlobTypes ==
    ASSUME TypeOK, NEW r \in Request
    PROVE  /\ FetchOk(r) => \E next \in Blob : WillSave(r, next, {}, {})
           /\ FetchQuota(r) => \E next \in Blob : WillSave(r, next, {}, {})
           /\ \A ids \in SUBSET Invoice :
                MarkStart(r, ids) => \E next \in Blob : WillSave(r, next, ids, {})
           /\ \A advance \in BOOLEAN :
                ClearStart(r, advance) => \E next \in Blob : WillSave(r, next, {}, blob.pending)
  <1>1. ASSUME FetchOk(r)
        PROVE  \E next \in Blob : WillSave(r, next, {}, {})
    <2>1. req[r] \in [step : {"fetch"}, prev : Blob, from : Nat, at : Nat]
      BY <1>1 DEF FetchOk, TypeOK, RequestState
    <2>2. Listed(req[r].from, req[r].at) \in SUBSET Invoice
      BY DEF Listed, TypeOK
    <2> QED
      BY <1>1, <2>1, <2>2 DEF FetchOk, Blob
  <1>2. ASSUME FetchQuota(r)
        PROVE  \E next \in Blob : WillSave(r, next, {}, {})
    <2>1. req[r] \in [step : {"fetch"}, prev : Blob, from : Nat, at : Nat]
      BY <1>2 DEF FetchQuota, TypeOK, RequestState
    <2>2. NextReset(req[r].at) \in Nat
      BY <2>1, SyncAssumption DEF NextReset
    <2> QED
      BY <1>2, <2>1, <2>2 DEF FetchQuota, Blob
  <1>3. ASSUME NEW ids \in SUBSET Invoice, MarkStart(r, ids)
        PROVE  \E next \in Blob : WillSave(r, next, ids, {})
    <2>1. [blob EXCEPT !.pending = @ \ ids] \in Blob
      BY DEF TypeOK, Blob
    <2> QED
      BY <1>3, <2>1 DEF MarkStart
  <1>4. ASSUME NEW advance \in BOOLEAN, ClearStart(r, advance)
        PROVE  \E next \in Blob : WillSave(r, next, {}, blob.pending)
    BY <1>4 DEF ClearStart, TypeOK, Blob
  <1> QED
    BY <1>1, <1>2, <1>3, <1>4

LEMMA TypeStep ==
    ASSUME TypeOK, [Next]_vars
    PROVE  TypeOK'
  <1>1. ASSUME Tick
        PROVE  TypeOK'
    BY <1>1, SyncAssumption DEF Tick, TypeOK, history
  <1>2. ASSUME NEW i \in Invoice, NEW how \in Dating, Issue(i, how)
        PROVE  TypeOK'
    <2>1. PICK d \in DatesOf(how) : date' = [date EXCEPT ![i] = d]
      BY <1>2 DEF Issue
    <2>2. d \in Nat
      <3>1. how \in {"prompt", "ahead", "late", "undated"}
        BY SyncAssumption
      <3>2. now \in Nat /\ now + 1 .. MaxTime \subseteq Nat /\ 1 .. now - 1 \subseteq Nat
        BY SyncAssumption DEF TypeOK
      <3> QED
        BY <2>1, <3>1, <3>2 DEF DatesOf
    <2> QED
      BY <1>2, <2>1, <2>2 DEF Issue, TypeOK, history
  <1>3. ASSUME NEW r \in Request, NEW force \in BOOLEAN, NEW lookback \in Lookback,
               SyncStart(r, force, lookback)
        PROVE  TypeOK'
    <2>1. now \in Nat /\ now - lookback \in Int /\ blob.last \in Nat
      BY SyncAssumption DEF TypeOK, Blob
    <2>2. From(blob, lookback) \in Nat
      BY <2>1, SyncAssumption DEF From, Later
    <2>3. [step |-> "fetch", prev |-> blob, from |-> From(blob, lookback), at |-> now]
            \in RequestState
      BY <2>1, <2>2 DEF RequestState, TypeOK
    <2> QED
      BY <1>3, <2>3 DEF SyncStart, Become, TypeOK, remote, history
  <1>4. ASSUME NEW r \in Request, FetchOk(r) \/ FetchQuota(r)
        PROVE  TypeOK'
    BY <1>4, NextBlobTypes, WillSaveTypes DEF FetchOk, FetchQuota
  <1>5. ASSUME NEW r \in Request, NEW ids \in SUBSET seen, MarkStart(r, ids)
        PROVE  TypeOK'
    <2>1. ids \in SUBSET Invoice
      BY DEF TypeOK
    <2> QED
      BY <1>5, <2>1, NextBlobTypes, WillSaveTypes DEF MarkStart
  <1>6. ASSUME NEW r \in Request, NEW advance \in BOOLEAN, ClearStart(r, advance)
        PROVE  TypeOK'
    <2>1. blob.pending \in SUBSET Invoice
      BY DEF TypeOK, Blob
    <2> QED
      BY <1>6, <2>1, NextBlobTypes, WillSaveTypes DEF ClearStart
  <1>7. ASSUME NEW r \in Request, Save(r)
        PROVE  TypeOK'
    <2>1. req[r] \in [step : {"save"}, next : Blob, imports : SUBSET Invoice,
                      clears : SUBSET Invoice]
      BY <1>7 DEF Save, TypeOK, RequestState
    <2>2. quotaUntil' \in Nat
      BY <1>7, <2>1, LaterIsNat DEF Save, TypeOK, Blob
    <2>3. req' \in [Request -> RequestState]
      BY <1>7 DEF Save, Become, Idle, TypeOK, RequestState
    <2> QED
      BY <1>7, <2>1, <2>2, <2>3 DEF Save, TypeOK, remote, Blob
  <1>8. ASSUME NEW r \in Request, Abort(r)
        PROVE  TypeOK'
    BY <1>8 DEF Abort, Become, Idle, TypeOK, RequestState, remote, history
  <1>9. ASSUME UNCHANGED vars
        PROVE  TypeOK'
    BY <1>9 DEF vars, TypeOK, remote, history
  <1> QED
    BY <1>1, <1>2, <1>3, <1>4, <1>5, <1>6, <1>7, <1>8, <1>9 DEF Next

\* InvoiceSync stays well typed: what a handler computed and has not saved yet
\* is a document that may be saved.
THEOREM TypeCorrect == Spec => []TypeOK
  <1>1. Init => TypeOK
    BY SyncAssumption DEF Init, TypeOK, Blob, RequestState, Idle
  <1> QED
    BY <1>1, TypeStep, PTL DEF Spec

-----------------------------------------------------------------------------
(***************************************************************************)
(* Why NothingSkipped survives overlapping requests: not only the saved    *)
(* document covers what lies behind its watermark, every document that a   *)
(* request loaded or is about to save does, and no watermark is ahead of   *)
(* the clock, so an invoice issued later on time cannot fall behind it.    *)
(***************************************************************************)
Settled == imported \cup cleared

IInv == /\ NothingSkipped
        /\ blob.last <= now
        /\ \A r \in Request :
             /\ req[r].step = "fetch" => /\ CoveredBy(req[r].prev, Settled)
                                        /\ req[r].prev.last <= now
                                        /\ req[r].at <= now
             /\ req[r].step = "save" =>
                  /\ CoveredBy(req[r].next, Settled \cup req[r].imports \cup req[r].clears)
                  /\ req[r].next.last <= now

\* A request that computed a document that covers what it should, and has not
\* saved it yet, keeps the invariant.
LEMMA WillSaveKeeps ==
    ASSUME TypeOK, IInv, NEW r \in Request, NEW next \in Blob,
           NEW imports \in SUBSET Invoice, NEW clears \in SUBSET Invoice,
           WillSave(r, next, imports, clears), UNCHANGED <<remote, blob, history>>,
           CoveredBy(next, Settled \cup imports \cup clears), next.last <= now
    PROVE  IInv'
  <1>1. req' = [req EXCEPT ![r] = [step |-> "save", next |-> next,
                                   imports |-> imports, clears |-> clears]]
    BY DEF WillSave, Become
  <1>2. \A s \in Request : s # r => req'[s] = req[s]
    BY <1>1 DEF TypeOK
  <1>3. req'[r] = [step |-> "save", next |-> next, imports |-> imports, clears |-> clears]
    BY <1>1 DEF TypeOK
  <1>4. UNCHANGED <<now, punctual, date, blob, imported, cleared>>
    BY DEF remote, history
  <1> QED
    BY <1>2, <1>3, <1>4 DEF IInv, NothingSkipped, CoveredBy, Settled

\* A sync answered by Axonaut: below the old watermark the loaded document
\* covers, from there on the answer does.
LEMMA FetchCovers ==
    ASSUME TypeOK, IInv, NEW r \in Request, FetchOk(r)
    PROVE  IInv'
  <1> DEFINE prev == req[r].prev
             from == req[r].from
             at   == req[r].at
             next == [last    |-> at,
                      blocked |-> 0,
                      pending |-> prev.pending \cup Listed(from, at),
                      since   |-> IF prev.last < from THEN from ELSE prev.since]
  <1>1. req[r] \in [step : {"fetch"}, prev : Blob, from : Nat, at : Nat]
    BY DEF FetchOk, TypeOK, RequestState
  <1>2. next \in Blob
    <2>1. Listed(from, at) \in SUBSET Invoice
      BY DEF Listed, TypeOK
    <2> QED
      BY <1>1, <2>1 DEF Blob
  <1>3. CoveredBy(prev, Settled) /\ at <= now
    BY DEF IInv, FetchOk
  <1>4. CoveredBy(next, Settled \cup {} \cup {})
    <2> SUFFICES ASSUME NEW i \in punctual, next.since <= date[i], date[i] < at
                 PROVE  i \in next.pending \cup Settled
      BY DEF CoveredBy
    <2>1. i \in issued /\ date[i] \in Nat
      BY DEF TypeOK
    <2>2. CASE from <= date[i]
      BY <1>1, <2>1, <2>2 DEF Listed
    <2>3. CASE date[i] < from
      <3>1. prev.since <= date[i] /\ date[i] < prev.last
        BY <1>1, <2>1, <2>3 DEF Blob
      <3>2. i \in prev.pending \cup Settled
        BY <1>3, <3>1 DEF CoveredBy
      <3> QED
        BY <3>2
    <2> QED
      BY <1>1, <2>1, <2>2, <2>3
  <1>5. WillSave(r, next, {}, {}) /\ UNCHANGED <<remote, blob, history>>
    BY DEF FetchOk
  <1>6. next.last <= now
    BY <1>3
  <1> HIDE DEF next
  <1> QED
    BY <1>2, <1>4, <1>5, <1>6, WillSaveKeeps

LEMMA InvariantStep ==
    ASSUME TypeOK, IInv, [Next]_vars
    PROVE  IInv'
  <1>1. ASSUME Tick
        PROVE  IInv'
    <2>1. now' = now + 1 /\ now \in Nat
      BY <1>1, SyncAssumption DEF Tick, TypeOK
    <2>2. \A r \in Request :
            /\ req[r].step = "fetch" => req[r].prev.last \in Nat /\ req[r].at \in Nat
            /\ req[r].step = "save" => req[r].next.last \in Nat
      BY DEF TypeOK, RequestState, Blob
    <2>3. blob.last \in Nat
      BY DEF TypeOK, Blob
    <2> QED
      BY <1>1, <2>1, <2>2, <2>3
      DEF Tick, IInv, NothingSkipped, CoveredBy, Settled, history
  <1>2. ASSUME NEW i \in Invoice, NEW how \in Dating, Issue(i, how)
        PROVE  IInv'
    <2>1. PICK d \in DatesOf(how) : date' = [date EXCEPT ![i] = d]
      BY <1>2 DEF Issue
    <2>2. i \notin punctual /\ date'[i] = d /\ \A j \in punctual : date'[j] = date[j]
      BY <1>2, <2>1 DEF Issue, TypeOK
    <2>3. i \in punctual' => now <= d /\ d \in Nat
      <3>1. CASE how = "prompt"
        BY <2>1, <3>1, SyncAssumption DEF DatesOf, TypeOK
      <3>2. CASE how = "ahead"
        <4>1. d \in now + 1 .. MaxTime
          BY <2>1, <3>2 DEF DatesOf
        <4> QED
          BY <4>1, SyncAssumption DEF TypeOK
      <3>3. CASE how \notin {"prompt", "ahead"}
        BY <1>2, <2>2, <3>3 DEF Issue
      <3> QED
        BY <3>1, <3>2, <3>3
    <2>4. ASSUME NEW b \in Blob, NEW out, b.last <= now, CoveredBy(b, out)
          PROVE  \A j \in punctual' :
                    b.since <= date'[j] /\ date'[j] < b.last => j \in b.pending \cup out
      <3>1. b.last \in Nat /\ now \in Nat
        BY SyncAssumption DEF Blob, TypeOK
      <3>2. i \in punctual' => ~ (date'[i] < b.last)
        BY <2>2, <2>3, <2>4, <3>1
      <3>3. punctual' \subseteq punctual \cup {i}
        BY <1>2 DEF Issue
      <3> QED
        BY <2>2, <2>4, <3>2, <3>3 DEF CoveredBy
    <2>5. blob \in Blob /\ UNCHANGED <<now, blob, req, imported, cleared>>
      BY <1>2 DEF Issue, TypeOK, history
    <2>6. NothingSkipped'
      BY <2>4, <2>5 DEF IInv, NothingSkipped, CoveredBy
    <2>7. ASSUME NEW r \in Request, req[r].step = "fetch"
          PROVE  CoveredBy(req[r].prev, Settled)'
      <3>1. req[r].prev \in Blob
        BY <2>7 DEF TypeOK, RequestState
      <3>2. CoveredBy(req[r].prev, Settled) /\ req[r].prev.last <= now
        BY <2>7 DEF IInv
      <3>3. \A j \in punctual' :
              req[r].prev.since <= date'[j] /\ date'[j] < req[r].prev.last
                => j \in req[r].prev.pending \cup (Settled)
        BY <2>4, <3>1, <3>2
      <3> QED
        BY <2>5, <3>3 DEF CoveredBy, Settled
    <2>8. ASSUME NEW r \in Request, req[r].step = "save"
          PROVE  CoveredBy(req[r].next, Settled \cup req[r].imports \cup req[r].clears)'
      <3>1. req[r].next \in Blob
        BY <2>8 DEF TypeOK, RequestState
      <3>2. CoveredBy(req[r].next, Settled \cup req[r].imports \cup req[r].clears) /\ req[r].next.last <= now
        BY <2>8 DEF IInv
      <3>3. \A j \in punctual' :
              req[r].next.since <= date'[j] /\ date'[j] < req[r].next.last
                => j \in req[r].next.pending \cup (Settled \cup req[r].imports \cup req[r].clears)
        BY <2>4, <3>1, <3>2
      <3> QED
        BY <2>5, <3>3 DEF CoveredBy, Settled
    <2> QED
      BY <2>5, <2>6, <2>7, <2>8 DEF IInv
  <1>3. ASSUME NEW r \in Request, NEW force \in BOOLEAN, NEW lookback \in Lookback,
               SyncStart(r, force, lookback)
        PROVE  IInv'
    <2>1. /\ \A s \in Request : s # r => req'[s] = req[s]
          /\ req'[r] = [step |-> "fetch", prev |-> blob,
                        from |-> From(blob, lookback), at |-> now]
      BY <1>3 DEF SyncStart, Become, TypeOK
    <2>2. now \in Nat /\ UNCHANGED <<now, punctual, date, blob, imported, cleared>>
      BY <1>3, SyncAssumption DEF SyncStart, remote, history, TypeOK
    <2> QED
      BY <2>1, <2>2 DEF IInv, NothingSkipped, CoveredBy, Settled
  <1>4. ASSUME NEW r \in Request, FetchOk(r)
        PROVE  IInv'
    BY <1>4, FetchCovers
  <1>5. ASSUME NEW r \in Request, FetchQuota(r)
        PROVE  IInv'
    <2> DEFINE next == [req[r].prev EXCEPT !.blocked = NextReset(req[r].at)]
    <2>1. req[r] \in [step : {"fetch"}, prev : Blob, from : Nat, at : Nat]
      BY <1>5 DEF FetchQuota, TypeOK, RequestState
    <2>2. NextReset(req[r].at) \in Nat
      BY <2>1, SyncAssumption DEF NextReset
    <2>3. /\ next \in Blob
          /\ next.last = req[r].prev.last
          /\ next.pending = req[r].prev.pending
          /\ next.since = req[r].prev.since
      BY <2>1, <2>2 DEF Blob
    <2>4. CoveredBy(next, Settled \cup {} \cup {}) /\ next.last <= now
      BY <1>5, <2>3 DEF FetchQuota, IInv, CoveredBy
    <2>5. WillSave(r, next, {}, {}) /\ UNCHANGED <<remote, blob, history>>
      BY <1>5 DEF FetchQuota
    <2> HIDE DEF next
    <2> QED
      BY <2>3, <2>4, <2>5, WillSaveKeeps
  <1>6. ASSUME NEW r \in Request, NEW ids \in SUBSET seen, MarkStart(r, ids)
        PROVE  IInv'
    <2> DEFINE next == [blob EXCEPT !.pending = @ \ ids]
    <2>1. /\ next \in Blob
          /\ next.last = blob.last
          /\ next.pending = blob.pending \ ids
          /\ next.since = blob.since
      BY DEF Blob, TypeOK
    <2>2. ids \in SUBSET Invoice
      BY DEF TypeOK
    <2>3. CoveredBy(next, Settled \cup ids \cup {}) /\ next.last <= now
      BY <2>1 DEF IInv, NothingSkipped, CoveredBy, Settled
    <2>4. WillSave(r, next, ids, {}) /\ UNCHANGED <<remote, blob, history>>
      BY <1>6 DEF MarkStart
    <2> HIDE DEF next
    <2> QED
      BY <2>1, <2>2, <2>3, <2>4, WillSaveKeeps
  <1>7. ASSUME NEW r \in Request, NEW advance \in BOOLEAN, ClearStart(r, advance)
        PROVE  IInv'
    <2> DEFINE next == [last    |-> IF advance THEN now ELSE blob.last,
                        blocked |-> blob.blocked,
                        pending |-> {},
                        since   |-> IF advance THEN now ELSE blob.since]
    <2>1. /\ next \in Blob
          /\ blob.pending \in SUBSET Invoice
          /\ now \in Nat
      BY SyncAssumption DEF Blob, TypeOK
    <2>2. CoveredBy(next, Settled \cup {} \cup blob.pending)
      <3>1. CASE advance
        <4>1. \A i \in punctual : date[i] \in Nat
          BY DEF TypeOK
        <4> QED
          BY <2>1, <3>1, <4>1 DEF CoveredBy
      <3>2. CASE ~ advance
        BY <3>2 DEF IInv, NothingSkipped, CoveredBy, Settled
      <3> QED
        BY <3>1, <3>2
    <2>3. next.last <= now
      BY <2>1 DEF IInv
    <2>4. WillSave(r, next, {}, blob.pending) /\ UNCHANGED <<remote, blob, history>>
      BY <1>7 DEF ClearStart
    <2> HIDE DEF next
    <2> QED
      BY <2>1, <2>2, <2>3, <2>4, WillSaveKeeps
  <1>8. ASSUME NEW r \in Request, Save(r)
        PROVE  IInv'
    <2>1. /\ \A s \in Request : s # r => req'[s] = req[s]
          /\ req'[r].step = "idle"
      BY <1>8 DEF Save, Become, Idle, TypeOK
    <2>2. /\ UNCHANGED <<now, punctual, date>>
          /\ blob' = req[r].next
          /\ imported' = imported \cup req[r].imports
          /\ cleared' = cleared \cup req[r].clears
      BY <1>8 DEF Save, remote
    <2>3. Settled \subseteq Settled'
      BY <2>2 DEF Settled
    <2>4. NothingSkipped' /\ (blob.last <= now)'
      BY <1>8, <2>2 DEF Save, IInv, NothingSkipped, CoveredBy, Settled
    <2>5. ASSUME NEW s \in Request, req'[s].step = "fetch"
          PROVE  /\ CoveredBy(req[s].prev, Settled)'
                 /\ (req[s].prev.last <= now)'
                 /\ (req[s].at <= now)'
      <3>1. req'[s] = req[s] /\ req[s].step = "fetch"
        BY <2>1, <2>5
      <3> QED
        BY <2>2, <2>3, <3>1 DEF IInv, CoveredBy
    <2>6. ASSUME NEW s \in Request, req'[s].step = "save"
          PROVE  /\ CoveredBy(req[s].next, Settled \cup req[s].imports \cup req[s].clears)'
                 /\ (req[s].next.last <= now)'
      <3>1. req'[s] = req[s] /\ req[s].step = "save"
        BY <2>1, <2>6
      <3> QED
        BY <2>2, <2>3, <3>1 DEF IInv, CoveredBy
    <2> QED
      BY <2>4, <2>5, <2>6 DEF IInv
  <1>9. ASSUME NEW r \in Request, Abort(r)
        PROVE  IInv'
    <2>1. /\ \A s \in Request : s # r => req'[s] = req[s]
          /\ req'[r].step = "idle"
      BY <1>9 DEF Abort, Become, Idle, TypeOK
    <2>2. UNCHANGED <<now, punctual, date, blob, imported, cleared>>
      BY <1>9 DEF Abort, remote, history
    <2> QED
      BY <2>1, <2>2 DEF IInv, NothingSkipped, CoveredBy, Settled
  <1>10. ASSUME UNCHANGED vars
         PROVE  IInv'
    BY <1>10 DEF vars, remote, history, IInv, NothingSkipped, CoveredBy, Settled
  <1> QED
    BY <1>1, <1>2, <1>3, <1>4, <1>5, <1>6, <1>7, <1>8, <1>9, <1>10 DEF Next

\* However syncs, marks and clears overlap, and wherever they die, no invoice
\* issued on time falls behind lastSyncAt without having been in the list.
THEOREM NothingEverSkipped == Spec => []NothingSkipped
  <1>1. Init => IInv
    BY DEF Init, IInv, NothingSkipped, CoveredBy, Idle
  <1>2. TypeOK /\ IInv /\ [Next]_vars => IInv'
    BY InvariantStep
  <1>3. IInv => NothingSkipped
    BY DEF IInv
  <1> QED
    BY <1>1, <1>2, <1>3, TypeCorrect, PTL DEF Spec

-----------------------------------------------------------------------------
(***************************************************************************)
(* Why GoneStaysOut survives overlapping requests: the drop was saved with *)
(* nothing else in flight, so every document loaded since then lacks the   *)
(* invoice and has a watermark beyond its date, and a sync never looks     *)
(* before the watermark it loaded.                                         *)
(***************************************************************************)
Without(b) == \A i \in gone : i \notin b.pending /\ date[i] < b.last

GoneInv == /\ \A i \in Invoice : date[i] # 0 => i \in issued
           /\ \A i \in gone : date[i] # 0
           /\ Without(blob)
           /\ \A r \in Request :
                /\ req[r].step = "fetch" =>
                     /\ Without(req[r].prev)
                     /\ req[r].prev.last # 0 => req[r].prev.last <= req[r].from
                     /\ req[r].prev.last <= req[r].at
                /\ req[r].step = "save" =>
                     /\ Without(req[r].next)
                     /\ (req[r].imports \cup req[r].clears) \cap req[r].next.pending = {}

\* A request that is about to save a document without the dropped invoices.
LEMMA WillSaveStaysWithout ==
    ASSUME TypeOK, GoneInv, NEW r \in Request, NEW next, NEW imports, NEW clears,
           WillSave(r, next, imports, clears), UNCHANGED <<remote, blob, history>>,
           Without(next), (imports \cup clears) \cap next.pending = {}
    PROVE  GoneInv'
  <1>1. /\ \A s \in Request : s # r => req'[s] = req[s]
        /\ req'[r] = [step |-> "save", next |-> next, imports |-> imports, clears |-> clears]
    BY DEF WillSave, Become, TypeOK
  <1>2. UNCHANGED <<issued, date, blob, gone>>
    BY DEF remote, history
  <1> QED
    BY <1>1, <1>2 DEF GoneInv, Without

LEMMA GoneStep ==
    ASSUME TypeOK, IInv, GoneInv, [Next]_vars
    PROVE  GoneInv'
  <1>1. CASE Tick
    BY <1>1 DEF Tick, GoneInv, Without, history
  <1>2. ASSUME NEW i \in Invoice, NEW how \in Dating, Issue(i, how)
        PROVE  GoneInv'
    <2>1. PICK d \in DatesOf(how) : date' = [date EXCEPT ![i] = d]
      BY <1>2 DEF Issue
    <2>2. date[i] = 0
      BY <1>2 DEF Issue, GoneInv
    <2>3. i \notin gone
      BY <2>2 DEF GoneInv
    <2>4. \A j \in Invoice : j # i => date'[j] = date[j]
      BY <2>1 DEF TypeOK
    <2>5. gone \subseteq Invoice /\ \A j \in gone : date'[j] = date[j]
      BY <2>3, <2>4 DEF TypeOK
    <2>6. issued' = issued \cup {i} /\ UNCHANGED <<blob, req, gone>>
      BY <1>2 DEF Issue, history
    <2>7. \A j \in Invoice : date'[j] # 0 => j \in issued'
      BY <2>4, <2>6 DEF GoneInv
    <2> QED
      BY <2>5, <2>6, <2>7 DEF GoneInv, Without
  <1>3. ASSUME NEW r \in Request, NEW force \in BOOLEAN, NEW lookback \in Lookback,
               SyncStart(r, force, lookback)
        PROVE  GoneInv'
    <2>1. /\ \A s \in Request : s # r => req'[s] = req[s]
          /\ req'[r] = [step |-> "fetch", prev |-> blob,
                        from |-> From(blob, lookback), at |-> now]
      BY <1>3 DEF SyncStart, Become, TypeOK
    <2>2. UNCHANGED <<issued, date, blob, gone>>
      BY <1>3 DEF SyncStart, remote, history
    <2>3. blob.last # 0 => blob.last <= From(blob, lookback)
      BY SyncAssumption DEF From, Later, TypeOK, Blob
    <2>4. blob.last <= now
      BY DEF IInv
    <2> QED
      BY <2>1, <2>2, <2>3, <2>4 DEF GoneInv, Without
  <1>4. ASSUME NEW r \in Request, FetchOk(r)
        PROVE  GoneInv'
    <2> DEFINE prev == req[r].prev
               from == req[r].from
               at   == req[r].at
               next == [last    |-> at,
                        blocked |-> 0,
                        pending |-> prev.pending \cup Listed(from, at),
                        since   |-> IF prev.last < from THEN from ELSE prev.since]
    <2>1. req[r] \in [step : {"fetch"}, prev : Blob, from : Nat, at : Nat]
      BY <1>4 DEF FetchOk, TypeOK, RequestState
    <2>2. /\ Without(prev) /\ prev.last <= at
          /\ prev.last # 0 => prev.last <= from
      BY <1>4 DEF FetchOk, GoneInv
    <2>3. ASSUME NEW i \in gone
          PROVE  i \notin prev.pending \cup Listed(from, at) /\ date[i] < at
      <3>1. i \notin prev.pending /\ date[i] < prev.last /\ date[i] # 0
        BY <2>2 DEF Without, GoneInv
      <3>2. date[i] \in Nat /\ prev.last \in Nat
        BY <2>1 DEF TypeOK, Blob
      <3> QED
        BY <2>1, <2>2, <3>1, <3>2 DEF Listed
    <2>4. Without(next)
      BY <2>3 DEF Without
    <2>5. WillSave(r, next, {}, {}) /\ UNCHANGED <<remote, blob, history>>
      BY <1>4 DEF FetchOk
    <2> HIDE DEF next
    <2> QED
      BY <2>4, <2>5, WillSaveStaysWithout
  <1>5. ASSUME NEW r \in Request, FetchQuota(r)
        PROVE  GoneInv'
    <2> DEFINE next == [req[r].prev EXCEPT !.blocked = NextReset(req[r].at)]
    <2>1. req[r].prev \in Blob
      BY <1>5 DEF FetchQuota, TypeOK, RequestState
    <2>2. next.last = req[r].prev.last /\ next.pending = req[r].prev.pending
      BY <2>1 DEF Blob
    <2>3. Without(next)
      BY <1>5, <2>2 DEF FetchQuota, GoneInv, Without
    <2>4. WillSave(r, next, {}, {}) /\ UNCHANGED <<remote, blob, history>>
      BY <1>5 DEF FetchQuota
    <2> HIDE DEF next
    <2> QED
      BY <2>3, <2>4, WillSaveStaysWithout
  <1>6. ASSUME NEW r \in Request, NEW ids \in SUBSET seen, MarkStart(r, ids)
        PROVE  GoneInv'
    <2> DEFINE next == [blob EXCEPT !.pending = @ \ ids]
    <2>1. next.last = blob.last /\ next.pending = blob.pending \ ids
      BY DEF TypeOK, Blob
    <2>2. Without(next) /\ (ids \cup {}) \cap next.pending = {}
      BY <2>1 DEF GoneInv, Without
    <2>3. WillSave(r, next, ids, {}) /\ UNCHANGED <<remote, blob, history>>
      BY <1>6 DEF MarkStart
    <2> HIDE DEF next
    <2> QED
      BY <2>2, <2>3, WillSaveStaysWithout
  <1>7. ASSUME NEW r \in Request, NEW advance \in BOOLEAN, ClearStart(r, advance)
        PROVE  GoneInv'
    <2> DEFINE next == [last    |-> IF advance THEN now ELSE blob.last,
                        blocked |-> blob.blocked,
                        pending |-> {},
                        since   |-> IF advance THEN now ELSE blob.since]
    <2>1. \A i \in gone : date[i] < next.last
      <3>1. now \in Nat /\ blob.last \in Nat /\ \A i \in gone : date[i] \in Nat
        BY SyncAssumption DEF TypeOK, Blob
      <3> QED
        BY <3>1 DEF IInv, GoneInv, Without
    <2>2. Without(next)
      BY <2>1 DEF Without
    <2>3. WillSave(r, next, {}, blob.pending) /\ UNCHANGED <<remote, blob, history>>
      BY <1>7 DEF ClearStart
    <2>4. next.pending = {}
      OBVIOUS
    <2> HIDE DEF next
    <2> QED
      BY <2>2, <2>3, <2>4, WillSaveStaysWithout
  <1>8. ASSUME NEW r \in Request, Save(r)
        PROVE  GoneInv'
    <2>1. /\ \A s \in Request : s # r => req'[s] = req[s]
          /\ req'[r].step = "idle"
      BY <1>8 DEF Save, Become, Idle, TypeOK
    <2>2. UNCHANGED <<issued, date>> /\ blob' = req[r].next
      BY <1>8 DEF Save, remote
    <2>3. /\ Without(req[r].next)
          /\ (req[r].imports \cup req[r].clears) \cap req[r].next.pending = {}
      BY <1>8 DEF Save, GoneInv
    <2>4. CASE Alone(r)
      <3>1. \A s \in Request : req'[s].step = "idle"
        BY <2>1, <2>4 DEF Alone
      <3>2. gone' = gone \cup {i \in req[r].imports \cup req[r].clears :
                                date[i] \in 1 .. req[r].next.last - 1}
        BY <1>8, <2>4 DEF Save
      <3>3. req[r].next.last \in Nat
        BY <1>8 DEF Save, TypeOK, RequestState, Blob
      <3>4. \A i \in gone' : /\ date[i] # 0 /\ date[i] < req[r].next.last
                             /\ i \notin req[r].next.pending
        BY <2>3, <3>2, <3>3 DEF GoneInv, Without
      <3> QED
        BY <2>2, <3>1, <3>4 DEF GoneInv, Without
    <2>5. CASE ~ Alone(r)
      <3>1. gone' = gone
        BY <1>8, <2>5 DEF Save
      <3> QED
        BY <2>1, <2>2, <2>3, <3>1 DEF GoneInv, Without
    <2> QED
      BY <2>4, <2>5
  <1>9. ASSUME NEW r \in Request, Abort(r)
        PROVE  GoneInv'
    <2>1. /\ \A s \in Request : s # r => req'[s] = req[s]
          /\ req'[r].step = "idle"
      BY <1>9 DEF Abort, Become, Idle, TypeOK
    <2>2. UNCHANGED <<issued, date, blob, gone>>
      BY <1>9 DEF Abort, remote, history
    <2> QED
      BY <2>1, <2>2 DEF GoneInv, Without
  <1>10. CASE UNCHANGED vars
    BY <1>10 DEF vars, remote, history, GoneInv, Without
  <1> QED
    BY <1>1, <1>2, <1>3, <1>4, <1>5, <1>6, <1>7, <1>8, <1>9, <1>10 DEF Next

\* A dated invoice that a mark-imported or a clear-pending dropped behind the
\* watermark, with no other request in flight, is never in the list again,
\* however the requests that follow overlap and die.
THEOREM GoneNeverReturns == Spec => []GoneStaysOut
  <1>1. Init => IInv /\ GoneInv
    BY DEF Init, IInv, GoneInv, Without, NothingSkipped, CoveredBy, Idle
  <1>2. TypeOK /\ IInv /\ GoneInv /\ [Next]_vars => IInv' /\ GoneInv'
    BY InvariantStep, GoneStep
  <1>3. GoneInv => GoneStaysOut
    BY DEF GoneInv, Without, GoneStaysOut
  <1> QED
    BY <1>1, <1>2, <1>3, TypeCorrect, PTL DEF Spec

-----------------------------------------------------------------------------
(***************************************************************************)
(* Why QuotaRespected survives overlapping requests: a reset that is still *)
(* ahead is in the saved document and in every document that waits to be   *)
(* saved, as each was made from one that had it; a sync that began before  *)
(* it was saved has ended, for the save was alone.                         *)
(***************************************************************************)
Recorded(b) == quotaUntil <= now \/ quotaUntil <= b.blocked

QuotaInv == /\ Recorded(blob)
            /\ \A r \in Request :
                 /\ req[r].step = "fetch" => quotaUntil <= req[r].at /\ req[r].at <= now
                 /\ req[r].step = "save" => Recorded(req[r].next)

\* A request that is about to save a document that still has the reset.
LEMMA WillSaveRecorded ==
    ASSUME TypeOK, QuotaInv, NEW r \in Request, NEW next, NEW imports, NEW clears,
           WillSave(r, next, imports, clears), UNCHANGED <<remote, blob, history>>,
           Recorded(next)
    PROVE  QuotaInv'
  <1>1. /\ \A s \in Request : s # r => req'[s] = req[s]
        /\ req'[r] = [step |-> "save", next |-> next, imports |-> imports, clears |-> clears]
    BY DEF WillSave, Become, TypeOK
  <1>2. UNCHANGED <<now, blob, quotaUntil>>
    BY DEF remote, history
  <1> QED
    BY <1>1, <1>2 DEF QuotaInv, Recorded

LEMMA QuotaStep ==
    ASSUME TypeOK, QuotaInv, [Next]_vars
    PROVE  QuotaInv'
  <1>1. now \in Nat /\ quotaUntil \in Nat /\ blob.blocked \in Nat
    BY SyncAssumption DEF TypeOK, Blob
  <1>2. CASE Tick
    <2>1. now' = now + 1 /\ UNCHANGED <<blob, req, quotaUntil>>
      BY <1>2 DEF Tick, history
    <2>2. \A r \in Request : req[r].step = "fetch" => req[r].at \in Nat
      BY DEF TypeOK, RequestState
    <2> QED
      BY <1>1, <2>1, <2>2 DEF QuotaInv, Recorded
  <1>3. CASE \E i \in Invoice, how \in Dating : Issue(i, how)
    BY <1>3 DEF Issue, history, QuotaInv, Recorded
  <1>4. ASSUME NEW r \in Request, NEW force \in BOOLEAN, NEW lookback \in Lookback,
               SyncStart(r, force, lookback)
        PROVE  QuotaInv'
    <2>1. /\ \A s \in Request : s # r => req'[s] = req[s]
          /\ req'[r] = [step |-> "fetch", prev |-> blob,
                        from |-> From(blob, lookback), at |-> now]
          /\ now >= blob.blocked
      BY <1>4 DEF SyncStart, Become, TypeOK
    <2>2. quotaUntil <= now /\ UNCHANGED <<now, blob, quotaUntil>>
      BY <1>1, <1>4, <2>1 DEF SyncStart, remote, history, QuotaInv, Recorded
    <2> QED
      BY <1>1, <2>1, <2>2 DEF QuotaInv, Recorded
  <1>5. ASSUME NEW r \in Request, FetchOk(r) \/ FetchQuota(r)
        PROVE  QuotaInv'
    <2>1. req[r].step = "fetch" /\ req[r].at \in Nat
      BY <1>5 DEF FetchOk, FetchQuota, TypeOK, RequestState
    <2>2. quotaUntil <= now
      BY <1>1, <2>1 DEF QuotaInv
    <2>3. \A next : Recorded(next)
      BY <2>2 DEF Recorded
    <2> QED
      BY <1>5, <2>3, WillSaveRecorded DEF FetchOk, FetchQuota
  <1>6. ASSUME NEW r \in Request, NEW ids \in SUBSET seen, MarkStart(r, ids)
        PROVE  QuotaInv'
    <2>1. [blob EXCEPT !.pending = @ \ ids].blocked = blob.blocked
      BY DEF TypeOK, Blob
    <2>2. Recorded([blob EXCEPT !.pending = @ \ ids])
      BY <2>1 DEF QuotaInv, Recorded
    <2> QED
      BY <1>6, <2>2, WillSaveRecorded DEF MarkStart
  <1>7. ASSUME NEW r \in Request, NEW advance \in BOOLEAN, ClearStart(r, advance)
        PROVE  QuotaInv'
    <2>1. \A last, since :
            Recorded([last |-> last, blocked |-> blob.blocked, pending |-> {}, since |-> since])
      BY DEF QuotaInv, Recorded
    <2> QED
      BY <1>7, <2>1, WillSaveRecorded DEF ClearStart
  <1>8. ASSUME NEW r \in Request, Save(r)
        PROVE  QuotaInv'
    <2>1. /\ \A s \in Request : s # r => req'[s] = req[s]
          /\ req'[r].step = "idle"
      BY <1>8 DEF Save, Become, Idle, TypeOK
    <2>2. /\ now' = now /\ blob' = req[r].next /\ req[r].next.blocked \in Nat
          /\ Recorded(req[r].next)
      BY <1>8 DEF Save, remote, QuotaInv, TypeOK, RequestState, Blob
    <2>3. CASE Alone(r)
      <3>1. \A s \in Request : req'[s].step = "idle"
        BY <2>1, <2>3 DEF Alone
      <3>2. quotaUntil' = Later(quotaUntil, req[r].next.blocked)
        BY <1>8, <2>3 DEF Save
      <3> QED
        BY <1>1, <2>2, <3>1, <3>2 DEF QuotaInv, Recorded, Later
    <2>4. CASE ~ Alone(r)
      <3>1. quotaUntil' = quotaUntil
        BY <1>8, <2>4 DEF Save
      <3> QED
        BY <2>1, <2>2, <3>1 DEF QuotaInv, Recorded
    <2> QED
      BY <2>3, <2>4
  <1>9. ASSUME NEW r \in Request, Abort(r)
        PROVE  QuotaInv'
    <2>1. /\ \A s \in Request : s # r => req'[s] = req[s]
          /\ req'[r].step = "idle"
      BY <1>9 DEF Abort, Become, Idle, TypeOK
    <2>2. UNCHANGED <<now, blob, quotaUntil>>
      BY <1>9 DEF Abort, remote, history
    <2> QED
      BY <2>1, <2>2 DEF QuotaInv, Recorded
  <1>10. CASE UNCHANGED vars
    BY <1>10 DEF vars, remote, history, QuotaInv, Recorded
  <1> QED
    BY <1>2, <1>3, <1>4, <1>5, <1>6, <1>7, <1>8, <1>9, <1>10 DEF Next

\* Once a 429 was saved with no other request in flight, no sync calls Axonaut
\* before the reset, whatever overlaps afterwards.
THEOREM QuotaAlwaysRespected == Spec => []QuotaRespected
  <1>1. Init => QuotaInv
    BY DEF Init, QuotaInv, Recorded, Idle
  <1>2. TypeOK /\ QuotaInv /\ [Next]_vars => QuotaInv'
    BY QuotaStep
  <1>3. QuotaInv => QuotaRespected
    BY DEF QuotaInv, QuotaRespected
  <1> QED
    BY <1>1, <1>2, <1>3, TypeCorrect, PTL DEF Spec
=============================================================================
