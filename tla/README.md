# petflow-core in TLA+

petflow-core is a NestJS server over Prisma and SQLite: it keeps the products, stock
locations, inventories and stock movements of a pet shop, values the stock day by day, and
exchanges invoices, products and stock with Axonaut. Node runs one piece of code at a time, so
requests interleave only at an `await`; each Prisma call is atomic, and only what is written
in one statement or in one `$transaction` is written together. Nearly everything that can go
wrong follows from that: a handler reads, waits, and writes by what it read.

In all modules a request slot of the server holds a record of what the request waits for and
of what it has read so far. A handler is one action per database or HTTP call, `Abort` stands
for the failure of the call and for the death of the process, and a slot is reused by the next
request. A crash of the process is an `Abort` of each of its requests.

Source paths below are relative to `src/`.

## Inventory

| Component | State | Operations | Hard behaviour | What makes it correct |
|---|---|---|---|---|
| Stock locations (`src/stock-locations`) | rows with unique `code`, flag `isDefault` | list (seeds `MAIN`), create, update, `findDefault`; bootstrap script and seed | count-then-insert, write-then-unset, crash in between | at most one default once things are quiet; never none |
| Axonaut invoices (`src/axonaut`, `src/common/secure-config.service.ts`) | one JSON document: `lastSyncAt`, `blockedUntil`, pending invoices | sync, list pending, mark-imported, clear-pending | load, HTTP calls, save of the whole document; quota; paging while invoices are issued | nothing skipped; nothing dropped returns; quota respected |
| Axonaut stock (`src/axonaut`) | Axonaut's stock of each linked product | sync-stock (dry run too), update-stock | two queries and a call per product, answers lost, overlapping syncs | after an accepted sync, Axonaut has the stock |
| Axonaut catalogue and configuration (`src/axonaut`) | products with an Axonaut id; a cached key | import-products, lookup, config | find-then-create, item errors; the key answered before it is saved, and loaded over two awaits | an item fails only for a reason; overlapping imports lose none; an answered key is stored and is the one used |
| Secure configuration (`src/common/secure-config.service.ts`) | an encrypted JSON document per tenant and service | load, save | saves of one tenant overtaking each other, one cache for all tenants | as above |
| Document ingest (`src/documents`) | products, movements by source document | check, enrich, find, create, link, merge, insert | every line is several calls; retries; two ingests of one document or product | booked once, completely, on the right products |
| Stock ledger (`src/stock-movements`, `src/inventories`, `src/stock`) | inventories and movements, only added | create one or many, stock now and at a date | two queries, equal dates, several locations | the stock told is what the rows say |
| Stock valuations (`src/stock-valuations`) | a stored value per day and scope | daily values: compute, store, read back | overlapping requests, midnight, late rows and prices | totals add up, closed days exact, stored values final |
| Products (`src/products`) | the catalogue | create, update, checks of payloads | unique constraints | in part, as the environment of the ingest |
| Families, packagings | names | create, rename, delete | find-then-create by imports | in part, as what an import may meet |
| Husse import (`src/husse`) | session cookie, products | login, fetch, preview, import | find-then-create, an error ends the import; one session for all requests | of overlapping imports one gets through; pages come from the account that was meant, and never without a session |
| Authentication, tenants (`src/auth`, `src/prisma`) | tenants and users in the master database, buckets of login attempts, tokens at the clients | start of the server, login, guard, rate limit, choice of the client | adjacent windows, tokens that outlive what they say, a start that dies half-way | bursts bounded, `Retry-After` true; a session ages out; a guess of the tenant is unambiguous |
| Scripts (`scripts`) | all tables | bootstrap-tenant, create-user | run again on live data, or beside a start | what they do to locations, tenants and users |
| Controllers, application shell | none | routing, validation | none | out of scope |

Interactions: the ingest books in the default location and writes the products and movements
that the stock, the valuations and sync-stock read; the front end passes a pending invoice to
the ingest and then marks it imported; the valuations read the locations and the prices; the
imports take their configuration from a cache that a `SecureConfig` document backs; every
request but a login carries a token that names the tenant's database. The
hazards, each with its line and the properties that watch it, are listed in `PROJECT.json`.

## Modules and how they follow the code

| Module | Models | Its state in the code |
|---|---|---|
| `DefaultLocation` | the promise readers of the default location rely on | abstract |
| `StockLocations` | `stock-locations.service.ts`, the scripts | `code`, `defaults`: table `StockLocation`; `req`: requests |
| `InvoiceSync` | `syncInvoices`, `markInvoicesImported`, `clearPendingInvoices` | `blob`: the `SecureConfig` document; `issued`, `date`, `now`: Axonaut and the clock |
| `InvoicePages` | `listInvoices` inside `syncInvoices` | `list`: the loop over the pages |
| `DocumentIngest` | `documents.service.ts`, product edits, products of the Husse import | `products`, `booked`: tables `Product`, `StockMovement` |
| `CatalogueImport` | `importProducts`, `upsertProducts`, `ensurePackaging`, families, edits of products and names | `products`, `names`: tables `Product`, `Packaging`, `Family`, `SubFamily`; `req`: an import at one of its calls |
| `StockLedger` | inserts of `stock-movements` and `inventories`, the sums of `stock.service.ts` | `rows` |
| `StockSync` | `getStockAt`, `syncStock`, `updateStock` | `axonaut`: what Axonaut holds |
| `ConfigCache` | `setConfig`, `getConfig` and `loadFromSecureStore` of both services, `secure-config.service.ts` | `cache`: `this.config`; `store`: the document; `saves`: promises nobody awaits |
| `HusseSession` | `ensureConfig`, `resolveCredentials`, login, logout, `fetchPages` | `cookie`: `cookieHeader`; `origin`: `allowedOrigin` |
| `LoginRateLimit` | `login-rate-limit.guard.ts` | `buckets` |
| `Accounts` | `auth.service.ts`, `auth.guard.ts`, the scripts on the master database | `tenants`, `users`: the tables; `session`: a token a client holds |
| `StockValuations` | `stock-valuations.service.ts` | `stored`: table `DailyStockValuation`; `price`, `locations` |

`StockSync` and `StockValuations` extend `StockLedger`; `InvoicePages` instantiates
`InvoiceSync`; `StockLocations` instantiates `DefaultLocation`; `HusseSession` extends `ConfigCache`
and says who uses the cache; `Accounts` extends `LoginRateLimit`, which its logins pass. The `MC...` modules give the
constants of the runs; `...Proofs` hold the theorems. A definition whose comment begins with
"Mutant" is a plausible slip in the definition after it, kept to see that a property notices;
no specification uses it.

History variables (named so where they are declared) never guard an action. They say which
writer an unswept default came from, what clients marked, whether a request was alone when it
saved, whether requests have overlapped at all, which tenants wrote a cache, when attempts were
lately let through, who wrote while an import was under way: what a property has to know about
the past.

### Abstractions

- `StockLocations` leaves out `name` and `isActive` (`findDefault` does not look at it).
- `InvoiceSync` takes the pages as one answer; `InvoicePages` opens it. Content of an invoice is
  left out: only its id and date matter to the list. A 429 is in `InvoiceSync`; in `InvoicePages`
  it is one of the failures of `Abort`. Entries kept in the list keep their place and content,
  which the set does not show.
- `DocumentIngest`: ranks stand for ids; `sale` (`priceSaleHt`) stands for every field that
  `mergeAxonautFields` checks, `price` is the one that it writes along with `sale` without looking
  at it. A price of 0 that comes in is a price, `NoPrice` is none; a price of 0 that is there is
  none. A reference stands for sku, name and code after normalisation; the lookup of the default
  location and `ensurePackaging` are left out (they touch nothing else here).
- `CatalogueImport` begins once the catalogue has been fetched: a page or listing whose fetch fails
  is left out by the code, so what is read is just another, shorter catalogue. One price, sale
  price, packaging, family and sub-family stand for the fields that are written alike; name,
  description and `isActive` are left out. Renames and deletions of names are left out, and what
  ingests write to the catalogue is written by the users. `Fails` is any call for an item of an Axonaut
  import that fails for a reason of its own, a busy or slow database: nothing is written, the error is
  noted and the loop goes on, as the `catch` at `axonaut.service.ts:1222` has it. `Abort` is what ends an
  import: the server stops, or a call of a Husse import fails, which nothing catches. A call that fails
  although it has written, the answer being lost, is left out: SQLite runs in the server.
- `ConfigCache` and `HusseSession`: `AxonautService` and `HusseService` keep their configurations in
  the same way and share nothing, so a behaviour is about one of them, chosen in `Init`. `Reloaded` is
  what a service makes of a configuration it had stored: Axonaut stores the key alone. A cookie is
  the account that logged in. A session that Husse has ended gives a login page, which the
  parser takes for a page without products: the control is the same, so it is left out.
- `LoginRateLimit`: counts above the first refused one are alike. The guard can be switched off by
  the environment, which leaves nothing to model; its history begins anew with the process.
- `Accounts`: an account is its password, and the role goes the same way; hashes and
  signatures are taken to be sound, so a token is what it was signed for. The signing key is the
  start of the process if none is configured. One client keeps one token.
- `StockLedger`: a tick holds all the dates whose order two writes cannot tell; rows are never
  changed or deleted, as no service does it.
- `StockValuations`: a day is `DayLength` ticks; amounts are small integers, so the 32-bit column
  `totalValueCts` does not overflow (a refusal by the database is in `Abort`).

## Runs

Each run is a `.cfg` of the same name.

| Run | Shows | Bounds, and why they do |
|---|---|---|
| `StockLocationsConcurrent` | types and unique codes; `DuplicateDefaultsExplained`; `DuplicateDefaultsSettle`; `PromiseKept` | two requests, three codes: two rows and a third that clashes or is inserted; all PATCH flags, scripts, crashes. The hazards are between two requests |
| `InvoiceSyncConcurrent` | `NothingSkipped`, `GoneStaysOut`, `QuotaRespected` | two requests, one invoice (invoices never influence each other: the properties speak of each alone), four instants with a reset every two, dates prompt, ahead, late or missing |
| `InvoicePagesListing` | `LostOnlyPastLastPage`, `ListingIsAtomic` | five invoices on pages of two: three pages, the last one not full |
| `DocumentIngestSerial` | `BatchIsComplete`, `BookedOnLinkedProduct`, `SalePriceProtects` | one request; an invoice, a delivery, a credit note and an anonymous document that share references, a product whose name is another's sku, lines with a price, without one and with 0, products from users and from Husse |
| `DocumentIngestConcurrent` | `BookedOncePerOverlap` | two requests on two documents with a common reference, edits and faults anywhere; no price but 0, as prices do not touch how often a document is booked |
| `CatalogueImports` | `RefusalsExplained`, `ImportedIsCurrent`, `OneGetsThrough` | two requests, three references, three imports of two catalogues of Axonaut (`renamed` is `first` after a product took another reference and another lost its id, with an item that has neither) and one listing of Husse (with and without price, family and reference), one event, an edit by a user or a call that fails, crashes anywhere: a third import meets what two overlapping ones left |
| `HusseSessions` | `AnsweredIsStored`, `UsesOwnLatest`, `PagesOfOwnAccount`, `NoPageWithoutSession` | two tenants, two requests in flight, two configurations set, imports of two pages, one restart: a page under way when somebody else logs in, a save that overtakes another, a load that a second tenant overtakes |
| `AccountsAndLogins` | `BurstsBounded`, `RefusedOnlyWhenFull`, `RetryAfterIsEnough`, `SessionsAgeOut`, `GuessedTenantWasOnly`, `RefusedStartExplained` | one address with and without an email, two attempts in windows of two ticks, seconds of two ticks, four logins over three ticks, so that two windows meet in one stretch; two tenants, one script, two starts |
| `StockSyncAlone` | `SyncTypeOK`, `SyncedStockIsCurrent`, `PastStaysTold` | one request; two products, two locations, two rows before, between and after its queries |
| `StockSyncLocations` | `EveryLocationCounts` fails | one product, two locations, three rows |
| `StockValuationsOverlap` | `TotalsAddUp`, `StoredIsFinal` | two requests, two locations, two days, windows of one and two days, two prices, a row dated anywhere |
| `StockValuationsExact` | `ClosedDaysAreExact` | one request across midnight, two-tick days, two rows, a location added |

Deadlock is checked in all of them but `CatalogueImports`, `HusseSessions` and
`AccountsAndLogins`, which end when their imports, requests, sets, scripts and starts are used up.

### Fairness

Only `DuplicateDefaultsSettle` is a liveness property. `FairSpec` has weak fairness of `Continue`,
the next database call of a POST or PATCH in flight: the event loop comes back to a promise
once SQLite has answered, and nothing else disables the step for good. No fairness is assumed of
clients, of the clock or of Axonaut. The property gives up (`unswept # {}`) when a writer that
never unsets the other defaults set one: then nothing in the code is bound to repair it.

### What is not as the documents say

One run ends in a counterexample:

- `StockSyncLocations`: `stock.service.ts:17` returns the stock at a date, but the last inventory
  of any location resets what the other locations hold. The valuations compute per location.

Seen while modelling, without a run of their own:

- `documents.service.ts:447` says that Axonaut's data are added if the product does not have them yet.
  A product that Husse imported has a price and no sale price (`husse.service.ts:185` and `:198`);
  `mergeAxonautFields` looks at the sale price alone and writes both prices, so an ingest replaces
  the price from Husse, without any second request. `SalePriceProtects` says what is safe. A price
  entered since the product was read may be overwritten as well.
- `importProducts` looks for a product by id or reference, so an item without an id may be found on
  a product that a later item of the same catalogue, which has its id, then gives another
  reference; the reference of the first is gone though its import noted no error. Two imports that
  overlap may do the same to each other. `ImportedIsCurrent` therefore excludes the imports in which an
  item answered to two products or a product to two items (`torn`); within that limit it holds for
  any overlap, but for the items whose own calls failed.
- A sync loads the list of pending invoices, waits for Axonaut and saves its copy, so an invoice
  marked meanwhile is pending again (README.md:70 calls them the invoices not imported).
- The page count of a sync is read once, so an invoice issued before the last page pushes another
  one past it and `lastSyncAt` passes that one (README.md:69 calls the sync incremental). An undated
  invoice returns at the sync after a clear that advanced `lastSyncAt` (`axonaut.dto.ts:43`), and an
  invoice entered late with an earlier date is never listed.
- `this.config` is one for the process, so a request may go on with the key of another tenant that
  configured or loaded its own (README.md:7 and :61 keep settings in the base of the tenant). Axonaut
  URLs of one's own are gone after a restart, as only the key is stored.
- A start that died between the default tenant and its user makes every later start fail on the
  code of the tenant. The bootstrap script run again makes its location a default again
  (OPERATIONS.md:48 says it just updates tenant and user).
- `documents.service.ts:77` skips a line when its product is unknown and cannot be created, and also
  when another ingest has just created it. An ingest books a movement of 0 for a line without
  quantity (`stock-movements.service.ts:295` refuses one).
- Of two overlapping sync-stock calls the older stock may reach Axonaut last.

## Proofs

The theorems hold for every value of the constants that satisfies the named assumptions, all of
which are evaluated by the runs.

- `StockLocationsProofs`. `TypeCorrect`: rows are only added, so ids that a request remembers stay
  valid; codes stay unique because each write checks. `DuplicateDefaultsAlwaysExplained` is
  inductive with the types: a step that adds a default leaves its request about to unset the
  others, or marks the row. `AtMostOneDefaultWhenQuiet` follows. `CalmServiceKeepsPromise` shows that
  the service implements `DefaultLocation` as long as no two requests overlapped and no PATCH
  cleared the flag. `PromiseKept` is not inductive: `CalmInv` adds that at most one request is in
  flight, that a create without the flag has seen a default, and that the row about to be kept
  still is one. `DefaultOf` needs the well-foundedness of `<` on the naturals.
- `InvoiceSyncProofs`. `NothingEverSkipped`: what is saved covers what lies behind its watermark,
  and so does every document that was loaded or waits to be saved (`IInv`); no watermark is ahead
  of the clock, so an invoice issued later on time cannot fall behind one. `GoneNeverReturns`:
  after a drop with nothing else in flight, every document loaded lacks the invoice and has a
  watermark beyond its date, and a sync looks from the watermark it loaded (`GoneInv`).
  `QuotaAlwaysRespected`: a reset still ahead is in the saved document and in all that wait to be
  saved (`QuotaInv`).
- `InvoicePagesProofs`. `OnlyPastLastPageLost`: invoices are dated in the order of their issue
  (`DatesInv`), so those of the window come first, and an invoice only moves to later pages; what
  lies before the next page has been read (`PageInv`). `ListingImplementsAnswer`: while nothing is
  issued between two pages every page of the count is full but the last (`FullPagesHoldAll`), and
  the saved list is what `InvoiceSync` computes from one answer; `SaveInv` says that no quota is set
  here and that the saved list only grows. The division into pages is settled by five lemmas.
- `DocumentIngestProofs`. `TypeCorrect`, and `NeverBookedAgain`: the batches of a tracked document
  plus the slots that work on it never exceed the number of slots once it is booked, as a new
  request sees the batch. It assumes a finite set of slots. `BatchesAlwaysComplete`,
  `AlwaysBookedOnLinked` and `SalePriceAlwaysProtects` are about ingests one after the other: one
  slot and no edit while it is busy (`OneRequest`, `~ EditsOverlap`), which is what
  `DocumentIngestSerial` runs; with two slots TLC finds them false, and the hazards list says why. A
  batch is complete only if no creation of a product fails for a reason outside the model (`~
  FaultyCreate`); the other two do not need that. `SalePriceAlwaysProtects` rests on what a merge
  has read of its product being what is there (`Resolved`), and on the sale price being the one it
  looks at. `SerialInv`: what the queries of a line found is still so when the request acts on it
  (`Resolved`: in particular no product has the reference or the id of a line that is about to
  create one, so the database does not refuse it), the lines it went through have their movement or
  no reference (`Covers`), and movements of lines with an Axonaut id are on linked products
  (`OnLinked`), which nothing unlinks.
- `CatalogueImportProofs`. `TypeCorrect`, whose invariant also says that an item that is worked on
  has a reference and that items stay within their catalogue. `RefusalsAlwaysExplained`: what an
  import found out about its item (no such name, no such product, this product with that reference
  and id) stays so until somebody else writes (`Known`), through every step of the others
  (`StepOf`), and no two products share a key (`OneOwner`). A refused update then shows a second
  product that the item answers to.
  `ImportedAlwaysCurrent` is for any catalogues, slots and bounds; what it does not speak of is in
  `ImportedIsCurrent` itself: an import during which somebody else wrote, another import died or an
  item was disputed, and of the others the items for which a call failed (`lost`), in this import or
  in one that it overlapped. That the rest of the catalogue is there although calls failed is part
  of it. What a step is for the history of the requests is one of four things (`StepKind`: quiet, a
  look that tears, a spoiling by a user or a fault, a write), so as long as one import of a
  catalogue is `Good`, every write is by another good one (`GoodStep`). `CurrentInv` then says that
  the packagings of the items gone through are there (`NamesInv`); that a product about to be
  updated belongs to its item alone and shows what was read of it, or already what the item says
  (`HeldInv`), so that the update of a good import is never refused; and that an item of a good
  import is shown by a product, or some good import has it ahead, or it is among those `lost`, which
  stay so until the last of the overlapping imports has ended (`HandledInv`, `LostStays`). An import
  that loses a creation loses it to one that has the item as it should be; one that loses the
  creation of a packaging is `Doomed`, and the winner has the item ahead.
  `OneAlwaysGetsThrough` is for any number of slots: were all of them held by Husse imports that
  overlapped nothing else, and all refused or bound to be (`Late`), they were so one step before, as
  a step that makes or leaves an import late is a refusal and writes nothing (`HusseOwn`).
- `HusseSessionProofs`. `AnsweredAlwaysStored`: the last answered configuration of a tenant is its
  last one in `saves`; another save of the tenant that lands before it leaves it there, one that
  lands while an earlier one is under way marks the tenant as lost. `OwnLatestAlwaysUsed`: what is
  in memory, what a load has read and what a request goes on with are each the last of the tenant at
  some moment of the request, while the memory was written for that tenant alone and nothing slipped
  in a load (`MemoryInv`, `OwnAt`). `PagesAlwaysOfOwnAccount` and `NeverPageWithoutSession`: an
  import that fetches undisturbed sees its own cookie or none, and the origin is set exactly while
  there is a cookie (`SessionAt`, `SessionInv`).
- `AccountsProofs`. `RetryAfterAlwaysEnough`: the bucket of a key that was refused ends by the instant
  that was told, or is one made since and ends more than a window after the refusal (`ToldBy`);
  seconds rounded up are no less than the time they stand for. `SessionsAlwaysAgeOut` and
  `GuessedTenantWasAlwaysOnly`: a login under way and the session it becomes agree with both tables but
  for the tenants written since (`LoginOn`, `SessionOn`). `RefusedStartsExplained`: a tenant without a
  user has a script or the start about to give it one, or was left by a death (`StartInv`).
  `BurstsAlwaysBounded` and `OnlyRefusedWhenFull`: what was let through since the live bucket was made
  is its count, up to the limit, and what was let through in the window before is less than one
  bucket's more (`BurstOn`): two buckets of a key never overlap, and a stretch as long as a window
  meets two at most.
- `StockProofs`, about `StockLedger`, `StockSync` and `StockValuations` together. What the library
  calls a sum is a recursive function over sets; `Induction`, an induction over finite sets by the
  well-founded order of their subsets, gives its equations (`SumRecursion`), and from these come the
  sums over a union, over equal terms and over zeros. The balances that the stock is compared with
  are defined tick by tick: `StoryExists` and `BalanceAt` show that the definition determines them,
  by induction on the ticks; `PastIsSettled`, that rows dated later or about other products do not
  change them; and `TwoQueriesTellTheStory`, that an inventory among the last ones and the movements
  since add up to one of them. `SyncTypesHold` and `ValuationTypesHold` are the types, for a finite
  set of products. `PastStaysToldAlways`, `SyncedStockIsCurrentAlways` and `ClosedDaysStayExact`
  assume that rows are dated by the server (`~ Dated`): a client may enter a row in the past, and
  then no stock told before can stay right. `SyncedStockIsCurrentAlways` assumes one caller besides:
  overlapping syncs are not ordered. Its invariant follows the stock from the first query to the
  answer of Axonaut: what was summed, pushed or confirmed is the stock of the rows seen at that
  moment, or a row has come since (`SumIsCurrent`, `PushIsCurrent`, `ConfirmedIsCurrent`).
  `TotalsAlwaysAddUp` and `StoredAloneIsFinal` have no hypothesis. As long as no location was added
  to the first ones, days are missing, stored and upserted as a whole (`Whole`), and values computed
  together add up (`FixedInv`); locations are only ever added, so what holds until then is inductive
  (`TotalsInv`). Who computes a value again found it missing before it was stored, so was in flight
  when it was (`FinalInv`).

Every invariant and action property that a run checks is a theorem. Only model-checked: liveness
(`DuplicateDefaultsSettle`), which is beyond the prover, and the counterexample of
`StockSyncLocations`.

## Plan

Done in this order, the most important behaviour first: locations and their promise; the list of
invoices; the ingest; the ledger with its readers; the paging; the imports of a catalogue; the
configuration with the session that uses it; the accounts with the rate limit. Next:

1. `IngestAndSync`: front end, pending list and ingest composed: an invoice that is marked imported
   has its movements.
2. Proofs: what the hypotheses leave out, as a property that holds without them: how much of a
   batch two overlapping ingests may lose, and which of two overlapping syncs Axonaut keeps.

Not planned: HTML and PDF parsing, the Excel export, encryption, signatures, wiring.
