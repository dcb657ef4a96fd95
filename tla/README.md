# BorderFlow: a TLA+ model of a cross-border back office

BorderFlow is a back office for cross-border shops: a NestJS API over PostgreSQL (through
Prisma) and a React client. Its difficulty lies in two places. On the server, HTTP requests
read the database, decide in memory and write later, many at once, on rows they share. In
the client, answers that were asked for at different moments fill one cache and one session
store. This directory models both. Every definition follows the code under `src/`;
`PROJECT.json` maps each one to its lines.

## 1. The system

All services are stateless; the state is the database. Two requests interact only through
its rows, row locks, unique indexes and foreign keys, at the isolation level the code leaves
at PostgreSQL's default, READ COMMITTED. A handler runs from one `await` to the next without
interruption, and anything may happen at an `await`.

| component | state | operations | what is hard | what makes it correct |
|---|---|---|---|---|
| Order status machine (`orders/order.service.ts`) | `Order.status`, `OrderTimelineEvent` | `updateStatus`; reads | the order is read before the transaction and decides everything after | committed changes follow the table; the timeline is a chain; stock and status agree |
| Inventory (`inventory/inventory.service.ts`) | `Inventory`, `InventoryAllocation`, `InventoryTransaction` | `initialize`, `adjust`; inside an order's transaction `reserveForOrder`, `fulfillOrder`, `releaseOrder` | stale reads, guarded updates, row locks in conflicting order, a failure half way through several items and warehouses | no negative stock; the journal explains every quantity; locked stock is what orders in picking hold; all or nothing |
| Manual order intake (`OrderService.create`) | `Order`, `OrderItem` | one validated insert with its audit row | store and products are checked before the transaction; the order is read again after it, which may fail | an order and its audit row stand or fall together |
| Sales channel import (`channels/`) | `ChannelSyncRun`, `ChannelSyncLog`, `ChannelSkuMapping`, `ChannelConnection`, new orders | `importMockShopifyOrders`, `createSkuMapping`, webhook, OAuth | long calls without a transaction, redelivered and overlapping batches, failures in the error path, one shop on two connections | one order per external order; counters and logs tell the truth; every payload is accounted for |
| Product catalogue (`products/`) | `Product.status`, `Sku` | create and edit, status, `deleteSku` | reviews and deletions decided on an earlier read; the audit row is a second statement | no line about a SKU that is gone; every status a product reaches is explained by its audit log or by a request that ended in an error |
| Stores and warehouses (`stores/`) | one row each | create, update | a store is switched off while orders for it are under way | names are unique; a warehouse never changes its store |
| Sessions (`auth/auth.service.ts`) | `RefreshSession`, tokens, the refresh cookie | login, refresh with rotation, logout, me | two refreshes of one token; logout during a refresh; an answer that is lost after the rotation | a rotated token has one successor, of the same user; a logout leaves no session open |
| Guards (`auth/*.guard.ts`, `auth/permissions.ts`, `tenants/`) | none | decisions on role and tenant | two tables, in the API and in the client, that must agree | no control is offered that the API forbids |
| Audit log (`audit/`) | append-only rows | `record`, inside a transaction or after a write | a write whose audit row fails | at most one row per change, and every request answered as a success has its row |
| Web client, session (`apps/web/src/auth.ts`) | access token and user of each tab | refresh on start-up, login, logout, reload | late and lost answers of several calls and tabs | a page shows the user its token belongs to; the spinner ends |
| Web client, pages (`apps/web/src/*Page.tsx`) | the query cache, the open page and dialog | eight pages with their queries, controls and success handlers | a change while a query is under way; what to ask for again; leaving a page | users see what they have done |
| Dashboard (`dashboard/`) | none | aggregates | none | reads only |
| HTTP infrastructure | none | request ids, envelopes, error format | none | wording and layout only |

`updateStatus` calls the three stock routines of `InventoryService` inside its own
transaction. Imports and manual intake create the orders that `updateStatus` moves later.
`deleteSku` competes with both for SKUs, and with imports for their mappings. Every service
writes audit rows through `AuditService`. The web client only calls the API.

`PROJECT.json` lists the hazards, each at the line where it bites.

## 2. Modules

| module | role |
|---|---|
| `Fulfilment` | `updateStatus` and all writing operations of `InventoryService`, as concurrent transactions |
| `StockLedger` | what fulfilment promises: each operation at once and completely |
| `MCFulfilment` | instances for TLC |
| `Fulfilment_proofs`, `FulfilmentOrders_proofs`, `FulfilmentStock_proofs` | theorems about stock and journal; about locks and the timeline; about allocations, the ledger and the split over warehouses |
| `Sums` | lemmas about sums over finite sets |
| `ChannelImport` | imports, mappings, SKU deletion, and their failures, statement by statement |
| `MCChannelImport`, `ChannelImport_proofs` | instances for TLC; theorems about imports |
| `Catalog` | products, SKUs, stores, warehouses, manual orders and the audit log |
| `Storefront` | extends `Catalog`: OAuth connections and the orders of webhooks; the composition that is checked |
| `MCStorefront`, `Storefront_proofs` | an instance for TLC; theorems about the composition |
| `Sessions` | the session rows, the cookie of each browser and the session store of each tab |
| `MCSessions`, `Sessions_proofs` | an instance for TLC; theorems about sessions |
| `Access` | roles, permissions, and what each route demands |
| `Console` | extends `Access`: one window of the client over its query cache |
| `MCConsole`, `Console_proofs` | instances for TLC; theorems about the window |

A definition named `X_<slip>` is `X` with one plausible mistake. No action uses it. Each
property has at least one such definition that breaks it (`mutants` in `PROJECT.json`).

### Fulfilment

`tx[r]` is what request `r` keeps in local variables: its program counter, the status it
read (`from`), the items left, the rows or allocations to visit (`visits`, `at`), the
quantities it has read (`seen`) and what is left to reserve. `stock[v]` is the committed
version of an `Inventory` row with its allocations and the totals of its journal, `draft[v]`
the newest version of it, committed or not, and `owner[v]` the transaction that holds its lock.

| action | code |
|---|---|
| `ReceiveStatus` | `order.service.ts:95-103`: read, transition table, start of the transaction |
| `BeginReserve` | `inventory.service.ts:137-145`: `findMany` by warehouse id; what to take is computed from it later |
| `BeginSettle` | `:157-161`, `:172-176`: the RESERVED allocations and the check of their sum |
| `MoveRow` | one turn of the three loops: guarded `updateMany`, allocation, journal |
| `RejectItem`, `RejectRow` | the exceptions of the three routines; the transaction rolls back |
| `CommitStatus` | `order.service.ts:107-114`: `order.update` by id, timeline, audit, COMMIT |
| `ReceiveAdjust`, `AdjustRow`, `RejectAdjust` | `inventory.service.ts:99-133` |
| `ReceiveInitialize`, `CreateRow`, `RejectCreate` | `:52-96` |
| `CommitStock` | COMMIT of an inventory request |
| `DeadlockVictim`, `Abort` | PostgreSQL's deadlock detection; a crash, a lost connection, Prisma's time-out |

Modelling decisions:

- A plain SELECT sees the transaction's own writes, else committed rows (`Visible`).
  An UPDATE waits for the row lock and then evaluates its filter on the newest version
  (`CanLock`, `GuardHolds`): that is READ COMMITTED, and why the guarded `updateMany` of the
  code is one action.
- The journal and allocation rows are written under the row's lock, so they share its action.
- `order.update`, the timeline event and COMMIT are one action: nothing after the
  order's own lock waits for anybody.
- Quantities are int4 columns: an update past `MaxInt` is an error and rolls back.
- `fulfillOrder` journals a shipment as `SALE`; the model calls the entry `SHIPMENT`,
  because it takes from locked stock while a `SALE` of `adjust` takes from available stock.
- The before/after snapshots of a journal entry, notes, actors and audit rows are left out.
- One tenant; a SKU's rows of one store are `Candidates[i]`, constant because a warehouse
  never changes store.
- `OneAtATime` is an assumption switched on by some runs: no two status changes of
  one order overlap. Nothing ensures it: the API does not, and in the client even one
  window can overlap two changes, because the status select of an order's drawer
  (`OrdersPage.tsx:70`) is not disabled while a change is under way. It is what an operator
  who waits for every answer does. Section 4 says which properties need it.

### StockLedger

The abstract specification: `Pick`, `Ship`, `CancelPicking`, `Move` and `Restate` change
status and quantities at once. `Fulfilment` maps its committed rows to it
(`Ledger`): quantities are the committed columns, `held` the RESERVED
allocations. `ImplementsLedger` says that every commit is exactly one ledger operation and
everything else, including the loss of a half-finished transaction, a stutter.

### ChannelImport

`imp[i]` is what a running import keeps in memory: position in the batch, SKUs it has
resolved, counters, the code of the log row to come. `run[i]` is its `ChannelSyncRun` with
the logs. One action per `await`: `Start`, `FindDuplicate`, `ResolveSkus`, `CreateOrder`,
`WriteLog`, `Finish`, `Touch`; `RecordEvent` is a webhook of another topic. `MapSku`,
`FindUnused` and `DeleteSku` change the catalogue in between. With `Faults`, any statement
may fail (`Fail`), take effect and lose its answer (`LoseAnswer`), or the call may end for
good (`Stop`: an exception in the catch block, or the end of the process).

Left out: prices, currencies, quantities and payment status, which decide nothing in this
call; connections that are not ready, whose imports change nothing; the signature
check; inventory of the SKUs (a SKU with inventory is not in `Skus`: `deleteSku` refuses it).
OAuth, the choice of a connection and the payment status of a webhook are in `Storefront`.

### Catalog and Storefront

`req[r]` is a request: what it asks for (`job`), where it is (`pc`) and the one thing it
keeps from its reads (`saw`: the status of a product, the store of a connection). Every
operation has the shape of the code: `Check` reads and decides, one action per operation
writes, `Record` adds the audit row in a statement of its own. `CreateOrder` and
`ImportOrder` insert the order and its audit row together, because the code does it in one
transaction. `Record` may take effect although its answer is lost, and `Fail` may strike
before each statement, the reads for the answer (`Reply`) included: an error does not mean that
nothing was written.

| action | code |
|---|---|
| `Check` (`Accepted`, `Unchanged`) | the reads and conditions at the head of every method of `ProductService`, `StoreService` and `OrderService.create` |
| `CreateProduct` .. `DeleteSku` | the write of the method of that name; unique indexes and foreign keys decide again |
| `CreateStore` .. `UpdateWarehouse` | the four writes of `store.service.ts` |
| `CreateOrder` | `order.service.ts:65-91` |
| `Record` | `AuditService.record` after the write |
| `Reply` | what is left when all is written: `getById` (`order.service.ts:92`), the product again when its status is the one asked for (`product.service.ts:86`), the log, run and connection of a webhook (`channel.service.ts:98-108`) |
| `StartOAuth`, `CheckOAuth`, `CompleteOAuth`, `ExpireInvitation` | `startShopifyOAuth`, `completeShopifyOAuth`; the state token is a signed JWT of ten minutes |
| `FindConnection`, `EnsureConnection`, `ImportOrder` | `handleShopifyWebhook`: any connection of the shop, its store, the import |

Decisions: the reads of one `Check` are one action, since no write between them matters that
would not matter as much between `Check` and the write; the import is one write here, because
`ChannelImport` has its statements; a row that is created names the fresh id it will get
(`j.store`, `j.sku`), which is why those writes wait for `~ StoreExists(j.store)` and the
like; deletion of stores and products does not exist in the code; one tenant.

### Sessions

A number `k` stands for a `RefreshSession` row, its refresh token and the access token issued
with it. `granted` holds the rows (user, browser, the row it replaces), `revoked`, `expired`
and `lapsed` what time and calls do to them, `cookie[b]` the refresh cookie that the tabs
of a browser share, `tab[t]` what `auth.ts` and `App.tsx` hold and show in a tab, `call` the
calls made so far.

| action | code |
|---|---|
| `OpenPage` | `App.tsx:147-154` and `auth.ts:50-72`: the start-up asks `me` with a stored token, else `refresh`; a reload abandons the tab's calls |
| `SubmitLogin`, `ClickLogout` | the login form; the button next to the user |
| `CheckMe` | `JwtAuthGuard` and `me`: no session row is consulted |
| `ReadSession`, `Rotate` | `auth.service.ts:39-46` and `:51-62`: read in one statement, revoke and create in a transaction that names the row only by id |
| `LogIn`, `LogOut` | `auth.service.ts:20-35`, `:68-74` |
| `Arrive` (`PageAfter`, `CookieAfter`) | the answer with its cookie, and what the page does with it |
| `Lose` | the connection breaks; the server may still do its part |
| `Lapse`, `Expire` | fifteen minutes, thirty days |

`calm`, chosen in the initial state, says that a browser has one tab, waits for every
answer, and that no answer is lost. Some properties are promised to such browsers only, and
their comments say so; the others hold whatever overlaps.

### Access and Console

`Access` is the role table of `permissions.ts` and the decorator of every route.
`Console` is one window: `page` and `dialog` are what is shown, `entry[q]` is the cache
entry of a query (has an answer; which changes of this window the answer lacks; is marked
out of date; how far a request has got; which changes came too late for it), `edit` the
changes sent so far.

| action | code |
|---|---|
| `Visit`, `OpenDialog`, `CloseDialog` | the links of `App.tsx`, the drawers and dialogs of the pages; `Reads` is every `useQuery` with its `enabled` flag |
| `Reload` | the window loaded anew: an address typed in, the page reloaded, `window.location.href` on the overview (`App.tsx:129`); the cache is empty again |
| `LeaveForShopify` | `window.location.assign` after OAuth was started (`ShopifyPage.tsx:26`) |
| `Answer`, `Refuse`, `Land`, `Break` | a request of React Query: read by the server, refused for the role, stored, lost |
| `Age`, `Focus`, `Forget` | `staleTime` (`main.tsx:10`), refetch on focus, `gcTime` |
| `Submit` (`Offered`, `Blocked`) | the controls with the role flags of each page and what disables them |
| `Commit` | the server's part of a change: `Touches` lists every query whose answer shows something it changes |
| `Acknowledge`, `FinishRefetch`, `Complain` | `onSuccess` and `onError` of the mutations: what is invalidated (`Refreshes`), what closes, what waits |

How the cache works is React Query's affair (version 5, as the client declares it) and is
modelled from its use: an invalidation marks a query and asks again for the ones
on screen; a request under way is cancelled for it only if the query has data already. The
dialogs do not appear as state of their own where they read nothing.

## 3. Runs

| run | instance | shows |
|---|---|---|
| `lifecycle` | 2 orders, 2 rows, 4 requests, `OneAtATime` | quantities, journal, allocations, status and timeline agree at every moment; every commit is one operation of `StockLedger` |
| `races` | 1 order over 2 rows, 5 requests, overlapping freely | quantities, journal and reservations without that assumption; what the timeline still tells |
| `picks` | 2 orders of 2 items each over 3 rows, 3 requests, fairness | the warehouse split empties rows in order; every request is answered although baskets deadlock |
| `cancel_race`, `transition_race` | as `lifecycle`, 2 requests, overlapping | counterexamples, section 4 |
| `imports` | 2 imports, 2 connections, 3 batches, no faults, fairness | one order per external order, whole orders, exact counters, every run ends |
| `import_faults` | 2 imports, 2 batches, faults everywhere | what counters and logs still say |
| `import_race` | 2 imports of one order | counterexample, section 4 |
| `backoffice` | 3 requests, each one of 24 jobs, over 3 products, SKUs and stores, 2 warehouses, 2 shops | references between tables, the audit log with the review of a product, one order per shop order |
| `sessions` | 1 browser, 2 tabs, 2 users; 5 calls if calm, else 3; fairness | whose session a page shows, which sessions are left, every spinner ends |
| `console` | 8 pages, 4 roles; 3 moves and 2 changes if calm, else 2 and 1 | confirmed changes are shown; nothing forbidden is offered |
| `stale_drawer` | as `console` | counterexample, section 4 |

Why the bounds are enough for their questions:

- *Lifecycle*: order `o1` needs 2 units and finds 1 in the first warehouse, so it splits;
  `o2` wants one of the same units. Four requests allow an
  order's whole life (pick, ship, complete) next to one more request, and a pick and a
  cancel next to two. Row 2 opens with a locked unit no order holds, as the seed
  creates. `MaxInt = 4` lets a restock overflow.
- *Races*: five requests allow pick, ship and cancel of one order to overlap with the
  creation of its second row and an adjustment, in one behaviour; every job may also be
  requested again, so a row may be created twice and an order picked twice.
- *Picks*: each basket needs row 3 and one of rows 1 and 2, in either order: the smallest
  deadlock with a split on one side.
- *Imports*: batches repeat an external order within a batch, across batches and
  with another order number; the second connection has a SKU unmapped, and collides with the
  first on order numbers. Two overlapping calls are enough because calls interact only
  through the orders, mappings and SKUs that exist, and each may do so at any `await`.

- *Backoffice*: every property relates at most two requests that overlap (two status changes
  of a product, two events of a shop, an edit and the deletion it competes with) and
  one that prepared their state; the third request is that one, or the change that goes by
  a status nobody has logged. The draft product goes through its review, the published one has a
  SKU that is edited, deleted and ordered at once; names and codes collide; one store is
  connected to a shop and another one may be connected to the same shop.
- *Sessions*: two tabs share a cookie, so rotation, logout and login of different users
  overlap on it; three calls are enough for a refresh against a refresh or a logout with one
  in flight already, and five let a calm browser log in, reload twice with the token lapsed,
  log out and in again. Browsers do not interact except through rows they never share.
- *Console*: the longest story a property is about visits a page, changes something, leaves
  and comes back (three moves) while a second change is confirmed. Queries of one page do
  not interact except through changes, and all eight pages are present.

`calm` in `Sessions` and `Console` is a choice of the initial state: one run
covers both the patient user and everything else.

Requests are used once, so each system stops: `CHECK_DEADLOCK FALSE`. That no request is
stuck is checked as `EveryRequestAnswered` and `EveryRunEnds` instead. Symmetry is used over
requests or imports only, in runs without liveness properties.

Fairness: `WF` on each request's `Progress`, because Node's event loop runs a handler on as
soon as the statement it awaits has returned; `WF` on some deadlock victim, because
PostgreSQL breaks every deadlock. In `Sessions`, `WF` on the progress of a call that a page
waits for: it is answered, or the connection breaks (`api.ts` sets no time limit of its own);
a call nobody waits for any more need not be served. Requests need not arrive, and failures
are never fair.

## 4. What the runs say about the code

Without any assumption, whatever overlaps and fails: quantities stay in range, the journal
adds up, reserved units are all in allocations, every event of an order's timeline is a legal
change from a status the order had before, and an external order becomes one order. An
order and its audit row stand or fall together; no change is audited twice or before it is
made; a request answered as a success has its row. Every logged change of a product's
status is a legal one, from a status the product came to by changes that are logged or whose
request is unanswered or ended in an error (`ReviewTrail`).

`LockedMatchesReserved`, `OrderStockAgrees`, `TimelineChains`, `StatusFollowsTransitions`
and `ImplementsLedger` hold only while status changes of one order do not overlap. Four
counterexamples show where the code departs from what is said of it:

- `cancel_race`: picking and cancelling a PAID order overlap. The cancellation read PAID, so
  it releases nothing; it commits last and leaves a CANCELLED order with reserved stock that no
  later request can free. `order.update` names only the id; the status it was decided on is not
  part of its filter.
- `transition_race`: for the same reason a change can commit that the table forbids.
- `import_race`: of two simultaneous submissions of an external order, the second one may
  find the unique index instead of the order and is logged as IMPORT_ERROR instead of
  DUPLICATE_ORDER.
- `stale_drawer`: a status change invalidates the lists of orders, not the order's own query,
  and closes the drawer. Opened again within thirty seconds it shows the old status, and its
  select offers the steps of the old status.

What holds only for `calm` users or requests, and what happens otherwise:

- `SuccessorsAreUnique`, `NoSessionLeftBehind`: two overlapping refreshes of a token both
  read a live session and both create a successor; the cookie keeps the one whose answer
  arrives last, and the other stays live until it expires. Likewise for a logout that overlaps
  a refresh, and for the answer of a login that is lost.
- `ShopOrderOnce` holds whatever overlaps, as long as no shop was ever connected to two
  stores; nothing prevents that, and then the database picks either connection per event.
- `OwnChangesShown`: a user who leaves a page while it loads may meet an answer that was read
  before the change, cached as fresh. `ListOf` names the list each page shows its own
  changes in; the SKU column of the products list (`ProductsPage.tsx:60`) is not covered, and a
  SKU added on the product's page does not ask for that list again.

Facts met on the way that no document contradicts: a store or a product that is switched off
between the checks of `OrderService.create` and its transaction gets its order all the same.
Two overlapping status changes of a product may both start from, and log, the same status. A
write whose audit statement fails is there without a row, and its caller sees an error; a
request that fails after its commit (`order.service.ts:92`, `channel.service.ts:98-108`) has
made its order, row and all. An order that is known is not touched by a later `orders/paid` event. OPERATOR has no `inventory:read` although the navigation shows
the inventory page to everybody; WAREHOUSE has no `product:read`, so the set-up of an
inventory row on a product's page, which the client offers to WAREHOUSE, is out of its reach.
The audit page has a route for every role and a link for some. Logout keeps the query cache.
The edit dialogs send the fields of a row as it was when they opened, so of two overlapping
edits the later one wins. There is no interceptor for 401: an access token that lapses is
renewed only when the page is loaded again. The client can start OAuth only for a store that
has a connection already, and never edits a warehouse. The tables of next statuses in the client
are those of the API.

Two more facts the import model records as the code has them. When the SUCCESS row of a payload
cannot be written, the catch block counts the payload a second time, as failed; hence
`RunsAddUp` states bounds, and equality only without faults. When the row in the catch block
cannot be written, or the process ends, the run stays RUNNING; hence `EveryRunEnds` excepts
calls that were lost.

## 5. Proofs

Checked by TLAPS for every value of the constants that satisfies `ConstantsAssumption` and
`FiniteAssumption` (tables are finite), `ImportAssumption`, `StorefrontAssumption`,
`SessionsAssumption` or `ConsoleAssumption`. Every invariant that a run finds to hold, and the
refinement, is stated by a theorem, except `TimelineChains` and `StatusFollowsTransitions`:
under `OneAtATime` they say little more than the guard of one request.

**Fulfilment, any overlap.** Neither `TypeOK` nor `StockNeverNegative` nor
`JournalBalances` is inductive alone: an allocation must not get a negative quantity, which
needs that a row a request is about to visit had stock when it was read and that something is
still to be reserved; and creating a row balances only because a row that does not exist
is still as it was at the start. `IInv` therefore says that every version of a row, committed or
not, is `Good` (typed, in range, balanced, untouched until created), and that the
local variables of every request fit the rows (`TxOK`). `Invariance` proves it inductive, one
step per action, from lemmas about the row updates (`ReserveOn`, `FulfilOn`, ...) and about
`Write`, `Publish` and `Rollback`; `TypeCorrect`, `StockSafe` and `JournalCorrect` are read off
it. On top of it stands a lemma about locks (`LocksReleased`: a transaction that has ended
holds no lock, by what `COMMIT` and `ROLLBACK` mean), on which later proofs rest, and two more
inductions. `TimelineTrue` strengthens `TimelineIsHistory` with `Decided`: what
a running change has read is a status the order has had, however old, and its own change is in
the table of that status. An event that commits therefore starts where the order once was,
though not always where it is. For `ReservationsAccounted`, a
reservation must not overwrite an allocation that counts already. `AllocInv` says why it
never does: `Unused` (the slots of a running request are blank wherever it may still
reserve) and `ShapeOK` (it visits a row once per item, and reserves in its own slots only).

**Fulfilment, `OneAtATime = TRUE`.** A status change may rely on the status it read only because
nobody else changes that order. `SerialInv` says exactly that: for every request that changes a
status, `tx[r].from` is the order's status still, the change is in the table, and no other
request is about that order. The hypothesis is part of the theorems; `cancel_race` shows that
it is needed.

It carries `LockedAccounted`, `AllocationsFollowStatus`,
`CancelledOrdersRelease` and `FulfilmentImplementsLedger`. Their invariant `StockInv` has to
describe a transaction half way through its items and rows: `Halfway` says that an item of the
order is untouched, already where the change takes it, or split between the two with
`remaining` still to go (`Partial`); `Apart` that drafts differ from what is committed only
in the order being changed; `Kept` what a movement leaves of a row's quantities. At the commit no
item is half way, so `Agrees` passes from the old status to the new one. For the refinement,
initial states map to initial states, a rollback or a step inside a transaction to a stutter,
and a commit to the operation of its movement (`LedgerCommit`).

**Fulfilment, `OnlyTakes`.** `SplitInWarehouseOrder` is about jobs none of which puts stock
back (no cancellation, no restock, no new row): a restock could fill a row that a running
request has already gone past. Then what a request sees of a row only
shrinks (`Shrunk`). `SplitInv` says of a request that picks that the rows with stock are those it
has left, the next one before all others (`PicksInOrder`), so when it takes from a row it sees
the earlier ones empty, and they are still empty when it commits (`SplitAt`). Overlapping
changes of one order are allowed here.

**Sums.** Locked stock, allocations and journal are compared as sums over finite sets,
which the community modules define by a fold. `Sums` shows that the fold is the sum of any
walk through the set and that such a sum does not depend on the walk. Where one would
argue by induction on the set, the proofs take a smallest set that is a counterexample
(`Smallest`, from the well-foundedness of `\subset` on finite sets) and remove an element.

**ChannelImport.** The invariant bounds the position of each call in its batch and ties its
local variables to the orders: a log row about to say SUCCESS has its order, one about to
say DUPLICATE_ORDER has somebody's. Unique indexes then give `ImportedOnce`, and orders that
are never removed give `LogsTellTheTruth`. Two more inductions stand on it. `BooksInv`
relates, at every place of the batch, the local counters to the orders made (`Tally`) and the
log rows to the payloads passed (`Covered`: counted per external order, since a batch may
name one twice); hence `RunsReportTruly`, `PayloadsLogged` and `SyncedOnlyByEndedRuns`.
`LinesInv` adds that names and SKUs are mapped one to one (`OneNameEach`), so a call that has
found every name has as many SKUs as names (`FoundAll`); that they still exist when the order
is written is the foreign key's doing, and `ImportedWhole` is the result.

**Storefront.** `IInv` is `ReqsOK` (what a request holds fits its job), `TablesOK` (types and
unique indexes), `Refers` (foreign keys) and `Needs`: a request that is about to write still
finds the rows its check found, which is why an update of a SKU or a store cannot hit nothing.
The lemma `Kinds` says once and for all what a step does to the log: a request arrives, moves
on without a trace (`Quiet`), writes its row and perhaps an order (`Loud`), or nothing happens to
orders, log and requests. Two theorems are inductions over these four kinds instead of twenty
actions: `AuditRowsFollowWrites`, with `Traced` per request, and `ShopOrdersOnce`, with `LinkInv`
(an order of a shop belongs to a store that was connected to it). `ReviewsLeaveTheirTrail` needs
the products too. Its invariant `TrailInv` says that a row shows the change its request set
out to make, that the change is in the table of the status that was read, and that every status
a running request goes by, and every product's own, follows from the first one through changes that
may have been written (`Follows`). A request that has read a status cannot lose that: changes
are only added. Neither theorem assumes that requests do not overlap or do not fail.

**Sessions.** `IInv` is `TypeOK` with `Belongs` (rows, cookies and answers under way were
issued to the browser and the user that hold them) and `LineageOK`. `StartInv` is `Alone` with
`OnlyLoading`: a `me` or `refresh` in flight is its page's only call, and the page shows the
spinner. `SessionsTypeOK`, `RotationKeepsLineage`, `PagesShowTheirUser` (what `PageAgrees`
says of any browser) and `BootstrapWaitsAlone` follow. What calm browsers are promised
(`OneRefreshPerToken`, `NoSessionIsLeft`, `PagesAgree`) needs `CalmInv`: at most one call of a
browser is open, and what it goes by is still what the browser holds (`CallFits`). That the only
live session is the cookie's is broken by every rotation until its answer arrives, so
`Reachable` says that a live session is the cookie's or in an answer on its way to it.

**Console.** `IInv` is `PlaceOK` (a dialog that writes is open only to who may write),
`EntriesOK` (only what the role may read is ever answered), `CommittedOK` (a cached answer
lacks only changes that were carried out and that it would show) and `EditsOK` (every change
sent is one its page sells and the role may make). Most steps only ask for an entry, mark it
or answer it; the lemma `MildChanges` says so once. `ConsoleTypeOK` and
`NothingForbiddenIsOffered` follow, the latter by comparing the tables of `Access` with the
flags of every page. A window that is loaded anew (`Restarted`) has nothing cached and awaits
nothing, so it keeps both invariants. `OwnChangesAreShown` is a second induction, `CalmInv`, for a user who
waits: while a change is under way its page stays (`Staying`), every list on it that may be
read has an answer (`Read`), and nothing off the screen but a dialog's query is being asked
for (`InView`). So an answer read before the change is thrown away when the list is asked
for again: React Query lets a request go on only while there is no answer yet, which `Read`
rules out. That is exactly what a user who leaves a page while it loads can break.

Only model-checked: liveness (`EveryRequestAnswered`, `EveryRunEnds`, `BootstrapEnds`), which
is out of the prover's reach, `TimelineChains` and `StatusFollowsTransitions`, and the four
counterexamples of section 4.

## 6. Not modelled

- The dashboard and all list and detail reads of the API: they change nothing and nothing is
  decided on them. `Console` has their queries and permissions.
- HTTP infrastructure (request ids, envelopes, error format) and validation of DTOs.
- The tenant guard's comparison, since the client never names a tenant; reads filter by the
  user's tenant, and one tenant is modelled.
- Passwords, hashes, signatures of tokens and webhooks: taken to work.
- Layout, filters, sorting and paging of the pages; a change of user within a window.
- The before/after snapshots of `InventoryTransaction`.
- The AI listing agent, of which only a table exists; the seed, which only shapes instances.

## 7. Plan

Written in this order: `Fulfilment` with `StockLedger` and the first proofs (the stock
is what the program is for), `ChannelImport`, `Sessions`, `Catalog` with `Storefront`, `Access`
with `Console`. What is left:

1. Proofs of what overlapping status changes of one order cannot break: which parts of
   `StockInv` hold without `OneAtATime`.
2. `Journal`: the before/after snapshots of `InventoryTransaction` on top of `Fulfilment`,
   and which of them can be trusted after an overlap.
3. A change of user: `Sessions`' store composed with `Console`'s cache, which a logout keeps.
