# MercadoExpress: a TLA+ verification project

MercadoExpress is the inventory system of a retail chain: a REST API that runs
as one AWS Lambda over PostgreSQL 16, and a Vue single-page application. This
directory holds TLA+ modules that model the parts of it that change state, the
TLC configurations that check them on small instances, and theorems that TLAPS
proves for every value of the constants. Paths are relative to `packages/`
unless they begin with another directory of the repository.

## 1. Inventory of the system

| Part | State | Operations that change it | Interacts with | Module |
|---|---|---|---|---|
| Stock movements (`backend/src/inventory`) | `stock_movements`, `products.stock` | `POST /products/{id}/movements` | alerts, through two ports, in its transaction | `Inventory` |
| Products (`backend/src/products`) | `products` | `POST /products`, `PATCH /products/{id}` | opens an alert after a create; leaves embeddings to be computed | `Inventory`, `Catalog` |
| Embeddings and search (`embed-in-background.ts`, `gemini-adapter.ts`, `semantic-search-products.ts`) | `products.embedding`, jobs of the process | job after a create or PATCH, retries | Gemini API, Secrets Manager | `Catalog` |
| Categories | `categories` | `POST /categories` | products | `Catalog` |
| Alerts (`backend/src/alerts`) | `alerts` | none of its own: adapters called by movements, creates and receives | joined with products by the queries | `Inventory`, `Orders`; reads in `Catalog` |
| Purchase orders (`backend/src/orders`) | `purchase_orders` | create, approve, reject, receive | reads products and alerts; a receive writes stock, movement and alerts | `PurchaseOrder`, `Orders` |
| Unit of work and pool (`backend/src/shared`) | two connections, row locks | BEGIN, COMMIT, ROLLBACK, release | every write above | `Inventory`, `Orders` |
| Login and rate limiter (`backend/src/auth`), `scripts/rotate-admin-password.ts` | `users`, `login_attempts` | `POST /auth/login`, the UPDATE of the hash | | `Login` |
| JWT (`backend/src/shared/jwt-middleware.ts`), SPA session (`stores/auth.ts`, `services/http.ts`, `router`) | two secrets; a tab's memory, the localStorage tabs share | login, logout, 401, reload; rotation by redeployment | every handler | `Session` |
| SPA stores and pages (`frontend/src/stores`, `pages`) | lists, current item, `loading`; each page's form, dialogs and flags | clicks, answers, timeouts | API | `OrdersConsole`, `StockConsole`, `AlertsConsole` |
| Development server (`scripts/dev-server.ts`) | process, connections, requests | boot, routing, drain | the consolidated handler | `DevServer` |
| Provisioning (`scripts/setup.ts`, `scripts/db.ts`, migrations, seed, `infra/src/cdk/vector-extension-handler.ts`) | the schema, drizzle's journal, the seed's rows | setup, migrate, seed, the swap of a column | Postgres, CloudFormation, the API | `Provisioning` |
| Idempotency store, linters, CDK declarations, rendering | | | | not modelled, see section 6 |

The handlers are asynchronous functions; between two `await`s any other call
may run, in the same process (development server) or in another one (Lambda,
without reserved concurrency, ADR-0006). What is hard:

- *Interleaving.* Every `await` of a database call is a point where other calls
  run. Movements and receives protect the stock with `SELECT ... FOR UPDATE`;
  PATCH, approve, reject, the creates and login protect nothing.
- *Partial failure.* A statement can fail, the answer to COMMIT can be lost, a
  process can die; a create opens its alert and starts its embedding after its
  product is committed; a column is swapped by four statements.
- *Retries and timeouts.* The SPA gives up after ten seconds and the user repeats
  the call; no Idempotency-Key is honoured. Setup, seed and custom resource are
  run again over what an earlier run left.
- *Ordering.* Answers overtake each other in the SPA, and outlive the page that
  asked; embedding jobs end in any order.
- *Limits.* Two connections per process, `int4` columns under JavaScript
  numbers, BR-1 at zero, RF-03 at exactly `stockMin`, a sliding window.

What makes each part correct: stock and movements always agree and the stock is
never negative (BR-1); a low product has an ACTIVA alert and a recovered one has
none (RF-03, BR-3); an order follows BR-5, meets BR-2 when placed and is received
into stock once (RISK-W07); a call's answer says what happened, and every call
ends; failures of a login are bounded and its token deserved; a session ends for
a reason and for good; a stored embedding is of the current text; a screen comes
to rest on what its address says; a drain loses no request and ends; a setup that
answers 0 left a usable database. `PROJECT.json` lists each hazard at its line
with the properties that cover it.

## 2. Modules

### Ledger and Inventory

`Ledger` is what stock promises, abstractly: accounts, balances, entries; an entry
is posted with its balance, atomically, once per id. `Inventory` is movements,
creates and the PATCH of `stockMin`, one action per SQL statement, and implements
`Ledger`.

A request goes through its handler's statements; `pc[r]` names the statement it
awaits. `Arrive` is the handler up to its first statement (`ValidCall` the body
checks). `Connect` is `pool.connect()` and BEGIN, `LockProduct` the
`SELECT ... FOR UPDATE` and BR-1, `InsertMovement` and `UpdateStock` the two
writes, `RaiseAlert` and `CloseAlerts` the two alert ports, `Commit`,
`Rollback` and `Release` the unit of work's three exits. What a transaction
writes waits in `tx[r]` and reaches the tables in `ApplyWrites`. Each lock wait
is a guard (`RowFree`), each pool wait `HasFreeClient`. `StatementFails` is a
failure of any statement of a transaction, `QueryFails` and `PatchFails` of one
outside, `CommitUnacknowledged` a COMMIT the server carried out and the client
heard nothing of (the code then sends ROLLBACK and answers 500), `Crash` the
death of the process at any point. `CloserWired` says whether
`bootstrapInventory` is given an `AlertCloserPort`; as deployed it is not.

Abstractions: a product's SKU and id are one name; the category check may refuse
a create at will; `CheckSku` folds two reads into one action (`Catalog` has them
apart); the insert into `alerts` cannot violate a constraint, because the schema
has none; a crash takes one request, although it takes every request of its
process: in Lambda a process serves one request, and every combination of single
crashes is reached anyway.

### PurchaseOrder and Orders

`PurchaseOrder` is the aggregate of the orders BC (BR-5) and what its constructor
asserts; `Orders` is create, approve, reject and receive, one action per
statement. It implements the aggregate for each order until two calls race on it.

`FindOrder`, `UpdateStatus` and `Compose` are approve and reject: read, then
write by id alone, then read for the answer. A receive is `FindOrder` and then
one transaction: `ReadInTransaction` (no lock), `MarkReceived`,
`IncrementStock`, `CloseAlerts`, `Commit`. The rest of the system appears as
`MovementElsewhere`, `MinimumPatched` and `AlertTurns`, which wait for the same
product row where `Inventory` does. An order is named after the call that
creates it. The pool is left to `Inventory`.

`ContextHasQueries` decides what `findByIdTx` meets. FALSE is the code as it is:
`DrizzleTransactionContext` has no `select()`, the call throws, the receive is
rolled back and answered 500. TRUE is the flow as the use case is written, on a
context that answers; its properties say what that flow guarantees once the
context is mended. Nothing in the code keeps two calls on one order apart:
a call that passes its check while another one stands between its own check and
its write (`Deciding`, `PassCheck`) marks the order in `raced`; `agreed` shadows
the rows of the orders that are not marked (`AgreeOn`). Other history variables,
none of which a guard reads: `net` and
`received` (what committed), `minimaSeen` (the minima in force while a call ran),
`answeredBefore` (who had an answer when a call arrived), `disturbed` (calls a
failure hit).

### Catalog

What the backend does with the catalogue beside moving stock, at statement
granularity, for any number of calls in one process: `FindCategory`, `FindSku`,
`InsertProduct`, `OpenFirstAlert` (create); `FindProduct`, `FindNewCategory` (when
the PATCH names one), `WriteProduct`, `ReadFlag` (PATCH and GET); `FindFlagged`,
`ReadItems`, `ReadCount` (the lists: those of products and alerts read rows and
then count, those of movements and orders send both statements at once,
`FirstRead`); `FindAlert`, `FindAlertProduct`; `FindName`, `InsertCategory`;
`EmbedQuery`, `FindByEmbedding`. `call[c].at` is the statement awaited,
`call[c].local` the function's locals. `Bootstrap` is `getProductsBootstrap`:
until a process has its API key (`warm`) a call may be answered 503. `jobs` are
the embeddings that run after an answer: `EmbedText` is an attempt at the provider
(`Attempts` of them, four as deployed), `StoreEmbedding` the UPDATE; `ProcessEnds`
loses calls and jobs together. `StockMoves` is what movements do to alerts. A page
is any rows of the selection, as many as LIMIT and OFFSET leave (`Limited`):
products are listed by name, which PATCHes change and which need not differ. A
text is a number; an embedding is the number of its text, 0 for none. History:
`span` (products flagged at some and at every moment of a call), `alone` (the last
text of a product was written with nothing else of it under way, and nothing
failed since).

### Login and Session

`Login`: `CheckLimit`, `FindUser`, `ComparePassword`, `RecordFailure`, `Recount`,
`ResetFailures`, `IssueToken`, in the order of `login.ts`; `PerceivedIp` is
`extract-client-ip.ts`, `WindowFailures` the count of a sliding window,
`RotatePassword` the operator's script at any moment, `ClockTicks` time. bcrypt
is equality. History: `told` (until when a refusal said to wait), `held` (the
passwords the user had during the attempt).

`Session`: tokens carry the generation of the secret that signed them; `Verify`
tries the current secret and then the previous one. Each tab has its store
(`memory`) and shares `storage`; `Boot` is `main.ts` (the bare host is redirected
before `restore()` has run, every other address after), `Browse` a navigation
under the router's guard, `Send` a call with the bearer of that moment,
`SessionRefused` the 401 path of `http.ts`, `Logout` the button. `RotateSecret`
and `DropPrevious` are deployments. `Overlap` is `JWT_OVERLAP_SECONDS`, which the
documents give the previous secret and no code reads: only properties do, with
`rotatedAt`, the time of the last rotation.

### OrdersConsole, StockConsole, AlertsConsole

Three groups of pages, each with the stores it lives on. A page is what is
mounted; a navigation makes its flags new and leaves the store alone; calls in
flight carry what was asked and, once served, what was answered, and arrive when
they do; `CallBreaks` (`StockCallBreaks`, `LookupBreaks`) is an error or a
timeout of a call that may have been carried out; `...Elsewhere` and
`AlertChanges` are other users. A jump in the history from one item to another
keeps the page mounted (`JumpToOrder`, `JumpToProduct`). The backend in these
modules is coarse where what a page shows does not depend on its interleavings,
and has its statements apart where it does: a decision on an order is checked
(`CheckDecision`) and then written by id alone (`ServeOrders`), and a list of
movements is two statements sent together (`ReadRows`, `CountRows`), of which the
rows are at most a page (`PageSize`).

`OrdersConsole`: list, detail with timeline, buttons and dialogs, form. `adrift`
are calls the backend works on and nobody in this tab waits for: those of another
administrator, checked and not written yet, and those the tab has given up
(`Hand` bounds them). `had` remembers each status an order has had. A receive is
written as on a context that answers; as deployed it fails, which `CallBreaks`
and `DropAdrift` are.
`StockConsole`: list, detail page that loads three things at once and fills its
form when all have come (`Fills`), form for a new product, form for a movement,
page of all movements. `AlertsConsole`: alerts with their tabs, an alert, the
order form that an alert opens and locks, categories. History: `calm`, `patient`,
`unhurried` mark a user who waits for answers; properties about what a screen
comes to rest on are stated for such a user, because for another one they do not
hold (the hazards say so).

### DevServer and Provisioning

`DevServer`: `Routes` is the table in its order, `MatchRoute` the first that fits,
`StartRequest` what is answered without a handler, `TargetUnparsable` a request
whose target `new URL` throws on (`MaySend`), which ends the process, `ReadBody`
the body limit, `HandlerEnds` an answer (a handler may never answer), `Signal`,
`IdleTimeout`, `Close` and `HardCap` the drain. `Gateway` is how API Gateway picks
a route, and `Wired` the Lambda's own table.

`Provisioning`: `Preflight` to `Seed` are the phases of `setup.ts` (and, for a
stage, the workflow's migrate and seed), which may fail or be cancelled at any
step and be run again, also two at once. `Due` is drizzle's rule: what is dated
after the latest applied migration. `Deploys` to `EnsureIndex` are the statements
of the custom resource, beside which the API stores embeddings; `SwapEnds` is a
failure or the end of the Lambda's time between any two. The initial "plain"
column of `MCOperations` is the case `vector-extension-handler.ts:74` is written
for.

### Instances

`MCInventory`, `MCOrders`, `MCOrdersConsole`, `MCCatalog` extend one module each.
`MCAccess` (`Login`, `Session`), `MCSpa` (the other two consoles) and
`MCOperations` (`DevServer`, `Provisioning`) hold modules that share no state: a
variable `part`, chosen at the start, says which of them a behaviour is about, so
that the state space is the sum of theirs and not the product. `MCCatalog` and
`MCInventory` (`family`) do the same with families of requests. Where a symmetry
is declared, the run checks no liveness.

## 3. What the runs check

| Run | Instance | Properties |
|---|---|---|
| `moves` | 3 calls of one family, 1 seeded product and 1 that calls may create, 2 connections, closing adapter wired | `TypeOK`, `StockNeverNegative`, `LockedRowIsCurrent`, `RequestPostedOnce`, `AnswersAreTrue`, `LedgerReconciles`, `OnlyCatalogLeavesUnflagged`, `NothingLeaks`, `RefinesLedger`, `MovementRaisesAlert`, `OnlyRecoveryResolves`, `EveryRequestSettles` |
| `orders_deployed` | 2 calls, existing and new orders, as deployed | `SequentialDecisionsExclusive`, `PolicyWasInForce` |
| `orders_receipts` | 2 calls in parallel or one after the other, context that answers, movements, minima and alerts changing | `StockExplained`, `ReceivedOnce`, `RefinesAggregate`, `ReceiveResolvesRecovered`, `EveryRequestSettles` |
| `access` | 2 callers, threshold and window 2; 2 tabs, 2 tokens, one rotation | `FailuresWithinBudget`, `HintIsEnough`, `TokenForTheRightPassword`; `EndedSessionsStayEnded`, `OneRotationIsSeamless`, `SessionLostForAReason` |
| `orders_pages` | 2 orders, 2 calls in flight, 1 adrift | `RestsOnTheRoute`, `ShownWasTrue`, `SpinnersHaveACall` |
| `spa` | 3 products, 2 alerts, up to 3 calls in flight, pages of 1 movement | `TextStaysHome`, `HistoryIsCurrent`, `OneMovementPerSubmission`; `RowsUnderTheirTab` |
| `catalog` | 2 callers, 2 products, 2 attempts, 3 families of requests | `EmbeddingOfCurrentText`, `TotalCoversThePage`, `ListFlagWasTrue` |
| `operations` | 2 clients of the server; 2 installers, 2 products, 5 first schemas | `RoutedLikeTheGateway`, `CleanExitAnsweredAll`, `SignalEndsProcess`; `ReadyUnlessCut`, `EmbeddingSurvivesTheSwap` |

In `moves` the closing adapter is wired in, although it is not as deployed: without
it no movement resolves an alert, so `OnlyRecoveryResolves` and the closing half of
`OnlyCatalogLeavesUnflagged` would hold for want of a case. The theorems hold
either way. One family of calls moves and patches the seeded product; in the other
one two calls may create the same product, low or not, while a third one moves or
patches it, and the first movement makes up for the alert a create failed to open.

*Bounds.* A lost update, a stale read, a double post and an overwritten decision
each take two calls; the third one in `moves` waits for a connection or retries
what another left unfinished. The seeded stock is 3 with minimum 1 and `MaxInt` 4,
so quantities 2 and 3 reach zero, a refusal, the minimum, a recovery and an
overflow; quantity 0 is refused by the handler, and a stock or minimum of 5 by the
database. In `Orders`, quantities 0, 1 to 4 and 9 lie below, at and above the
policy for minima 1 and 2, and beyond the column; `MaxInt` 4 makes the second
receipt of `orders_receipts` overflow unless a movement comes between. Its two
calls are a race, or a call that crashed or lost its answer and the retry of it.
Each request of `Inventory` and `Orders` is used once, a retry is another request;
`Sold` bounds the movements of `orders_receipts` by the stock they need.

`access`: with threshold 2 and two callers the budget is reached exactly
(`MaxRows` 3 = threshold - 1 + callers); `MaxTime` 3 lets rows leave a window of
2; one spelling more than one user, and an address behind a proxy, reach every
bucket. One rotation, a drop of the previous secret and a lifetime of 1 make a
token expire before, between and after; two tokens let a tab log in while another
one loses its session; `Overlap` 1 ends before the token does. `orders_pages`: two
slots make answers overtake each other, and `Hand` 1 is one decision checked in
time and written late. `spa`: two calls make answers overtake each other, two
visits make one page inherit another's store, two movements exceed a page of one,
one edit and one movement each are what a page can be stale by; `LastSeen` starts
a tab on the store an earlier page left. Deadlock is not checked there:
`MaxVisits` and `MaxCalls` stop a tab. `catalog`: two texts of one product need
two patches, or a patch and a create; `MaxTexts` 3, `MaxAlerts` 2 and `MaxJournal`
2 let each change twice while a list is read; the page's boundary is at size 1.
`operations`: every route of the table with an id that is no word of it and with
one that is; blank, half-migrated and complete databases.

*Fairness.* In `Inventory` and `Orders`, `FairSpec` is weak fairness of
`Serve(r)`: the next statement of each call is eventually carried out once it can
be, or is refused when a refusal is all there can be (`WriteRefused`,
`InsertRefused`: a value out of range, a SKU taken meanwhile). PostgreSQL queues
lock waiters and `pg` queues pool waiters, and a lock or a connection that is free
again is not taken for ever by others because the calls are finite. In `DevServer`
it is weak fairness of `HardCap` alone: Node's event loop runs a timer that is
due. Nothing is assumed about arrivals, failures, crashes, handlers, users, or the
rest of the system.

### Where documents and code disagree

These runs expect a violation; each is a finding in `PROJECT.json`.

- `orders_receive` (`ReceiveWorks`): every receive of an existing order ends in
  a TypeError and 500, so no order becomes RECIBIDA. `README.md:708-720` and
  `receive-order.ts:4-26` describe the working flow. (README.md:714 also names
  the movement a SALIDA; the code posts an ENTRADA.)
- `orders_parallel` (`RowsWellFormed`): approve and reject in parallel both
  succeed; an order RECHAZADA with a reason becomes APROBADA and keeps it, which
  `purchase-order.ts:115-117` calls impossible.
- `access_overlap` (`OverlapEnds`): a living token of the previous secret is
  accepted however long ago the rotation was, as long as that secret is
  configured. `jwt-middleware.ts:8-13` documents `JWT_OVERLAP_SECONDS` and says
  "Outside the window only the current secret verifies"; scenario "Overlap
  expired" of the auth specification
  (`openspec/changes/add-inventory-mvp/specs/auth/spec.md:198`) demands a refusal.
- `recovery` (`RecoveryResolvesAlerts`): the inventory is bootstrapped with a
  no-op closer, so an ENTRADA resolves no alert (README.md:549 says it does).

## 4. What is proved

For every value of the constants, from the modules' own assumptions
(`LedgerAssumption`, `InventoryAssumption`, ...):

| Module | Theorems |
|---|---|
| `LedgerProofs` | `LedgerTypeCorrect`, `LedgerAlwaysReconciles`, `LedgerPostsOnce`: the abstract ledger adds up and posts once |
| `InventoryProofs` | `TypeCorrect`, `LockedRowStaysCurrent`, `NothingEverLeaks`, `AnswersAlwaysTrue`, `StockStaysNonNegative`; `ImplementsLedger` and, through it, `StockAlwaysReconciles`, `NeverPostedTwice`; of alerts, `MovementsFlagTheirProduct`, `UnflaggedOnlyByCatalog`, `OnlyMovementsResolve` |
| `OrdersProofs` | `OrdersTypeCorrect`, `StockAlwaysExplained`, `PolicyAlwaysWasInForce`, `ResolvesOnlyRecovered`, `DecisionsStand`; up to the first race on an order, `OneReceipt`, `OnlyRacesBreakRows` and `AggregateImplemented` |
| `CatalogProofs` | `CatalogTyped`, `FlagsWereTrue`, `EmbeddingSettles`, `TotalsCover` |
| `AccessProofs` | of `Login`: `LoginTypeCorrect`, `BudgetHolds`, `HintHolds`, `TokenIsDeserved`; of `Session`: `SessionTypeCorrect`, `LossHasAReason`, `EndedForGood`, `RotationIsSeamless` |
| `OrdersConsoleProofs` | `OrdersPagesTyped`, `SpinnersEnd`, `PageRestsOnRoute`, `ShownWasOnceTrue` |
| `StockAlertsProofs` | of `StockConsole`: `StockPagesTyped`, `SubmissionsPostOnce`, `SavesStayHome`, `HistoryRestsCurrent`; of `AlertsConsole`: `AlertsPagesTyped`, `RowsMatchTheTab` |
| `OperationsProofs` | of `DevServer`: `ServerTyped`, `RoutesLikeTheGateway`, `CleanExitsAnswer`; of `Provisioning`: `ProvisioningTyped`, `SwapKeepsEmbeddings`, `ToldReadyIsReady` |

Together they state every safety and action property that a passing run checks.
Hardly one is inductive; each module of proofs finds the invariant that is, and
shows that every action keeps it.

*Assumptions on constants.* They describe values, not behaviour: which sets are
finite, that a value standing for "none" is none of the others, what a call may
carry. One is more than that. `SeedAssumption` (`Inventory`): seeded products
start above their minimum, as `seed.ts` starts them. No theorem assumes anything
about the order of calls: `OneReceipt`, `OnlyRacesBreakRows` and
`AggregateImplemented` are about calls in parallel, and their conclusions name the
one thing that breaks them, an order in `raced` (`orders_parallel` is the
counterexample without it).

*Inventory.* That the row read under the lock is still current needs that no
other call writes a row it does not hold, which needs that a call past
`LockProduct` holds its row until it ends, which needs to know which `pc` values
belong to which kind of call. `IInv` is the conjunction: `TypeOK`; `CallInv`
(what a call asked for fits its stage); `TxInv` (what a transaction holds at each
stage: the movement it will insert, the stock it computed, the minimum it read);
`AnswerInv` (what has been answered at each stage agrees with what was posted);
`HolderInv` (a lock is held by exactly the call whose stage says so, and a
connection likewise); `Amounts` (stocks and their history are in range and
non-negative); `InductiveInvariant` proves it. With `LockedRowIsCurrent` the
refinement is short: `Commit` and `CommitUnacknowledged` are `Post`,
`InsertProduct` is `Open`, every other action leaves `products`, `stock` and
`movements` alone. For the alerts `FlagInv` adds that a transaction about to commit
a low stock has inserted an alert, and that one about to resolve alerts has seen a
stock above the minimum; then only a create and a PATCH can leave a low product
without one, and `OnlyCatalogLeavesUnflagged` is inductive beside it. The same
invariant gives `OnlyRecoveryResolves`: alerts change only when they are opened
and in a COMMIT, whose row, by `LockedRowIsCurrent`, is the one it was decided on.

*Orders.* `OInv`, proved by `OrdersInvariant`, is `TypeOK`, what is in the
catalogue, `StockExplained` and `OwnInv`, which says of each statement of a call
what has been checked (a create's policy and alert, a decision's status, a
receive's row and the lock it holds). Decisions need `DInv` in addition: what was
answered before a call arrived still stands. `SInv` speaks of the orders that are
not in `raced`: at most one call stands between check and write, the status is
still the one it checked, the row is well formed, `agreed` is the row, and it is
RECIBIDA if a receive of it has committed. The write of that one call is then a
transition of the aggregate, and a later receive finds RECIBIDA; a write to a
raced order changes no row of `agreed`.

*Catalog.* `FInv` puts the flags a list has read between what was flagged at
every and at some moment of the call. `EInv` says of a product whose text was
written undisturbed: each call and each job that will embed something for it
carries its current text, and there is one, or the stored embedding is of that
text already. A write by another call ends `alone`, a failure does too; the
process ends with nothing under way only for products that are settled. `TInv`
says of a list between its two statements that the selection, as it is now, covers
the page it has read and the rows before it: a page is covered by the selection it
was read from, and the selection of products, or of all alerts, only grows.

*Login.* The budget is inductive once it counts those who passed the check and
have not recorded: recording moves a caller from one side to the other. The hint
needs that every counted row is older than the refusal's instant.

*Session.* A tab's token is never one it ended, because what it may still restore
or be granted (storage, grants in flight) is not either (`FlightInv`,
`EndedInv`); keys and generations are related by `KeyInv`.

*OrdersConsole.* `PagesInv`: every call knows what it is about, an answer is a row
of the order that was asked for; with one call at a time (`CalmInv`) either the
order of the address is on its way or it is on show. `BackInv`: whatever is
written is remembered in `had`. `TruthInv`: not only what is on show but every row
of every answer on its way has a status its order has had, because an answer is
made of the row its statement left and no status is forgotten (`Remembers`); a
later write may overwrite that row, so the property cannot say that what is shown
still holds.

*StockConsole.* `StockInv`: a call about a product carries cards of that product
and, unless it is still on its way, has posted at most one movement. For a user
who waits, every text in the tables, on its way or on show is of the product it is
with (`TextsHome`), and on the detail page every call in flight is of that page,
the form is of its product, and what is not yet shown of the product, of its rows
and of its total is still to come (`DetailHome`). Rows and total lie each between
what the table held when the page was mounted (`since`) and what it holds; nothing
relates them to each other, because movements are written between the two
statements.

*AlertsConsole.* `AlertsInv`: answers are of the kind that was asked for; for a user
who waits there is at most one call, and on the page of alerts it is the one of
the tab that is lit, or the rows, unless an error is shown, are of that tab.

*DevServer.* The first route that fits is the one API Gateway picks because no
path fits two routes of one method: where a template has its placeholder is
decided by its length and, for two segments, by whether the method is POST, so two
templates of one method that fit one path agree in every segment (`OneKeyFits`).
This is a fact about the table for any path, also one whose id is a word of the
table. `DevInv`: a request being read is not one the server answers by itself, one
being handled has a wired key, which is the only one that fits; the exit code is 0
only when every connection was closed, and no connection opens after.

*Provisioning.* `PInv`: which columns and copies exist at each statement of the
swap, and that whoever is past a migration has what it makes; then the two
properties.

*Only model-checked.* Liveness (`EveryRequestSettles`, `SignalEndsProcess`), which
is beyond this prover; they hold on the runs' instances. `RowsWellFormed` with calls
in parallel, `ReceiveWorks`, `OverlapEnds` and, as deployed,
`RecoveryResolvesAlerts` do not hold. Nor would the last with the adapter wired in,
while products are created: a create's alert may come between the statement that
resolves and the COMMIT.

## 5. What else the models and the reading show

Reachable in the models, and not stated as properties:

- Two receives in parallel, on a context that answers, both read APROBADA and add
  to the stock twice, because `findByIdTx` takes no lock: mending the context
  without `FOR UPDATE` would expose this. So would two approves: the late one
  overwrites RECIBIDA with APROBADA, and the order is received again.
- A screen may show a status that a late write has overwritten already.
- Several ACTIVA alerts of one product: `openAlertIfAbsent` counts on a unique
  index the schema does not have (BR-4). They are all resolved together.
- A create's best-effort alert may be opened after a concurrent ENTRADA and is
  then stale from the start.
- Concurrent creates of one SKU or category name: the second is answered 500
  where a create that comes later is answered 409.
- A PATCH that is written and then fails to read its flag is answered 500 and
  leaves the old embedding. So does a job that gives up, or dies with its process.
- An older text's embedding may be stored after a newer one's, when two patches of
  one product overlap.
- Totals of movements and orders may be short of their page, or ahead of it: both
  statements are sent at once. The history of a product shows 50 rows at most.
- The fifth failed login is answered 401, not 429 as the auth specification says;
  and parallel attempts exceed the threshold, by less than their number.
- A body cut short by its client ends the development server
  (`scripts/dev-server.ts:325` rejects a promise nobody catches), and so does a
  target that `new URL` cannot parse (`:361`).
- An invocation of the custom resource that ends between ADD and RENAME makes
  every later one fail at ADD; one that ends after DROP makes every later one
  answer SUCCESS without a column.
- A decision on a detail page goes to the order of the address while its button
  goes by the order on show; a jump in the history keeps the old one on show
  (`OrderDetailPage.vue:21`). `OrderCreatePage.vue:38` overwrites what the user
  chose while the alert was on its way.

Seen in the source while modelling, outside the models:

- `findByEmbedding` is a raw query whose rows have snake_case names, and `toProps`
  reads camelCase: hits lack `categoryId` and `stockMin`.
- The Gemini adapter's comment says three attempts; the code makes four.
- `description` is never written by an update; `hasActiveAlert` of a single
  product does not look at the alert's status, that of a list does; a page that is
  not a number makes `GET /orders` answer 500; no page links to `/alertas/:id`.
- The seed, run again on a database in use, resets the stock of its products under
  their movements (`seed.ts:218`), rewrites name and supplier without embedding
  them, and resets the administrator's password. Seeded products have no embedding.
- `design.md:375` says the development server exits with 137, it exits with 1;
  its specification says it waits for handlers, `server.close()` waits for
  connections; and it allows HEAD, which the code refuses.
- The custom resource sends CREATE EXTENSION to the database `postgres`; its
  secret's template has no username; it returns `{ Status: 'FAILED' }` where its
  framework expects a throw, and no property of it changes from one deployment to
  the next.
- The first migration's date is later than the next two (`_journal.json`);
  `pg_isready` answers during the first boot of a volume, and only the seed is
  tried twice.

## 6. Not modelled, and why

- The Idempotency store: no handler calls it, so no behaviour reaches it.
- Linters, smoke and measurement scripts: text scans without state.
  `bootstrap-secrets.ts` writes parameters that nothing reads any more.
- CDK stacks: declarations without behaviour of their own. What they decide (the
  routes, the custom resource, the secrets in the environment) is in `DevServer`,
  `Provisioning` and `Session`.
- Rendering, translations, atoms and layouts, beyond what a button or a dialog
  does to the state of its page.
- Formats: headers, query strings and envelopes, the canonical JSON, the fields
  of schemas, beyond whether a body is accepted.
- Nearness of embeddings and the order of lists in `Catalog`: a search returns some
  embedded products, at most its limit, and a page some rows of the selection.
- Filters and pages of the lists in the SPA.
