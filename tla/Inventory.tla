------------------------------ MODULE Inventory ------------------------------
(***************************************************************************)
(* The stock of the products, as the backend changes it: every HTTP call   *)
(* that writes products, stock_movements or alerts, one action per SQL     *)
(* statement it awaits, over one Postgres database (READ COMMITTED) and    *)
(* one process' connection pool.                                           *)
(*                                                                         *)
(*   movement   POST /products/{id}/movements   StockMutationService       *)
(*   create     POST /products                  CreateProductUseCase       *)
(*   patch      PATCH /products/{id}, stockMin  UpdateProductUseCase       *)
(*                                                                         *)
(* A transaction's writes wait in tx[r] and reach the tables at COMMIT;    *)
(* SELECT ... FOR UPDATE and UPDATE wait for the lock of the product's     *)
(* row.  A request is used once: a client's retry is another request.      *)
(***************************************************************************)
EXTENDS Integers, Sequences, FiniteSets

CONSTANTS
    Product,        \* ids of products
    Request,        \* HTTP calls
    Calls,          \* what the calls may ask for
    Nobody,         \* the holder of a row lock nobody holds
    MaxInt,         \* largest int4: stock, stock_min, quantity and stock_after
    PoolSize,       \* connections of the process' pool
    Seeded,         \* products the seed puts in the database
    SeedStock,      \* their stock
    SeedMin,        \* their stockMin
    CloserWired     \* TRUE iff bootstrapInventory is given an AlertCloserPort

VARIABLES
    products,       \* ids with a row in the products table
    stock,          \* products.stock
    stockMin,       \* products.stock_min
    opening,        \* history: the stock each product row was inserted with
    movements,      \* committed stock_movements of each product, oldest first
    alerts,         \* status of the committed alerts of each product, oldest first
    rowLock,        \* who holds the lock of each products row
    clients,        \* requests that hold a connection of the pool
    pc,             \* the statement each request awaits next
    call,           \* what each request asked for
    tx,             \* what each open transaction read and wrote
    outcome         \* how each request was answered

tables == <<products, stock, stockMin, opening, movements, alerts>>
vars == <<tables, rowLock, clients, pc, call, tx, outcome>>

-----------------------------------------------------------------------------
(* Types *)

MovementType == {"ENTRADA", "SALIDA"}
AlertStatus == {"ACTIVA", "RESUELTA"}
Int4 == (-MaxInt - 1)..MaxInt

MovementCall == [kind: {"movement"}, product: Product, type: MovementType, quantity: Int]
CreateCall == [kind: {"create"}, product: Product, stock: Int, stockMin: Int]
PatchCall == [kind: {"patch"}, product: Product, stockMin: Int]
NoCall == [kind |-> "none"]

Movement == [id: Request, type: MovementType, quantity: Int4, stockAfter: Int4]

\* What a movement transaction holds between two statements: the product row
\* as it locked it, the stock it computed, and its uncommitted writes.
Tx == [newStock: Int, stockMin: Int4, moved: Seq(Movement), wrote: BOOLEAN,
       opened: BOOLEAN, closed: SUBSET (Nat \ {0})]
NoTx == [newStock |-> 0, stockMin |-> 0, moved |-> <<>>, wrote |-> FALSE,
         opened |-> FALSE, closed |-> {}]

InTransaction == {"insert", "update", "alert", "commit"}
Pc == InTransaction \cup
      {"new", "connect", "lock", "rollback", "release",   \* unit of work
       "find", "patch",                                    \* PATCH
       "check", "insertProduct", "openAlert",              \* POST /products
       "done", "lost"}                                     \* answered; process died
Outcome == {"none", "ok", "rejected", "error"}             \* 2xx, 4xx, 5xx

ASSUME InventoryAssumption ==
    /\ MaxInt \in Nat
    /\ PoolSize \in Nat \ {0}
    /\ Calls \subseteq MovementCall \cup CreateCall \cup PatchCall
    /\ Nobody \notin Request
    /\ Seeded \subseteq Product
    /\ SeedStock \in [Seeded -> 0..MaxInt]
    /\ SeedMin \in [Seeded -> 1..MaxInt]
    /\ CloserWired \in BOOLEAN

\* seed.ts starts every product above its minimum, so it opens no alert.
ASSUME SeedAssumption == \A p \in Seeded : SeedStock[p] > SeedMin[p]

-----------------------------------------------------------------------------
(* Helpers *)

Delta(type, quantity) == IF type = "ENTRADA" THEN quantity ELSE -quantity

\* The handlers' body checks, before any statement is sent.
ValidMovement(c) == c.quantity > 0
ValidCreate(c) == c.stock >= 0 /\ c.stockMin > 0
ValidPatch(c) == c.stockMin > 0

ValidCall(c) ==
    CASE c.kind = "movement" -> ValidMovement(c)
      [] c.kind = "create"   -> ValidCreate(c)
      [] c.kind = "patch"    -> ValidPatch(c)

FirstStatement(c) ==
    CASE c.kind = "movement" -> "connect"
      [] c.kind = "create"   -> "check"
      [] c.kind = "patch"    -> "find"

HasFreeClient == Cardinality(clients) < PoolSize

\* Mutant: rows are read and written without waiting for their lock.
RowFreeAlways(p) == TRUE
\* The products row of p can be locked: FOR UPDATE and UPDATE wait for this.
RowFree(p) == rowLock[p] = Nobody

\* Mutant: the check of BR-1 is off by one.
AcceptedOneShort(newStock) == newStock >= -1
\* BR-1, as StockMutationService checks it.
Accepted(newStock) == newStock >= 0

\* Mutant: no column refuses a value.
FitsAlways(r) == TRUE
\* The values of r's movement fit their int4 columns.
Fits(r) == call[r].quantity \in Int4 /\ tx[r].newStock \in Int4

Active(p) == {i \in DOMAIN alerts[p] : alerts[p][i] = "ACTIVA"}

\* The movement row that r inserts.
NewMovement(r) == [id |-> r, type |-> call[r].type, quantity |-> call[r].quantity,
                   stockAfter |-> tx[r].newStock]

\* Closing or aborting r's session frees the row lock it holds.
FreeLocks(r) == rowLock' = [p \in Product |-> IF rowLock[p] = r THEN Nobody ELSE rowLock[p]]

Goto(r, statement) == pc' = [pc EXCEPT ![r] = statement]
Answer(r, o) == outcome' = [outcome EXCEPT ![r] = o]

-----------------------------------------------------------------------------

Init ==
    /\ products = Seeded
    /\ stock = [p \in Product |-> IF p \in Seeded THEN SeedStock[p] ELSE 0]
    /\ stockMin = [p \in Product |-> IF p \in Seeded THEN SeedMin[p] ELSE 0]
    /\ opening = stock
    /\ movements = [p \in Product |-> <<>>]
    /\ alerts = [p \in Product |-> <<>>]
    /\ rowLock = [p \in Product |-> Nobody]
    /\ clients = {}
    /\ pc = [r \in Request |-> "new"]
    /\ call = [r \in Request |-> NoCall]
    /\ tx = [r \in Request |-> NoTx]
    /\ outcome = [r \in Request |-> "none"]

\* A call arrives; a malformed body is answered 400 at once.
Arrive(r) ==
    /\ pc[r] = "new"
    /\ \E c \in Calls :
           /\ call' = [call EXCEPT ![r] = c]
           /\ \/ ValidCall(c) /\ Goto(r, FirstStatement(c)) /\ UNCHANGED outcome
              \/ ~ValidCall(c) /\ Goto(r, "done") /\ Answer(r, "rejected")
    /\ UNCHANGED <<tables, rowLock, clients, tx>>

-----------------------------------------------------------------------------
(* Connections: pool.connect() and BEGIN, client.release() *)

Connect(r) ==
    /\ pc[r] = "connect"
    /\ HasFreeClient
    /\ clients' = clients \cup {r}
    /\ Goto(r, IF call[r].kind = "patch" THEN "patch" ELSE "lock")
    /\ UNCHANGED <<tables, rowLock, call, tx, outcome>>

Release(r) ==
    /\ pc[r] = "release"
    /\ clients' = clients \ {r}
    /\ Goto(r, "done")
    /\ UNCHANGED <<tables, rowLock, call, tx, outcome>>

-----------------------------------------------------------------------------
(* POST /products/{id}/movements: StockMutationService.record *)

\* SELECT ... FOR UPDATE returns the row, and the new stock is computed.
LockProduct(r) ==
    LET p == call[r].product
        newStock == stock[p] + Delta(call[r].type, call[r].quantity)
    IN  /\ pc[r] = "lock"
        /\ p \in products
        /\ RowFree(p)
        /\ rowLock' = [rowLock EXCEPT ![p] = r]
        /\ tx' = [tx EXCEPT ![r] = [NoTx EXCEPT !.newStock = newStock,
                                                !.stockMin = stockMin[p]]]
        /\ \/ Accepted(newStock) /\ Goto(r, "insert") /\ UNCHANGED outcome
           \/ ~Accepted(newStock) /\ Goto(r, "rollback") /\ Answer(r, "rejected")
        /\ UNCHANGED <<tables, clients, call>>

\* SELECT ... FOR UPDATE finds no row: 404.
ProductMissing(r) ==
    /\ pc[r] = "lock"
    /\ call[r].product \notin products
    /\ Goto(r, "rollback")
    /\ Answer(r, "rejected")
    /\ UNCHANGED <<tables, rowLock, clients, call, tx>>

InsertMovement(r) ==
    /\ pc[r] = "insert"
    /\ Fits(r)
    /\ tx' = [tx EXCEPT ![r].moved = <<NewMovement(r)>>]
    /\ Goto(r, "update")
    /\ UNCHANGED <<tables, rowLock, clients, call, outcome>>

\* The handler checks no upper bound: Postgres refuses the row.
MovementOutOfRange(r) ==
    /\ pc[r] = "insert"
    /\ ~Fits(r)
    /\ Goto(r, "rollback")
    /\ Answer(r, "error")
    /\ UNCHANGED <<tables, rowLock, clients, call, tx>>

UpdateStock(r) ==
    /\ pc[r] = "update"
    /\ tx' = [tx EXCEPT ![r].wrote = TRUE]
    /\ Goto(r, "alert")
    /\ UNCHANGED <<tables, rowLock, clients, call, outcome>>

\* Mutant: only the movement that crosses the minimum raises the alert.
RaiseOnCrossing(r) ==
    /\ pc[r] = "alert"
    /\ tx[r].newStock <= tx[r].stockMin
    /\ tx' = [tx EXCEPT ![r].opened = stock[call[r].product] > tx[r].stockMin]
    /\ Goto(r, "commit")
    /\ UNCHANGED <<tables, rowLock, clients, call, outcome>>

\* openAlertIfAbsent inserts an ACTIVA row; no index of the migrations makes
\* the insert fail when there is one already.
RaiseAlert(r) ==
    /\ pc[r] = "alert"
    /\ tx[r].newStock <= tx[r].stockMin
    /\ tx' = [tx EXCEPT ![r].opened = TRUE]
    /\ Goto(r, "commit")
    /\ UNCHANGED <<tables, rowLock, clients, call, outcome>>

\* Mutant: a product exactly at its minimum counts as recovered.
CloseAtMinimum(r) ==
    /\ pc[r] = "alert"
    /\ tx[r].newStock >= tx[r].stockMin
    /\ tx' = [tx EXCEPT ![r].closed = IF CloserWired THEN Active(call[r].product) ELSE {}]
    /\ Goto(r, "commit")
    /\ UNCHANGED <<tables, rowLock, clients, call, outcome>>

\* txCloseIfOpenAndAboveMin: the adapter resolves every ACTIVA row the
\* statement sees, the no-op that bootstrap.ts falls back to resolves none.
CloseAlerts(r) ==
    /\ pc[r] = "alert"
    /\ tx[r].newStock > tx[r].stockMin
    /\ tx' = [tx EXCEPT ![r].closed = IF CloserWired THEN Active(call[r].product) ELSE {}]
    /\ Goto(r, "commit")
    /\ UNCHANGED <<tables, rowLock, clients, call, outcome>>

\* Mutant: the stock is committed without its movement.
MovementLeftOut(r) ==
    LET p == call[r].product IN
    /\ stock' = [stock EXCEPT ![p] = tx[r].newStock]
    /\ FreeLocks(r)
    /\ tx' = [tx EXCEPT ![r] = NoTx]
    /\ UNCHANGED <<products, stockMin, opening, movements, alerts>>

\* The server makes r's writes visible and frees its lock.
ApplyWrites(r) ==
    LET p == call[r].product
        kept == [i \in DOMAIN alerts[p] |->
                    IF i \in tx[r].closed THEN "RESUELTA" ELSE alerts[p][i]]
    IN  /\ movements' = [movements EXCEPT ![p] = @ \o tx[r].moved]
        /\ stock' = [stock EXCEPT ![p] = IF tx[r].wrote THEN tx[r].newStock ELSE @]
        /\ alerts' = [alerts EXCEPT ![p] =
                          IF tx[r].opened THEN Append(kept, "ACTIVA") ELSE kept]
        /\ FreeLocks(r)
        /\ tx' = [tx EXCEPT ![r] = NoTx]
        /\ UNCHANGED <<products, stockMin, opening>>

Commit(r) ==
    /\ pc[r] = "commit"
    /\ ApplyWrites(r)
    /\ Goto(r, "release")
    /\ Answer(r, "ok")
    /\ UNCHANGED <<clients, call>>

\* Mutant: an unacknowledged COMMIT is retried.
RetryAfterCommit(r) ==
    /\ pc[r] = "commit"
    /\ ApplyWrites(r)
    /\ Goto(r, "lock")
    /\ UNCHANGED <<clients, call, outcome>>

\* The connection breaks after the server committed: the code sees an error,
\* sends ROLLBACK and answers 500.
CommitUnacknowledged(r) ==
    /\ pc[r] = "commit"
    /\ ApplyWrites(r)
    /\ Goto(r, "rollback")
    /\ Answer(r, "error")
    /\ UNCHANGED <<clients, call>>

\* Mutant: the catch block sends no ROLLBACK.
RollbackForgotten(r) ==
    /\ pc[r] = "rollback"
    /\ Goto(r, "release")
    /\ UNCHANGED <<tables, rowLock, clients, call, tx, outcome>>

\* ROLLBACK drops r's writes and its lock; the error is thrown on, unless
\* ROLLBACK itself fails: the server aborts the broken session, and the new
\* error replaces a refusal.
Rollback(r) ==
    /\ pc[r] = "rollback"
    /\ FreeLocks(r)
    /\ tx' = [tx EXCEPT ![r] = NoTx]
    /\ Goto(r, "release")
    /\ UNCHANGED outcome \/ Answer(r, "error")
    /\ UNCHANGED <<tables, clients, call>>

\* A statement of the transaction fails (connection, timeout, server).
StatementFails(r) ==
    /\ pc[r] \in InTransaction \cup {"lock"}
    /\ Goto(r, "rollback")
    /\ Answer(r, "error")
    /\ UNCHANGED <<tables, rowLock, clients, call, tx>>

-----------------------------------------------------------------------------
(* PATCH /products/{id}: UpdateProductUseCase, the part that sets stockMin *)

FindProduct(r) ==
    /\ pc[r] = "find"
    /\ HasFreeClient
    /\ \/ call[r].product \in products /\ Goto(r, "connect") /\ UNCHANGED outcome
       \/ call[r].product \notin products /\ Goto(r, "done") /\ Answer(r, "rejected")
    /\ UNCHANGED <<tables, rowLock, clients, call, tx>>

\* Mutant: the UPDATE of stock_min does not wait for the row lock.
PatchWithoutWaiting(r) ==
    /\ pc[r] = "patch"
    /\ call[r].stockMin \in Int4
    /\ stockMin' = [stockMin EXCEPT ![call[r].product] = call[r].stockMin]
    /\ Goto(r, "release")
    /\ Answer(r, "ok")
    /\ UNCHANGED <<products, stock, opening, movements, alerts, rowLock, clients, call, tx>>

\* The UPDATE waits for the row lock, holding its connection.  No alert is
\* opened or closed for the new minimum.  The read of hasActiveAlert that
\* follows may still fail.
PatchStockMin(r) ==
    /\ pc[r] = "patch"
    /\ RowFree(call[r].product)
    /\ call[r].stockMin \in Int4
    /\ stockMin' = [stockMin EXCEPT ![call[r].product] = call[r].stockMin]
    /\ Goto(r, "release")
    /\ Answer(r, "ok") \/ Answer(r, "error")
    /\ UNCHANGED <<products, stock, opening, movements, alerts, rowLock, clients, call, tx>>

PatchFails(r) ==
    /\ pc[r] = "patch"
    /\ Goto(r, "release")
    /\ Answer(r, "error")
    /\ UNCHANGED <<tables, rowLock, clients, call, tx>>

-----------------------------------------------------------------------------
(* POST /products: CreateProductUseCase, the part that concerns stock *)

\* findById of the category and findBySku: a category that is missing (404)
\* or a SKU that is taken (409) ends the call.
CheckSku(r) ==
    /\ pc[r] = "check"
    /\ HasFreeClient
    /\ \/ call[r].product \notin products /\ Goto(r, "insertProduct") /\ UNCHANGED outcome
       \/ Goto(r, "done") /\ Answer(r, "rejected")
    /\ UNCHANGED <<tables, rowLock, clients, call, tx>>

\* The INSERT commits by itself; the unique SKU turns a second one into an error.
InsertProduct(r) ==
    LET c == call[r] IN
    /\ pc[r] = "insertProduct"
    /\ HasFreeClient
    /\ c.product \notin products
    /\ c.stock \in Int4 /\ c.stockMin \in Int4
    /\ products' = products \cup {c.product}
    /\ stock' = [stock EXCEPT ![c.product] = c.stock]
    /\ stockMin' = [stockMin EXCEPT ![c.product] = c.stockMin]
    /\ opening' = [opening EXCEPT ![c.product] = c.stock]
    /\ \/ c.stock <= c.stockMin /\ Goto(r, "openAlert") /\ UNCHANGED outcome
       \/ c.stock > c.stockMin /\ Goto(r, "done") /\ Answer(r, "ok")
    /\ UNCHANGED <<movements, alerts, rowLock, clients, call, tx>>

\* pool.connect() or a statement outside a transaction fails: no connection, a
\* server error, a SKU taken since it was checked, a value out of range.
QueryFails(r) ==
    /\ pc[r] \in {"connect", "find", "check", "insertProduct"}
    /\ Goto(r, "done")
    /\ Answer(r, "error")
    /\ UNCHANGED <<tables, rowLock, clients, call, tx>>

\* The alert of a product created low: a transaction of its own, after the
\* product is committed, and best-effort: a failure is logged and swallowed.
OpenAlertAfterCreate(r) ==
    /\ pc[r] = "openAlert"
    /\ HasFreeClient
    /\ \/ alerts' = [alerts EXCEPT ![call[r].product] = Append(@, "ACTIVA")]
       \/ UNCHANGED alerts
    /\ Goto(r, "done")
    /\ Answer(r, "ok")
    /\ UNCHANGED <<products, stock, stockMin, opening, movements, rowLock, clients, call, tx>>

-----------------------------------------------------------------------------

\* The process that serves r dies: Postgres aborts the session.
Crash(r) ==
    /\ pc[r] \notin {"new", "done", "lost"}
    /\ FreeLocks(r)
    /\ clients' = clients \ {r}
    /\ tx' = [tx EXCEPT ![r] = NoTx]
    /\ Goto(r, "lost")
    /\ UNCHANGED <<tables, call, outcome>>

Movements(r) ==
    \/ LockProduct(r) \/ ProductMissing(r)
    \/ InsertMovement(r) \/ MovementOutOfRange(r)
    \/ UpdateStock(r) \/ RaiseAlert(r) \/ CloseAlerts(r)
    \/ Commit(r) \/ Rollback(r)

Catalog(r) ==
    \/ FindProduct(r) \/ PatchStockMin(r)
    \/ CheckSku(r) \/ InsertProduct(r) \/ OpenAlertAfterCreate(r)

Failures(r) ==
    \/ CommitUnacknowledged(r) \/ StatementFails(r)
    \/ PatchFails(r) \/ QueryFails(r) \/ Crash(r)

Serve(r) == Connect(r) \/ Movements(r) \/ Catalog(r) \/ Release(r)

\* The failures that are the only answer Postgres has: a value out of range, a
\* SKU taken since it was checked.
WriteRefused(r) ==
    \/ call[r].kind = "patch" /\ call[r].stockMin \notin Int4 /\ PatchFails(r)
    \/ /\ pc[r] = "insertProduct"
       /\ HasFreeClient
       /\ \/ call[r].product \in products
          \/ call[r].stock \notin Int4 \/ call[r].stockMin \notin Int4
       /\ QueryFails(r)

\* Every request has been answered or lost: the model stops here.
Settled ==
    /\ \A r \in Request : pc[r] \in {"done", "lost"}
    /\ UNCHANGED vars

Next == (\E r \in Request : Arrive(r) \/ Serve(r) \/ Failures(r)) \/ Settled

Spec == Init /\ [][Next]_vars

\* The server keeps working on every request; nobody must send one, nothing
\* that can succeed must fail, and no process must die.
Fairness == \A r \in Request : WF_vars(Serve(r) \/ WriteRefused(r))
FairSpec == Spec /\ Fairness

-----------------------------------------------------------------------------
(* Properties *)

\* Every variable has its type; what a request asked for fits where it stands.
TypeOK ==
    /\ products \subseteq Product
    /\ stock \in [Product -> Int4]
    /\ stockMin \in [Product -> Int4]
    /\ opening \in [Product -> Int4]
    /\ movements \in [Product -> Seq(Movement)]
    /\ alerts \in [Product -> Seq(AlertStatus)]
    /\ rowLock \in [Product -> Request \cup {Nobody}]
    /\ clients \subseteq Request
    /\ pc \in [Request -> Pc]
    /\ call \in [Request -> MovementCall \cup CreateCall \cup PatchCall \cup {NoCall}]
    /\ tx \in [Request -> Tx]
    /\ outcome \in [Request -> Outcome]

(***************************************************************************)
(* BR-1: no committed stock is negative, and no movement says one was,     *)
(* whatever movements run concurrently (no CHECK constraint helps).        *)
(***************************************************************************)
StockNeverNegative ==
    \A p \in Product :
        /\ stock[p] >= 0
        /\ \A i \in DOMAIN movements[p] : movements[p][i].stockAfter >= 0

(***************************************************************************)
(* While a movement transaction is open, the product row is still the one  *)
(* it read: the stock it will write and the minimum it compares with are   *)
(* not stale, because the row lock taken by SELECT ... FOR UPDATE is held  *)
(* across every await until COMMIT or ROLLBACK (ADR-0002).                 *)
(***************************************************************************)
LockedRowIsCurrent ==
    \A r \in Request : pc[r] \in InTransaction =>
        LET c == call[r] IN
        /\ rowLock[c.product] = r
        /\ tx[r].newStock = stock[c.product] + Delta(c.type, c.quantity)
        /\ tx[r].stockMin = stockMin[c.product]

L == INSTANCE Ledger WITH accounts <- products, balance <- stock, entries <- movements

(***************************************************************************)
(* The movements of a product add up to its stock, each one's stockAfter   *)
(* continuing the one before it: no update of StockMutationService is lost *)
(* and none is half done, however statements interleave, fail or crash.    *)
(***************************************************************************)
LedgerReconciles == L!Reconciles

\* No request leaves two movements.
RequestPostedOnce == L!PostedOnce

\* The statements implement the ledger: each one posts atomically or does
\* nothing a reader of products and stock_movements can see.
RefinesLedger == L!LedgerSpec

(***************************************************************************)
(* What the client was told is what happened: a movement answered 201 is   *)
(* in the ledger, one answered 4xx is not.  (After a 5xx or a lost answer  *)
(* the client cannot know: see CommitUnacknowledged and Crash.)            *)
(***************************************************************************)
AnswersAreTrue ==
    \A r \in Request : call[r] \in MovementCall =>
        /\ outcome[r] = "ok" => L!Posted(r)
        /\ outcome[r] = "rejected" => ~L!Posted(r)

\* A request that is over holds no connection of the pool and no row lock,
\* whichever way it ended (the finally of DrizzleUnitOfWork.execute).
NothingLeaks ==
    \A r \in Request : pc[r] \in {"done", "lost"} =>
        r \notin clients /\ \A p \in Product : rowLock[p] # r

(***************************************************************************)
(* RF-03: a movement that leaves a product at or below its minimum leaves  *)
(* it with an ACTIVA alert, against the minimum in force when the movement *)
(* commits (a PATCH of stockMin may run at the same time).                 *)
(***************************************************************************)
MovementRaisesAlert ==
    [][\A p \in Product :
          movements'[p] # movements[p] /\ stock'[p] <= stockMin'[p] => Active(p)' # {}]_vars

(***************************************************************************)
(* A product at or below its minimum without an ACTIVA alert was created   *)
(* so and has not been moved since (its best-effort alert is pending,      *)
(* failed or was lost), or owes the very minimum it is under to a PATCH:   *)
(* the first movement mends what a create left, and no movement, refused,  *)
(* failed or crashed, and no closing of alerts leaves a product unflagged. *)
(***************************************************************************)
OnlyCatalogLeavesUnflagged ==
    \A p \in products : stock[p] <= stockMin[p] /\ Active(p) = {} =>
        \E r \in Request :
            \/ call[r].kind = "create" /\ call[r].product = p /\ movements[p] = <<>>
            \/ call[r].kind = "patch" /\ call[r].product = p /\ call[r].stockMin = stockMin[p]

(***************************************************************************)
(* An ACTIVA alert is resolved only by a movement of its product, in the   *)
(* COMMIT that leaves the stock above the minimum then in force: not by a  *)
(* PATCH, a create, a rolled back or a crashed movement, nor by one that   *)
(* decided on a stock or a minimum that is no longer the row's.            *)
(***************************************************************************)
OnlyRecoveryResolves ==
    [][\A p \in Product : Active(p) \ Active(p)' # {} =>
          movements'[p] # movements[p] /\ stock'[p] > stockMin'[p]]_vars

(***************************************************************************)
(* README.md:549: a movement that leaves a product above its minimum       *)
(* leaves it with no ACTIVA alert.                                         *)
(***************************************************************************)
RecoveryResolvesAlerts ==
    [][\A p \in Product :
          movements'[p] # movements[p] /\ stock'[p] > stockMin'[p] => Active(p)' = {}]_vars

\* Every request is answered, unless its process dies: no wait for a row lock
\* or a connection lasts for ever, whatever failed before.
EveryRequestSettles ==
    \A r \in Request : pc[r] # "new" ~> pc[r] \in {"done", "lost"}

=============================================================================
