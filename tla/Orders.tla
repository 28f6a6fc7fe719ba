-------------------------------- MODULE Orders --------------------------------
(***************************************************************************)
(* Purchase orders, one action per SQL statement that a call awaits:       *)
(*                                                                         *)
(*   create    POST /orders                  CreateOrderUseCase            *)
(*   approve   POST /orders/{id}/approve     ApproveOrderUseCase           *)
(*   reject    POST /orders/{id}/reject      RejectOrderUseCase            *)
(*   receive   POST /orders/{id}/receive     ReceiveOrderUseCase           *)
(*                                                                         *)
(* approve and reject read the status and then write it, in two statements *)
(* without a transaction.  receive is one transaction over the order, the  *)
(* product's stock and its alerts; what it writes waits in tx[r] until     *)
(* COMMIT.  The rest of the system (Inventory) moves stocks, minima and    *)
(* alerts meanwhile: MovementElsewhere, MinimumPatched, AlertTurns.        *)
(*                                                                         *)
(* The transaction context that DrizzleUnitOfWork builds has none of the   *)
(* methods DrizzleOrderRepository calls on it: as deployed                 *)
(* ContextHasQueries is FALSE.  TRUE is the flow as its code is written,   *)
(* on a context that answers.                                              *)
(***************************************************************************)
EXTENDS Integers, FiniteSets

CONSTANTS
    Request,            \* HTTP calls; an order is named after the call that creates it
    Earlier,            \* ids of the orders created before
    EarlierRow,         \* their rows
    Product,            \* ids a call may name
    Catalog,            \* the ones with a products row
    Alert,              \* ids of alerts
    AlertProduct,       \* the product of each alert
    NoAlert,            \* fromAlertId absent
    Calls,              \* what the calls may ask for
    Nobody,             \* the holder of a free row lock
    MaxInt,             \* largest int4
    Minima,             \* the values stockMin takes
    OpeningStock,       \* the stock every product starts with
    Sold,               \* quantities that other movements take
    ContextHasQueries   \* TRUE iff the transaction context has select and update

VARIABLES
    orders,         \* the purchase_orders row of each order
    stock,          \* products.stock
    minimum,        \* products.stock_min
    alerts,         \* status of each alert
    orderLock,      \* who holds the lock of each purchase_orders row
    productLock,    \* who holds the lock of each products row
    pc,             \* the statement each request awaits next
    call,           \* what each request asked for
    tx,             \* what each receive computed
    outcome,        \* how each request was answered
    net,            \* history: what the committed movements add up to
    received,       \* history: requests whose receive the server committed
    minimaSeen,     \* history: the minima in force while each request ran
    answeredBefore, \* history: the requests answered when each one arrived
    disturbed,      \* history: requests that a failure hit
    raced,          \* history: orders whose check a call passed while another one
                    \* was between its own and its write
    agreed          \* history: the rows, of those orders as they were then

locks == <<orderLock, productLock>>
tables == <<orders, agreed, stock, minimum, alerts, net, received>>
history == <<answeredBefore, disturbed, raced>>
vars == <<tables, locks, pc, call, tx, outcome, minimaSeen, history>>

-----------------------------------------------------------------------------
(* Types *)

OrderId == Earlier \cup Request

A == INSTANCE PurchaseOrder
U == INSTANCE PurchaseOrder WITH orders <- agreed

CreateCall == [kind: {"create"}, product: Product, quantity: Int,
               fromAlert: Alert \cup {NoAlert}]
TurnCall == [kind: {"approve", "receive"}, order: OrderId]
RejectCall == [kind: {"reject"}, order: OrderId, reasonFits: BOOLEAN]
NoCall == [kind |-> "none"]

\* The stock a receive will write, the minimum it read with it, and the alerts
\* it resolved.
Tx == [stockAfter: Int, minimum: Int, closed: SUBSET Alert]
NoTx == [stockAfter |-> 0, minimum |-> 0, closed |-> {}]

InTransaction == {"readInTx", "mark", "gate", "close", "commit"}
Outside == {"readProduct", "readAlert", "insert", "find", "update", "compose"}
Pc == InTransaction \cup Outside \cup {"new", "rollback", "done", "lost"}
Outcome == {"none", "ok", "rejected", "error"}

AlertStatus == {"absent", "ACTIVA", "RESUELTA"}

ASSUME OrdersAssumption ==
    /\ Nobody \notin Request /\ Earlier \cap Request = {}
    /\ EarlierRow \in [Earlier -> A!Row] /\ \A o \in Earlier : A!WellFormed(EarlierRow[o])
    /\ Calls \subseteq CreateCall \cup TurnCall \cup RejectCall
    /\ Catalog \subseteq Product /\ \A o \in Earlier : EarlierRow[o].product \in Catalog
    /\ AlertProduct \in [Alert -> Catalog] /\ NoAlert \notin Alert
    /\ MaxInt \in Nat /\ OpeningStock \in 0..MaxInt
    /\ Minima \subseteq 1..MaxInt /\ Sold \subseteq Nat \ {0}
    /\ ContextHasQueries \in BOOLEAN

-----------------------------------------------------------------------------
(* Helpers *)

\* The schemas the handlers parse the body with: a positive quantity; a reason
\* of 10 to 500 characters.
ValidCreate(c) == c.quantity > 0
ValidReject(c) == c.reasonFits

ValidCall(c) == (c.kind = "create" => ValidCreate(c)) /\ (c.kind = "reject" => ValidReject(c))

FirstStatement(c) == IF c.kind = "create" THEN "readProduct" ELSE "find"

OrderRowFree(o) == orderLock[o] = Nobody
ProductRowFree(p) == productLock[p] = Nobody

\* Mutant: the factor two is missing.
MeetsMinimum(quantity, min) == quantity >= min
\* BR-2, as CreateOrderUseCase checks it.
MeetsPolicy(quantity, min) == quantity >= 2 * min

\* An integer column holds n.
FitsColumn(n) == n <= MaxInt

Goto(r, statement) == pc' = [pc EXCEPT ![r] = statement]
Answer(r, o) == outcome' = [outcome EXCEPT ![r] = o]
Refuse(r) == Goto(r, "done") /\ Answer(r, "rejected")
RefuseInTx(r, o) == Goto(r, "rollback") /\ Answer(r, o)

FreeLocks(r) ==
    /\ orderLock' = [o \in OrderId |-> IF orderLock[o] = r THEN Nobody ELSE orderLock[o]]
    /\ productLock' = [p \in Catalog |-> IF productLock[p] = r THEN Nobody ELSE productLock[p]]

Active(p) == {a \in Alert : AlertProduct[a] = p /\ alerts[a] = "ACTIVA"}

NewOrder(c) ==
    [product |-> c.product, quantity |-> c.quantity, status |-> "PENDIENTE",
     reason |-> FALSE, receivedAt |-> FALSE]

OrderOf(r) == call[r].order
ProductOf(r) == orders[OrderOf(r)].product

\* The calls that have found the status of an order right and not written it yet.
Deciding(o) ==
    {q \in Request : pc[q] \in {"update", "mark", "gate", "close", "commit"} /\ OrderOf(q) = o}

PassCheck(r, statement) ==
    /\ Goto(r, statement)
    /\ raced' = IF Deciding(OrderOf(r)) = {} THEN raced ELSE raced \cup {OrderOf(r)}

\* The shadow of a write.
AgreeOn(o) == agreed' = [agreed EXCEPT ![o] = IF o \in raced THEN @ ELSE orders'[o]]

-----------------------------------------------------------------------------

Init ==
    /\ orders = [o \in OrderId |-> IF o \in Earlier THEN EarlierRow[o] ELSE A!NoOrder]
    /\ stock = [p \in Catalog |-> OpeningStock]
    /\ minimum \in [Catalog -> Minima]
    /\ alerts \in [Alert -> AlertStatus]
    /\ orderLock = [o \in OrderId |-> Nobody]
    /\ productLock = [p \in Catalog |-> Nobody]
    /\ pc = [r \in Request |-> "new"]
    /\ call = [r \in Request |-> NoCall]
    /\ tx = [r \in Request |-> NoTx]
    /\ outcome = [r \in Request |-> "none"]
    /\ net = [p \in Catalog |-> 0]
    /\ received = {}
    /\ minimaSeen = [r \in Request |-> {}]
    /\ answeredBefore = [r \in Request |-> {}]
    /\ disturbed = {}
    /\ raced = {}
    /\ agreed = orders

Arrive(r) ==
    /\ pc[r] = "new"
    /\ \E c \in Calls :
           /\ call' = [call EXCEPT ![r] = c]
           /\ minimaSeen' = [minimaSeen EXCEPT ![r] =
                                 IF c.kind = "create" /\ c.product \in Catalog
                                 THEN {minimum[c.product]} ELSE {}]
           /\ \/ ValidCall(c) /\ Goto(r, FirstStatement(c)) /\ UNCHANGED outcome
              \/ ~ValidCall(c) /\ Refuse(r)
    /\ answeredBefore' = [answeredBefore EXCEPT ![r] = {q \in Request : pc[q] = "done"}]
    /\ UNCHANGED <<tables, locks, tx, disturbed, raced>>

-----------------------------------------------------------------------------
(* POST /orders: three statements, no transaction *)

\* productRepo.findById: 404, or the BR-2 policy on the stockMin it returns.
ReadProduct(r) ==
    LET c == call[r] IN
    /\ pc[r] = "readProduct"
    /\ \/ c.product \notin Catalog /\ Refuse(r)
       \/ /\ c.product \in Catalog
          /\ \/ ~MeetsPolicy(c.quantity, minimum[c.product]) /\ Refuse(r)
             \/ /\ MeetsPolicy(c.quantity, minimum[c.product])
                /\ Goto(r, IF c.fromAlert = NoAlert THEN "insert" ELSE "readAlert")
                /\ UNCHANGED outcome
    /\ UNCHANGED <<tables, locks, call, tx, minimaSeen, history>>

\* alertRepo.findById: missing, resolved or another product's alert is a 422.
ReadAlert(r) ==
    LET a == call[r].fromAlert IN
    /\ pc[r] = "readAlert"
    /\ IF alerts[a] = "ACTIVA" /\ AlertProduct[a] = call[r].product
       THEN Goto(r, "insert") /\ UNCHANGED outcome
       ELSE Refuse(r)
    /\ UNCHANGED <<tables, locks, call, tx, minimaSeen, history>>

InsertOrder(r) ==
    /\ pc[r] = "insert"
    /\ FitsColumn(call[r].quantity)
    /\ orders' = [orders EXCEPT ![r] = NewOrder(call[r])]
    /\ AgreeOn(r)
    /\ Goto(r, "done")
    /\ Answer(r, "ok")
    /\ UNCHANGED <<stock, minimum, alerts, net, received, locks, call, tx, minimaSeen, history>>

-----------------------------------------------------------------------------
(* POST /orders/{id}/approve and /reject: read, then write *)

\* Mutant: neither the order nor its status is checked.
FindUnchecked(r) ==
    /\ pc[r] = "find"
    /\ IF call[r].kind = "receive" THEN Goto(r, "readInTx") /\ UNCHANGED raced
                                   ELSE PassCheck(r, "update")
    /\ UNCHANGED <<tables, locks, call, tx, outcome, minimaSeen, answeredBefore, disturbed>>

\* orderRepo.findById.  A decision wants PENDIENTE; receive checks the status
\* later, inside its transaction.
FindOrder(r) ==
    LET status == orders[OrderOf(r)].status IN
    /\ pc[r] = "find"
    /\ \/ status = "none" /\ Refuse(r) /\ UNCHANGED raced
       \/ /\ status # "none" /\ call[r].kind = "receive"
          /\ Goto(r, "readInTx") /\ UNCHANGED <<outcome, raced>>
       \/ /\ status = "PENDIENTE" /\ call[r].kind # "receive"
          /\ PassCheck(r, "update") /\ UNCHANGED outcome
       \/ /\ status \notin {"none", "PENDIENTE"} /\ call[r].kind # "receive"
          /\ Refuse(r) /\ UNCHANGED raced
    /\ UNCHANGED <<tables, locks, call, tx, minimaSeen, answeredBefore, disturbed>>

\* Mutant: the reason of a rejection is not written.
ReasonLeftOut(r) ==
    /\ pc[r] = "update"
    /\ OrderRowFree(OrderOf(r))
    /\ orders' = [orders EXCEPT ![OrderOf(r)].status =
                     IF call[r].kind = "approve" THEN "APROBADA" ELSE "RECHAZADA"]
    /\ AgreeOn(OrderOf(r))
    /\ Goto(r, "compose")
    /\ UNCHANGED <<stock, minimum, alerts, net, received, locks, call, tx, outcome,
                   minimaSeen, history>>

\* updateStatus: UPDATE ... WHERE id, whatever the status is by now.
UpdateStatus(r) ==
    /\ pc[r] = "update"
    /\ OrderRowFree(OrderOf(r))
    /\ orders' = [orders EXCEPT ![OrderOf(r)] =
           IF call[r].kind = "approve"
           THEN [@ EXCEPT !.status = "APROBADA"]
           ELSE [@ EXCEPT !.status = "RECHAZADA", !.reason = TRUE]]
    /\ AgreeOn(OrderOf(r))
    /\ Goto(r, "compose")
    /\ UNCHANGED <<stock, minimum, alerts, net, received, locks, call, tx, outcome,
                   minimaSeen, history>>

\* productRepo.findById for the answer; the product is never deleted.
Compose(r) ==
    /\ pc[r] = "compose"
    /\ Goto(r, "done")
    /\ Answer(r, "ok")
    /\ UNCHANGED <<tables, locks, call, tx, minimaSeen, history>>

-----------------------------------------------------------------------------
(* POST /orders/{id}/receive: one transaction *)

\* Mutant: an order that was received already may be received again.
ReceiveAgain(r) ==
    /\ pc[r] = "readInTx"
    /\ \/ /\ orders[OrderOf(r)].status \in {"APROBADA", "RECIBIDA"}
          /\ PassCheck(r, "mark") /\ UNCHANGED outcome
       \/ /\ orders[OrderOf(r)].status \notin {"APROBADA", "RECIBIDA"}
          /\ RefuseInTx(r, "rejected") /\ UNCHANGED raced
    /\ UNCHANGED <<tables, locks, call, tx, minimaSeen, answeredBefore, disturbed>>

\* BEGIN and findByIdTx: a plain SELECT, no FOR UPDATE.  On the deployed
\* context client.select is not a function: a TypeError, ROLLBACK and 500.
ReadInTransaction(r) ==
    /\ pc[r] = "readInTx"
    /\ \/ ~ContextHasQueries /\ RefuseInTx(r, "error") /\ UNCHANGED raced
       \/ /\ ContextHasQueries /\ orders[OrderOf(r)].status = "APROBADA"
          /\ PassCheck(r, "mark") /\ UNCHANGED outcome
       \/ /\ ContextHasQueries /\ orders[OrderOf(r)].status # "APROBADA"
          /\ RefuseInTx(r, "rejected") /\ UNCHANGED raced
    /\ UNCHANGED <<tables, locks, call, tx, minimaSeen, answeredBefore, disturbed>>

\* txUpdate: the row's lock is taken here, after the status was checked.
MarkReceived(r) ==
    /\ pc[r] = "mark"
    /\ OrderRowFree(OrderOf(r))
    /\ orderLock' = [orderLock EXCEPT ![OrderOf(r)] = r]
    /\ Goto(r, "gate")
    /\ UNCHANGED <<tables, productLock, call, tx, outcome, minimaSeen, history>>

\* Mutant: the product's row is read without FOR UPDATE.
IncrementUnlocked(r) ==
    LET p == ProductOf(r)
        stockAfter == stock[p] + orders[OrderOf(r)].quantity
    IN  /\ pc[r] = "gate"
        /\ tx' = [tx EXCEPT ![r] = [stockAfter |-> stockAfter, minimum |-> minimum[p],
                                    closed |-> {}]]
        /\ IF FitsColumn(stockAfter)
           THEN Goto(r, "close") /\ UNCHANGED outcome
           ELSE RefuseInTx(r, "error")
        /\ UNCHANGED <<tables, locks, call, minimaSeen, history>>

\* txIncrementStock: SELECT ... FOR UPDATE, then the movement and the stock,
\* which int4 columns must be able to hold.
IncrementStock(r) ==
    LET p == ProductOf(r)
        stockAfter == stock[p] + orders[OrderOf(r)].quantity
    IN  /\ pc[r] = "gate"
        /\ ProductRowFree(p)
        /\ productLock' = [productLock EXCEPT ![p] = r]
        /\ tx' = [tx EXCEPT ![r] = [stockAfter |-> stockAfter, minimum |-> minimum[p],
                                    closed |-> {}]]
        /\ IF FitsColumn(stockAfter)
           THEN Goto(r, "close") /\ UNCHANGED outcome
           ELSE RefuseInTx(r, "error")
        /\ UNCHANGED <<tables, orderLock, call, minimaSeen, history>>

\* Mutant: a stock that is back at the minimum counts as recovered.
CloseAtMinimum(r) ==
    /\ pc[r] = "close"
    /\ tx' = [tx EXCEPT ![r].closed =
                  IF tx[r].stockAfter >= tx[r].minimum THEN Active(ProductOf(r)) ELSE {}]
    /\ Goto(r, "commit")
    /\ UNCHANGED <<tables, locks, call, outcome, minimaSeen, history>>

\* txCloseIfOpenAndAboveMin.
CloseAlerts(r) ==
    /\ pc[r] = "close"
    /\ tx' = [tx EXCEPT ![r].closed =
                  IF tx[r].stockAfter > tx[r].minimum THEN Active(ProductOf(r)) ELSE {}]
    /\ Goto(r, "commit")
    /\ UNCHANGED <<tables, locks, call, outcome, minimaSeen, history>>

\* The server makes the transaction's writes visible, all at once.
ApplyReceive(r) ==
    LET p == ProductOf(r) IN
    /\ orders' = [orders EXCEPT ![OrderOf(r)].status = "RECIBIDA",
                                ![OrderOf(r)].receivedAt = TRUE]
    /\ AgreeOn(OrderOf(r))
    /\ stock' = [stock EXCEPT ![p] = tx[r].stockAfter]
    /\ net' = [net EXCEPT ![p] = @ + orders[OrderOf(r)].quantity]
    /\ received' = received \cup {r}
    /\ alerts' = [a \in Alert |-> IF a \in tx[r].closed THEN "RESUELTA" ELSE alerts[a]]
    /\ FreeLocks(r)
    /\ UNCHANGED minimum

Commit(r) ==
    /\ pc[r] = "commit"
    /\ ApplyReceive(r)
    /\ Goto(r, "done")
    /\ Answer(r, "ok")
    /\ UNCHANGED <<call, tx, minimaSeen, history>>

\* Mutant: the connection goes back to the pool inside its transaction.
RollbackForgotten(r) ==
    /\ pc[r] = "rollback"
    /\ Goto(r, "done")
    /\ UNCHANGED <<tables, locks, call, tx, outcome, minimaSeen, history>>

\* The catch of DrizzleUnitOfWork.execute.
Rollback(r) ==
    /\ pc[r] = "rollback"
    /\ FreeLocks(r)
    /\ Goto(r, "done")
    /\ UNCHANGED <<tables, call, tx, outcome, minimaSeen, history>>

-----------------------------------------------------------------------------
(* Failures *)

\* A statement outside a transaction fails.  After updateStatus the decision
\* stays, and the client is told 500.
QueryFails(r) ==
    /\ pc[r] \in Outside
    /\ Goto(r, "done")
    /\ Answer(r, "error")
    /\ disturbed' = disturbed \cup {r}
    /\ UNCHANGED <<tables, locks, call, tx, minimaSeen, answeredBefore, raced>>

StatementFails(r) ==
    /\ pc[r] \in InTransaction
    /\ RefuseInTx(r, "error")
    /\ disturbed' = disturbed \cup {r}
    /\ UNCHANGED <<tables, locks, call, tx, minimaSeen, answeredBefore, raced>>

\* The server commits, the answer is lost, the code sends ROLLBACK and 500.
CommitUnacknowledged(r) ==
    /\ pc[r] = "commit"
    /\ ApplyReceive(r)
    /\ RefuseInTx(r, "error")
    /\ disturbed' = disturbed \cup {r}
    /\ UNCHANGED <<call, tx, minimaSeen, answeredBefore, raced>>

Crash(r) ==
    /\ pc[r] \notin {"new", "done", "lost"}
    /\ FreeLocks(r)
    /\ Goto(r, "lost")
    /\ disturbed' = disturbed \cup {r}
    /\ UNCHANGED <<tables, call, tx, outcome, minimaSeen, answeredBefore, raced>>

-----------------------------------------------------------------------------
(* The rest of the system *)

\* A SALIDA of Inventory commits; it waits for the product's row.
MovementElsewhere(p) ==
    /\ ProductRowFree(p)
    /\ \E n \in Sold : /\ stock[p] - n >= 0
                       /\ stock' = [stock EXCEPT ![p] = @ - n]
                       /\ net' = [net EXCEPT ![p] = @ - n]
    /\ UNCHANGED <<orders, agreed, minimum, alerts, received, locks, pc, call, tx, outcome,
                   minimaSeen, history>>

\* PATCH of a product's stockMin; it waits for the row.
MinimumPatched(p) ==
    /\ ProductRowFree(p)
    /\ \E m \in Minima \ {minimum[p]} :
           /\ minimum' = [minimum EXCEPT ![p] = m]
           /\ minimaSeen' = [r \in Request |->
                  IF call[r].kind = "create" /\ call[r].product = p /\ pc[r] # "done"
                  THEN minimaSeen[r] \cup {m} ELSE minimaSeen[r]]
    /\ UNCHANGED <<orders, agreed, stock, alerts, net, received, locks, pc, call, tx, outcome, history>>

\* An alert is opened (by a create without any lock), or resolved by a movement,
\* which holds the product's row.
AlertTurns(a) ==
    /\ \/ alerts[a] = "absent" /\ alerts' = [alerts EXCEPT ![a] = "ACTIVA"]
       \/ /\ alerts[a] = "ACTIVA" /\ ProductRowFree(AlertProduct[a])
          /\ alerts' = [alerts EXCEPT ![a] = "RESUELTA"]
    /\ UNCHANGED <<orders, agreed, stock, minimum, net, received, locks, pc, call, tx, outcome,
                   minimaSeen, history>>

Elsewhere ==
    \/ \E p \in Catalog : MovementElsewhere(p) \/ MinimumPatched(p)
    \/ \E a \in Alert : AlertTurns(a)

Serve(r) ==
    \/ ReadProduct(r) \/ ReadAlert(r) \/ InsertOrder(r)
    \/ FindOrder(r) \/ UpdateStatus(r) \/ Compose(r)
    \/ ReadInTransaction(r) \/ MarkReceived(r) \/ IncrementStock(r) \/ CloseAlerts(r)
    \/ Commit(r) \/ Rollback(r)

\* The INSERT of a quantity out of range has no other answer.
InsertRefused(r) == pc[r] = "insert" /\ ~FitsColumn(call[r].quantity) /\ QueryFails(r)

Failures(r) == QueryFails(r) \/ StatementFails(r) \/ CommitUnacknowledged(r) \/ Crash(r)

\* Every request has been answered or lost: the model stops here.
Settled ==
    /\ \A r \in Request : pc[r] \in {"done", "lost"}
    /\ UNCHANGED vars

Next ==
    \/ \E r \in Request : Arrive(r) \/ Serve(r) \/ Failures(r)
    \/ Elsewhere
    \/ Settled

Spec == Init /\ [][Next]_vars

\* The server keeps working on every request; nobody must send one, nothing
\* that can succeed must fail, and nothing else must happen in the system.
FairSpec == Spec /\ \A r \in Request : WF_vars(Serve(r) \/ InsertRefused(r))

-----------------------------------------------------------------------------
(* Properties *)

\* Every variable has its type; outcomes and locks stand where they may.
TypeOK ==
    /\ orders \in [OrderId -> A!Row \cup {A!NoOrder}]
    /\ stock \in [Catalog -> 0..MaxInt]
    /\ minimum \in [Catalog -> Minima]
    /\ alerts \in [Alert -> AlertStatus]
    /\ orderLock \in [OrderId -> Request \cup {Nobody}]
    /\ productLock \in [Catalog -> Request \cup {Nobody}]
    /\ pc \in [Request -> Pc]
    /\ call \in [Request -> CreateCall \cup TurnCall \cup RejectCall \cup {NoCall}]
    /\ tx \in [Request -> Tx]
    /\ outcome \in [Request -> Outcome]
    /\ net \in [Catalog -> Int]
    /\ received \subseteq Request
    /\ minimaSeen \in [Request -> SUBSET Minima]
    /\ answeredBefore \in [Request -> SUBSET Request]
    /\ disturbed \subseteq Request
    /\ raced \subseteq OrderId
    /\ agreed \in [OrderId -> A!Row \cup {A!NoOrder}]

(***************************************************************************)
(* The statements implement the aggregate's state machine (BR-5), which no *)
(* use case calls: every write is a transition that approve(), reject() or *)
(* receive() allows, whatever fails, is lost or retried, and whatever runs *)
(* in parallel, until on one order two calls stand between check and write *)
(* at once (approve-order.ts:32): from there on the aggregate sees no more *)
(* of that order.                                                          *)
(***************************************************************************)
RefinesAggregate == U!OrderSpec

(***************************************************************************)
(* What the aggregate's constructor asserts of every order (a reason iff   *)
(* RECHAZADA, received_at iff RECIBIDA): with calls in parallel it fails,  *)
(* approve and reject both pass their check and the second one overwrites  *)
(* the first.                                                              *)
(***************************************************************************)
RowsWellFormed == A!RowsWellFormed

(***************************************************************************)
(* RISK-W07: an order is received into stock once, however often the call  *)
(* is repeated after a 500, a lost answer or a crash; the status is the    *)
(* guard.  Only two calls that stood between check and write at once get   *)
(* past it: findByIdTx takes no lock.                                      *)
(***************************************************************************)
ReceivedOnce ==
    \A q, r \in received : OrderOf(q) = OrderOf(r) => q = r \/ OrderOf(r) \in raced

(***************************************************************************)
(* Two decisions on one order that were both answered 200 overlapped: a    *)
(* client that already has its answer is never contradicted by a later     *)
(* call, whatever else runs in parallel.                                   *)
(***************************************************************************)
Decided(r) == call[r].kind \in {"approve", "reject"} /\ outcome[r] = "ok"

SequentialDecisionsExclusive ==
    \A q, r \in Request :
        Decided(q) /\ Decided(r) /\ OrderOf(q) = OrderOf(r) => q \notin answeredBefore[r]

(***************************************************************************)
(* BR-2 and RF-04: an order was placed for at least twice a minimum that   *)
(* was in force while the call ran (the check reads a row that a PATCH may *)
(* change before the INSERT), and an order from an alert names an alert of *)
(* its own product that was opened.                                        *)
(***************************************************************************)
PolicyWasInForce ==
    \A r \in Request : orders[r] # A!NoOrder =>
        /\ \E m \in minimaSeen[r] : orders[r].quantity >= 2 * m
        /\ call[r].fromAlert # NoAlert =>
               /\ alerts[call[r].fromAlert] # "absent"
               /\ AlertProduct[call[r].fromAlert] = orders[r].product

(***************************************************************************)
(* The stock is what the committed movements and receipts add up to: no    *)
(* receive overwrites a movement and no movement a receive.                *)
(***************************************************************************)
StockExplained == \A p \in Catalog : stock[p] = OpeningStock + net[p]

(***************************************************************************)
(* A receive resolves alerts only of a product that its commit leaves      *)
(* above the minimum then in force, though it compared them two statements *)
(* earlier.                                                                *)
(***************************************************************************)
ReceiveResolvesRecovered ==
    [][\A a \in Alert :
          received' # received /\ alerts'[a] # alerts[a] =>
              stock'[AlertProduct[a]] > minimum'[AlertProduct[a]]]_vars

(***************************************************************************)
(* receive-order.ts:4-26: the receive of an existing order is carried out  *)
(* or refused with 409; only a failure of the database, or a stock beyond  *)
(* int4, makes it answer 500.                                              *)
(***************************************************************************)
ReceiveWorks ==
    \A r \in Request : call[r].kind = "receive" /\ outcome[r] = "error" =>
        r \in disturbed \/ tx[r].stockAfter > MaxInt

\* Every request is answered unless its process dies: a wait for the row of an
\* order or of a product ends, whatever failed before.
EveryRequestSettles ==
    \A r \in Request : pc[r] # "new" ~> pc[r] \in {"done", "lost"}

=============================================================================
