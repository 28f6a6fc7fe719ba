--------------------------- MODULE InventoryProofs ---------------------------
(***************************************************************************)
(* The safety of Inventory for any set of products, requests and calls,    *)
(* any MaxInt and any pool: the inductive invariant IInv, the refinement   *)
(* of Ledger by step simulation, and what both imply.                      *)
(***************************************************************************)
EXTENDS Inventory, TLAPS

\* The statements left to a request whose writes are decided.
Over == {"rollback", "release", "done", "lost"}

\* A request awaits the statements of its own kind of call.
CallInv(r) ==
    /\ pc[r] \in InTransaction \cup {"lock"} =>
           call[r] \in MovementCall /\ call[r].quantity > 0
    /\ pc[r] = "connect" =>
           \/ call[r] \in MovementCall /\ call[r].quantity > 0
           \/ call[r] \in PatchCall
    /\ pc[r] \in {"find", "patch"} => call[r] \in PatchCall
    /\ pc[r] \in {"check", "insertProduct", "openAlert"} =>
           call[r] \in CreateCall /\ call[r].stock >= 0

\* A movement transaction holds the lock of a row that is still as it read
\* it, and its uncommitted writes are the ones of the statements behind it.
TxInv(r) ==
    /\ pc[r] \in InTransaction =>
           /\ rowLock[call[r].product] = r
           /\ call[r].product \in products
           /\ tx[r].newStock = stock[call[r].product] + Delta(call[r].type, call[r].quantity)
           /\ tx[r].stockMin = stockMin[call[r].product]
           /\ tx[r].newStock >= 0
    /\ pc[r] \in {"update", "alert", "commit"} =>
           Fits(r) /\ tx[r].moved = <<NewMovement(r)>>
    /\ pc[r] \in {"alert", "commit"} => tx[r].wrote

\* No request is posted or answered before it is over.
AnswerInv(r) ==
    /\ pc[r] \notin Over => outcome[r] = "none"
    /\ L!Posted(r) => pc[r] \in Over
    /\ call[r] \in MovementCall =>
           /\ outcome[r] = "ok" => L!Posted(r)
           /\ outcome[r] = "rejected" => ~L!Posted(r)

\* Row locks and connections are held between the statements that take them
\* and the ones that give them back.
HolderInv ==
    /\ \A p \in Product, r \in Request :
           rowLock[p] = r => pc[r] \in InTransaction \cup {"rollback"}
    /\ \A r \in clients : pc[r] \in InTransaction \cup {"lock", "patch", "rollback", "release"}

Amounts == \A p \in Product : stock[p] >= 0 /\ opening[p] >= 0

\* The inductive invariant.
IInv ==
    /\ TypeOK
    /\ \A r \in Request : CallInv(r) /\ TxInv(r) /\ AnswerInv(r)
    /\ HolderInv
    /\ Amounts

-----------------------------------------------------------------------------
(* Types *)

\* The fields of the three kinds of calls.
LEMMA CallTypes ==
    /\ \A c \in MovementCall : c.kind = "movement" /\ c.product \in Product
           /\ c.type \in MovementType /\ c.quantity \in Int
    /\ \A c \in CreateCall : c.kind = "create" /\ c.product \in Product
           /\ c.stock \in Int /\ c.stockMin \in Int
    /\ \A c \in PatchCall : c.kind = "patch" /\ c.product \in Product /\ c.stockMin \in Int
  BY DEF MovementCall, CreateCall, PatchCall

\* Types of the records that the actions put in tx.
LEMMA NoTxType == NoTx \in Tx
  BY InventoryAssumption DEF Tx, NoTx, Int4

LEMMA FreshTxType ==
    ASSUME NEW t \in Tx, NEW n \in Int, NEW m \in Int4
    PROVE  [t EXCEPT !.newStock = n, !.stockMin = m] \in Tx
  BY DEF Tx

LEMMA MovedTxType ==
    ASSUME NEW t \in Tx, NEW m \in Movement PROVE [t EXCEPT !.moved = <<m>>] \in Tx
<1>1. <<m>> \in Seq(Movement)
  OBVIOUS
<1> QED
  BY <1>1 DEF Tx

LEMMA FlagTxType ==
    ASSUME NEW t \in Tx
    PROVE  [t EXCEPT !.wrote = TRUE] \in Tx /\ [t EXCEPT !.opened = TRUE] \in Tx
  BY DEF Tx

LEMMA ClosedTxType ==
    ASSUME NEW t \in Tx, NEW s \in SUBSET (Nat \ {0}) PROVE [t EXCEPT !.closed = s] \in Tx
  BY DEF Tx

\* Freeing locks, and replacing one transaction, keep the types.
LEMMA FreeLocksType ==
    ASSUME TypeOK, NEW r \in Request, FreeLocks(r)
    PROVE  rowLock' \in [Product -> Request \cup {Nobody}]
  BY DEF TypeOK, FreeLocks

LEMMA TxUpdateType ==
    ASSUME TypeOK, NEW r \in Request, NEW t \in Tx, tx' = [tx EXCEPT ![r] = t]
    PROVE  tx' \in [Request -> Tx]
  BY DEF TypeOK

\* One lemma for each action that does more than move pc and outcome.
LEMMA TypesArrive == ASSUME TypeOK, NEW r \in Request, Arrive(r) PROVE TypeOK'
<1>1. PICK c \in Calls :
          /\ call' = [call EXCEPT ![r] = c]
          /\ \/ ValidCall(c) /\ Goto(r, FirstStatement(c)) /\ UNCHANGED outcome
             \/ ~ValidCall(c) /\ Goto(r, "done") /\ Answer(r, "rejected")
  BY DEF Arrive
<1>2. c \in MovementCall \cup CreateCall \cup PatchCall
  BY InventoryAssumption
<1>3. FirstStatement(c) \in Pc
  BY <1>2, CallTypes DEF FirstStatement, Pc
<1>4. pc' \in [Request -> Pc] /\ outcome' \in [Request -> Outcome]
  BY <1>1, <1>3 DEF TypeOK, Goto, Answer, Pc, Outcome
<1> QED
  BY <1>1, <1>2, <1>4 DEF TypeOK, Arrive, tables

LEMMA TypesLockProduct ==
    ASSUME TypeOK, NEW r \in Request, CallInv(r), LockProduct(r)
    PROVE  TypeOK'
<1> DEFINE p == call[r].product
           newStock == stock[p] + Delta(call[r].type, call[r].quantity)
           t == [NoTx EXCEPT !.newStock = newStock, !.stockMin = stockMin[p]]
<1>1. call[r] \in MovementCall /\ p \in Product
  BY CallTypes DEF LockProduct, CallInv
<1>2. stock[p] \in Int /\ newStock \in Int /\ stockMin[p] \in Int4
  BY <1>1, CallTypes, InventoryAssumption DEF TypeOK, Delta, Int4
<1>3. t \in Tx
  BY <1>2, NoTxType, FreshTxType
<1>4. tx' = [tx EXCEPT ![r] = t] /\ rowLock' = [rowLock EXCEPT ![p] = r]
  BY DEF LockProduct
<1> HIDE DEF t
<1>5. tx' \in [Request -> Tx] /\ rowLock' \in [Product -> Request \cup {Nobody}]
  BY <1>1, <1>3, <1>4 DEF TypeOK
<1>6. pc' \in [Request -> Pc] /\ outcome' \in [Request -> Outcome]
  BY DEF TypeOK, LockProduct, Goto, Answer, Pc, Outcome, InTransaction
<1> QED
  BY <1>5, <1>6 DEF TypeOK, LockProduct, tables

LEMMA TypesCloseAlerts ==
    ASSUME TypeOK, NEW r \in Request, CallInv(r), CloseAlerts(r)
    PROVE  TypeOK'
<1> DEFINE p == call[r].product
           s == IF CloserWired THEN Active(p) ELSE {}
           t == [tx[r] EXCEPT !.closed = s]
<1>1. p \in Product
  BY CallTypes DEF CloseAlerts, CallInv, InTransaction
<1>2. s \in SUBSET (Nat \ {0})
  <2>1. alerts[p] \in Seq(AlertStatus)
    BY <1>1 DEF TypeOK
  <2>2. DOMAIN alerts[p] \subseteq Nat \ {0}
    BY <2>1
  <2> QED
    BY <2>2 DEF Active
<1>3. t \in Tx
  BY <1>2, ClosedTxType DEF TypeOK
<1>4. tx' = [tx EXCEPT ![r] = t]
  BY DEF CloseAlerts, TypeOK
<1> HIDE DEF t
<1> QED
  BY <1>3, <1>4 DEF TypeOK, CloseAlerts, Goto, tables, Pc, InTransaction

LEMMA TypesInsertProduct ==
    ASSUME TypeOK, NEW r \in Request, CallInv(r), InsertProduct(r)
    PROVE  TypeOK'
<1>1. call[r].product \in Product
  BY CallTypes DEF InsertProduct, CallInv
<1>2. pc' \in [Request -> Pc] /\ outcome' \in [Request -> Outcome]
  BY DEF TypeOK, InsertProduct, Goto, Answer, Pc, Outcome
<1>3. products' \subseteq Product /\ stock' \in [Product -> Int4] 
      /\ stockMin' \in [Product -> Int4] /\ opening' \in [Product -> Int4]
  BY <1>1 DEF TypeOK, InsertProduct
<1> QED
  BY <1>2, <1>3 DEF TypeOK, InsertProduct

LEMMA TypesOpenAlertAfterCreate ==
    ASSUME TypeOK, NEW r \in Request, CallInv(r), OpenAlertAfterCreate(r)
    PROVE  TypeOK'
<1>1. call[r].product \in Product
  BY CallTypes DEF OpenAlertAfterCreate, CallInv
<1>2. alerts[call[r].product] \in Seq(AlertStatus) /\ "ACTIVA" \in AlertStatus
  BY <1>1 DEF TypeOK, AlertStatus
<1>3. Append(alerts[call[r].product], "ACTIVA") \in Seq(AlertStatus)
  BY <1>2
<1>4. alerts' \in [Product -> Seq(AlertStatus)]
  BY <1>3 DEF TypeOK, OpenAlertAfterCreate
<1> QED
  BY <1>4 DEF TypeOK, OpenAlertAfterCreate, Goto, Answer, Pc, Outcome

\* COMMIT appends the one movement and writes the one stock that were prepared.
LEMMA TypesApplyWrites ==
    ASSUME TypeOK, NEW r \in Request, CallInv(r), TxInv(r), pc[r] = "commit", ApplyWrites(r)
    PROVE  /\ movements' = [movements EXCEPT ![call[r].product] = Append(@, NewMovement(r))]
           /\ stock' = [stock EXCEPT ![call[r].product] = tx[r].newStock]
           /\ NewMovement(r) \in Movement
           /\ movements' \in [Product -> Seq(Movement)]
           /\ stock' \in [Product -> Int4]
           /\ alerts' \in [Product -> Seq(AlertStatus)]
<1> DEFINE p == call[r].product
           kept == [i \in DOMAIN alerts[p] |->
                       IF i \in tx[r].closed THEN "RESUELTA" ELSE alerts[p][i]]
<1>1. p \in Product /\ call[r] \in MovementCall
  BY CallTypes DEF CallInv, InTransaction
<1>2. tx[r].moved = <<NewMovement(r)>> /\ tx[r].wrote /\ Fits(r)
  BY DEF TxInv
<1>3. NewMovement(r) \in Movement
  BY <1>1, <1>2, CallTypes DEF Fits, NewMovement, Movement
<1>4. /\ movements[p] \in Seq(Movement)
      /\ movements[p] \o <<NewMovement(r)>> = Append(movements[p], NewMovement(r))
  BY <1>1, <1>3 DEF TypeOK
<1>5. movements' = [movements EXCEPT ![p] = Append(@, NewMovement(r))]
  BY <1>1, <1>2, <1>4 DEF ApplyWrites
<1>6. Append(movements[p], NewMovement(r)) \in Seq(Movement)
  BY <1>3, <1>4
<1>7. movements' \in [Product -> Seq(Movement)]
  BY <1>5, <1>6 DEF TypeOK
<1>8. stock' = [stock EXCEPT ![p] = tx[r].newStock]
  BY <1>2 DEF ApplyWrites
<1>9. stock' \in [Product -> Int4]
  BY <1>2, <1>8 DEF TypeOK, Fits
<1>10. kept \in Seq(AlertStatus)
  <2>1. alerts[p] \in Seq(AlertStatus)
    BY <1>1 DEF TypeOK
  <2>2. DOMAIN alerts[p] = 1..Len(alerts[p]) /\ Len(alerts[p]) \in Nat
    BY <2>1
  <2>3. \A i \in DOMAIN alerts[p] : kept[i] \in AlertStatus
    BY <2>1 DEF AlertStatus
  <2>4. kept \in [1..Len(alerts[p]) -> AlertStatus]
    BY <2>2, <2>3
  <2> HIDE DEF kept
  <2> QED
    BY <2>2, <2>4
<1>11. Append(kept, "ACTIVA") \in Seq(AlertStatus)
  <2> HIDE DEF kept
  <2> QED
    BY <1>10 DEF AlertStatus
<1>12. alerts' = [alerts EXCEPT ![p] = IF tx[r].opened THEN Append(kept, "ACTIVA") ELSE kept]
  BY DEF ApplyWrites
<1>13. alerts' \in [Product -> Seq(AlertStatus)]
  <2> HIDE DEF kept
  <2> QED
    BY <1>10, <1>11, <1>12 DEF TypeOK
<1> QED
  BY <1>3, <1>5, <1>7, <1>8, <1>9, <1>13

LEMMA TypesCommit ==
    ASSUME TypeOK, NEW r \in Request, CallInv(r), TxInv(r), Commit(r) \/ CommitUnacknowledged(r)
    PROVE  TypeOK'
<1>1. pc[r] = "commit" /\ ApplyWrites(r)
  BY DEF Commit, CommitUnacknowledged
<1>2. FreeLocks(r) /\ tx' = [tx EXCEPT ![r] = NoTx] /\ UNCHANGED <<products, stockMin, opening>>
  BY <1>1 DEF ApplyWrites
<1>3. /\ pc' \in [Request -> Pc] /\ outcome' \in [Request -> Outcome]
      /\ UNCHANGED <<clients, call>>
  BY DEF TypeOK, Commit, CommitUnacknowledged, Goto, Answer, Pc, Outcome
<1> QED
  BY <1>1, <1>2, <1>3, TypesApplyWrites, NoTxType, FreeLocksType, TxUpdateType DEF TypeOK

\* Every step of a request keeps the types.
LEMMA TypeStep ==
    ASSUME TypeOK, \A q \in Request : CallInv(q) /\ TxInv(q), NEW r \in Request,
           Arrive(r) \/ Serve(r) \/ Failures(r)
    PROVE  TypeOK'
<1> USE DEF Goto, Answer, tables, Pc, Outcome, InTransaction
<1>1. CASE Arrive(r)
  BY <1>1, TypesArrive
<1>2. CASE Connect(r)
  BY <1>2 DEF TypeOK, Connect
<1>3. CASE Release(r)
  BY <1>3 DEF TypeOK, Release
<1>4. CASE LockProduct(r)
  BY <1>4, TypesLockProduct
<1>5. CASE ProductMissing(r)
  BY <1>5 DEF TypeOK, ProductMissing
<1>6. CASE InsertMovement(r)
  BY <1>6, MovedTxType, CallTypes
     DEF TypeOK, InsertMovement, CallInv, Fits, NewMovement, Movement
<1>7. CASE MovementOutOfRange(r)
  BY <1>7 DEF TypeOK, MovementOutOfRange
<1>8. CASE UpdateStock(r)
  BY <1>8, FlagTxType DEF TypeOK, UpdateStock
<1>9. CASE RaiseAlert(r)
  BY <1>9, FlagTxType DEF TypeOK, RaiseAlert
<1>10. CASE CloseAlerts(r)
  BY <1>10, TypesCloseAlerts
<1>11. CASE Commit(r) \/ CommitUnacknowledged(r)
  BY <1>11, TypesCommit
<1>12. CASE Rollback(r)
  BY <1>12, NoTxType, FreeLocksType, TxUpdateType DEF TypeOK, Rollback
<1>13. CASE StatementFails(r)
  BY <1>13 DEF TypeOK, StatementFails
<1>14. CASE FindProduct(r)
  BY <1>14 DEF TypeOK, FindProduct
<1>15. CASE PatchStockMin(r)
  BY <1>15, CallTypes DEF TypeOK, PatchStockMin, CallInv
<1>16. CASE PatchFails(r)
  BY <1>16 DEF TypeOK, PatchFails
<1>17. CASE CheckSku(r)
  BY <1>17 DEF TypeOK, CheckSku
<1>18. CASE InsertProduct(r)
  BY <1>18, TypesInsertProduct
<1>19. CASE QueryFails(r)
  BY <1>19 DEF TypeOK, QueryFails
<1>20. CASE OpenAlertAfterCreate(r)
  BY <1>20, TypesOpenAlertAfterCreate
<1>21. CASE Crash(r)
  BY <1>21, NoTxType, FreeLocksType, TxUpdateType DEF TypeOK, Crash
<1> QED
  BY <1>1, <1>2, <1>3, <1>4, <1>5, <1>6, <1>7, <1>8, <1>9, <1>10, <1>11, <1>12,
     <1>13, <1>14, <1>15, <1>16, <1>17, <1>18, <1>19, <1>20, <1>21
     DEF Serve, Failures, Movements, Catalog

-----------------------------------------------------------------------------
(* What a request's transaction relies on *)

\* What q relies on survives a step of another request that leaves q's own
\* record, and the row q has locked, alone.
LEMMA OthersKeepTheirs ==
    ASSUME TypeOK, NEW q \in Request, CallInv(q), TxInv(q),
           pc'[q] = pc[q], call'[q] = call[q], tx'[q] = tx[q], products \subseteq products',
           pc[q] \in InTransaction =>
               /\ rowLock'[call[q].product] = rowLock[call[q].product]
               /\ stock'[call[q].product] = stock[call[q].product]
               /\ stockMin'[call[q].product] = stockMin[call[q].product]
    PROVE  CallInv(q)' /\ TxInv(q)'
<1>1. CallInv(q)'
  BY DEF CallInv
<1>2. NewMovement(q)' = NewMovement(q) /\ (Fits(q)' <=> Fits(q))
  BY DEF NewMovement, Fits
<1>3. TxInv(q)'
  BY <1>2, Zenon DEF TxInv, InTransaction
<1> QED
  BY <1>1, <1>3

\* A step of r that writes no product row and takes no lock disturbs nobody.
LEMMA QuietStep ==
    ASSUME TypeOK, \A q \in Request : CallInv(q) /\ TxInv(q), NEW r \in Request,
           \A q \in Request \ {r} : pc'[q] = pc[q] /\ call'[q] = call[q] /\ tx'[q] = tx[q],
           UNCHANGED <<products, stock, stockMin>>,
           UNCHANGED rowLock \/ FreeLocks(r)
    PROVE  \A q \in Request \ {r} : CallInv(q)' /\ TxInv(q)'
<1> SUFFICES ASSUME NEW q \in Request \ {r} PROVE CallInv(q)' /\ TxInv(q)'
  OBVIOUS
<1>1. pc[q] \in InTransaction => call[q].product \in Product /\ rowLock[call[q].product] = q
  BY CallTypes DEF CallInv, TxInv
<1>2. pc[q] \in InTransaction => rowLock'[call[q].product] = rowLock[call[q].product]
  BY <1>1 DEF FreeLocks
<1> QED
  BY <1>2, OthersKeepTheirs

\* The steps of r that extend its transaction keep what r relies on.
LEMMA InsertKeepsOwn ==
    ASSUME TypeOK, NEW r \in Request, CallInv(r), TxInv(r), InsertMovement(r)
    PROVE CallInv(r)' /\ TxInv(r)'
<1>1. /\ tx'[r] = [tx[r] EXCEPT !.moved = <<NewMovement(r)>>]
      /\ pc[r] = "insert" /\ pc'[r] = "update"
  BY DEF InsertMovement, TypeOK, Goto
<1>2. /\ tx'[r].moved = <<NewMovement(r)>>
      /\ tx'[r].newStock = tx[r].newStock
      /\ tx'[r].stockMin = tx[r].stockMin
  BY <1>1 DEF TypeOK, Tx
<1>3. /\ NewMovement(r)' = NewMovement(r) /\ (Fits(r)' <=> Fits(r))
      /\ UNCHANGED <<tables, rowLock, call>>
  BY <1>2 DEF NewMovement, Fits, InsertMovement
<1> QED
  BY <1>1, <1>2, <1>3 DEF CallInv, TxInv, InTransaction, tables, InsertMovement

LEMMA WritesKeepOwn ==
    ASSUME TypeOK, NEW r \in Request, CallInv(r), TxInv(r),
           UpdateStock(r) \/ RaiseAlert(r) \/ CloseAlerts(r)
    PROVE CallInv(r)' /\ TxInv(r)'
<1>1. \/ pc[r] = "update" /\ pc'[r] = "alert" /\ tx'[r].wrote = TRUE
      \/ pc[r] = "alert" /\ pc'[r] = "commit" /\ tx'[r].wrote = tx[r].wrote
  <2>1. CASE UpdateStock(r)
    BY <2>1 DEF TypeOK, UpdateStock, Goto, Tx
  <2>2. CASE RaiseAlert(r) \/ CloseAlerts(r)
    <3>1. pc[r] = "alert" /\ pc'[r] = "commit"
      BY <2>2 DEF TypeOK, RaiseAlert, CloseAlerts, Goto
    <3>2. tx'[r].wrote = tx[r].wrote
      BY <2>2 DEF TypeOK, RaiseAlert, CloseAlerts, Tx
    <3> QED
      BY <3>1, <3>2
  <2> QED
    BY <2>1, <2>2
<1>2. /\ tx'[r].moved = tx[r].moved
      /\ tx'[r].newStock = tx[r].newStock
      /\ tx'[r].stockMin = tx[r].stockMin
  BY DEF TypeOK, UpdateStock, RaiseAlert, CloseAlerts, Tx
<1>3. UNCHANGED <<tables, rowLock, call>>
  BY DEF UpdateStock, RaiseAlert, CloseAlerts
<1>4. NewMovement(r)' = NewMovement(r) /\ (Fits(r)' <=> Fits(r)) 
  BY <1>2, <1>3 DEF NewMovement, Fits
<1> QED
  BY <1>1, <1>2, <1>3, <1>4 DEF CallInv, TxInv, InTransaction, tables

LEMMA LockKeepsOwn ==
    ASSUME TypeOK, NEW r \in Request, CallInv(r), TxInv(r), LockProduct(r)
    PROVE CallInv(r)' /\ TxInv(r)'
<1> DEFINE p == call[r].product
           newStock == stock[p] + Delta(call[r].type, call[r].quantity)
           t == [NoTx EXCEPT !.newStock = newStock, !.stockMin = stockMin[p]]
<1>1. p \in Product /\ p \in products /\ pc[r] = "lock" /\ call[r] \in MovementCall
  BY CallTypes DEF LockProduct, CallInv
<1>2. rowLock'[p] = r /\ tx'[r] = t /\ UNCHANGED <<tables, call>>
  BY <1>1 DEF LockProduct, TypeOK
<1>3. tx'[r].newStock = newStock /\ tx'[r].stockMin = stockMin[p]
  BY <1>2 DEF NoTx
<1>4. (pc'[r] = "insert" /\ newStock >= 0) \/ pc'[r] = "rollback"
  BY DEF LockProduct, Goto, Accepted, TypeOK
<1> HIDE DEF t
<1> QED
  BY <1>1, <1>2, <1>3, <1>4 DEF CallInv, TxInv, InTransaction, tables

\* The steps that take a lock or write a row touch no row another one has locked.
LEMMA LockKeepsOthers ==
    ASSUME TypeOK, \A q \in Request : CallInv(q) /\ TxInv(q), NEW r \in Request, LockProduct(r)
    PROVE  \A q \in Request \ {r} : CallInv(q)' /\ TxInv(q)'
<1> SUFFICES ASSUME NEW q \in Request \ {r} PROVE CallInv(q)' /\ TxInv(q)'
  OBVIOUS
<1>1. pc'[q] = pc[q] /\ call'[q] = call[q] /\ tx'[q] = tx[q] /\ UNCHANGED tables
  BY DEF LockProduct, TypeOK, Goto
<1>2. rowLock[call[r].product] = Nobody /\ rowLock' = [rowLock EXCEPT ![call[r].product] = r]
  BY DEF LockProduct, RowFree
<1>3. pc[q] \in InTransaction => call[q].product \in Product /\ rowLock[call[q].product] = q
  BY CallTypes DEF CallInv, TxInv
<1>4. pc[q] \in InTransaction => rowLock'[call[q].product] = rowLock[call[q].product]
  BY <1>2, <1>3, InventoryAssumption DEF TypeOK
<1> QED
  BY <1>1, <1>4, OthersKeepTheirs DEF tables

LEMMA CommitKeepsOthers ==
    ASSUME TypeOK, \A q \in Request : CallInv(q) /\ TxInv(q), NEW r \in Request,
           Commit(r) \/ CommitUnacknowledged(r)
    PROVE  \A q \in Request \ {r} : CallInv(q)' /\ TxInv(q)'
<1> SUFFICES ASSUME NEW q \in Request \ {r} PROVE CallInv(q)' /\ TxInv(q)'
  OBVIOUS
<1>1. pc[r] = "commit" /\ ApplyWrites(r) /\ UNCHANGED call /\ pc'[q] = pc[q]
  BY DEF Commit, CommitUnacknowledged, Goto, TypeOK
<1>2. /\ stock' = [stock EXCEPT ![call[r].product] = tx[r].newStock]
      /\ FreeLocks(r) /\ tx'[q] = tx[q]
      /\ UNCHANGED <<products, stockMin>>
  BY <1>1, TypesApplyWrites DEF ApplyWrites, TypeOK
<1>3. call[r].product \in Product /\ rowLock[call[r].product] = r
  BY <1>1, CallTypes DEF CallInv, TxInv, InTransaction
<1>4. pc[q] \in InTransaction => call[q].product \in Product /\ rowLock[call[q].product] = q
  BY CallTypes DEF CallInv, TxInv
<1>5. pc[q] \in InTransaction =>
          /\ call[q].product # call[r].product
          /\ rowLock'[call[q].product] = rowLock[call[q].product]
          /\ stock'[call[q].product] = stock[call[q].product]
  BY <1>2, <1>3, <1>4, InventoryAssumption DEF TypeOK, FreeLocks
<1> QED
  BY <1>1, <1>2, <1>5, OthersKeepTheirs

LEMMA PatchKeepsOthers ==
    ASSUME TypeOK, \A q \in Request : CallInv(q) /\ TxInv(q), NEW r \in Request,
           PatchStockMin(r)
    PROVE  \A q \in Request \ {r} : CallInv(q)' /\ TxInv(q)'
<1> SUFFICES ASSUME NEW q \in Request \ {r} PROVE CallInv(q)' /\ TxInv(q)'
  OBVIOUS
<1>1. /\ rowLock[call[r].product] = Nobody
      /\ stockMin' = [stockMin EXCEPT ![call[r].product] = call[r].stockMin]
      /\ pc'[q] = pc[q] /\ UNCHANGED <<products, stock, rowLock, call, tx>>
  BY DEF PatchStockMin, RowFree, Goto, TypeOK
<1>2. pc[q] \in InTransaction => call[q].product \in Product /\ rowLock[call[q].product] = q
  BY CallTypes DEF CallInv, TxInv
<1>3. pc[q] \in InTransaction => stockMin'[call[q].product] = stockMin[call[q].product]
  BY <1>1, <1>2, InventoryAssumption DEF TypeOK
<1> QED
  BY <1>1, <1>3, OthersKeepTheirs

LEMMA CreateKeepsOthers ==
    ASSUME TypeOK, \A q \in Request : CallInv(q) /\ TxInv(q), NEW r \in Request,
           InsertProduct(r)
    PROVE  \A q \in Request \ {r} : CallInv(q)' /\ TxInv(q)'
<1> SUFFICES ASSUME NEW q \in Request \ {r} PROVE CallInv(q)' /\ TxInv(q)'
  OBVIOUS
<1>1. /\ call[r].product \notin products
      /\ products' = products \cup {call[r].product}
      /\ stock' = [stock EXCEPT ![call[r].product] = call[r].stock]
      /\ stockMin' = [stockMin EXCEPT ![call[r].product] = call[r].stockMin]
      /\ pc'[q] = pc[q] /\ UNCHANGED <<rowLock, call, tx>>
  BY DEF InsertProduct, Goto, TypeOK
<1>2. pc[q] \in InTransaction => call[q].product \in Product /\ call[q].product \in products
  BY CallTypes DEF CallInv, TxInv
<1>3. pc[q] \in InTransaction => stockMin'[call[q].product] = stockMin[call[q].product]
                                 /\ stock'[call[q].product] = stock[call[q].product]
  BY <1>1, <1>2 DEF TypeOK
<1> QED
  BY <1>1, <1>3, OthersKeepTheirs

\* Every step keeps CallInv and TxInv of every request.
LEMMA RequestStep ==
    ASSUME TypeOK, \A q \in Request : CallInv(q) /\ TxInv(q), NEW r \in Request,
           Arrive(r) \/ Serve(r) \/ Failures(r)
    PROVE  \A q \in Request : CallInv(q)' /\ TxInv(q)'
<1>1. CASE LockProduct(r)
  BY <1>1, LockKeepsOwn, LockKeepsOthers
<1>2. CASE InsertProduct(r)
  <2>1. CallInv(r)' /\ TxInv(r)'
    BY <1>2 DEF InsertProduct, Goto, CallInv, TxInv, TypeOK, InTransaction
  <2> QED
    BY <1>2, <2>1, CreateKeepsOthers
<1>3. CASE PatchStockMin(r)
  <2>1. CallInv(r)' /\ TxInv(r)'
    BY <1>3 DEF PatchStockMin, Goto, CallInv, TxInv, TypeOK, InTransaction
  <2> QED
    BY <1>3, <2>1, PatchKeepsOthers
<1>4. CASE Commit(r) \/ CommitUnacknowledged(r)
  <2>1. CallInv(r)' /\ TxInv(r)'
    BY <1>4 DEF Commit, CommitUnacknowledged, Goto, CallInv, TxInv, TypeOK, InTransaction
  <2> QED
    BY <1>4, <2>1, CommitKeepsOthers
<1>5. CASE InsertMovement(r) \/ UpdateStock(r) \/ RaiseAlert(r) \/ CloseAlerts(r)
  <2>1. UNCHANGED <<products, stock, stockMin, rowLock>>
    BY <1>5 DEF InsertMovement, UpdateStock, RaiseAlert, CloseAlerts, tables
  <2>2. \A q \in Request \ {r} : pc'[q] = pc[q] /\ call'[q] = call[q] /\ tx'[q] = tx[q]
    BY <1>5 DEF InsertMovement, UpdateStock, RaiseAlert, CloseAlerts, Goto, TypeOK
  <2> QED
    BY <1>5, <2>1, <2>2, InsertKeepsOwn, WritesKeepOwn, QuietStep
<1>6. CASE Arrive(r)
  <2>1. UNCHANGED <<products, stock, stockMin, rowLock>>
    BY <1>6 DEF Arrive, tables
  <2>2. \A q \in Request \ {r} : pc'[q] = pc[q] /\ call'[q] = call[q] /\ tx'[q] = tx[q]
    BY <1>6 DEF Arrive, Goto, TypeOK
  <2>3. CallInv(r)' /\ TxInv(r)'
    <3>1. PICK c \in MovementCall \cup CreateCall \cup PatchCall :
              /\ call'[r] = c
              /\ \/ ValidCall(c) /\ pc'[r] = FirstStatement(c)
                 \/ pc'[r] = "done"
      BY <1>6, InventoryAssumption DEF Arrive, Goto, TypeOK
    <3> QED
      BY <3>1, CallTypes DEF CallInv, TxInv, ValidCall, ValidMovement, ValidCreate, ValidPatch,
                             FirstStatement, InTransaction
  <2> QED
    BY <2>1, <2>2, <2>3, QuietStep
<1>7. CASE \/ Connect(r) \/ Release(r) \/ ProductMissing(r) \/ MovementOutOfRange(r)
           \/ Rollback(r) \/ StatementFails(r) \/ FindProduct(r) \/ PatchFails(r)
           \/ CheckSku(r) \/ QueryFails(r) \/ OpenAlertAfterCreate(r) \/ Crash(r)
  <2> USE DEF Connect, Release, ProductMissing, MovementOutOfRange, Rollback, StatementFails,
              FindProduct, PatchFails, CheckSku, QueryFails, OpenAlertAfterCreate, Crash
  <2>1. UNCHANGED <<products, stock, stockMin>> /\ (UNCHANGED rowLock \/ FreeLocks(r))
    BY <1>7 DEF tables
  <2>2. \A q \in Request \ {r} : pc'[q] = pc[q] /\ call'[q] = call[q] /\ tx'[q] = tx[q]
    BY <1>7 DEF Goto, TypeOK
  <2>3. CallInv(r)' /\ TxInv(r)'
    <3>1. /\ call'[r] = call[r]
          /\ \/ pc'[r] \in Over
             \/ pc[r] = "connect" /\ pc'[r] = IF call[r].kind = "patch" THEN "patch" ELSE "lock"
             \/ pc[r] = "find" /\ pc'[r] = "connect"
             \/ pc[r] = "check" /\ pc'[r] = "insertProduct"
      BY <1>7 DEF Goto, TypeOK, Over
    <3> QED
      BY <3>1, CallTypes DEF CallInv, TxInv, Over, InTransaction
  <2> QED
    BY <2>1, <2>2, <2>3, QuietStep
<1> QED
  BY <1>1, <1>2, <1>3, <1>4, <1>5, <1>6, <1>7 DEF Serve, Failures, Movements, Catalog

-----------------------------------------------------------------------------
(* Holders, amounts and answers *)

\* Every step keeps HolderInv.
LEMMA HolderStep ==
    ASSUME TypeOK, \A q \in Request : CallInv(q), HolderInv, NEW r \in Request,
           Arrive(r) \/ Serve(r) \/ Failures(r)
    PROVE  HolderInv'
<1> USE DEF TypeOK, HolderInv, Goto, InTransaction
<1>a. CASE Arrive(r)
  <2>1. PICK s \in Pc : pc' = [pc EXCEPT ![r] = s]
    BY <1>a, CallTypes, InventoryAssumption DEF Arrive, FirstStatement, Pc
  <2> QED
    BY <1>a, <2>1, InventoryAssumption DEF Arrive
<1>1. CASE Connect(r)
  BY <1>1, InventoryAssumption DEF Connect
<1>2. CASE Release(r)
  BY <1>2, InventoryAssumption DEF Release
<1>3. CASE LockProduct(r)
  BY <1>3, InventoryAssumption DEF LockProduct
<1>4. CASE ProductMissing(r)
  BY <1>4, InventoryAssumption DEF ProductMissing
<1>5. CASE InsertMovement(r)
  BY <1>5, InventoryAssumption DEF InsertMovement
<1>6. CASE MovementOutOfRange(r)
  BY <1>6, InventoryAssumption DEF MovementOutOfRange
<1>7. CASE UpdateStock(r)
  BY <1>7, InventoryAssumption DEF UpdateStock
<1>8. CASE RaiseAlert(r)
  BY <1>8, InventoryAssumption DEF RaiseAlert
<1>9. CASE CloseAlerts(r)
  BY <1>9, InventoryAssumption DEF CloseAlerts
<1>10. CASE Commit(r)
  BY <1>10, InventoryAssumption DEF Commit, ApplyWrites, FreeLocks
<1>11. CASE CommitUnacknowledged(r)
  BY <1>11, InventoryAssumption DEF CommitUnacknowledged, ApplyWrites, FreeLocks
<1>12. CASE Rollback(r)
  BY <1>12, InventoryAssumption DEF Rollback, FreeLocks
<1>13. CASE StatementFails(r)
  BY <1>13, InventoryAssumption DEF StatementFails
<1>14. CASE FindProduct(r)
  BY <1>14, InventoryAssumption DEF FindProduct
<1>15. CASE PatchStockMin(r)
  BY <1>15, InventoryAssumption DEF PatchStockMin
<1>16. CASE PatchFails(r)
  BY <1>16, InventoryAssumption DEF PatchFails
<1>17. CASE CheckSku(r)
  BY <1>17, InventoryAssumption DEF CheckSku
<1>18. CASE InsertProduct(r)
  BY <1>18, InventoryAssumption DEF InsertProduct
<1>19. CASE QueryFails(r)
  BY <1>19, InventoryAssumption DEF QueryFails
<1>20. CASE OpenAlertAfterCreate(r)
  BY <1>20, InventoryAssumption DEF OpenAlertAfterCreate
<1>21. CASE Crash(r)
  BY <1>21, InventoryAssumption DEF Crash, FreeLocks
<1> QED
  BY <1>a, <1>1, <1>2, <1>3, <1>4, <1>5, <1>6, <1>7, <1>8, <1>9, <1>10, <1>11, <1>12,
     <1>13, <1>14, <1>15, <1>16, <1>17, <1>18, <1>19, <1>20, <1>21
     DEF Serve, Failures, Movements, Catalog

\* No step makes a stock negative.
LEMMA AmountsStep ==
    ASSUME TypeOK, \A q \in Request : CallInv(q) /\ TxInv(q), Amounts, NEW r \in Request,
           Arrive(r) \/ Serve(r) \/ Failures(r)
    PROVE  Amounts'
<1>1. CASE Commit(r) \/ CommitUnacknowledged(r)
  <2>1. pc[r] = "commit" /\ ApplyWrites(r)
    BY <1>1 DEF Commit, CommitUnacknowledged
  <2>2. stock' = [stock EXCEPT ![call[r].product] = tx[r].newStock] /\ UNCHANGED opening
    BY <2>1, TypesApplyWrites DEF ApplyWrites
  <2>3. tx[r].newStock >= 0
    BY <2>1 DEF TxInv, InTransaction
  <2> QED
    BY <2>2, <2>3 DEF Amounts, TypeOK
<1>2. CASE InsertProduct(r)
  <2>1. call[r].stock >= 0
    BY <1>2 DEF CallInv, InsertProduct
  <2> QED
    BY <1>2, <2>1 DEF Amounts, TypeOK, InsertProduct
<1>3. CASE PatchStockMin(r) \/ OpenAlertAfterCreate(r)
  BY <1>3 DEF Amounts, PatchStockMin, OpenAlertAfterCreate
<1>4. CASE UNCHANGED tables
  BY <1>4 DEF Amounts, tables
<1> QED
  BY <1>1, <1>2, <1>3, <1>4
     DEF Arrive, Serve, Failures, Movements, Catalog, Connect, Release, LockProduct,
         ProductMissing, InsertMovement, MovementOutOfRange, UpdateStock, RaiseAlert,
         CloseAlerts, Rollback, StatementFails, FindProduct, PatchFails, CheckSku,
         QueryFails, Crash

\* Only COMMIT changes the movements.
LEMMA MovementsUnchanged ==
    ASSUME NEW r \in Request, Arrive(r) \/ Serve(r) \/ Failures(r),
           ~Commit(r), ~CommitUnacknowledged(r)
    PROVE  UNCHANGED movements
  BY DEF tables, Arrive, Serve, Failures, Movements, Catalog, Connect, Release,
         LockProduct, ProductMissing, InsertMovement, MovementOutOfRange,
         UpdateStock, RaiseAlert, CloseAlerts, Rollback, StatementFails, FindProduct,
         PatchFails, CheckSku, QueryFails, Crash, PatchStockMin,
         OpenAlertAfterCreate, InsertProduct

\* COMMIT posts r, and nobody else.
LEMMA PostingAppends ==
    ASSUME TypeOK, NEW r \in Request, CallInv(r), TxInv(r), Commit(r) \/ CommitUnacknowledged(r)
    PROVE  L!Posted(r)' /\ \A q \in Request \ {r} : L!Posted(q)' <=> L!Posted(q)
<1> DEFINE p == call[r].product
           n == Len(movements[p])
           m == NewMovement(r)
<1>1. /\ p \in Product
      /\ m \in Movement
      /\ movements' = [movements EXCEPT ![p] = Append(@, m)]
  BY TypesApplyWrites, CallTypes DEF Commit, CommitUnacknowledged, CallInv, InTransaction
<1>2. m.id = r
  BY DEF NewMovement
<1> HIDE DEF m, p
<1>3. /\ n \in Nat
      /\ DOMAIN movements[p] = 1..n
      /\ DOMAIN movements'[p] = 1..(n + 1)
      /\ movements'[p][n + 1] = m
      /\ \A i \in 1..n : movements'[p][i] = movements[p][i]
      /\ \A q \in Product : q # p => movements'[q] = movements[q]
  BY <1>1 DEF TypeOK
<1>4. L!Posted(r)'
  <2>1. n + 1 \in DOMAIN movements'[p]
    BY <1>3
  <2> QED
    BY <1>1, <1>2, <1>3, <2>1 DEF L!Posted
<1>5. ASSUME NEW q \in Request \ {r} PROVE L!Posted(q)' <=> L!Posted(q)
  <2>1. L!Posted(q) => L!Posted(q)'
    <3>1. \A a \in Product : \A i \in DOMAIN movements[a] :
             i \in DOMAIN movements'[a] /\ movements'[a][i] = movements[a][i]
      BY <1>3
    <3> QED
      BY <3>1, Zenon DEF L!Posted
  <2>2. L!Posted(q)' => L!Posted(q)
    <3>1. \A a \in Product : \A i \in DOMAIN movements'[a] :
             \/ i \in DOMAIN movements[a] /\ movements'[a][i] = movements[a][i]
             \/ movements'[a][i].id = r
      BY <1>2, <1>3
    <3> QED
      BY <3>1 DEF L!Posted
  <2> QED
    BY <2>1, <2>2
<1> QED
  BY <1>4, <1>5

\* r is answered when it is over, and then only an error can replace the
\* answer; only Commit answers a movement 201.
LEMMA AnsweredOnce ==
    ASSUME TypeOK, NEW r \in Request, CallInv(r), Serve(r) \/ Failures(r),
           ~Commit(r), ~CommitUnacknowledged(r)
    PROVE  /\ call'[r] = call[r]
           /\ \/ /\ pc[r] \in Over /\ pc'[r] \in Over
                 /\ outcome'[r] \in {outcome[r], "error"}
              \/ /\ pc[r] \notin Over
                 /\ \/ outcome'[r] = outcome[r]
                    \/ pc'[r] \in Over /\ outcome'[r] # "ok"
                    \/ pc'[r] \in Over /\ call[r] \notin MovementCall
<1> USE DEF TypeOK, Goto, Answer, Over, InTransaction
<1>1. CASE Connect(r) \/ Release(r) \/ Rollback(r) \/ Crash(r) \/ InsertMovement(r)
           \/ UpdateStock(r) \/ RaiseAlert(r) \/ CloseAlerts(r)
  BY <1>1 DEF Connect, Release, Rollback, Crash, InsertMovement, UpdateStock, RaiseAlert,
              CloseAlerts
<1>2. CASE LockProduct(r) \/ ProductMissing(r) \/ MovementOutOfRange(r) \/ StatementFails(r)
           \/ PatchFails(r) \/ QueryFails(r)
  BY <1>2 DEF LockProduct, ProductMissing, MovementOutOfRange, StatementFails, PatchFails,
              QueryFails
<1>3. CASE FindProduct(r) \/ PatchStockMin(r) \/ CheckSku(r) \/ InsertProduct(r)
           \/ OpenAlertAfterCreate(r)
  <2> USE DEF FindProduct, PatchStockMin, CheckSku, InsertProduct, OpenAlertAfterCreate
  <2>1. call[r] \notin MovementCall
    BY <1>3 DEF CallInv, MovementCall, PatchCall, CreateCall
  <2> QED
    BY <1>3, <2>1
<1> QED
  BY <1>1, <1>2, <1>3 DEF Serve, Failures, Movements, Catalog

\* Every step keeps AnswerInv of every request.
LEMMA AnswersStep ==
    ASSUME TypeOK, \A q \in Request : CallInv(q) /\ TxInv(q) /\ AnswerInv(q), NEW r \in Request,
           Arrive(r) \/ Serve(r) \/ Failures(r)
    PROVE  \A q \in Request : AnswerInv(q)'
<1>1. \A q \in Request \ {r} : pc'[q] = pc[q] /\ call'[q] = call[q] /\ outcome'[q] = outcome[q]
  BY DEF TypeOK, Goto, Answer, Arrive, Serve, Failures, Movements, Catalog, Connect,
         Release, LockProduct, ProductMissing, InsertMovement, MovementOutOfRange,
         UpdateStock, RaiseAlert, CloseAlerts, Rollback, StatementFails, FindProduct,
         PatchFails, CheckSku, QueryFails, Crash, PatchStockMin,
         OpenAlertAfterCreate, InsertProduct, Commit, CommitUnacknowledged
<1>2. CASE Commit(r) \/ CommitUnacknowledged(r)
  <2>1. L!Posted(r)' /\ \A q \in Request \ {r} : L!Posted(q)' <=> L!Posted(q)
    BY <1>2, PostingAppends
  <2>2. pc'[r] \in Over /\ outcome'[r] \in {"ok", "error"}
    BY <1>2 DEF Commit, CommitUnacknowledged, Goto, Answer, TypeOK, Over
  <2> QED
    BY <1>1, <2>1, <2>2 DEF AnswerInv
<1>3. CASE ~Commit(r) /\ ~CommitUnacknowledged(r)
  <2>1. UNCHANGED movements
    BY <1>3, MovementsUnchanged
  <2>2. \A q \in Request : L!Posted(q)' <=> L!Posted(q)
    BY <2>1 DEF L!Posted
  <2>3. \A q \in Request \ {r} : AnswerInv(q)'
    BY <1>1, <2>2 DEF AnswerInv
  <2>4. AnswerInv(r)'
    <3>1. CASE Arrive(r)
      BY <3>1, <2>2 DEF AnswerInv, Arrive, Goto, Answer, TypeOK, Over
    <3>2. CASE Serve(r) \/ Failures(r)
      BY <1>3, <3>2, <2>2, AnsweredOnce DEF AnswerInv
    <3> QED
      BY <3>1, <3>2, <2>2 DEF AnswerInv
  <2> QED
    BY <2>3, <2>4
<1> QED
  BY <1>2, <1>3

-----------------------------------------------------------------------------
(* The invariant, and what it implies *)

\* The initial states satisfy the inductive invariant.
LEMMA InitInv == Init => IInv
<1> SUFFICES ASSUME Init PROVE IInv
  OBVIOUS
<1>1. TypeOK
  <2>1. NoTx \in Tx
    BY NoTxType
  <2> HIDE DEF NoTx
  <2>2. stock \in [Product -> Int4] /\ stockMin \in [Product -> Int4]
    BY InventoryAssumption DEF Init, Int4
  <2> QED
    BY <2>1, <2>2, InventoryAssumption DEF Init, TypeOK, Pc, Outcome
<1>2. \A r \in Request : CallInv(r) /\ TxInv(r) /\ AnswerInv(r)
  BY DEF Init, CallInv, TxInv, AnswerInv, InTransaction, L!Posted
<1>3. HolderInv /\ Amounts
  BY InventoryAssumption DEF Init, HolderInv, Amounts
<1> QED
  BY <1>1, <1>2, <1>3 DEF IInv

\* Every step keeps the inductive invariant.
LEMMA StepInv == IInv /\ [Next]_vars => IInv'
<1>1. ASSUME IInv, NEW r \in Request, Arrive(r) \/ Serve(r) \/ Failures(r)
      PROVE  IInv'
  BY <1>1, TypeStep, RequestStep, AnswersStep, HolderStep, AmountsStep DEF IInv
<1>2. ASSUME IInv, UNCHANGED vars PROVE IInv'
  <2>1. TypeOK'
    BY <1>2 DEF IInv, TypeOK, vars, tables
  <2>2. \A r \in Request : CallInv(r)' /\ TxInv(r)' /\ AnswerInv(r)'
    BY <1>2 DEF IInv, vars, tables, CallInv, TxInv, AnswerInv, L!Posted, Fits, NewMovement
  <2>3. HolderInv' /\ Amounts'
    BY <1>2 DEF IInv, vars, tables, HolderInv, Amounts
  <2> QED
    BY <2>1, <2>2, <2>3 DEF IInv
<1> QED
  BY <1>1, <1>2 DEF Next, Settled

\* IInv holds in every reachable state.
THEOREM InductiveInvariant == Spec => []IInv
  BY InitInv, StepInv, PTL DEF Spec

\* Every variable keeps its type.
THEOREM TypeCorrect == Spec => []TypeOK
<1>1. IInv => TypeOK
  BY DEF IInv
<1> QED
  BY <1>1, InductiveInvariant, PTL

\* A movement transaction never works with a stale product row.
THEOREM LockedRowStaysCurrent == Spec => []LockedRowIsCurrent
<1>1. IInv => LockedRowIsCurrent
  BY DEF IInv, TxInv, LockedRowIsCurrent
<1> QED
  BY <1>1, InductiveInvariant, PTL

\* A request that is over holds no connection and no row lock.
THEOREM NothingEverLeaks == Spec => []NothingLeaks
<1>1. IInv => NothingLeaks
  BY DEF IInv, HolderInv, NothingLeaks, InTransaction
<1> QED
  BY <1>1, InductiveInvariant, PTL

\* A movement answered 201 is in the ledger, one answered 4xx is not.
THEOREM AnswersAlwaysTrue == Spec => []AnswersAreTrue
<1>1. IInv => AnswersAreTrue
  BY DEF IInv, AnswerInv, AnswersAreTrue
<1> QED
  BY <1>1, InductiveInvariant, PTL

-----------------------------------------------------------------------------
(* The ledger *)

\* The seeded tables are a ledger without entries.
LEMMA InitialLedger == Init => L!LedgerInit
  BY InventoryAssumption DEF Init, L!LedgerInit, L!Amount

\* Under IInv every step posts one entry, opens one account, or changes nothing
\* that the ledger shows.
LEMMA Simulation == IInv /\ [Next]_vars => [L!LedgerNext]_(L!ledgerVars)
<1> USE DEF L!ledgerVars
<1> SUFFICES ASSUME IInv, [Next]_vars PROVE L!LedgerNext \/ UNCHANGED L!ledgerVars
  OBVIOUS
<1>1. ASSUME NEW r \in Request, InsertProduct(r) PROVE L!LedgerNext
  <2>1. call[r].product \in Product /\ call[r].stock \in L!Amount
    BY <1>1, CallTypes, InventoryAssumption
       DEF IInv, CallInv, InsertProduct, L!Amount, Int4
  <2>2. L!Open(call[r].product, call[r].stock)
    BY <1>1 DEF InsertProduct, L!Open
  <2> QED
    BY <2>1, <2>2 DEF L!LedgerNext
<1>2. ASSUME NEW r \in Request, Commit(r) \/ CommitUnacknowledged(r) PROVE L!LedgerNext
  <2> DEFINE p == call[r].product
  <2>1. pc[r] = "commit" /\ ApplyWrites(r) /\ TypeOK /\ CallInv(r) /\ TxInv(r) /\ AnswerInv(r)
    BY <1>2 DEF Commit, CommitUnacknowledged, IInv
  <2>2. /\ call[r] \in MovementCall /\ call[r].quantity > 0
        /\ p \in products /\ Fits(r)
        /\ tx[r].newStock = stock[p] + Delta(call[r].type, call[r].quantity)
        /\ tx[r].newStock >= 0
    BY <2>1 DEF CallInv, TxInv, InTransaction
  <2>3. /\ p \in Product
        /\ call[r].type \in L!EntryType /\ call[r].quantity \in L!Amount
        /\ tx[r].newStock \in L!Amount
    BY <2>2, CallTypes, InventoryAssumption
       DEF Fits, Int4, L!Amount, L!EntryType, MovementType
  <2>4. ~L!Posted(r)
    BY <2>1 DEF AnswerInv, Over
  <2>5. /\ movements' = [movements EXCEPT ![p] = Append(@, NewMovement(r))]
        /\ stock' = [stock EXCEPT ![p] = tx[r].newStock]
        /\ UNCHANGED <<products, opening>>
    BY <2>1, TypesApplyWrites DEF ApplyWrites
  <2>6. tx[r].newStock = stock[p] + L!Signed(call[r].type, call[r].quantity)
    BY <2>2 DEF Delta, L!Signed
  <2>7. L!Post(p, r, call[r].type, call[r].quantity)
    BY <2>2, <2>3, <2>4, <2>5, <2>6 DEF L!Post, NewMovement
  <2> QED
    BY <2>3, <2>7 DEF L!LedgerNext
<1>3. ASSUME NEW r \in Request, Arrive(r) \/ Serve(r) \/ Failures(r),
             ~InsertProduct(r), ~Commit(r), ~CommitUnacknowledged(r)
      PROVE UNCHANGED L!ledgerVars
  BY <1>3
     DEF tables, Arrive, Serve, Failures, Movements, Catalog, Connect, Release,
         LockProduct, ProductMissing, InsertMovement, MovementOutOfRange,
         UpdateStock, RaiseAlert, CloseAlerts, Rollback, StatementFails, FindProduct,
         PatchFails, CheckSku, QueryFails, Crash, PatchStockMin,
         OpenAlertAfterCreate
<1>4. CASE UNCHANGED vars
  BY <1>4 DEF vars, tables
<1> QED
  BY <1>1, <1>2, <1>3, <1>4 DEF Next, Settled

\* The SQL statements of the backend implement the ledger.
THEOREM ImplementsLedger == Spec => RefinesLedger
<1>1. Init => L!LedgerInit
  BY InitialLedger
<1> QED
  BY <1>1, Simulation, InductiveInvariant, PTL DEF Spec, RefinesLedger, L!LedgerSpec

LP == INSTANCE LedgerProofs WITH accounts <- products, balance <- stock, entries <- movements

\* The theorems about Ledger, read for the tables of Inventory.
LEMMA LedgerHolds == L!LedgerSpec => []L!Reconciles /\ []L!PostedOnce /\ []L!LedgerTypeOK
<1>1. L!LedgerInit => LP!LedgerInit
  BY DEF L!LedgerInit, LP!LedgerInit, L!Amount, LP!Amount
<1>2. [L!LedgerNext]_(L!ledgerVars) => [LP!LedgerNext]_(LP!ledgerVars)
  BY DEF L!LedgerNext, LP!LedgerNext, L!ledgerVars, LP!ledgerVars, L!Open, LP!Open,
         L!Post, LP!Post, L!Amount, LP!Amount, L!EntryType, LP!EntryType, L!Signed,
         LP!Signed, L!Posted, LP!Posted
<1>3. L!LedgerSpec => LP!LedgerSpec
  BY <1>1, <1>2, PTL DEF L!LedgerSpec, LP!LedgerSpec
<1>4. LP!Reconciles => L!Reconciles
  BY DEF L!Reconciles, LP!Reconciles, L!Signed, LP!Signed, L!BalanceBefore,
         LP!BalanceBefore
<1>5. LP!PostedOnce => L!PostedOnce
  BY DEF L!PostedOnce, LP!PostedOnce
<1>6. LP!LedgerTypeOK => L!LedgerTypeOK
  BY DEF L!LedgerTypeOK, LP!LedgerTypeOK, L!Amount, LP!Amount, L!Entry, LP!Entry,
         L!EntryType, LP!EntryType
<1>7. /\ LP!LedgerSpec => []LP!Reconciles
      /\ LP!LedgerSpec => []LP!PostedOnce
      /\ LP!LedgerSpec => []LP!LedgerTypeOK
  BY InventoryAssumption, LP!LedgerAlwaysReconciles, LP!LedgerPostsOnce, LP!LedgerTypeCorrect
<1> QED
  BY <1>3, <1>4, <1>5, <1>6, <1>7, PTL

\* The movements of every product add up to its stock.
THEOREM StockAlwaysReconciles == Spec => []LedgerReconciles
  BY ImplementsLedger, LedgerHolds, InventoryAssumption, PTL
     DEF RefinesLedger, LedgerReconciles

\* No request leaves two movements.
THEOREM NeverPostedTwice == Spec => []RequestPostedOnce
  BY ImplementsLedger, LedgerHolds, InventoryAssumption, PTL
     DEF RefinesLedger, RequestPostedOnce

\* BR-1: no committed stock, and no stockAfter, is negative.
THEOREM StockStaysNonNegative == Spec => []StockNeverNegative
<1>1. L!LedgerTypeOK => StockNeverNegative
  <2> SUFFICES ASSUME L!LedgerTypeOK PROVE StockNeverNegative
    OBVIOUS
  <2>1. \A p \in Product : stock[p] \in 0..MaxInt /\ movements[p] \in Seq(L!Entry)
    BY DEF L!LedgerTypeOK, L!Amount
  <2>2. \A p \in Product : \A i \in DOMAIN movements[p] : movements[p][i] \in L!Entry
    BY <2>1
  <2> QED
    BY <2>1, <2>2, InventoryAssumption DEF StockNeverNegative, L!Entry, L!Amount
<1> QED
  BY <1>1, ImplementsLedger, LedgerHolds, InventoryAssumption, PTL DEF RefinesLedger

-----------------------------------------------------------------------------
(* Alerts *)

\* A request that has not arrived asked for nothing; a movement about to commit
\* a stock that is low has inserted an alert, and only one about to commit a
\* stock that is not has resolved any.
FlagInv(r) ==
    /\ pc[r] = "new" => call[r].kind = "none"
    /\ pc[r] \in {"insert", "update", "alert"} => tx[r].closed = {}
    /\ pc[r] = "commit" /\ tx[r].newStock <= tx[r].stockMin =>
           tx[r].opened /\ tx[r].closed = {}

\* Only COMMIT and the alert of a create write alerts.
LEMMA AlertsUnchanged ==
    ASSUME NEW r \in Request, Arrive(r) \/ Serve(r) \/ Failures(r),
           ~Commit(r), ~CommitUnacknowledged(r), ~OpenAlertAfterCreate(r)
    PROVE  UNCHANGED alerts
  BY DEF tables, Arrive, Serve, Failures, Movements, Catalog, Connect, Release,
         LockProduct, ProductMissing, InsertMovement, MovementOutOfRange,
         UpdateStock, RaiseAlert, CloseAlerts, Rollback, StatementFails, FindProduct,
         PatchFails, CheckSku, QueryFails, Crash, PatchStockMin, InsertProduct

\* A step of r is no other request's.
LEMMA OthersStay ==
    ASSUME TypeOK, NEW r \in Request, Arrive(r) \/ Serve(r) \/ Failures(r)
    PROVE  /\ \A q \in Request \ {r} : pc'[q] = pc[q] /\ call'[q] = call[q] /\ tx'[q] = tx[q]
           /\ ~Arrive(r) => UNCHANGED call
  BY DEF TypeOK, Goto, Arrive, Serve, Failures, Movements, Catalog, Connect,
         Release, LockProduct, ProductMissing, InsertMovement, MovementOutOfRange,
         UpdateStock, RaiseAlert, CloseAlerts, Rollback, StatementFails, FindProduct,
         PatchFails, CheckSku, QueryFails, Crash, PatchStockMin, ApplyWrites,
         OpenAlertAfterCreate, InsertProduct, Commit, CommitUnacknowledged

\* Every step keeps FlagInv of every request.
LEMMA FlagStep ==
    ASSUME TypeOK, \A q \in Request : CallInv(q) /\ FlagInv(q), NEW r \in Request,
           Arrive(r) \/ Serve(r) \/ Failures(r)
    PROVE  \A q \in Request : FlagInv(q)'
<1>1. \A q \in Request \ {r} : FlagInv(q)'
  BY OthersStay DEF FlagInv
<1>2. FlagInv(r)'
  <2>1. CASE Arrive(r)
    <3>1. PICK c \in MovementCall \cup CreateCall \cup PatchCall :
              pc'[r] \in {FirstStatement(c), "done"}
      BY <2>1, InventoryAssumption DEF Arrive, Goto, TypeOK
    <3> QED
      BY <3>1, CallTypes DEF FlagInv, FirstStatement
  <2>2. CASE RaiseAlert(r)
    BY <2>2 DEF RaiseAlert, FlagInv, Goto, TypeOK, Tx
  <2>5. CASE LockProduct(r)
    <3> DEFINE t == [NoTx EXCEPT !.newStock = stock[call[r].product]
                                                + Delta(call[r].type, call[r].quantity),
                                 !.stockMin = stockMin[call[r].product]]
    <3>1. tx'[r] = t /\ pc'[r] \in {"insert", "rollback"}
      BY <2>5 DEF LockProduct, Goto, TypeOK
    <3>2. t.closed = {}
      BY DEF NoTx
    <3> QED
      BY <3>1, <3>2 DEF FlagInv
  <2>6. CASE InsertMovement(r) \/ UpdateStock(r)
    <3>1. /\ tx'[r].closed = tx[r].closed
          /\ pc[r] \in {"insert", "update"} /\ pc'[r] \in {"update", "alert"}
      BY <2>6 DEF InsertMovement, UpdateStock, Goto, TypeOK, Tx
    <3> QED
      BY <3>1 DEF FlagInv
  <2>3. CASE CloseAlerts(r)
    <3>1. /\ pc'[r] = "commit"
          /\ tx'[r].newStock = tx[r].newStock /\ tx'[r].stockMin = tx[r].stockMin
          /\ tx[r].newStock > tx[r].stockMin
          /\ tx[r].newStock \in Int /\ tx[r].stockMin \in Int
      BY <2>3, InventoryAssumption DEF CloseAlerts, Goto, TypeOK, Tx, Int4
    <3> QED
      BY <3>1 DEF FlagInv
  <2>4. CASE /\ ~Arrive(r) /\ ~RaiseAlert(r) /\ ~CloseAlerts(r)
             /\ ~LockProduct(r) /\ ~InsertMovement(r) /\ ~UpdateStock(r)
    <3>1. pc'[r] \notin {"new", "insert", "update", "alert", "commit"}
      BY <2>4 DEF TypeOK, Goto, Serve, Failures, Movements, Catalog, Connect,
             Release, ProductMissing, MovementOutOfRange, Rollback, StatementFails, FindProduct,
             PatchFails, CheckSku, QueryFails, Crash, PatchStockMin,
             OpenAlertAfterCreate, InsertProduct, Commit, CommitUnacknowledged
    <3> QED
      BY <3>1 DEF FlagInv
  <2> QED
    BY <2>1, <2>2, <2>3, <2>4, <2>5, <2>6
<1> QED
  BY <1>1, <1>2

\* FlagInv holds in every reachable state.
LEMMA FlagInvariant == Spec => [](\A r \in Request : FlagInv(r))
<1>1. Init => \A r \in Request : FlagInv(r)
  BY DEF Init, FlagInv, NoCall
<1>2. IInv /\ (\A r \in Request : FlagInv(r)) /\ [Next]_vars => (\A r \in Request : FlagInv(r))'
  <2>1. ASSUME IInv, \A r \in Request : FlagInv(r), UNCHANGED vars
        PROVE  (\A r \in Request : FlagInv(r))'
    BY <2>1 DEF FlagInv, vars
  <2> QED
    BY <2>1, FlagStep DEF IInv, Next, Settled
<1> QED
  BY <1>1, <1>2, InductiveInvariant, PTL DEF Spec

\* What COMMIT does to the alerts of the one product it writes.
LEMMA CommitWritesAlerts ==
    ASSUME IInv, NEW r \in Request, Commit(r) \/ CommitUnacknowledged(r)
    PROVE  LET p == call[r].product IN
           /\ p \in Product /\ stock'[p] = tx[r].newStock /\ stockMin'[p] = tx[r].stockMin
           /\ tx[r].opened => Active(p)' # {}
           /\ Active(p) \ Active(p)' \subseteq tx[r].closed
           /\ movements'[p] # movements[p]
           /\ \A q \in Product \ {p} : /\ stock'[q] = stock[q] /\ movements'[q] = movements[q]
                                       /\ alerts'[q] = alerts[q]
           /\ UNCHANGED <<products, stockMin, call>>
<1> DEFINE p == call[r].product
           kept == [i \in DOMAIN alerts[p] |->
                       IF i \in tx[r].closed THEN "RESUELTA" ELSE alerts[p][i]]
<1>1. pc[r] = "commit" /\ ApplyWrites(r) /\ TypeOK /\ CallInv(r) /\ TxInv(r)
  BY DEF Commit, CommitUnacknowledged, IInv
<1>2. p \in Product /\ tx[r].stockMin = stockMin[p]
  BY <1>1, CallTypes DEF CallInv, TxInv, InTransaction
<1>3. /\ movements' = [movements EXCEPT ![p] = Append(@, NewMovement(r))]
      /\ stock' = [stock EXCEPT ![p] = tx[r].newStock]
      /\ alerts' = [alerts EXCEPT ![p] = IF tx[r].opened THEN Append(kept, "ACTIVA") ELSE kept]
      /\ UNCHANGED <<products, stockMin, call>>
  BY <1>1, TypesApplyWrites DEF ApplyWrites, Commit, CommitUnacknowledged
<1>4. alerts[p] \in Seq(AlertStatus)
  BY <1>1, <1>2 DEF TypeOK
<1>5. kept \in Seq({"ACTIVA", "RESUELTA"}) /\ DOMAIN kept = DOMAIN alerts[p]
  <2>1. DOMAIN alerts[p] = 1..Len(alerts[p]) /\ Len(alerts[p]) \in Nat
    BY <1>4
  <2>2. \A i \in DOMAIN alerts[p] : kept[i] \in {"ACTIVA", "RESUELTA"}
    BY <1>4 DEF AlertStatus
  <2>3. kept \in [1..Len(alerts[p]) -> {"ACTIVA", "RESUELTA"}]
    BY <2>1, <2>2
  <2> QED
    BY <2>1, <2>3
<1>6. {i \in DOMAIN kept : kept[i] = "ACTIVA"} = Active(p) \ tx[r].closed
  BY DEF Active
<1> HIDE DEF kept
<1>7. Len(kept) + 1 \in DOMAIN Append(kept, "ACTIVA")
      /\ Append(kept, "ACTIVA")[Len(kept) + 1] = "ACTIVA"
  BY <1>5
<1>8. alerts'[p] = IF tx[r].opened THEN Append(kept, "ACTIVA") ELSE kept
  BY <1>1, <1>2, <1>3 DEF TypeOK
<1>9. Active(p)' = {i \in DOMAIN alerts'[p] : alerts'[p][i] = "ACTIVA"}
  BY <1>3 DEF Active
<1>10. tx[r].opened => Active(p)' # {}
  BY <1>7, <1>8, <1>9
<1>11. Active(p) \ Active(p)' \subseteq tx[r].closed
  <2>1. \A i \in DOMAIN kept : kept[i] = "ACTIVA" => i \in Active(p)'
    <3>1. \A i \in DOMAIN kept : i \in DOMAIN Append(kept, "ACTIVA")
                                /\ Append(kept, "ACTIVA")[i] = kept[i]
      BY <1>5
    <3> QED
      BY <3>1, <1>8, <1>9
  <2> QED
    BY <2>1, <1>6
<1>14. movements'[p] # movements[p]
  <2>1. movements[p] \in Seq(Movement) /\ movements'[p] = Append(movements[p], NewMovement(r))
    BY <1>1, <1>2, <1>3 DEF TypeOK
  <2>2. Len(Append(movements[p], NewMovement(r))) = Len(movements[p]) + 1
        /\ Len(movements[p]) \in Nat
    BY <2>1
  <2> QED
    BY <2>1, <2>2
<1>12. \A q \in Product \ {p} : /\ stock'[q] = stock[q] /\ movements'[q] = movements[q]
                                /\ alerts'[q] = alerts[q]
  BY <1>1, <1>3 DEF TypeOK
<1>13. stock'[p] = tx[r].newStock /\ stockMin'[p] = tx[r].stockMin
  BY <1>1, <1>2, <1>3 DEF TypeOK
<1> QED
  BY <1>2, <1>3, <1>10, <1>11, <1>12, <1>13, <1>14

\* RF-03: whatever runs at the same time, a movement that leaves a product low
\* leaves it with an ACTIVA alert (StockMutationService.record).
THEOREM MovementsFlagTheirProduct == Spec => MovementRaisesAlert
<1>1. IInv /\ (\A r \in Request : FlagInv(r)) /\ [Next]_vars =>
          \A p \in Product :
              movements'[p] # movements[p] /\ stock'[p] <= stockMin'[p] => Active(p)' # {}
  <2> SUFFICES ASSUME IInv, \A r \in Request : FlagInv(r), [Next]_vars, NEW p \in Product,
                      movements'[p] # movements[p], stock'[p] <= stockMin'[p]
               PROVE  Active(p)' # {}
    OBVIOUS
  <2>1. PICK r \in Request : Commit(r) \/ CommitUnacknowledged(r)
    BY MovementsUnchanged DEF Next, Settled, vars, tables
  <2>2. p = call[r].product /\ pc[r] = "commit"
    BY <2>1, CommitWritesAlerts DEF Commit, CommitUnacknowledged
  <2> QED
    BY <2>1, <2>2, CommitWritesAlerts DEF FlagInv
<1> QED
  BY <1>1, FlagInvariant, InductiveInvariant, PTL DEF Spec, MovementRaisesAlert

\* A product that is not in the table has no movement.
Unmoved == \A p \in Product \ products : movements[p] = <<>>

\* A step leaves a product unflagged only if it is one of a create or a PATCH of
\* that product, and no create's excuse outlives a movement.
LEMMA UnflaggedStep ==
    ASSUME IInv, \A q \in Request : FlagInv(q), Unmoved, OnlyCatalogLeavesUnflagged,
           NEW r \in Request, Arrive(r) \/ Serve(r) \/ Failures(r)
    PROVE  OnlyCatalogLeavesUnflagged'
<1> DEFINE Created(p, q) == /\ call[q].kind = "create" /\ call[q].product = p
                            /\ movements[p] = <<>>
           Patched(p, q) == /\ call[q].kind = "patch" /\ call[q].product = p
                            /\ call[q].stockMin = stockMin[p]
           Owes(p, q) == Created(p, q) \/ Patched(p, q)
<1> SUFFICES ASSUME NEW p \in products', stock'[p] <= stockMin'[p], Active(p)' = {}
             PROVE  \E q \in Request : Owes(p, q)'
  BY DEF OnlyCatalogLeavesUnflagged
<1>0. p \in Product
  BY TypeStep DEF IInv, TypeOK
<1>1. ASSUME movements'[p] = movements[p], stockMin'[p] = stockMin[p],
             \E q \in Request : Owes(p, q)
      PROVE  \E q \in Request : Owes(p, q)'
  <2>1. PICK q \in Request : Owes(p, q)
    BY <1>1
  <2>2. call'[q] = call[q]
    <3>1. CASE Arrive(r)
      BY <2>1, <3>1, OthersStay DEF IInv, FlagInv, Arrive
    <3>2. CASE ~Arrive(r)
      BY <3>2, OthersStay DEF IInv
    <3> QED
      BY <3>1, <3>2
  <2> QED
    BY <1>1, <2>1, <2>2
<1>2. CASE InsertProduct(r)
  <2>1. /\ call[r].kind = "create" /\ UNCHANGED <<call, alerts, movements>>
        /\ call[r].product \in Product \ products
    BY <1>2, CallTypes DEF InsertProduct, IInv, CallInv
  <2>2. CASE call[r].product = p
    BY <2>1, <2>2 DEF Unmoved
  <2>3. CASE call[r].product # p
    <3>1. p \in products /\ stock'[p] = stock[p] /\ stockMin'[p] = stockMin[p]
      BY <1>2, <2>3, <1>0 DEF InsertProduct, IInv, TypeOK
    <3>2. \E q \in Request : Owes(p, q)
      BY <2>1, <3>1 DEF OnlyCatalogLeavesUnflagged, Active
    <3> QED
      BY <1>1, <2>1, <3>1, <3>2
  <2> QED
    BY <2>2, <2>3
<1>3. CASE PatchStockMin(r)
  <2>1. call[r].kind = "patch" /\ UNCHANGED <<call, alerts, products, stock, movements>>
    BY <1>3, CallTypes DEF PatchStockMin, IInv, CallInv
  <2>2. CASE call[r].product = p
    <3>1. stockMin'[p] = call[r].stockMin
      BY <1>0, <1>3, <2>2 DEF PatchStockMin, IInv, TypeOK
    <3> QED
      BY <2>1, <2>2, <3>1
  <2>3. CASE call[r].product # p
    <3>1. stockMin'[p] = stockMin[p]
      BY <1>0, <1>3, <2>3 DEF PatchStockMin, IInv, TypeOK
    <3>2. \E q \in Request : Owes(p, q)
      BY <2>1, <3>1 DEF OnlyCatalogLeavesUnflagged, Active
    <3> QED
      BY <1>1, <2>1, <3>1, <3>2
  <2> QED
    BY <2>2, <2>3
<1>4. CASE OpenAlertAfterCreate(r)
  <2>1. UNCHANGED <<call, products, stock, stockMin, movements>>
    BY <1>4 DEF OpenAlertAfterCreate
  <2>2. Active(p) = {}
    <3>1. CASE call[r].product # p \/ UNCHANGED alerts
      BY <1>0, <1>4, <3>1 DEF OpenAlertAfterCreate, Active, IInv, TypeOK
    <3>2. CASE alerts' = [alerts EXCEPT ![p] = Append(@, "ACTIVA")]
      <4>1. /\ alerts[p] \in Seq(AlertStatus)
            /\ alerts'[p] = Append(alerts[p], "ACTIVA")
        BY <1>0, <3>2 DEF IInv, TypeOK
      <4>2. \A i \in DOMAIN alerts[p] :
                i \in DOMAIN alerts'[p] /\ alerts'[p][i] = alerts[p][i]
        BY <4>1
      <4> QED
        BY <4>2 DEF Active
    <3> QED
      BY <1>4, <3>1, <3>2 DEF OpenAlertAfterCreate
  <2>3. \E q \in Request : Owes(p, q)
    BY <2>1, <2>2 DEF OnlyCatalogLeavesUnflagged
  <2> QED
    BY <1>1, <2>1, <2>3
<1>5. CASE Commit(r) \/ CommitUnacknowledged(r)
  <2>1. p \in products /\ UNCHANGED stockMin
    BY <1>5, CommitWritesAlerts
  <2>2. p # call[r].product
    BY <1>5, CommitWritesAlerts DEF FlagInv, Commit, CommitUnacknowledged
  <2>3. stock[p] <= stockMin[p] /\ Active(p) = {} /\ movements'[p] = movements[p]
    BY <1>0, <1>5, <2>2, CommitWritesAlerts DEF Active
  <2>4. \E q \in Request : Owes(p, q)
    BY <2>1, <2>3 DEF OnlyCatalogLeavesUnflagged
  <2> QED
    BY <1>1, <2>1, <2>3, <2>4
<1>6. CASE UNCHANGED <<products, stock, stockMin, movements, alerts>>
  <2>1. \E q \in Request : Owes(p, q)
    BY <1>6 DEF OnlyCatalogLeavesUnflagged, Active
  <2> QED
    BY <1>1, <1>6, <2>1
<1> QED
  BY <1>2, <1>3, <1>4, <1>5, <1>6
     DEF tables, Arrive, Serve, Failures, Movements, Catalog, Connect, Release, LockProduct,
         ProductMissing, InsertMovement, MovementOutOfRange, UpdateStock, RaiseAlert,
         CloseAlerts, Rollback, StatementFails, FindProduct, PatchFails, CheckSku,
         QueryFails, Crash

\* Products are never deleted, and a movement locks a product that is there.
LEMMA UnmovedStep ==
    ASSUME IInv, Unmoved, NEW r \in Request, Arrive(r) \/ Serve(r) \/ Failures(r)
    PROVE  Unmoved'
<1>1. CASE Commit(r) \/ CommitUnacknowledged(r)
  <2>1. call[r].product \in products
    BY <1>1 DEF IInv, TxInv, InTransaction, Commit, CommitUnacknowledged
  <2> QED
    BY <1>1, <2>1, CommitWritesAlerts DEF Unmoved
<1>2. CASE ~Commit(r) /\ ~CommitUnacknowledged(r)
  <2>1. products \subseteq products'
    BY <1>2 DEF tables, Arrive, Serve, Failures, Movements, Catalog, Connect, Release,
         LockProduct, ProductMissing, InsertMovement, MovementOutOfRange,
         UpdateStock, RaiseAlert, CloseAlerts, Rollback, StatementFails, FindProduct,
         PatchFails, CheckSku, QueryFails, Crash, PatchStockMin,
         OpenAlertAfterCreate, InsertProduct
  <2> QED
    BY <1>2, <2>1, MovementsUnchanged DEF Unmoved
<1> QED
  BY <1>1, <1>2

\* Only a create that no movement has followed, or a PATCH that set the very
\* minimum in force, leaves a product low without an ACTIVA alert: no movement,
\* failure, crash or closing of alerts does.
THEOREM UnflaggedOnlyByCatalog == Spec => []OnlyCatalogLeavesUnflagged
<1>1. Init => OnlyCatalogLeavesUnflagged /\ Unmoved
  BY InventoryAssumption, SeedAssumption DEF Init, OnlyCatalogLeavesUnflagged, Unmoved
<1>2. IInv /\ (\A r \in Request : FlagInv(r)) /\ OnlyCatalogLeavesUnflagged /\ Unmoved
          /\ [Next]_vars => (OnlyCatalogLeavesUnflagged /\ Unmoved)'
  <2>1. ASSUME OnlyCatalogLeavesUnflagged, Unmoved, UNCHANGED vars
        PROVE  (OnlyCatalogLeavesUnflagged /\ Unmoved)'
    BY <2>1 DEF OnlyCatalogLeavesUnflagged, Unmoved, Active, vars, tables
  <2> QED
    BY <2>1, UnflaggedStep, UnmovedStep DEF Next, Settled
<1> QED
  BY <1>1, <1>2, FlagInvariant, InductiveInvariant, PTL DEF Spec

\* BR-3's other half, with or without the adapter that bootstrap.ts leaves out
\* and whatever products are created meanwhile: no alert is resolved but in the
\* COMMIT of a movement that leaves its product above the minimum in force.
THEOREM OnlyMovementsResolve == Spec => OnlyRecoveryResolves
<1>1. IInv /\ (\A r \in Request : FlagInv(r)) /\ [Next]_vars =>
          \A p \in Product : Active(p) \ Active(p)' # {} =>
              movements'[p] # movements[p] /\ stock'[p] > stockMin'[p]
  <2> SUFFICES ASSUME IInv, \A r \in Request : FlagInv(r), [Next]_vars, NEW p \in Product,
                      Active(p) \ Active(p)' # {}
               PROVE  movements'[p] # movements[p] /\ stock'[p] > stockMin'[p]
    OBVIOUS
  <2>1. PICK r \in Request : Arrive(r) \/ Serve(r) \/ Failures(r)
    BY DEF Next, Settled, vars, tables, Active
  <2>2. CASE Commit(r) \/ CommitUnacknowledged(r)
    <3>1. p = call[r].product /\ pc[r] = "commit" /\ tx[r].closed # {}
      BY <2>2, CommitWritesAlerts DEF Active, Commit, CommitUnacknowledged
    <3>2. tx[r].newStock \in Int /\ tx[r].stockMin \in Int
      BY InventoryAssumption DEF IInv, TypeOK, Tx, Int4
    <3> QED
      BY <2>2, <3>1, <3>2, CommitWritesAlerts DEF FlagInv
  <2>3. CASE OpenAlertAfterCreate(r)
    <3>1. alerts[p] \in Seq(AlertStatus)
      BY DEF IInv, TypeOK
    <3>2. alerts'[p] = alerts[p] \/ alerts'[p] = Append(alerts[p], "ACTIVA")
      BY <2>3 DEF OpenAlertAfterCreate, IInv, TypeOK
    <3>3. \A i \in DOMAIN alerts[p] : i \in DOMAIN alerts'[p] /\ alerts'[p][i] = alerts[p][i]
      BY <3>1, <3>2
    <3> QED
      BY <3>3 DEF Active
  <2>4. CASE ~Commit(r) /\ ~CommitUnacknowledged(r) /\ ~OpenAlertAfterCreate(r)
    BY <2>1, <2>4, AlertsUnchanged DEF Active
  <2> QED
    BY <2>2, <2>3, <2>4
<1> QED
  BY <1>1, FlagInvariant, InductiveInvariant, PTL DEF Spec, OnlyRecoveryResolves

=============================================================================
