----------------------------- MODULE OrdersProofs -----------------------------
(***************************************************************************)
(* The safety of Orders for any set of orders, requests, products, alerts  *)
(* and minima, with calls in parallel; and the refinement of the aggregate,*)
(* one receipt and well-formed rows for every order on which no two calls  *)
(* have stood between check and write at once.                             *)
(***************************************************************************)
EXTENDS Orders, TLAPS

Creating == {"readProduct", "readAlert", "insert"}
Turning == {"find", "update", "compose"} \cup InTransaction

\* The order asked for meets BR-2 for a minimum that the call has seen.
Allowed(r) ==
    /\ call[r].product \in Catalog
    /\ \E m \in minimaSeen[r] : call[r].quantity >= 2 * m

\* The alert an order comes from was opened, for that product.
Grounded(r) ==
    call[r].fromAlert # NoAlert =>
        /\ alerts[call[r].fromAlert] # "absent"
        /\ AlertProduct[call[r].fromAlert] = call[r].product

\* What a create has checked at each of its statements.
CreateInv(r) ==
    /\ pc[r] = "new" => call[r] = NoCall
    /\ pc[r] \in Creating \cup {"new"} => orders[r] = A!NoOrder
    /\ pc[r] \in Creating => call[r] \in CreateCall /\ call[r].quantity > 0
    /\ pc[r] = "readProduct" /\ call[r].product \in Catalog
           => minimum[call[r].product] \in minimaSeen[r]
    /\ pc[r] \in {"readAlert", "insert"} => Allowed(r)
    /\ pc[r] = "readAlert" => call[r].fromAlert # NoAlert
    /\ pc[r] = "insert" => Grounded(r)
    /\ orders[r] # A!NoOrder =>
           /\ call[r] \in CreateCall /\ Allowed(r) /\ Grounded(r)
           /\ orders[r].quantity = call[r].quantity
           /\ orders[r].product = call[r].product

\* What the other calls have found at each of theirs; a decision that was
\* written is never taken back to PENDIENTE.
TurnInv(r) ==
    /\ pc[r] \in Turning => call[r] \in TurnCall \cup RejectCall
    /\ pc[r] \in InTransaction => call[r].kind = "receive"
    /\ pc[r] \in Turning \ {"find"} => orders[OrderOf(r)] \in A!Row
    /\ pc[r] = "compose" \/ Decided(r) =>
           orders[OrderOf(r)] \in A!Row /\ orders[OrderOf(r)].status # "PENDIENTE"
    /\ outcome[r] = "ok" => pc[r] = "done"

\* A receive past the product's row holds it, as it read it.
HeldInv(r) ==
    LET p == ProductOf(r) IN
    /\ pc[r] \in {"close", "commit"} =>
           /\ productLock[p] = r
           /\ tx[r].stockAfter = stock[p] + orders[OrderOf(r)].quantity
           /\ tx[r].stockAfter <= MaxInt
           /\ tx[r].minimum = minimum[p]
    /\ pc[r] = "commit" =>
           \A a \in tx[r].closed : AlertProduct[a] = p /\ tx[r].stockAfter > tx[r].minimum

\* Orders are of products of the catalog.
Catalogued == \A o \in OrderId : orders[o] # A!NoOrder => orders[o].product \in Catalog

OwnInv(r) == CreateInv(r) /\ TurnInv(r) /\ HeldInv(r)

\* The inductive invariant of calls in parallel.
OInv ==
    /\ TypeOK
    /\ Catalogued
    /\ StockExplained
    /\ \A r \in Request : OwnInv(r)

-----------------------------------------------------------------------------
(* Rows and calls *)

LEMMA RowFields ==
    /\ \A row \in A!Row : /\ row.product \in Product /\ row.quantity \in Nat
                          /\ row.status \in A!Status /\ row # A!NoOrder
    /\ A!NoOrder.status = "none"
<1>1. ASSUME NEW row \in A!Row
      PROVE  row.product \in Product /\ row.quantity \in Nat /\ row.status \in A!Status
  BY DEF A!Row
<1>2. A!NoOrder.status = "none" /\ "none" \notin A!Status
  BY DEF A!NoOrder, A!Status
<1> QED
  BY <1>1, <1>2

\* Writing a status, with the column that goes with it, keeps the rest.
LEMMA RowWritten ==
    ASSUME NEW row \in A!Row, NEW s \in A!Status,
           NEW t \in {[row EXCEPT !.status = s], [row EXCEPT !.status = s, !.reason = TRUE],
                      [row EXCEPT !.status = s, !.receivedAt = TRUE]}
    PROVE  /\ t \in A!Row
           /\ t.product = row.product /\ t.quantity = row.quantity /\ t.status = s
  BY DEF A!Row

LEMMA CallFields ==
    /\ \A c \in CreateCall : /\ c.kind = "create" /\ c.product \in Product
                             /\ c.quantity \in Int /\ c.fromAlert \in Alert \cup {NoAlert}
    /\ \A c \in TurnCall : c.kind \in {"approve", "receive"} /\ c.order \in OrderId
    /\ \A c \in RejectCall : c.kind = "reject" /\ c.order \in OrderId
    /\ NoCall.kind = "none"
  BY DEF CreateCall, TurnCall, RejectCall, NoCall

\* A call's kind tells what else it has.
LEMMA KindOf ==
    ASSUME TypeOK, NEW r \in Request
    PROVE  /\ call[r].kind = "create" => call[r] \in CreateCall
           /\ call[r].kind \in {"approve", "reject", "receive"} =>
                  call[r] \in TurnCall \cup RejectCall /\ OrderOf(r) \in OrderId
<1>1. call[r] \in CreateCall \cup TurnCall \cup RejectCall \cup {NoCall}
  BY DEF TypeOK
<1> QED
  BY <1>1, CallFields DEF OrderOf

LEMMA NewRowType ==
    ASSUME NEW c \in CreateCall, c.quantity > 0
    PROVE  /\ NewOrder(c) \in A!Row
           /\ NewOrder(c).product = c.product /\ NewOrder(c).quantity = c.quantity
           /\ NewOrder(c).status = "PENDIENTE"
<1>1. c.product \in Product /\ c.quantity \in Nat
  BY CallFields
<1> QED
  BY <1>1 DEF NewOrder, A!Row, A!Status

-----------------------------------------------------------------------------
(* Requests that do not act *)

\* What a step of x leaves of the tables: rows stay, decisions stay decided,
\* opened alerts stay opened, and rows that others hold stay as they are.
Evolves(x) ==
    /\ \A o \in OrderId : orders[o] \in A!Row =>
           /\ orders'[o] \in A!Row
           /\ orders'[o].product = orders[o].product
           /\ orders'[o].quantity = orders[o].quantity
           /\ orders[o].status # "PENDIENTE" => orders'[o].status # "PENDIENTE"
    /\ \A o \in OrderId \ {x} : orders[o] = A!NoOrder => orders'[o] = A!NoOrder
    /\ \A a \in Alert : alerts[a] # "absent" => alerts'[a] # "absent"
    /\ \A p \in Catalog : productLock[p] \in Request \ {x} =>
           /\ productLock'[p] = productLock[p]
           /\ stock'[p] = stock[p] /\ minimum'[p] = minimum[p]

\* What a step leaves of a request that does not act.
Idle(q) ==
    /\ pc'[q] = pc[q] /\ call'[q] = call[q] /\ tx'[q] = tx[q] /\ outcome'[q] = outcome[q]
    /\ answeredBefore'[q] = answeredBefore[q]
    /\ minimaSeen[q] \subseteq minimaSeen'[q]
    /\ pc[q] = "readProduct" /\ call[q].product \in Catalog
           => \/ minimum'[call[q].product] = minimum[call[q].product]
              \/ minimum'[call[q].product] \in minimaSeen'[q]

LEMMA IdleCreate ==
    ASSUME OInv, TypeOK', NEW x, Evolves(x), NEW q \in Request, q # x, Idle(q)
    PROVE  CreateInv(q)'
<1> USE DEF OInv, OwnInv, Idle
<1>1. CreateInv(q) /\ q \in OrderId
  BY DEF OrderId
<1>2. orders[q] \in A!Row \/ orders[q] = A!NoOrder
  BY <1>1 DEF TypeOK
<1>3. orders[q] # A!NoOrder =>
          /\ orders'[q] # A!NoOrder
          /\ orders'[q].product = orders[q].product /\ orders'[q].quantity = orders[q].quantity
  BY <1>1, <1>2, RowFields DEF Evolves
<1>4. orders[q] = A!NoOrder => orders'[q] = A!NoOrder
  BY <1>1 DEF Evolves
<1>5. Allowed(q) => Allowed(q)'
  BY DEF Allowed
<1>6. call[q] \in CreateCall /\ Grounded(q) => Grounded(q)'
  BY CallFields DEF Grounded, Evolves
<1> QED
  BY <1>1, <1>3, <1>4, <1>5, <1>6 DEF CreateInv, Creating

LEMMA IdleTurn ==
    ASSUME OInv, NEW x, Evolves(x), NEW q \in Request, q # x, Idle(q)
    PROVE  TurnInv(q)'
<1> USE DEF OInv, OwnInv, Idle
<1>1. TurnInv(q) /\ OrderOf(q)' = OrderOf(q) /\ (Decided(q)' <=> Decided(q))
  BY DEF OrderOf, Decided
<1>2. pc[q] \in Turning \/ Decided(q) => OrderOf(q) \in OrderId
  BY <1>1, KindOf, CallFields DEF TurnInv, Decided, OrderOf
<1>3. OrderOf(q) \in OrderId /\ orders[OrderOf(q)] \in A!Row =>
          /\ orders'[OrderOf(q)] \in A!Row
          /\ orders[OrderOf(q)].status # "PENDIENTE" => orders'[OrderOf(q)].status # "PENDIENTE"
  BY DEF Evolves
<1> QED
  BY <1>1, <1>2, <1>3 DEF TurnInv, Turning

LEMMA IdleHeld ==
    ASSUME OInv, NEW x, Evolves(x), NEW q \in Request, q # x, Idle(q)
    PROVE  HeldInv(q)'
<1> USE DEF OInv, OwnInv, Idle
<1>1. HeldInv(q) /\ TurnInv(q) /\ OrderOf(q)' = OrderOf(q)
  BY DEF OrderOf
<1> SUFFICES ASSUME pc[q] \in {"close", "commit"} PROVE HeldInv(q)'
  BY DEF HeldInv
<1>2. OrderOf(q) \in OrderId /\ orders[OrderOf(q)] \in A!Row
  BY <1>1, CallFields DEF TurnInv, Turning, InTransaction, OrderOf
<1>3. ProductOf(q)' = ProductOf(q) /\ orders'[OrderOf(q)].quantity = orders[OrderOf(q)].quantity
  BY <1>1, <1>2 DEF Evolves, ProductOf
<1>4. ProductOf(q) \in Catalog
  BY <1>2, RowFields DEF Catalogued, ProductOf
<1>5. /\ productLock'[ProductOf(q)] = q
      /\ stock'[ProductOf(q)] = stock[ProductOf(q)]
      /\ minimum'[ProductOf(q)] = minimum[ProductOf(q)]
  BY <1>1, <1>4 DEF HeldInv, Evolves
<1> QED
  BY <1>1, <1>3, <1>5 DEF HeldInv

\* All that is left to show of a step are the parts that its actor may change.
LEMMA ActorSuffices ==
    ASSUME OInv, TypeOK', Catalogued', StockExplained', NEW x, Evolves(x),
           \A q \in Request \ {x} : Idle(q), x \in Request => OwnInv(x)'
    PROVE  OInv'
<1>1. ASSUME NEW q \in Request, q # x PROVE OwnInv(q)'
  BY <1>1, IdleCreate, IdleTurn, IdleHeld DEF OwnInv
<1> QED
  BY <1>1 DEF OInv

-----------------------------------------------------------------------------
(* Steps that only take a request to another statement *)

LEMMA TablesKept ==
    ASSUME OInv, NEW x, UNCHANGED <<orders, stock, minimum, alerts, net, productLock>>
    PROVE  Evolves(x) /\ Catalogued' /\ StockExplained'
  BY DEF OInv, Evolves, Catalogued, StockExplained

LEMMA MoveSuffices ==
    ASSUME OInv, NEW r \in Request, NEW s \in Pc, NEW o \in Outcome, Goto(r, s), Answer(r, o),
           UNCHANGED <<tables, locks, call, tx, minimaSeen, answeredBefore>>,
           disturbed' \subseteq Request /\ raced' \subseteq OrderId, CreateInv(r)', TurnInv(r)'
    PROVE  HeldInv(r)' => OInv'
<1> USE DEF OInv, TypeOK, Goto, Answer, tables, locks
<1>1. TypeOK'
  OBVIOUS
<1>2. Evolves(r) /\ Catalogued' /\ StockExplained'
  BY TablesKept
<1>3. \A q \in Request \ {r} : Idle(q)
  BY DEF Idle
<1> QED
  BY <1>1, <1>2, <1>3, ActorSuffices DEF OwnInv

\* A request that is refused or fails, and whose process may die.
LEMMA LeaveKeeps ==
    ASSUME OInv, NEW r \in Request, NEW s \in {"done", "rollback", "lost"},
           NEW o \in Outcome \ {"ok"}, Goto(r, s), Answer(r, o),
           UNCHANGED <<tables, locks, call, tx, minimaSeen, answeredBefore>>,
           disturbed' \subseteq Request /\ raced' \subseteq OrderId
    PROVE  OInv'
<1>1. pc'[r] = s /\ outcome'[r] = o
  BY DEF OInv, TypeOK, Goto, Answer
<1>2. s \in Pc
  BY DEF Pc
<1>3. CreateInv(r)'
  BY <1>1 DEF OInv, OwnInv, CreateInv, Creating, Allowed, Grounded, tables
<1>4. TurnInv(r)'
  BY <1>1 DEF TurnInv, Turning, InTransaction, Decided
<1>5. HeldInv(r)'
  BY <1>1 DEF HeldInv
<1> QED
  BY <1>2, <1>3, <1>4, <1>5, MoveSuffices

LEMMA StepRefused ==
    ASSUME OInv, NEW r \in Request, Refuse(r),
           UNCHANGED <<tables, locks, call, tx, minimaSeen, history>>
    PROVE  OInv'
<1>1. Goto(r, "done") /\ Answer(r, "rejected") /\ "rejected" \in Outcome
  BY DEF Refuse, Outcome
<1>2. disturbed' \subseteq Request /\ raced' \subseteq OrderId
  BY DEF history, OInv, TypeOK
<1> QED
  BY <1>1, <1>2, LeaveKeeps DEF history

LEMMA StepReadProduct == ASSUME OInv, NEW r \in Request, ReadProduct(r) PROVE OInv'
<1>1. CASE Refuse(r)
  BY <1>1, StepRefused DEF ReadProduct
<1>2. CASE ~Refuse(r)
  <2> DEFINE s == IF call[r].fromAlert = NoAlert THEN "insert" ELSE "readAlert"
  <2>1. /\ pc[r] = "readProduct" /\ call[r].product \in Catalog
        /\ call[r].quantity >= 2 * minimum[call[r].product]
        /\ Goto(r, s) /\ UNCHANGED outcome
        /\ UNCHANGED <<tables, locks, call, tx, minimaSeen, history>>
    BY <1>2 DEF ReadProduct, MeetsPolicy
  <2>2. CreateInv(r) /\ TurnInv(r) /\ TypeOK /\ pc'[r] = s /\ outcome'[r] = outcome[r]
    BY <2>1 DEF OInv, OwnInv, TypeOK, Goto
  <2>3. Allowed(r)'
    BY <2>1, <2>2 DEF CreateInv, Allowed
  <2>4. CreateInv(r)'
    BY <2>1, <2>2, <2>3 DEF CreateInv, Creating, Allowed, Grounded, tables
  <2>5. TurnInv(r)'
    BY <2>1, <2>2 DEF TurnInv, Turning, InTransaction, Decided
  <2>6. HeldInv(r)'
    BY <2>2 DEF HeldInv
  <2>7. /\ s \in Pc /\ outcome[r] \in Outcome /\ Answer(r, outcome[r])
        /\ disturbed' \subseteq Request /\ raced' \subseteq OrderId
    BY <2>1, <2>2 DEF TypeOK, Answer, Pc, Outside, history
  <2> QED
    BY <2>1, <2>4, <2>5, <2>6, <2>7, MoveSuffices DEF history
<1> QED
  BY <1>1, <1>2

LEMMA StepReadAlert == ASSUME OInv, NEW r \in Request, ReadAlert(r) PROVE OInv'
<1>1. CASE Refuse(r)
  BY <1>1, StepRefused DEF ReadAlert
<1>2. CASE ~Refuse(r)
  <2>1. /\ pc[r] = "readAlert" /\ alerts[call[r].fromAlert] = "ACTIVA"
        /\ AlertProduct[call[r].fromAlert] = call[r].product
        /\ Goto(r, "insert") /\ UNCHANGED outcome
        /\ UNCHANGED <<tables, locks, call, tx, minimaSeen, history>>
    BY <1>2 DEF ReadAlert
  <2>2. CreateInv(r) /\ TurnInv(r) /\ TypeOK /\ pc'[r] = "insert" /\ outcome'[r] = outcome[r]
    BY <2>1 DEF OInv, OwnInv, TypeOK, Goto
  <2>3. CreateInv(r)'
    BY <2>1, <2>2 DEF CreateInv, Creating, Allowed, Grounded, tables
  <2>4. TurnInv(r)'
    BY <2>1, <2>2 DEF TurnInv, Turning, InTransaction, Decided
  <2>5. HeldInv(r)'
    BY <2>2 DEF HeldInv
  <2>6. /\ "insert" \in Pc /\ outcome[r] \in Outcome /\ Answer(r, outcome[r])
        /\ disturbed' \subseteq Request /\ raced' \subseteq OrderId
    BY <2>1, <2>2 DEF TypeOK, Answer, Pc, Outside, history
  <2> QED
    BY <2>1, <2>3, <2>4, <2>5, <2>6, MoveSuffices DEF history
<1> QED
  BY <1>1, <1>2

LEMMA StepFindOrder == ASSUME OInv, NEW r \in Request, FindOrder(r) PROVE OInv'
<1>1. CASE Refuse(r) /\ UNCHANGED raced
  BY <1>1, StepRefused DEF FindOrder, history
<1>2. CASE ~(Refuse(r) /\ UNCHANGED raced)
  <2>1. PICK s \in {"readInTx", "update"} :
            /\ Goto(r, s) /\ (s = "readInTx" => call[r].kind = "receive")
    BY <1>2 DEF FindOrder, PassCheck
  <2>2. /\ pc[r] = "find" /\ orders[OrderOf(r)].status # "none" /\ UNCHANGED outcome
        /\ raced' \in {raced, raced \cup {OrderOf(r)}}
        /\ UNCHANGED <<tables, locks, call, tx, minimaSeen, answeredBefore, disturbed>>
    BY <1>2 DEF FindOrder, PassCheck
  <2>3. CreateInv(r) /\ TurnInv(r) /\ TypeOK /\ pc'[r] = s /\ outcome'[r] = outcome[r]
    BY <2>1, <2>2 DEF OInv, OwnInv, TypeOK, Goto
  <2>4. call[r] \in TurnCall \cup RejectCall /\ orders[OrderOf(r)] \in A!Row
    <3>1. call[r] \in TurnCall \cup RejectCall
      BY <2>2, <2>3 DEF TurnInv, Turning
    <3>2. OrderOf(r) \in OrderId
      BY <3>1, CallFields DEF OrderOf
    <3> QED
      BY <2>2, <2>3, <3>1, <3>2, RowFields DEF TypeOK
  <2>5. CreateInv(r)'
    BY <2>1, <2>2, <2>3 DEF CreateInv, Creating, Allowed, Grounded, tables
  <2>6. TurnInv(r)'
    BY <2>1, <2>2, <2>3, <2>4
       DEF TurnInv, Turning, InTransaction, Decided, OrderOf, tables
  <2>7. HeldInv(r)'
    BY <2>1, <2>3 DEF HeldInv
  <2>8. /\ s \in Pc /\ outcome[r] \in Outcome /\ Answer(r, outcome[r])
        /\ disturbed' \subseteq Request
    BY <2>1, <2>2, <2>3 DEF TypeOK, Answer, Pc, Outside, InTransaction
  <2>9. raced' \subseteq OrderId
    BY <2>2, <2>3, <2>4, CallFields DEF TypeOK, OrderOf
  <2> QED
    BY <2>1, <2>2, <2>5, <2>6, <2>7, <2>8, <2>9, MoveSuffices
<1> QED
  BY <1>1, <1>2

LEMMA StepCompose == ASSUME OInv, NEW r \in Request, Compose(r) PROVE OInv'
<1>1. /\ pc[r] = "compose" /\ Goto(r, "done") /\ Answer(r, "ok")
      /\ UNCHANGED <<tables, locks, call, tx, minimaSeen, history>>
  BY DEF Compose
<1>2. /\ CreateInv(r) /\ TurnInv(r) /\ TypeOK /\ pc'[r] = "done" /\ outcome'[r] = "ok"
  BY <1>1 DEF OInv, OwnInv, TypeOK, Goto, Answer
<1>3. CreateInv(r)'
  BY <1>1, <1>2 DEF CreateInv, Creating, Allowed, Grounded, tables
<1>4. TurnInv(r)'
  BY <1>1, <1>2 DEF TurnInv, Turning, InTransaction, OrderOf, tables
<1>5. HeldInv(r)'
  BY <1>2 DEF HeldInv
<1>6. "done" \in Pc /\ "ok" \in Outcome /\ disturbed' \subseteq Request /\ raced' \subseteq OrderId
  BY <1>1, <1>2 DEF TypeOK, Pc, Outcome, history
<1> QED
  BY <1>1, <1>3, <1>4, <1>5, <1>6, MoveSuffices DEF history

LEMMA StepReadInTransaction ==
    ASSUME OInv, NEW r \in Request, ReadInTransaction(r) PROVE OInv'
<1>1. /\ pc[r] = "readInTx"
      /\ raced' \in {raced, raced \cup {OrderOf(r)}}
      /\ UNCHANGED <<tables, locks, call, tx, minimaSeen, answeredBefore, disturbed>>
  BY DEF ReadInTransaction, PassCheck
<1>2. CreateInv(r) /\ TurnInv(r) /\ TypeOK /\ disturbed' \subseteq Request /\ raced' \subseteq OrderId
  <2>1. CreateInv(r) /\ TurnInv(r) /\ TypeOK
    BY DEF OInv, OwnInv
  <2>2. OrderOf(r) \in OrderId
    BY <1>1, <2>1, CallFields DEF TurnInv, Turning, InTransaction, OrderOf
  <2> QED
    BY <1>1, <2>1, <2>2 DEF TypeOK
<1>3. CASE \E o \in {"rejected", "error"} : RefuseInTx(r, o)
  <2>1. PICK o \in {"rejected", "error"} : Goto(r, "rollback") /\ Answer(r, o)
    BY <1>3 DEF RefuseInTx
  <2>2. o \in Outcome \ {"ok"}
    BY DEF Outcome
  <2> QED
    BY <1>1, <1>2, <2>1, <2>2, LeaveKeeps
<1>4. CASE Goto(r, "mark") /\ UNCHANGED outcome
  <2>1. pc'[r] = "mark" /\ outcome'[r] = outcome[r] /\ Answer(r, outcome[r]) /\ outcome[r] \in Outcome
    BY <1>2, <1>4 DEF TypeOK, Goto, Answer
  <2>2. CreateInv(r)'
    BY <1>1, <1>2, <2>1 DEF CreateInv, Creating, Allowed, Grounded, tables
  <2>3. TurnInv(r)'
    BY <1>1, <1>2, <2>1 DEF TurnInv, Turning, InTransaction, Decided, OrderOf, tables
  <2>4. HeldInv(r)'
    BY <2>1 DEF HeldInv
  <2>5. "mark" \in Pc
    BY DEF Pc, InTransaction
  <2> QED
    BY <1>1, <1>2, <1>4, <2>1, <2>2, <2>3, <2>4, <2>5, MoveSuffices
<1> QED
  BY <1>3, <1>4 DEF ReadInTransaction, PassCheck

LEMMA StepQueryFails == ASSUME OInv, NEW r \in Request, QueryFails(r) PROVE OInv'
<1>1. "error" \in Outcome \ {"ok"} /\ disturbed' \subseteq Request /\ raced' \subseteq OrderId
  BY DEF QueryFails, OInv, TypeOK, Outcome
<1> QED
  BY <1>1, LeaveKeeps DEF QueryFails

LEMMA StepStatementFails == ASSUME OInv, NEW r \in Request, StatementFails(r) PROVE OInv'
<1>1. "error" \in Outcome \ {"ok"} /\ disturbed' \subseteq Request /\ raced' \subseteq OrderId
  BY DEF StatementFails, OInv, TypeOK, Outcome
<1> QED
  BY <1>1, LeaveKeeps DEF StatementFails, RefuseInTx

-----------------------------------------------------------------------------
(* Steps that take or free locks *)

\* txUpdate takes the order's row.
LEMMA StepMarkReceived == ASSUME OInv, NEW r \in Request, MarkReceived(r) PROVE OInv'
<1> USE DEF MarkReceived
<1>1. CreateInv(r) /\ TurnInv(r) /\ TypeOK /\ pc'[r] = "gate"
  BY DEF OInv, OwnInv, TypeOK, Goto
<1>2. TypeOK'
  BY <1>1 DEF TypeOK, Goto, Pc, InTransaction, tables, history
<1>3. Evolves(r) /\ Catalogued' /\ StockExplained'
  BY TablesKept DEF tables
<1>4. \A q \in Request \ {r} : Idle(q)
  BY <1>1 DEF TypeOK, Goto, Idle, tables, history
<1>5. CreateInv(r)'
  BY <1>1 DEF CreateInv, Creating, Allowed, Grounded, tables
<1>6. TurnInv(r)'
  BY <1>1 DEF TurnInv, Turning, InTransaction, Decided, OrderOf, tables
<1>7. HeldInv(r)'
  BY <1>1 DEF HeldInv
<1> QED
  BY <1>2, <1>3, <1>4, <1>5, <1>6, <1>7, ActorSuffices DEF OwnInv

\* The end of a transaction, or of a process, frees the locks of its request
\* and of no other.
LEMMA FreeLocksKeeps ==
    ASSUME OInv, NEW r \in Request, FreeLocks(r)
    PROVE  /\ orderLock' \in [OrderId -> Request \cup {Nobody}]
           /\ productLock' \in [Catalog -> Request \cup {Nobody}]
           /\ \A p \in Catalog : productLock[p] # r => productLock'[p] = productLock[p]
  BY DEF OInv, TypeOK, FreeLocks

LEMMA EndsKeeps ==
    ASSUME OInv, NEW r \in Request, NEW s \in {"done", "lost"}, FreeLocks(r), Goto(r, s),
           pc[r] # "done", UNCHANGED <<tables, call, tx, outcome, minimaSeen, answeredBefore>>,
           disturbed' \subseteq Request /\ raced' \subseteq OrderId
    PROVE  OInv'
<1> USE DEF tables
<1>1. CreateInv(r) /\ TurnInv(r) /\ TypeOK /\ pc'[r] = s
  BY DEF OInv, OwnInv, TypeOK, Goto
<1>2. TypeOK'
  BY <1>1, FreeLocksKeeps DEF TypeOK, Goto, Pc
<1>3. Evolves(r) /\ Catalogued' /\ StockExplained'
  BY FreeLocksKeeps DEF OInv, Evolves, Catalogued, StockExplained
<1>4. \A q \in Request \ {r} : Idle(q)
  BY <1>1 DEF TypeOK, Goto, Idle
<1>5. CreateInv(r)'
  BY <1>1 DEF CreateInv, Creating, Allowed, Grounded
<1>6. TurnInv(r)'
  BY <1>1 DEF TurnInv, Turning, InTransaction, Decided
<1>7. HeldInv(r)'
  BY <1>1 DEF HeldInv
<1> QED
  BY <1>2, <1>3, <1>4, <1>5, <1>6, <1>7, ActorSuffices DEF OwnInv

LEMMA StepRollback == ASSUME OInv, NEW r \in Request, Rollback(r) PROVE OInv'
  BY EndsKeeps DEF Rollback, OInv, TypeOK, history

LEMMA StepCrash == ASSUME OInv, NEW r \in Request, Crash(r) PROVE OInv'
<1>1. disturbed' \subseteq Request /\ raced' \subseteq OrderId
  BY DEF Crash, OInv, TypeOK
<1> QED
  BY <1>1, EndsKeeps DEF Crash

\* txIncrementStock waits for the product's row: nobody else has it.
LEMMA StepIncrementStock == ASSUME OInv, NEW r \in Request, IncrementStock(r) PROVE OInv'
<1> DEFINE p == ProductOf(r)
           n == stock[p] + orders[OrderOf(r)].quantity
<1>1. /\ pc[r] = "gate" /\ productLock[p] = Nobody
      /\ productLock' = [productLock EXCEPT ![p] = r]
      /\ tx' = [tx EXCEPT ![r] = [stockAfter |-> n, minimum |-> minimum[p], closed |-> {}]]
      /\ UNCHANGED <<tables, orderLock, call, minimaSeen, history>>
  BY DEF IncrementStock, ProductRowFree
<1>2. CreateInv(r) /\ TurnInv(r) /\ TypeOK
  BY DEF OInv, OwnInv
<1>3. OrderOf(r) \in OrderId /\ orders[OrderOf(r)] \in A!Row
  BY <1>1, <1>2, CallFields DEF TurnInv, Turning, InTransaction, OrderOf
<1>4. p \in Catalog /\ orders[OrderOf(r)].quantity \in Nat
  BY <1>3, RowFields DEF OInv, Catalogued, ProductOf
<1>5. n \in Int /\ minimum[p] \in Int
  <2>1. stock[p] \in 0..MaxInt /\ minimum[p] \in 1..MaxInt /\ MaxInt \in Nat
    BY <1>2, <1>4, OrdersAssumption DEF TypeOK
  <2> QED
    BY <1>4, <2>1
<1>6. /\ [stockAfter |-> n, minimum |-> minimum[p], closed |-> {}] \in Tx
      /\ tx'[r] = [stockAfter |-> n, minimum |-> minimum[p], closed |-> {}]
      /\ productLock'[p] = r
  BY <1>1, <1>2, <1>4, <1>5 DEF TypeOK, Tx
<1>7. PICK s \in {"close", "rollback"} :
          /\ Goto(r, s)
          /\ s = "close" => n <= MaxInt /\ UNCHANGED outcome
          /\ s = "rollback" => Answer(r, "error")
  BY DEF IncrementStock, RefuseInTx, FitsColumn
<1>8. /\ pc'[r] = s /\ outcome'[r] # "ok" /\ outcome' \in [Request -> Outcome]
      /\ \A q \in Request \ {r} : outcome'[q] = outcome[q] /\ pc'[q] = pc[q]
  BY <1>1, <1>2, <1>7 DEF TypeOK, Goto, Answer, Outcome, TurnInv
<1>9. TypeOK'
  BY <1>1, <1>2, <1>4, <1>6, <1>7, <1>8
     DEF TypeOK, Goto, Pc, InTransaction, tables, history
<1>10. Evolves(r) /\ Catalogued' /\ StockExplained'
  <2>1. \A c \in Catalog : productLock[c] \in Request \ {r} => productLock'[c] = productLock[c]
    BY <1>1, <1>2, <1>4, OrdersAssumption DEF TypeOK
  <2> QED
    BY <1>1, <2>1 DEF OInv, Evolves, Catalogued, StockExplained, tables
<1>11. \A q \in Request \ {r} : Idle(q)
  BY <1>1, <1>2, <1>8 DEF TypeOK, Idle, tables, history
<1>12. CreateInv(r)'
  BY <1>1, <1>2, <1>8 DEF CreateInv, Creating, Allowed, Grounded, tables
<1>13. TurnInv(r)'
  BY <1>1, <1>2, <1>3, <1>8 DEF TurnInv, Turning, InTransaction, Decided, OrderOf, tables
<1>14. HeldInv(r)'
  <2>1. /\ ProductOf(r)' = p /\ OrderOf(r)' = OrderOf(r)
        /\ UNCHANGED <<stock, minimum, orders>>
    BY <1>1 DEF ProductOf, OrderOf, tables
  <2>2. tx'[r].stockAfter = n /\ tx'[r].minimum = minimum[p]
    BY <1>6
  <2> QED
    BY <1>6, <1>7, <1>8, <2>1, <2>2 DEF HeldInv
<1> QED
  BY <1>9, <1>10, <1>11, <1>12, <1>13, <1>14, ActorSuffices DEF OwnInv

LEMMA StepCloseAlerts == ASSUME OInv, NEW r \in Request, CloseAlerts(r) PROVE OInv'
<1> DEFINE c == IF tx[r].stockAfter > tx[r].minimum THEN Active(ProductOf(r)) ELSE {}
<1>1. /\ pc[r] = "close" /\ Goto(r, "commit")
      /\ tx' = [tx EXCEPT ![r] = [tx[r] EXCEPT !.closed = c]]
      /\ UNCHANGED <<tables, locks, call, outcome, minimaSeen, history>>
  BY DEF CloseAlerts, OInv, TypeOK
<1>2. CreateInv(r) /\ TurnInv(r) /\ HeldInv(r) /\ TypeOK /\ pc'[r] = "commit" /\ tx[r] \in Tx
  BY <1>1 DEF OInv, OwnInv, TypeOK, Goto
<1>3. /\ tx'[r] = [tx[r] EXCEPT !.closed = c] /\ c \in SUBSET Alert
      /\ \A a \in c : AlertProduct[a] = ProductOf(r) /\ tx[r].stockAfter > tx[r].minimum
  BY <1>1, <1>2 DEF TypeOK, Active
<1>4. /\ tx'[r] \in Tx /\ tx'[r].closed = c
      /\ tx'[r].stockAfter = tx[r].stockAfter /\ tx'[r].minimum = tx[r].minimum
  BY <1>2, <1>3 DEF Tx
<1>5. TypeOK'
  BY <1>1, <1>2, <1>3, <1>4 DEF TypeOK, Goto, Pc, InTransaction, tables, locks, history
<1>6. Evolves(r) /\ Catalogued' /\ StockExplained'
  BY <1>1, TablesKept DEF tables, locks
<1>7. \A q \in Request \ {r} : Idle(q)
  BY <1>1, <1>2 DEF TypeOK, Goto, Idle, tables, history
<1>8. CreateInv(r)'
  BY <1>1, <1>2 DEF CreateInv, Creating, Allowed, Grounded, tables
<1>9. TurnInv(r)'
  BY <1>1, <1>2 DEF TurnInv, Turning, InTransaction, Decided, OrderOf, tables
<1>10. HeldInv(r)'
  <2>1. ProductOf(r)' = ProductOf(r) /\ OrderOf(r)' = OrderOf(r)
    BY <1>1 DEF ProductOf, OrderOf, tables
  <2> QED
    BY <1>1, <1>2, <1>3, <1>4, <2>1 DEF HeldInv, tables, locks
<1> QED
  BY <1>5, <1>6, <1>7, <1>8, <1>9, <1>10, ActorSuffices DEF OwnInv

-----------------------------------------------------------------------------
(* Steps that write orders *)

\* The shadow of a write has the type of the rows.
LEMMA AgreedType ==
    ASSUME TypeOK, NEW o \in OrderId, AgreeOn(o),
           orders' \in [OrderId -> A!Row \cup {A!NoOrder}]
    PROVE  agreed' \in [OrderId -> A!Row \cup {A!NoOrder}]
  BY DEF TypeOK, AgreeOn

LEMMA StepInsertOrder == ASSUME OInv, NEW r \in Request, InsertOrder(r) PROVE OInv'
<1> USE DEF InsertOrder
<1>1. CreateInv(r) /\ TurnInv(r) /\ TypeOK /\ r \in OrderId
  BY DEF OInv, OwnInv, OrderId
<1>2. /\ call[r] \in CreateCall /\ call[r].quantity > 0 /\ orders[r] = A!NoOrder
      /\ Allowed(r) /\ Grounded(r)
  BY <1>1 DEF CreateInv, Creating
<1>3. /\ orders'[r] = NewOrder(call[r]) /\ orders'[r] \in A!Row
      /\ orders'[r].product = call[r].product /\ orders'[r].quantity = call[r].quantity
      /\ \A o \in OrderId \ {r} : orders'[o] = orders[o]
  BY <1>1, <1>2, NewRowType DEF TypeOK
<1>4. pc'[r] = "done" /\ outcome'[r] = "ok"
  BY <1>1 DEF TypeOK, Goto, Answer
<1>5. TypeOK'
  <2>1. orders' \in [OrderId -> A!Row \cup {A!NoOrder}]
    BY <1>1, <1>3 DEF TypeOK
  <2> QED
    BY <1>1, <2>1, AgreedType DEF TypeOK, Goto, Answer, Pc, Outcome, locks, history
<1>6. Evolves(r)
  BY <1>2, <1>3, RowFields DEF Evolves, locks
<1>7. Catalogued' /\ StockExplained'
  BY <1>2, <1>3 DEF OInv, Catalogued, StockExplained, Allowed
<1>8. \A q \in Request \ {r} : Idle(q)
  BY <1>1 DEF TypeOK, Goto, Answer, Idle, history
<1>9. CreateInv(r)'
  BY <1>2, <1>3, <1>4 DEF CreateInv, Creating, Allowed, Grounded
<1>10. TurnInv(r)'
  BY <1>2, <1>4, CallFields DEF TurnInv, Turning, InTransaction, Decided
<1>11. HeldInv(r)'
  BY <1>4 DEF HeldInv
<1> QED
  BY <1>5, <1>6, <1>7, <1>8, <1>9, <1>10, <1>11, ActorSuffices DEF OwnInv

\* A write of one existing row that keeps product and quantity.
LEMMA RowWriteEvolves ==
    ASSUME OInv, NEW x, NEW o \in OrderId, orders[o] \in A!Row, NEW row \in A!Row,
           row.product = orders[o].product, row.quantity = orders[o].quantity,
           row.status # "PENDIENTE", orders' = [orders EXCEPT ![o] = row]
    PROVE  /\ orders' \in [OrderId -> A!Row \cup {A!NoOrder}]
           /\ \A q \in OrderId : orders[q] \in A!Row =>
                  /\ orders'[q] \in A!Row
                  /\ orders'[q].product = orders[q].product
                  /\ orders'[q].quantity = orders[q].quantity
                  /\ orders[q].status # "PENDIENTE" => orders'[q].status # "PENDIENTE"
           /\ \A q \in OrderId \ {x} : orders[q] = A!NoOrder => orders'[q] = A!NoOrder
           /\ Catalogued'
           /\ orders'[o] = row
<1>1. orders \in [OrderId -> A!Row \cup {A!NoOrder}]
  BY DEF OInv, TypeOK
<1>2. orders' \in [OrderId -> A!Row \cup {A!NoOrder}] /\ orders'[o] = row
  BY <1>1
<1>3. \A q \in OrderId \ {o} : orders'[q] = orders[q]
  BY <1>1
<1>4. orders[o] # A!NoOrder
  BY RowFields
<1>5. Catalogued'
  BY <1>2, <1>3, <1>4 DEF OInv, Catalogued
<1> QED
  BY <1>2, <1>3, <1>4, <1>5

LEMMA StepUpdateStatus == ASSUME OInv, NEW r \in Request, UpdateStatus(r) PROVE OInv'
<1> DEFINE o == OrderOf(r)
           row == IF call[r].kind = "approve"
                  THEN [orders[o] EXCEPT !.status = "APROBADA"]
                  ELSE [orders[o] EXCEPT !.status = "RECHAZADA", !.reason = TRUE]
<1>1. /\ pc[r] = "update" /\ Goto(r, "compose")
      /\ UNCHANGED <<stock, minimum, alerts, net, received, locks, call, tx, outcome,
                     minimaSeen, history>>
  BY DEF UpdateStatus
<1>2. CreateInv(r) /\ TurnInv(r) /\ TypeOK /\ pc'[r] = "compose"
  BY <1>1 DEF OInv, OwnInv, TypeOK, Goto
<1>3. o \in OrderId /\ orders[o] \in A!Row
  BY <1>1, <1>2, CallFields DEF TurnInv, Turning, OrderOf
<1>4. orders' = [orders EXCEPT ![o] = row]
  BY <1>2, <1>3 DEF UpdateStatus, TypeOK
<1>5. /\ row \in A!Row /\ row.product = orders[o].product /\ row.quantity = orders[o].quantity
      /\ row.status # "PENDIENTE"
  <2>1. "APROBADA" \in A!Status /\ "RECHAZADA" \in A!Status
    BY DEF A!Status
  <2> QED
    BY <1>3, <2>1, RowWritten
<1> HIDE DEF row
<1>6. TypeOK'
  <2>1. agreed' \in [OrderId -> A!Row \cup {A!NoOrder}]
    BY <1>2, <1>3, <1>4, <1>5, RowWriteEvolves, AgreedType DEF UpdateStatus
  <2> QED
    BY <1>1, <1>2, <1>3, <1>4, <1>5, <2>1, RowWriteEvolves
       DEF TypeOK, Goto, Pc, Outside, locks, history
<1>7. Evolves(r) /\ Catalogued' /\ StockExplained'
  BY <1>1, <1>3, <1>4, <1>5, RowWriteEvolves DEF OInv, Evolves, StockExplained, locks
<1>8. \A q \in Request \ {r} : Idle(q)
  BY <1>1, <1>2 DEF TypeOK, Goto, Idle, history
<1>9. orders[r] # A!NoOrder => /\ orders'[r] # A!NoOrder
                               /\ orders'[r].product = orders[r].product
                               /\ orders'[r].quantity = orders[r].quantity
  <2>1. r \in OrderId /\ (orders[r] \in A!Row \/ orders[r] = A!NoOrder)
    BY <1>2 DEF TypeOK, OrderId
  <2> QED
    BY <1>7, <2>1, RowFields DEF Evolves
<1>10. orders[r] = A!NoOrder => orders'[r] = A!NoOrder
  BY <1>2, <1>3, <1>4, RowFields DEF TypeOK, OrderId
<1>11. CreateInv(r)'
  BY <1>1, <1>2, <1>9, <1>10 DEF CreateInv, Creating, Allowed, Grounded
<1>12. TurnInv(r)'
  <2>1. /\ OrderOf(r)' = o /\ orders'[o] \in A!Row /\ orders'[o].status # "PENDIENTE"
    BY <1>1, <1>3, <1>4, <1>5, RowWriteEvolves DEF OrderOf
  <2> QED
    BY <1>1, <1>2, <2>1 DEF TurnInv, Turning, InTransaction, Decided
<1>13. HeldInv(r)'
  BY <1>2 DEF HeldInv
<1> QED
  BY <1>6, <1>7, <1>8, <1>11, <1>12, <1>13, ActorSuffices DEF OwnInv

\* What the server makes visible of a receive: the row it holds is still the one
\* it read, so the stock is explained.
LEMMA ReceiveWrites ==
    ASSUME OInv, NEW r \in Request, pc[r] = "commit", ApplyReceive(r)
    PROVE  /\ orders' \in [OrderId -> A!Row \cup {A!NoOrder}]
           /\ agreed' \in [OrderId -> A!Row \cup {A!NoOrder}]
           /\ stock' \in [Catalog -> 0..MaxInt] /\ net' \in [Catalog -> Int]
           /\ alerts' \in [Alert -> AlertStatus] /\ received' \subseteq Request
           /\ Evolves(r) /\ Catalogued' /\ StockExplained'
           /\ orders[r] = A!NoOrder => orders'[r] = A!NoOrder
<1> DEFINE o == OrderOf(r)
           p == ProductOf(r)
           row == [orders[o] EXCEPT !.status = "RECIBIDA", !.receivedAt = TRUE]
<1>1. TurnInv(r) /\ HeldInv(r) /\ TypeOK
  BY DEF OInv, OwnInv
<1>2. o \in OrderId /\ orders[o] \in A!Row
  BY <1>1, CallFields DEF TurnInv, Turning, InTransaction, OrderOf
<1>3. p \in Catalog /\ orders[o].quantity \in Nat
  BY <1>2, RowFields DEF OInv, Catalogued, ProductOf
<1>4. orders' = [orders EXCEPT ![o] = row]
  BY <1>1, <1>2 DEF ApplyReceive, TypeOK
<1>5. /\ row \in A!Row /\ row.product = orders[o].product /\ row.quantity = orders[o].quantity
      /\ row.status # "PENDIENTE"
  <2>1. "RECIBIDA" \in A!Status
    BY DEF A!Status
  <2> QED
    BY <1>2, <2>1, RowWritten
<1> HIDE DEF row
<1>6. stock[p] \in 0..MaxInt /\ net[p] \in Int /\ MaxInt \in Nat /\ OpeningStock \in Int
  BY <1>1, <1>3, OrdersAssumption DEF TypeOK
<1>7. /\ tx[r].stockAfter = stock[p] + orders[o].quantity /\ tx[r].stockAfter <= MaxInt
      /\ productLock[p] = r
  BY <1>1 DEF HeldInv
<1>8. /\ stock' = [stock EXCEPT ![p] = tx[r].stockAfter]
      /\ net' = [net EXCEPT ![p] = net[p] + orders[o].quantity]
  BY <1>1, <1>3 DEF ApplyReceive, TypeOK
<1>9. stock' \in [Catalog -> 0..MaxInt] /\ net' \in [Catalog -> Int]
  <2>1. tx[r].stockAfter \in 0..MaxInt /\ net[p] + orders[o].quantity \in Int
    BY <1>3, <1>6, <1>7
  <2> QED
    BY <1>1, <1>8, <2>1 DEF TypeOK
<1>10. alerts' \in [Alert -> AlertStatus]
       /\ \A a \in Alert : alerts[a] # "absent" => alerts'[a] # "absent"
  <2>1. alerts' = [a \in Alert |-> IF a \in tx[r].closed THEN "RESUELTA" ELSE alerts[a]]
    BY DEF ApplyReceive
  <2> QED
    BY <1>1, <2>1 DEF TypeOK, AlertStatus
<1>11. \A c \in Catalog : productLock[c] \in Request \ {r} =>
           /\ productLock'[c] = productLock[c]
           /\ stock'[c] = stock[c] /\ minimum'[c] = minimum[c]
  <2>1. minimum' = minimum /\ FreeLocks(r)
    BY DEF ApplyReceive
  <2> QED
    BY <1>1, <1>3, <1>7, <1>8, <2>1, FreeLocksKeeps DEF TypeOK
<1>12. StockExplained'
  <2>1. stock'[p] = OpeningStock + net'[p]
    BY <1>1, <1>3, <1>6, <1>7, <1>8 DEF OInv, TypeOK, StockExplained
  <2>2. \A c \in Catalog \ {p} : stock'[c] = stock[c] /\ net'[c] = net[c]
    BY <1>1, <1>8 DEF TypeOK
  <2> QED
    BY <2>1, <2>2 DEF OInv, StockExplained
<1>13. orders' \in [OrderId -> A!Row \cup {A!NoOrder}] /\ Evolves(r) /\ Catalogued'
  BY <1>2, <1>4, <1>5, <1>10, <1>11, RowWriteEvolves DEF Evolves
<1>14. orders[r] = A!NoOrder => orders'[r] = A!NoOrder
  BY <1>1, <1>2, <1>4, RowFields DEF TypeOK, OrderId
<1>15. received' \subseteq Request
  BY <1>1 DEF ApplyReceive, TypeOK
<1>16. agreed' \in [OrderId -> A!Row \cup {A!NoOrder}]
  BY <1>1, <1>2, <1>13, AgreedType DEF ApplyReceive
<1> QED
  BY <1>9, <1>10, <1>12, <1>13, <1>14, <1>15, <1>16

LEMMA ReceiveKeeps ==
    ASSUME OInv, NEW r \in Request, pc[r] = "commit", ApplyReceive(r),
           NEW s \in {"done", "rollback"}, NEW o \in Outcome, Goto(r, s), Answer(r, o),
           o = "ok" => s = "done",
           UNCHANGED <<call, tx, minimaSeen, answeredBefore>>,
           disturbed' \subseteq Request /\ raced' \subseteq OrderId
    PROVE  OInv'
<1>1. CreateInv(r) /\ TurnInv(r) /\ TypeOK /\ pc'[r] = s /\ outcome'[r] = o
  BY DEF OInv, OwnInv, TypeOK, Goto, Answer
<1>2. minimum' = minimum /\ FreeLocks(r)
  BY DEF ApplyReceive
<1>3. TypeOK'
  <2>1. pc' \in [Request -> Pc] /\ outcome' \in [Request -> Outcome]
    BY <1>1 DEF TypeOK, Goto, Answer, Pc
  <2> QED
    BY <1>1, <1>2, <2>1, ReceiveWrites, FreeLocksKeeps DEF TypeOK
<1>4. \A q \in Request \ {r} : Idle(q)
  BY <1>1, <1>2 DEF TypeOK, Goto, Answer, Idle
<1>5. orders[r] # A!NoOrder => /\ orders'[r] # A!NoOrder
                               /\ orders'[r].product = orders[r].product
                               /\ orders'[r].quantity = orders[r].quantity
  <2>1. r \in OrderId /\ (orders[r] \in A!Row \/ orders[r] = A!NoOrder)
    BY <1>1 DEF TypeOK, OrderId
  <2> QED
    BY <2>1, ReceiveWrites, RowFields DEF Evolves
<1>6. CreateInv(r)'
  <2>1. Allowed(r) => Allowed(r)'
    BY DEF Allowed
  <2>2. call[r] \in CreateCall /\ Grounded(r) => Grounded(r)'
    BY ReceiveWrites, CallFields DEF Grounded, Evolves
  <2> QED
    BY <1>1, <1>5, <2>1, <2>2, ReceiveWrites DEF CreateInv, Creating
<1>7. TurnInv(r)'
  BY <1>1 DEF TurnInv, Turning, InTransaction, Decided
<1>8. HeldInv(r)'
  BY <1>1 DEF HeldInv
<1> QED
  BY <1>3, <1>4, <1>6, <1>7, <1>8, ReceiveWrites, ActorSuffices DEF OwnInv

LEMMA StepCommit == ASSUME OInv, NEW r \in Request, Commit(r) PROVE OInv'
<1>1. "ok" \in Outcome /\ disturbed' \subseteq Request /\ raced' \subseteq OrderId /\ UNCHANGED answeredBefore
  BY DEF Commit, OInv, TypeOK, Outcome, history
<1> QED
  BY <1>1, ReceiveKeeps DEF Commit

LEMMA StepCommitUnacknowledged ==
    ASSUME OInv, NEW r \in Request, CommitUnacknowledged(r) PROVE OInv'
<1>1. "error" \in Outcome /\ disturbed' \subseteq Request /\ raced' \subseteq OrderId
  BY DEF CommitUnacknowledged, OInv, TypeOK, Outcome
<1> QED
  BY <1>1, ReceiveKeeps DEF CommitUnacknowledged, RefuseInTx

-----------------------------------------------------------------------------
(* Calls that come, and the rest of the system *)

LEMMA StepArrive == ASSUME OInv, NEW r \in Request, Arrive(r) PROVE OInv'
<1>1. PICK c \in Calls :
          /\ call' = [call EXCEPT ![r] = c]
          /\ minimaSeen' = [minimaSeen EXCEPT ![r] =
                 IF c.kind = "create" /\ c.product \in Catalog
                 THEN {minimum[c.product]} ELSE {}]
          /\ \/ ValidCall(c) /\ Goto(r, FirstStatement(c)) /\ UNCHANGED outcome
             \/ ~ValidCall(c) /\ Refuse(r)
  BY DEF Arrive
<1>2. /\ pc[r] = "new" /\ UNCHANGED <<tables, locks, tx, disturbed, raced>>
      /\ answeredBefore' = [answeredBefore EXCEPT ![r] = {q \in Request : pc[q] = "done"}]
  BY DEF Arrive
<1>3. CreateInv(r) /\ TurnInv(r) /\ TypeOK /\ r \in OrderId /\ orders[r] = A!NoOrder
  BY <1>2 DEF OInv, OwnInv, OrderId, CreateInv
<1>4. c \in CreateCall \cup TurnCall \cup RejectCall
  BY OrdersAssumption
<1>5. PICK s \in {"readProduct", "find", "done"} :
          /\ pc' = [pc EXCEPT ![r] = s]
          /\ outcome' = outcome \/ outcome' = [outcome EXCEPT ![r] = "rejected"]
          /\ s = "readProduct" => c.kind = "create" /\ ValidCall(c)
          /\ s = "find" => c.kind # "create"
  BY <1>1 DEF FirstStatement, Goto, Refuse, Answer
<1>6. call'[r] = c /\ pc'[r] = s /\ outcome'[r] # "ok"
  BY <1>2, <1>3, <1>1, <1>5 DEF TypeOK, TurnInv, Outcome
<1>7. TypeOK'
  <2>1. minimaSeen' \in [Request -> SUBSET Minima]
    BY <1>1, <1>3 DEF TypeOK
  <2>2. /\ pc' \in [Request -> Pc] /\ outcome' \in [Request -> Outcome]
        /\ call' \in [Request -> CreateCall \cup TurnCall \cup RejectCall \cup {NoCall}]
    BY <1>1, <1>3, <1>4, <1>5 DEF TypeOK, Pc, Outside, Outcome
  <2>3. answeredBefore' \in [Request -> SUBSET Request]
    BY <1>2, <1>3 DEF TypeOK
  <2> QED
    BY <1>2, <1>3, <2>1, <2>2, <2>3 DEF TypeOK, tables, locks
<1>8. Evolves(r) /\ Catalogued' /\ StockExplained'
  BY <1>2, TablesKept DEF tables, locks
<1>9. \A q \in Request \ {r} : Idle(q)
  BY <1>1, <1>2, <1>3, <1>5 DEF TypeOK, Idle, tables
<1>10. CreateInv(r)'
  <2>1. s = "readProduct" => c \in CreateCall /\ c.quantity > 0
    BY <1>4, <1>5, CallFields DEF ValidCall, ValidCreate
  <2>2. s = "readProduct" /\ c.product \in Catalog => minimum[c.product] \in minimaSeen'[r]
    BY <1>1, <1>3, <1>5 DEF TypeOK
  <2> QED
    BY <1>2, <1>3, <1>6, <2>1, <2>2 DEF CreateInv, Creating, tables
<1>11. TurnInv(r)'
  BY <1>4, <1>5, <1>6, CallFields DEF TurnInv, Turning, InTransaction, Decided
<1>12. HeldInv(r)'
  BY <1>6 DEF HeldInv
<1> QED
  BY <1>7, <1>8, <1>9, <1>10, <1>11, <1>12, ActorSuffices DEF OwnInv

\* The rest of the system leaves alone the rows that receives hold.
LEMMA StepElsewhere == ASSUME OInv, Elsewhere PROVE OInv'
<1> USE DEF history
<1>0. TypeOK /\ Nobody \notin Request /\ MaxInt \in Nat
  BY OrdersAssumption DEF OInv
<1>1. ASSUME NEW p \in Catalog, MovementElsewhere(p) PROVE OInv'
  <2>1. PICK n \in Sold : /\ stock[p] - n >= 0
                          /\ stock' = [stock EXCEPT ![p] = stock[p] - n]
                          /\ net' = [net EXCEPT ![p] = net[p] - n]
    BY <1>0, <1>1 DEF MovementElsewhere, TypeOK
  <2>2. n \in Nat /\ stock[p] \in 0..MaxInt /\ net[p] \in Int /\ OpeningStock \in Int
    BY <1>0, OrdersAssumption DEF TypeOK
  <2>3. stock[p] - n \in 0..MaxInt /\ net[p] - n \in Int
    BY <1>0, <2>1, <2>2
  <2>4. TypeOK'
    BY <1>0, <1>1, <2>1, <2>3 DEF MovementElsewhere, TypeOK, locks
  <2>5. Evolves(Nobody)
    BY <1>0, <1>1, <2>1 DEF MovementElsewhere, ProductRowFree, Evolves, TypeOK, locks
  <2>6. StockExplained'
    <3>1. stock'[p] = OpeningStock + net'[p]
      BY <1>0, <2>1, <2>2 DEF OInv, StockExplained, TypeOK
    <3>2. \A c \in Catalog \ {p} : stock'[c] = stock[c] /\ net'[c] = net[c]
      BY <1>0, <2>1 DEF TypeOK
    <3> QED
      BY <3>1, <3>2 DEF OInv, StockExplained
  <2>7. Catalogued' /\ \A q \in Request : Idle(q)
    BY <1>1 DEF MovementElsewhere, OInv, Catalogued, Idle
  <2> QED
    BY <1>0, <2>4, <2>5, <2>6, <2>7, ActorSuffices
<1>2. ASSUME NEW p \in Catalog, MinimumPatched(p) PROVE OInv'
  <2>1. PICK m \in Minima :
            /\ minimum' = [minimum EXCEPT ![p] = m]
            /\ minimaSeen' = [r \in Request |->
                   IF call[r].kind = "create" /\ call[r].product = p /\ pc[r] # "done"
                   THEN minimaSeen[r] \cup {m} ELSE minimaSeen[r]]
    BY <1>2 DEF MinimumPatched
  <2>2. TypeOK'
    BY <1>0, <1>2, <2>1 DEF MinimumPatched, TypeOK, locks
  <2>3. Evolves(Nobody)
    BY <1>0, <1>2, <2>1 DEF MinimumPatched, ProductRowFree, Evolves, TypeOK, locks
  <2>4. Catalogued' /\ StockExplained'
    BY <1>2 DEF MinimumPatched, OInv, Catalogued, StockExplained
  <2>5. ASSUME NEW q \in Request PROVE Idle(q)
    <3>1. minimaSeen[q] \subseteq minimaSeen'[q]
      BY <2>1
    <3>2. pc[q] = "readProduct" /\ call[q].product \in Catalog
              => \/ minimum'[call[q].product] = minimum[call[q].product]
                 \/ minimum'[call[q].product] \in minimaSeen'[q]
      <4>1. pc[q] = "readProduct" => call[q].kind = "create"
        BY CallFields DEF OInv, OwnInv, CreateInv, Creating
      <4> QED
        BY <1>0, <2>1, <4>1 DEF TypeOK
    <3> QED
      BY <1>2, <3>1, <3>2 DEF MinimumPatched, Idle
  <2> QED
    BY <1>0, <2>2, <2>3, <2>4, <2>5, ActorSuffices
<1>3. ASSUME NEW a \in Alert, AlertTurns(a) PROVE OInv'
  <2>1. TypeOK'
    BY <1>0, <1>3 DEF AlertTurns, TypeOK, AlertStatus, locks
  <2>2. Evolves(Nobody)
    BY <1>0, <1>3 DEF AlertTurns, Evolves, TypeOK, locks
  <2>3. Catalogued' /\ StockExplained' /\ \A q \in Request : Idle(q)
    BY <1>3 DEF AlertTurns, OInv, Catalogued, StockExplained, Idle
  <2> QED
    BY <1>0, <2>1, <2>2, <2>3, ActorSuffices
<1> QED
  BY <1>1, <1>2, <1>3 DEF Elsewhere

LEMMA StepUnchanged == ASSUME OInv, UNCHANGED vars PROVE OInv'
<1> USE DEF vars, tables, locks, history
<1>1. TypeOK' /\ Catalogued' /\ StockExplained'
  BY DEF OInv, TypeOK, Catalogued, StockExplained
<1>2. Evolves(Nobody) /\ \A q \in Request : Idle(q)
  BY DEF Evolves, Idle
<1> QED
  BY <1>1, <1>2, OrdersAssumption, ActorSuffices

-----------------------------------------------------------------------------
(* The invariant *)

LEMMA OInvInit == Init => OInv
<1> SUFFICES ASSUME Init PROVE OInv
  OBVIOUS
<1>1. TypeOK
  <2>1. \A o \in Earlier : EarlierRow[o] \in A!Row
    BY OrdersAssumption DEF A!WellFormed
  <2>2. orders \in [OrderId -> A!Row \cup {A!NoOrder}]
    BY <2>1 DEF Init
  <2>3. NoTx \in Tx
    BY DEF NoTx, Tx
  <2>4. stock \in [Catalog -> 0..MaxInt] /\ net \in [Catalog -> Int]
    BY OrdersAssumption DEF Init
  <2> QED
    BY <2>2, <2>3, <2>4 DEF Init, TypeOK, Pc, Outcome
<1>2. Catalogued
  <2>1. \A o \in Earlier : EarlierRow[o].product \in Catalog
    BY OrdersAssumption
  <2> QED
    BY <2>1 DEF Init, Catalogued
<1>3. StockExplained
  BY OrdersAssumption DEF Init, StockExplained
<1>4. ASSUME NEW r \in Request PROVE OwnInv(r)
  <2>1. /\ pc[r] = "new" /\ call[r] = NoCall /\ outcome[r] = "none"
        /\ orders[r] = A!NoOrder
    BY OrdersAssumption DEF Init, OrderId
  <2> QED
    BY <2>1 DEF OwnInv, CreateInv, Creating, TurnInv, Turning, InTransaction, HeldInv, Decided
<1> QED
  BY <1>1, <1>2, <1>3, <1>4 DEF OInv

LEMMA OInvStep == OInv /\ [Next]_vars => OInv'
<1> SUFFICES ASSUME OInv, [Next]_vars PROVE OInv'
  OBVIOUS
<1>1. ASSUME NEW r \in Request, Serve(r) PROVE OInv'
  BY <1>1, StepReadProduct, StepReadAlert, StepInsertOrder, StepFindOrder, StepUpdateStatus,
     StepCompose, StepReadInTransaction, StepMarkReceived, StepIncrementStock,
     StepCloseAlerts, StepCommit, StepRollback DEF Serve
<1>2. ASSUME NEW r \in Request, Failures(r) PROVE OInv'
  BY <1>2, StepQueryFails, StepStatementFails, StepCommitUnacknowledged, StepCrash DEF Failures
<1>3. ASSUME NEW r \in Request, Arrive(r) PROVE OInv'
  BY <1>3, StepArrive
<1>4. CASE Elsewhere
  BY <1>4, StepElsewhere
<1>5. CASE Settled \/ UNCHANGED vars
  BY <1>5, StepUnchanged DEF Settled
<1> QED
  BY <1>1, <1>2, <1>3, <1>4, <1>5 DEF Next

\* The types, what each statement has checked, and the rows that receives hold.
THEOREM OrdersInvariant == Spec => []OInv
  BY OInvInit, OInvStep, PTL DEF Spec

\* Types, for any number of orders, calls, products and alerts.
THEOREM OrdersTypeCorrect == Spec => []TypeOK
<1>1. OInv => TypeOK
  BY DEF OInv
<1> QED
  BY <1>1, OrdersInvariant, PTL

\* The stock is always what movements and receipts add up to: the row lock of
\* txIncrementStock makes the sum it writes the current one.
THEOREM StockAlwaysExplained == Spec => []StockExplained
<1>1. OInv => StockExplained
  BY DEF OInv
<1> QED
  BY <1>1, OrdersInvariant, PTL

\* BR-2 held for a minimum in force during the call, and the alert named was
\* opened for the product.
THEOREM PolicyAlwaysWasInForce == Spec => []PolicyWasInForce
<1>1. OInv => PolicyWasInForce
  BY DEF OInv, OwnInv, CreateInv, Allowed, Grounded, PolicyWasInForce
<1> QED
  BY <1>1, OrdersInvariant, PTL

-----------------------------------------------------------------------------
(* What a receive resolves *)

\* A receive resolves alerts only of products that its commit leaves above the
\* minimum then in force, though it compared them two statements before.
THEOREM ResolvesOnlyRecovered == Spec => ReceiveResolvesRecovered
<1>1. OInv /\ [Next]_vars =>
          [\A a \in Alert : received' # received /\ alerts'[a] # alerts[a] =>
               stock'[AlertProduct[a]] > minimum'[AlertProduct[a]]]_vars
  <2> SUFFICES ASSUME OInv, [Next]_vars, NEW a \in Alert, received' # received,
                      alerts'[a] # alerts[a]
               PROVE  stock'[AlertProduct[a]] > minimum'[AlertProduct[a]]
    OBVIOUS
  <2>1. PICK r \in Request : pc[r] = "commit" /\ ApplyReceive(r)
    BY DEF Next, Arrive, Serve, Failures, Elsewhere, Settled, ReadProduct, ReadAlert,
           InsertOrder, FindOrder, UpdateStatus, Compose, ReadInTransaction, MarkReceived,
           IncrementStock, CloseAlerts, Commit, Rollback, QueryFails, StatementFails,
           CommitUnacknowledged, Crash, MovementElsewhere, MinimumPatched, AlertTurns,
           vars, tables
  <2>2. a \in tx[r].closed /\ HeldInv(r)
    BY <2>1 DEF ApplyReceive, OInv, OwnInv, TypeOK
  <2>3. /\ AlertProduct[a] = ProductOf(r) /\ tx[r].stockAfter > tx[r].minimum
        /\ tx[r].minimum = minimum[ProductOf(r)]
    BY <2>1, <2>2 DEF HeldInv
  <2>4. AlertProduct[a] \in Catalog
    BY OrdersAssumption
  <2>5. stock'[ProductOf(r)] = tx[r].stockAfter /\ minimum' = minimum
    BY <2>1, <2>3, <2>4 DEF ApplyReceive, OInv, TypeOK
  <2> QED
    BY <2>3, <2>5
<1> QED
  BY <1>1, OrdersInvariant, PTL DEF Spec, ReceiveResolvesRecovered

-----------------------------------------------------------------------------
(* Decisions *)

\* Who had its answer when a call came has it for good, and a decision that came
\* after another one on its order finds it decided.
LaterInv(r) ==
    /\ \A q \in answeredBefore[r] : pc[q] = "done"
    /\ \A q \in answeredBefore[r] :
           Decided(q) /\ call[r].kind \in {"approve", "reject"} /\ OrderOf(q) = OrderOf(r)
               => pc[r] \notin {"update", "compose"} /\ outcome[r] # "ok"

DInv == \A r \in Request : LaterInv(r)

\* What an action of r leaves of the other requests.
Acts(r) ==
    /\ pc[r] # "done"
    /\ \A q \in Request \ {r} :
           /\ pc'[q] = pc[q] /\ call'[q] = call[q] /\ outcome'[q] = outcome[q]
           /\ answeredBefore'[q] = answeredBefore[q]

LEMMA LaterSuffices ==
    ASSUME OInv, DInv, NEW r \in Request, Acts(r), LaterInv(r)' PROVE DInv'
<1> SUFFICES ASSUME NEW s \in Request, s # r PROVE LaterInv(s)'
  BY DEF DInv
<1>1. LaterInv(s) /\ answeredBefore[s] \subseteq Request
  BY DEF DInv, OInv, TypeOK
<1>2. \A q \in answeredBefore[s] : q # r /\ q \in Request
  BY <1>1 DEF Acts, LaterInv
<1>3. \A q \in Request \ {r} : (Decided(q)' <=> Decided(q)) /\ OrderOf(q)' = OrderOf(q)
  BY DEF Acts, Decided, OrderOf
<1>4. \A q \in answeredBefore'[s] : q \in Request \ {r} /\ q \in answeredBefore[s]
  BY <1>2 DEF Acts
<1> QED
  BY <1>1, <1>3, <1>4 DEF LaterInv, Acts

\* An action that neither starts nor ends a decision.
LEMMA LaterKeeps ==
    ASSUME OInv, DInv, NEW r \in Request, Acts(r), call'[r] = call[r],
           answeredBefore'[r] = answeredBefore[r],
           pc'[r] \in {"update", "compose"} => pc[r] \in {"update", "compose"},
           outcome'[r] = "ok" =>
               \/ outcome[r] = "ok" \/ pc[r] = "compose"
               \/ call[r].kind \in {"create", "receive"}
    PROVE  DInv'
<1>1. LaterInv(r) /\ answeredBefore[r] \subseteq Request
  BY DEF DInv, OInv, TypeOK
<1>2. \A q \in answeredBefore[r] : q \in Request \ {r}
  BY <1>1 DEF Acts, LaterInv
<1>3. \A q \in Request \ {r} : (Decided(q)' <=> Decided(q)) /\ OrderOf(q)' = OrderOf(q)
  BY DEF Acts, Decided, OrderOf
<1>4. OrderOf(r)' = OrderOf(r)
  BY DEF OrderOf
<1>5. LaterInv(r)'
  BY <1>1, <1>2, <1>3, <1>4 DEF LaterInv, Acts
<1> QED
  BY <1>5, LaterSuffices

\* All but the statement that reads the status of a decision's order.
LEMMA DInvServe ==
    ASSUME OInv, DInv, NEW r \in Request, Serve(r) \/ Failures(r), ~FindOrder(r) PROVE DInv'
<1> USE DEF Goto, Answer, history
<1>1. TypeOK /\ CreateInv(r) /\ TurnInv(r)
  BY DEF OInv, OwnInv
<1>2. CASE ReadProduct(r) \/ ReadAlert(r)
  BY <1>1, <1>2, LaterKeeps DEF ReadProduct, ReadAlert, Refuse, TypeOK, Acts
<1>3. CASE InsertOrder(r)
  <2>1. call[r].kind = "create"
    BY <1>1, <1>3, CallFields DEF InsertOrder, CreateInv, Creating
  <2> QED
    BY <1>1, <1>3, <2>1, LaterKeeps DEF InsertOrder, TypeOK, Acts
<1>4. CASE UpdateStatus(r) \/ Compose(r)
  BY <1>1, <1>4, LaterKeeps DEF UpdateStatus, Compose, TypeOK, Acts
<1>5. CASE ReadInTransaction(r) \/ MarkReceived(r) \/ IncrementStock(r) \/ CloseAlerts(r)
  BY <1>1, <1>5, LaterKeeps
     DEF ReadInTransaction, PassCheck, MarkReceived, IncrementStock, CloseAlerts, RefuseInTx,
         TypeOK, Acts
<1>6. CASE Commit(r) \/ CommitUnacknowledged(r)
  <2>1. pc[r] = "commit" /\ call[r].kind = "receive"
    BY <1>1, <1>6 DEF Commit, CommitUnacknowledged, TurnInv, InTransaction
  <2> QED
    BY <1>1, <1>6, <2>1, LaterKeeps
       DEF Commit, CommitUnacknowledged, RefuseInTx, TypeOK, Acts
<1>7. CASE Rollback(r) \/ QueryFails(r) \/ StatementFails(r) \/ Crash(r)
  BY <1>1, <1>7, LaterKeeps
     DEF Rollback, QueryFails, StatementFails, Crash, RefuseInTx, Outside, InTransaction,
         TypeOK, Acts
<1> QED
  BY <1>2, <1>3, <1>4, <1>5, <1>6, <1>7 DEF Serve, Failures

\* A decision that comes after another one finds the order decided.
LEMMA DInvFind == ASSUME OInv, DInv, NEW r \in Request, FindOrder(r) PROVE DInv'
<1> USE DEF Goto, Answer, history
<1>1. TypeOK /\ TurnInv(r) /\ LaterInv(r)
  BY DEF OInv, OwnInv, DInv
<1>2. Acts(r) /\ UNCHANGED <<call, answeredBefore, orders>>
  BY <1>1 DEF FindOrder, PassCheck, Refuse, TypeOK, Acts, tables
<1>3. ASSUME NEW q \in answeredBefore[r], Decided(q), OrderOf(q) = OrderOf(r),
             call[r].kind \in {"approve", "reject"}
      PROVE  pc'[r] = "done" /\ outcome'[r] # "ok"
  <2>1. q \in Request /\ TurnInv(q)
    BY <1>1 DEF OInv, OwnInv, TypeOK
  <2>2. orders[OrderOf(r)].status # "PENDIENTE"
    BY <1>3, <2>1 DEF TurnInv
  <2> QED
    BY <1>1, <1>3, <2>2 DEF FindOrder, Refuse, TypeOK
<1>4. \A q \in answeredBefore[r] : q \in Request \ {r}
  BY <1>1, <1>2 DEF LaterInv, Acts, TypeOK
<1>5. \A q \in Request \ {r} : (Decided(q)' <=> Decided(q)) /\ OrderOf(q)' = OrderOf(q)
  BY <1>2 DEF Acts, Decided, OrderOf
<1>6. LaterInv(r)'
  BY <1>1, <1>2, <1>3, <1>4, <1>5 DEF LaterInv, Acts, OrderOf
<1> QED
  BY <1>2, <1>6, LaterSuffices

\* A call that comes is no decision yet, whoever has been answered.
LEMMA DInvArrive == ASSUME OInv, DInv, NEW r \in Request, Arrive(r) PROVE DInv'
<1>1. PICK s \in {"readProduct", "find", "done"} :
          /\ pc' = [pc EXCEPT ![r] = s]
          /\ outcome' = outcome \/ outcome' = [outcome EXCEPT ![r] = "rejected"]
          /\ answeredBefore' = [answeredBefore EXCEPT ![r] = {q \in Request : pc[q] = "done"}]
          /\ pc[r] = "new"
          /\ \E c \in Calls : call' = [call EXCEPT ![r] = c]
  BY DEF Arrive, FirstStatement, Goto, Refuse, Answer
<1>2. TypeOK /\ TurnInv(r)
  BY DEF OInv, OwnInv
<1>3. Acts(r)
  BY <1>1, <1>2 DEF Acts, TypeOK
<1>4. /\ pc'[r] \notin {"update", "compose"} /\ outcome'[r] # "ok"
      /\ answeredBefore'[r] = {q \in Request : pc[q] = "done"}
  BY <1>1, <1>2 DEF TypeOK, TurnInv
<1>5. LaterInv(r)'
  BY <1>1, <1>3, <1>4 DEF LaterInv, Acts
<1> QED
  BY <1>3, <1>5, LaterSuffices

LEMMA DInvStep == OInv /\ DInv /\ [Next]_vars => DInv'
<1> SUFFICES ASSUME OInv, DInv, [Next]_vars PROVE DInv'
  OBVIOUS
<1>1. CASE Elsewhere \/ UNCHANGED vars
  <2>1. UNCHANGED <<pc, call, outcome, answeredBefore>>
    BY <1>1 DEF Elsewhere, MovementElsewhere, MinimumPatched, AlertTurns, vars, history
  <2> QED
    BY <2>1 DEF DInv, LaterInv, Decided, OrderOf
<1>2. ASSUME NEW r \in Request, Serve(r) \/ Failures(r) \/ Arrive(r) PROVE DInv'
  BY <1>2, DInvServe, DInvFind, DInvArrive
<1> QED
  BY <1>1, <1>2 DEF Next, Settled

\* A client that has the answer to its decision is never contradicted by a call
\* that comes later, whatever else runs in parallel.
THEOREM DecisionsStand == Spec => []SequentialDecisionsExclusive
<1>1. Init => DInv
  BY DEF Init, DInv, LaterInv
<1>2. OInv /\ DInv => SequentialDecisionsExclusive
  <2> SUFFICES ASSUME OInv, DInv, NEW q \in Request, NEW r \in Request, Decided(q),
                      Decided(r), OrderOf(q) = OrderOf(r), q \in answeredBefore[r]
               PROVE  FALSE
    BY DEF SequentialDecisionsExclusive
  <2> QED
    BY DEF DInv, LaterInv, Decided
<1> QED
  BY <1>1, <1>2, DInvStep, OrdersInvariant, PTL DEF Spec

-----------------------------------------------------------------------------
(* Orders on which no two calls have stood between check and write at once *)

\* A call between the read of a status and the write that relies on it finds the
\* status unchanged.
StatusStands(r) ==
    /\ pc[r] = "update" => orders[OrderOf(r)].status = "PENDIENTE"
    /\ pc[r] \in {"mark", "gate", "close", "commit"} =>
           orders[OrderOf(r)].status = "APROBADA"

\* Such an order follows the aggregate: one call at most relies on its status,
\* which still is what that call has read, and it was received once if at all.
Orderly(o) ==
    /\ agreed[o] = orders[o]
    /\ orders[o] = A!NoOrder \/ A!WellFormed(orders[o])
    /\ \A q, r \in Deciding(o) : q = r
    /\ \A r \in Deciding(o) : StatusStands(r)
    /\ \A r \in received : OrderOf(r) = o => orders[o].status = "RECIBIDA"
    /\ \A q, r \in received : OrderOf(q) = o /\ OrderOf(r) = o => q = r

\* The inductive invariant of the unraced orders.
SInv ==
    /\ \A r \in received : pc[r] \in {"rollback", "done", "lost"} /\ OrderOf(r) \in OrderId
    /\ \A o \in OrderId \ raced : Orderly(o)

\* What one writer does to the rows: the fields of a row before and after.
LEMMA RowChanged ==
    ASSUME NEW row \in A!Row, A!WellFormed(row)
    PROVE  /\ row.status = "PENDIENTE" =>
                  /\ A!WellFormed([row EXCEPT !.status = "APROBADA"])
                  /\ A!WellFormed([row EXCEPT !.status = "RECHAZADA", !.reason = TRUE])
           /\ row.status = "APROBADA" =>
                  /\ A!WellFormed([row EXCEPT !.status = "RECIBIDA", !.receivedAt = TRUE])
                  /\ [row EXCEPT !.status = "RECIBIDA", !.receivedAt = TRUE].status = "RECIBIDA"
<1>1. row.status \in A!Status /\ row.quantity >= 1
  BY DEF A!Row, A!WellFormed
<1> DEFINE approved == [row EXCEPT !.status = "APROBADA"]
           refused == [row EXCEPT !.status = "RECHAZADA", !.reason = TRUE]
           arrived == [row EXCEPT !.status = "RECIBIDA", !.receivedAt = TRUE]
<1>2. /\ approved \in A!Row /\ approved.quantity = row.quantity
      /\ approved.status = "APROBADA" /\ approved.reason = row.reason
      /\ approved.receivedAt = row.receivedAt
  BY DEF A!Row, A!Status
<1>3. /\ refused \in A!Row /\ refused.quantity = row.quantity
      /\ refused.status = "RECHAZADA" /\ refused.reason
      /\ refused.receivedAt = row.receivedAt
  BY DEF A!Row, A!Status
<1>4. /\ arrived \in A!Row /\ arrived.quantity = row.quantity
      /\ arrived.status = "RECIBIDA" /\ arrived.reason = row.reason
      /\ arrived.receivedAt
  BY DEF A!Row, A!Status
<1> HIDE DEF approved, refused, arrived
<1>5. (row.reason <=> row.status = "RECHAZADA") /\ (row.receivedAt <=> row.status = "RECIBIDA")
  BY DEF A!WellFormed
<1>6. row.status = "PENDIENTE" => A!WellFormed(approved) /\ A!WellFormed(refused)
  BY <1>1, <1>2, <1>3, <1>5 DEF A!WellFormed
<1>7. row.status = "APROBADA" => A!WellFormed(arrived)
  BY <1>1, <1>4, <1>5 DEF A!WellFormed
<1> QED
  BY <1>4, <1>6, <1>7 DEF approved, refused, arrived

\* A step that writes neither rows nor receipts and passes no check.
LEMMA OrderlyKeeps ==
    ASSUME OInv, SInv, NEW r \in Request, NEW s, Goto(r, s),
           UNCHANGED <<orders, agreed, received, raced, call>>,
           s \in {"update", "mark", "gate", "close", "commit"} =>
               s # "update" /\ pc[r] \in {"mark", "gate", "close", "commit"},
           pc[r] \in {"rollback", "done", "lost"} => s \in {"rollback", "done", "lost"}
    PROVE  SInv'
<1>1. pc'[r] = s /\ \A q \in Request \ {r} : pc'[q] = pc[q]
  BY DEF OInv, TypeOK, Goto
<1>2. \A q : OrderOf(q)' = OrderOf(q)
  BY DEF OrderOf
<1>3. \A o : Deciding(o)' \subseteq Deciding(o)
  BY <1>1, <1>2 DEF Deciding
<1>4. ASSUME NEW o, NEW q \in Deciding(o)', StatusStands(q) PROVE StatusStands(q)'
  BY <1>1, <1>2, <1>4 DEF StatusStands, Deciding
<1>5. ASSUME NEW o \in OrderId \ raced' PROVE Orderly(o)'
  <2>1. Orderly(o)
    BY <1>5 DEF SInv
  <2>2. \A q \in Deciding(o)' : StatusStands(q)'
    BY <1>3, <1>4, <2>1 DEF Orderly
  <2> QED
    BY <1>2, <1>3, <2>1, <2>2 DEF Orderly
<1>6. \A q \in received' : pc'[q] \in {"rollback", "done", "lost"} /\ OrderOf(q)' \in OrderId
  BY <1>1, <1>2 DEF SInv, OInv, TypeOK
<1> QED
  BY <1>5, <1>6 DEF SInv

\* A call passes its check: it is alone between check and write, or the order
\* is raced from now on.
LEMMA OrderlyCheck ==
    ASSUME OInv, SInv, NEW r \in Request, NEW s, PassCheck(r, s),
           UNCHANGED <<orders, agreed, received, call>>,
           \/ /\ pc[r] = "find" /\ s = "update"
              /\ orders[OrderOf(r)].status = "PENDIENTE"
           \/ /\ pc[r] = "readInTx" /\ s = "mark"
              /\ orders[OrderOf(r)].status = "APROBADA"
    PROVE  SInv'
<1>1. pc'[r] = s /\ \A q \in Request \ {r} : pc'[q] = pc[q]
  BY DEF OInv, TypeOK, PassCheck, Goto
<1>2. \A q : OrderOf(q)' = OrderOf(q)
  BY DEF OrderOf
<1>3. raced' = IF Deciding(OrderOf(r)) = {} THEN raced ELSE raced \cup {OrderOf(r)}
  BY DEF PassCheck
<1>4. r \notin received /\ received \subseteq Request
  BY DEF SInv, OInv, TypeOK
<1>5. ASSUME NEW o \in OrderId \ raced' PROVE Orderly(o)'
  <2>1. Orderly(o)
    BY <1>3, <1>5 DEF SInv
  <2>2. CASE o = OrderOf(r)
    <3>1. Deciding(o) = {}
      BY <1>3, <1>5, <2>2
    <3>2. \A q \in Deciding(o)' : q = r
      BY <1>1, <1>2, <3>1 DEF Deciding
    <3>3. StatusStands(r)'
      BY <1>1, <1>2 DEF StatusStands
    <3> QED
      BY <1>2, <2>1, <3>2, <3>3 DEF Orderly
  <2>3. CASE o # OrderOf(r)
    <3>1. \A q \in Deciding(o)' : q # r /\ q \in Deciding(o)
      BY <1>1, <1>2, <2>3 DEF Deciding
    <3>2. \A q \in Deciding(o)' : StatusStands(q)'
      BY <1>1, <1>2, <2>1, <3>1 DEF Orderly, StatusStands, Deciding
    <3> QED
      BY <1>2, <2>1, <3>1, <3>2 DEF Orderly
  <2> QED
    BY <2>2, <2>3
<1>6. \A q \in received' : pc'[q] \in {"rollback", "done", "lost"} /\ OrderOf(q)' \in OrderId
  BY <1>1, <1>2, <1>4 DEF SInv
<1> QED
  BY <1>5, <1>6 DEF SInv

\* A call writes one row, on which no other call relies unless the order is raced.
LEMMA OrderlyWrites ==
    ASSUME OInv, SInv, NEW r \in Request, pc[r] \in {"insert", "update", "commit"},
           NEW s \in {"compose", "done", "rollback"}, Goto(r, s), UNCHANGED <<call, raced>>,
           received' \in {received, received \cup {r}},
           NEW o \in OrderId, NEW row, orders' = [orders EXCEPT ![o] = row], AgreeOn(o),
           r \in received' => s # "compose" /\ OrderOf(r) = o /\ row.status = "RECIBIDA",
           o \notin raced => /\ A!WellFormed(row) /\ Deciding(o) \subseteq {r}
                             /\ orders[o].status # "RECIBIDA"
    PROVE  SInv'
<1>1. pc'[r] = s /\ \A q \in Request \ {r} : pc'[q] = pc[q]
  BY DEF OInv, TypeOK, Goto
<1>2. \A q : OrderOf(q)' = OrderOf(q)
  BY DEF OrderOf
<1>3. orders'[o] = row /\ \A p \in OrderId \ {o} : orders'[p] = orders[p]
  BY DEF OInv, TypeOK
<1>4. /\ o \notin raced => agreed'[o] = row
      /\ \A p \in OrderId \ {o} : agreed'[p] = agreed[p]
  BY <1>3 DEF OInv, TypeOK, AgreeOn
<1>5. r \notin received /\ received \subseteq Request
  BY DEF SInv, OInv, TypeOK
<1>6. \A p : r \notin Deciding(p)' /\ Deciding(p)' \subseteq Deciding(p)
  BY <1>1, <1>2 DEF Deciding
<1>7. ASSUME NEW p \in OrderId \ raced', p # o PROVE Orderly(p)'
  <2>1. Orderly(p)
    BY <1>7 DEF SInv
  <2>2. \A q \in received' : OrderOf(q) = p => q \in received
    BY <1>7
  <2>3. \A q \in Deciding(p)' : StatusStands(q)'
    BY <1>1, <1>2, <1>3, <1>6, <1>7, <2>1 DEF Orderly, StatusStands, Deciding
  <2> QED
    BY <1>2, <1>3, <1>4, <1>6, <1>7, <2>1, <2>2, <2>3 DEF Orderly
<1>8. ASSUME o \notin raced PROVE Orderly(o)'
  <2>1. Orderly(o)
    BY <1>8 DEF SInv
  <2>2. Deciding(o)' = {}
    BY <1>6, <1>8
  <2>3. \A q \in received' : OrderOf(q) = o => q = r
    BY <1>8, <2>1 DEF Orderly
  <2> QED
    BY <1>2, <1>3, <1>4, <1>8, <2>2, <2>3 DEF Orderly
<1>9. \A q \in received' : pc'[q] \in {"rollback", "done", "lost"} /\ OrderOf(q)' \in OrderId
  BY <1>1, <1>2, <1>5 DEF SInv
<1> QED
  BY <1>7, <1>8, <1>9 DEF SInv

\* A write that the aggregate does not see, and one that it does.
LEMMA ShadowStep ==
    ASSUME OInv, SInv, NEW o \in OrderId, NEW row, orders' = [orders EXCEPT ![o] = row],
           AgreeOn(o)
    PROVE  IF o \in raced THEN agreed' = agreed
                          ELSE agreed[o] = orders[o] /\ agreed' = [agreed EXCEPT ![o] = row]
<1>1. orders'[o] = row /\ agreed \in [OrderId -> A!Row \cup {A!NoOrder}]
  BY DEF OInv, TypeOK
<1> QED
  BY <1>1 DEF AgreeOn, SInv, Orderly

\* The row of a turn that writes.
LEMMA TurnsRow ==
    ASSUME OInv, SInv, NEW r \in Request, pc[r] \in {"update", "commit"}
    PROVE  /\ OrderOf(r) \in OrderId /\ orders[OrderOf(r)] \in A!Row
           /\ OrderOf(r) \notin raced =>
                  /\ A!WellFormed(orders[OrderOf(r)]) /\ StatusStands(r)
                  /\ Deciding(OrderOf(r)) \subseteq {r}
<1>1. TurnInv(r)
  BY DEF OInv, OwnInv
<1>2. OrderOf(r) \in OrderId /\ orders[OrderOf(r)] \in A!Row
  BY <1>1, CallFields DEF TurnInv, Turning, InTransaction, OrderOf
<1>3. r \in Deciding(OrderOf(r))
  BY DEF Deciding
<1> QED
  BY <1>2, <1>3, RowFields DEF SInv, Orderly

LEMMA InsertOrderly ==
    ASSUME OInv, SInv, NEW r \in Request, InsertOrder(r) PROVE SInv' /\ [U!OrderNext]_agreed
<1> DEFINE row == NewOrder(call[r])
<1>1. CreateInv(r) /\ TypeOK /\ r \in OrderId
  BY DEF OInv, OwnInv, OrderId
<1>2. /\ pc[r] = "insert" /\ call[r] \in CreateCall /\ call[r].quantity > 0
      /\ orders[r] = A!NoOrder
  BY <1>1 DEF InsertOrder, CreateInv, Creating
<1>3. /\ orders' = [orders EXCEPT ![r] = row] /\ AgreeOn(r) /\ Goto(r, "done")
      /\ UNCHANGED <<call, raced, received>>
  BY DEF InsertOrder, history
<1>4. A!WellFormed(row) /\ row.status = "PENDIENTE"
  <2>1. row \in A!Row /\ row.quantity >= 1 /\ row.status = "PENDIENTE"
    BY <1>2, NewRowType, CallFields
  <2>2. row.reason = FALSE /\ row.receivedAt = FALSE
    BY DEF NewOrder
  <2> QED
    BY <2>1, <2>2 DEF A!WellFormed
<1> HIDE DEF row
<1>5. Deciding(r) = {} /\ orders[r].status # "RECIBIDA"
  <2>1. ASSUME NEW q \in Deciding(r) PROVE FALSE
    <3>1. q \in Request /\ OrderOf(q) = r /\ pc[q] \in Turning \ {"find"}
      BY <2>1 DEF Deciding, Turning, InTransaction
    <3>2. orders[r] \in A!Row
      BY <3>1 DEF OInv, OwnInv, TurnInv
    <3> QED
      BY <1>2, <3>2, RowFields
  <2> QED
    BY <1>2, <2>1, RowFields
<1>6. r \notin received'
  BY <1>2, <1>3 DEF SInv
<1>7. SInv'
  BY <1>1, <1>2, <1>3, <1>4, <1>5, <1>6, OrderlyWrites
<1>8. r \notin raced => U!Create(r)
  <2> SUFFICES ASSUME r \notin raced PROVE U!Create(r)
    OBVIOUS
  <2>1. agreed[r] = A!NoOrder /\ agreed' = [agreed EXCEPT ![r] = row]
    BY <1>1, <1>2, <1>3, ShadowStep
  <2>2. agreed'[r] = row
    BY <1>1, <2>1 DEF TypeOK
  <2> QED
    BY <1>4, <2>1, <2>2 DEF U!Create, U!NoOrder, U!WellFormed, U!Row, U!Status, A!NoOrder,
                            A!WellFormed, A!Row, A!Status
<1> QED
  BY <1>1, <1>3, <1>7, <1>8, ShadowStep DEF U!OrderNext

LEMMA UpdateOrderly ==
    ASSUME OInv, SInv, NEW r \in Request, UpdateStatus(r) PROVE SInv' /\ [U!OrderNext]_agreed
<1> DEFINE o == OrderOf(r)
<1>1. /\ pc[r] = "update" /\ Goto(r, "compose") /\ AgreeOn(o)
      /\ UNCHANGED <<call, raced, received>>
  BY DEF UpdateStatus, history
<1>2. /\ o \in OrderId /\ orders[o] \in A!Row
      /\ o \notin raced => /\ A!WellFormed(orders[o]) /\ orders[o].status = "PENDIENTE"
                           /\ Deciding(o) \subseteq {r}
  BY <1>1, TurnsRow DEF StatusStands
<1>3. PICK row \in {[orders[o] EXCEPT !.status = "APROBADA"],
                    [orders[o] EXCEPT !.status = "RECHAZADA", !.reason = TRUE]} :
          orders' = [orders EXCEPT ![o] = row]
  <2>1. orders' = [orders EXCEPT ![o] =
           IF call[r].kind = "approve"
           THEN [orders[o] EXCEPT !.status = "APROBADA"]
           ELSE [orders[o] EXCEPT !.status = "RECHAZADA", !.reason = TRUE]]
    BY <1>2 DEF UpdateStatus, OInv, TypeOK
  <2> QED
    BY <2>1
<1>4. o \notin raced => A!WellFormed(row)
  BY <1>2, RowChanged
<1>5. r \notin received'
  BY <1>1 DEF SInv
<1>6. SInv'
  BY <1>1, <1>2, <1>3, <1>4, <1>5, OrderlyWrites
<1>7. o \notin raced => U!Approve(o) \/ U!Reject(o)
  <2> SUFFICES ASSUME o \notin raced PROVE U!Approve(o) \/ U!Reject(o)
    OBVIOUS
  <2>1. agreed[o] = orders[o] /\ agreed' = [agreed EXCEPT ![o] = row]
    BY <1>1, <1>2, <1>3, ShadowStep
  <2> QED
    BY <1>2, <2>1 DEF U!Approve, U!Reject, OInv, TypeOK
<1> QED
  BY <1>1, <1>2, <1>3, <1>6, <1>7, ShadowStep DEF U!OrderNext

LEMMA ReceiveOrderly ==
    ASSUME OInv, SInv, NEW r \in Request, Commit(r) \/ CommitUnacknowledged(r)
    PROVE  SInv' /\ [U!OrderNext]_agreed
<1> DEFINE o == OrderOf(r)
           row == [orders[o] EXCEPT !.status = "RECIBIDA", !.receivedAt = TRUE]
<1>1. /\ pc[r] = "commit" /\ ApplyReceive(r) /\ UNCHANGED <<call, raced>>
  BY DEF Commit, CommitUnacknowledged, history
<1>2. /\ o \in OrderId /\ orders[o] \in A!Row
      /\ o \notin raced => /\ A!WellFormed(orders[o]) /\ orders[o].status = "APROBADA"
                           /\ Deciding(o) \subseteq {r}
  BY <1>1, TurnsRow DEF StatusStands
<1>3. /\ orders' = [orders EXCEPT ![o] = row] /\ AgreeOn(o)
      /\ received' = received \cup {r}
  BY <1>1, <1>2 DEF ApplyReceive, OInv, TypeOK
<1>4. (o \notin raced => A!WellFormed(row)) /\ row.status = "RECIBIDA"
  <2>1. row.status = "RECIBIDA"
    BY <1>2 DEF A!Row
  <2> QED
    BY <1>2, <2>1, RowChanged
<1>5. PICK s \in {"done", "rollback"} : Goto(r, s)
  BY DEF Commit, CommitUnacknowledged, RefuseInTx
<1>6. o \notin raced => U!Receive(o)
  <2> SUFFICES ASSUME o \notin raced PROVE U!Receive(o)
    OBVIOUS
  <2>1. agreed[o] = orders[o] /\ agreed' = [agreed EXCEPT ![o] = row]
    BY <1>2, <1>3, ShadowStep
  <2> QED
    BY <1>2, <2>1 DEF U!Receive, OInv, TypeOK
<1> HIDE DEF row
<1>7. SInv'
  BY <1>1, <1>2, <1>3, <1>4, <1>5, OrderlyWrites
<1> QED
  BY <1>2, <1>3, <1>6, <1>7, ShadowStep DEF U!OrderNext

\* A call that comes relies on no status, and none has been received for it.
LEMMA ArriveOrderly ==
    ASSUME OInv, SInv, NEW r \in Request, Arrive(r) PROVE SInv' /\ UNCHANGED agreed
<1>1. PICK s \in {"readProduct", "find", "done"} :
          /\ pc' = [pc EXCEPT ![r] = s] /\ pc[r] = "new"
          /\ \E c \in Calls : call' = [call EXCEPT ![r] = c]
  BY DEF Arrive, FirstStatement, Goto, Refuse
<1>2. UNCHANGED <<orders, agreed, received, raced>>
  BY DEF Arrive, tables
<1>3. /\ pc'[r] = s
      /\ \A q \in Request \ {r} : pc'[q] = pc[q] /\ OrderOf(q)' = OrderOf(q)
  BY <1>1 DEF OInv, TypeOK, OrderOf
<1>4. received \subseteq Request /\ r \notin received
  BY <1>1 DEF SInv, OInv, TypeOK
<1>5. \A o : \A q \in Deciding(o)' : q # r /\ q \in Deciding(o)
  BY <1>3 DEF Deciding
<1>6. ASSUME NEW o \in OrderId \ raced' PROVE Orderly(o)'
  <2>1. Orderly(o)
    BY <1>2, <1>6 DEF SInv
  <2>2. \A q \in Deciding(o)' : StatusStands(q)'
    BY <1>2, <1>3, <1>5, <2>1 DEF Orderly, StatusStands, Deciding
  <2>3. \A q \in received' : q # r /\ q \in received /\ OrderOf(q)' = OrderOf(q)
    BY <1>2, <1>3, <1>4
  <2> QED
    BY <1>2, <1>5, <2>1, <2>2, <2>3 DEF Orderly
<1>7. \A q \in received' : pc'[q] \in {"rollback", "done", "lost"} /\ OrderOf(q)' \in OrderId
  BY <1>2, <1>3, <1>4 DEF SInv
<1> QED
  BY <1>2, <1>6, <1>7 DEF SInv

\* All statements that write no row.
LEMMA ReadsOrderly ==
    ASSUME OInv, SInv, NEW r \in Request,
           \/ ReadProduct(r) \/ ReadAlert(r) \/ FindOrder(r) \/ Compose(r)
           \/ ReadInTransaction(r) \/ MarkReceived(r) \/ IncrementStock(r) \/ CloseAlerts(r)
           \/ Rollback(r) \/ QueryFails(r) \/ StatementFails(r) \/ Crash(r)
    PROVE  SInv' /\ UNCHANGED agreed
<1> USE DEF tables, history, Refuse, RefuseInTx
<1>1. CASE ReadProduct(r) \/ ReadAlert(r)
  BY <1>1, OrderlyKeeps DEF ReadProduct, ReadAlert
<1>2. CASE FindOrder(r)
  <2>1. CASE PassCheck(r, "update") /\ orders[OrderOf(r)].status = "PENDIENTE"
    BY <1>2, <2>1, OrderlyCheck DEF FindOrder
  <2>2. CASE UNCHANGED raced /\ (Goto(r, "done") \/ Goto(r, "readInTx"))
    BY <1>2, <2>2, OrderlyKeeps DEF FindOrder
  <2> QED
    BY <1>2, <2>1, <2>2 DEF FindOrder
<1>3. CASE ReadInTransaction(r)
  <2>1. CASE PassCheck(r, "mark") /\ orders[OrderOf(r)].status = "APROBADA"
    BY <1>3, <2>1, OrderlyCheck DEF ReadInTransaction
  <2>2. CASE UNCHANGED raced /\ Goto(r, "rollback")
    BY <1>3, <2>2, OrderlyKeeps DEF ReadInTransaction
  <2> QED
    BY <1>3, <2>1, <2>2 DEF ReadInTransaction
<1>4. CASE MarkReceived(r) \/ IncrementStock(r) \/ CloseAlerts(r)
  BY <1>4, OrderlyKeeps DEF MarkReceived, IncrementStock, CloseAlerts
<1>5. CASE Compose(r) \/ Rollback(r)
  BY <1>5, OrderlyKeeps DEF Compose, Rollback
<1>6. CASE QueryFails(r) \/ StatementFails(r)
  BY <1>6, OrderlyKeeps DEF QueryFails, StatementFails, Outside, InTransaction
<1>7. CASE Crash(r)
  BY <1>7, OrderlyKeeps DEF Crash
<1> QED
  BY <1>1, <1>2, <1>3, <1>4, <1>5, <1>6, <1>7

LEMMA OrderlyStep == OInv /\ SInv /\ [Next]_vars => SInv' /\ [U!OrderNext]_agreed
<1> SUFFICES ASSUME OInv, SInv, [Next]_vars PROVE SInv' /\ [U!OrderNext]_agreed
  OBVIOUS
<1>1. ASSUME NEW r \in Request, Arrive(r) \/ Serve(r) \/ Failures(r)
      PROVE  SInv' /\ [U!OrderNext]_agreed
  BY <1>1, InsertOrderly, UpdateOrderly, ReceiveOrderly, ArriveOrderly, ReadsOrderly
     DEF Serve, Failures
<1>2. CASE Elsewhere \/ UNCHANGED vars
  <2>1. UNCHANGED <<orders, agreed, received, raced, pc, call>>
    BY <1>2 DEF Elsewhere, MovementElsewhere, MinimumPatched, AlertTurns, vars, tables, history
  <2>2. \A o : Orderly(o)' <=> Orderly(o)
    BY <2>1 DEF Orderly, Deciding, StatusStands, OrderOf
  <2> QED
    BY <2>1, <2>2 DEF SInv, OrderOf
<1> QED
  BY <1>1, <1>2 DEF Next, Settled

LEMMA OrderlyInit == Init => SInv /\ U!OrderInit
<1> SUFFICES ASSUME Init PROVE SInv /\ U!OrderInit
  OBVIOUS
<1>1. \A o \in OrderId : orders[o] = A!NoOrder \/ A!WellFormed(orders[o])
  BY OrdersAssumption DEF Init
<1>2. agreed = orders /\ received = {} /\ \A o : Deciding(o) = {}
  BY DEF Init, Deciding
<1>3. SInv
  BY <1>1, <1>2 DEF SInv, Orderly
<1>4. \A o \in OrderId : agreed[o] = U!NoOrder \/ U!WellFormed(agreed[o])
  BY <1>1, <1>2 DEF U!NoOrder, U!WellFormed, U!Row, U!Status, A!NoOrder, A!WellFormed,
                    A!Row, A!Status
<1> QED
  BY <1>3, <1>4 DEF U!OrderInit

\* An order is received into stock once, however often the call is repeated
\* after a 500, a lost answer or a crash, and whatever else runs in parallel:
\* only calls between check and write at once (receive-order.ts:69) get past it.
THEOREM OneReceipt == Spec => []ReceivedOnce
<1>1. OInv /\ SInv => ReceivedOnce
  <2> SUFFICES ASSUME OInv, SInv, NEW q \in received, NEW r \in received,
                      OrderOf(q) = OrderOf(r), OrderOf(r) \notin raced
               PROVE  q = r
    BY DEF ReceivedOnce
  <2> QED
    BY DEF SInv, Orderly
<1> QED
  BY <1>1, OrderlyStep, OrderlyInit, OrdersInvariant, PTL DEF Spec

\* A row breaks what the aggregate's constructor asserts (a reason iff RECHAZADA,
\* received_at iff RECIBIDA) only after two calls on it stood between check and
\* write at once: no retry, lost answer, crash or other overlap is enough.
THEOREM OnlyRacesBreakRows ==
    Spec => [](\A o \in OrderId : \/ o \in raced \/ orders[o] = A!NoOrder
                                  \/ A!WellFormed(orders[o]))
<1>1. OInv /\ SInv => \A o \in OrderId : \/ o \in raced \/ orders[o] = A!NoOrder
                                         \/ A!WellFormed(orders[o])
  BY DEF SInv, Orderly
<1> QED
  BY <1>1, OrderlyStep, OrderlyInit, OrdersInvariant, PTL DEF Spec

\* The statements of calls in parallel implement the state machine of the
\* aggregate for every order, up to the first race on it.
THEOREM AggregateImplemented == Spec => RefinesAggregate
  BY OrderlyStep, OrderlyInit, OrdersInvariant, PTL DEF Spec, RefinesAggregate, U!OrderSpec

=============================================================================
