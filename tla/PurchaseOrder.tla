---------------------------- MODULE PurchaseOrder ----------------------------
(***************************************************************************)
(* The life of a purchase order as its aggregate defines it (BR-5):        *)
(*                                                                         *)
(*   PENDIENTE -> APROBADA -> RECIBIDA      PENDIENTE -> RECHAZADA         *)
(*                                                                         *)
(* The use cases never call the aggregate's approve(), reject() and        *)
(* receive(); Orders shows when the SQL they send instead implements them. *)
(***************************************************************************)
EXTENDS Naturals

CONSTANTS
    OrderId,    \* ids of orders
    Product     \* ids of products

VARIABLE orders \* the row of each order, NoOrder before it is created

-----------------------------------------------------------------------------

Status == {"PENDIENTE", "APROBADA", "RECHAZADA", "RECIBIDA"}

\* reason and receivedAt: whether the column is set.
Row == [product: Product, quantity: Nat, status: Status, reason: BOOLEAN, receivedAt: BOOLEAN]

NoOrder == [status |-> "none"]

\* assertInvariants of the aggregate.
WellFormed(row) ==
    /\ row \in Row
    /\ row.quantity >= 1
    /\ row.reason <=> row.status = "RECHAZADA"
    /\ row.receivedAt <=> row.status = "RECIBIDA"

-----------------------------------------------------------------------------

OrderInit == \A o \in OrderId : orders[o] = NoOrder \/ WellFormed(orders[o])

Create(o) ==
    /\ orders[o] = NoOrder
    /\ WellFormed(orders'[o]) /\ orders'[o].status = "PENDIENTE"
    /\ orders' = [orders EXCEPT ![o] = orders'[o]]

Approve(o) ==
    /\ orders[o].status = "PENDIENTE"
    /\ orders' = [orders EXCEPT ![o].status = "APROBADA"]

Reject(o) ==
    /\ orders[o].status = "PENDIENTE"
    /\ orders' = [orders EXCEPT ![o].status = "RECHAZADA", ![o].reason = TRUE]

Receive(o) ==
    /\ orders[o].status = "APROBADA"
    /\ orders' = [orders EXCEPT ![o].status = "RECIBIDA", ![o].receivedAt = TRUE]

OrderNext == \E o \in OrderId : Create(o) \/ Approve(o) \/ Reject(o) \/ Receive(o)

OrderSpec == OrderInit /\ [][OrderNext]_orders

\* Every order keeps the invariants that the aggregate's constructor asserts.
RowsWellFormed == \A o \in OrderId : orders[o] = NoOrder \/ WellFormed(orders[o])

=============================================================================
