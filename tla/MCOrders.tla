------------------------------- MODULE MCOrders -------------------------------
(***************************************************************************)
(* Small instances of Orders: one product in the catalog, with an alert,   *)
(* and one that is missing; two orders that exist already, one to decide   *)
(* and one to receive; up to three calls.                                  *)
(***************************************************************************)
EXTENDS Orders

CONSTANTS p1, p2, o1, o2, a1, r1, r2, r3

Approve1(o) == [kind |-> "approve", order |-> o]
Reject1(o) == [kind |-> "reject", order |-> o, reasonFits |-> TRUE]
Receive1(o) == [kind |-> "receive", order |-> o]
Create1(p, q, a) == [kind |-> "create", product |-> p, quantity |-> q, fromAlert |-> a]

MCRow(status, quantity) ==
    [product |-> p1, quantity |-> quantity, status |-> status, reason |-> FALSE,
     receivedAt |-> FALSE]
MCEarlierRow ==
    [o \in Earlier |-> IF o = o1 THEN MCRow("PENDIENTE", 2) ELSE MCRow("APROBADA", 2)]
MCAlertProduct == [a \in Alert |-> p1]

\* Decisions on one order, one with a reason too short, and the life of an
\* order that the first call creates.
Decisions ==
    {Approve1(o1), Reject1(o1), [Reject1(o1) EXCEPT !.reasonFits = FALSE],
     Receive1(o1), Receive1(o2), Create1(p1, 2, NoAlert), Approve1(r1), Reject1(r1)}

\* Decisions and receipts of two orders of one product, and of one that a call
\* creates; a quantity that no int4 holds.
Receipts ==
    {Receive1(o1), Receive1(o2), Approve1(o1), Reject1(o1), Create1(p1, 2, NoAlert),
     Approve1(r1), Create1(p1, 9, NoAlert)}

\* With orders at the policy's bound and below it, of a missing product, from
\* an alert, of a quantity that is refused and of one that no int4 holds.
Everything ==
    (Decisions \ {Receive1(o1), Create1(p1, 2, NoAlert)}) \cup
    {Create1(p1, q, NoAlert) : q \in {0, 3, 9}} \cup {Create1(p1, 4, a1), Create1(p2, 4, NoAlert)}

=============================================================================
