----------------------------- MODULE MCInventory -----------------------------
(***************************************************************************)
(* Small instances of Inventory.  Three calls over two products: one the   *)
(* seed created, one that a call may create.  The stocks reach zero, the   *)
(* minimum and MaxInt; the pool is smaller than the number of calls.       *)
(* Each behaviour keeps to one family of calls: those of the seeded        *)
(* product, or those of the one that is created.                           *)
(***************************************************************************)
EXTENDS Inventory

CONSTANTS p1, p2, r1, r2, r3

VARIABLE family     \* the calls of this behaviour

MCMaxInt == 4

Movement1(p, t, q) == [kind |-> "movement", product |-> p, type |-> t, quantity |-> q]
Create1(p, s, m) == [kind |-> "create", product |-> p, stock |-> s, stockMin |-> m]
Patch1(p, m) == [kind |-> "patch", product |-> p, stockMin |-> m]

MCSeedStock == [p \in {p1} |-> 3]
MCSeedMin == [p \in {p1} |-> 1]

\* Movements that reach a refused SALIDA, the minimum, a recovery and an
\* overflow; a refused quantity 0; a minimum raised to the seeded stock.
MovementsAndPatches ==
    {Movement1(p1, "ENTRADA", 2), Movement1(p1, "SALIDA", 2), Movement1(p1, "SALIDA", 3),
     Movement1(p1, "SALIDA", 0), Patch1(p1, 3)}

\* Two calls may create the same product, low on stock or not, or with a stock
\* that no int4 holds, while a third one moves it or patches its minimum.
CreatesAndMovements ==
    {Create1(p2, 1, 2), Create1(p2, 3, 2), Create1(p2, 5, 1),
     Movement1(p2, "SALIDA", 1), Movement1(p2, "ENTRADA", 2), Patch1(p2, 3), Patch1(p2, 5)}

MCCalls == MovementsAndPatches \cup CreatesAndMovements

MCInit == Init /\ family \in {MovementsAndPatches, CreatesAndMovements}

MCNext ==
    /\ Next
    /\ UNCHANGED family
    /\ \A r \in Request : call'[r] \in family \cup {NoCall}

MCSpec == MCInit /\ [][MCNext]_<<vars, family>>

MCFairSpec == MCSpec /\ Fairness

=============================================================================
