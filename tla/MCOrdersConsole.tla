-------------------------- MODULE MCOrdersConsole --------------------------
(***************************************************************************)
(* A small instance of the orders pages: one order received long ago and   *)
(* one that a call may create, two calls in flight from the tab and one in *)
(* the backend that nobody here waits for.                                 *)
(***************************************************************************)
EXTENDS OrdersConsole, TLC

MCFirstStatus == [o \in Order |-> IF o = 1 THEN "RECIBIDA" ELSE "ABSENT"]

\* Slots are alike.
SlotSymmetry == Permutations(Slot)

=============================================================================
