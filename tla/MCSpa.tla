------------------------------- MODULE MCSpa -------------------------------
(***************************************************************************)
(* Small instances of two groups of pages of the SPA.  Each has a store of *)
(* its own and they share no state: a behaviour is one of the products'    *)
(* pages, or of the alerts' and categories'.                               *)
(***************************************************************************)
EXTENDS StockConsole, AlertsConsole, TLC

CONSTANTS p1, p2, p3, a1, a2, i1, i2

VARIABLE part       \* the pages this behaviour is about

MCItemOf == (a1 :> i1) @@ (a2 :> i2)

spaVars == <<stockVars, alertVars, part>>

SpaInit ==
    /\ StockInit /\ AlertsInit
    /\ part \in {"stock", "alerts"}
    /\ part # "alerts" => alerts = [a \in Alert |-> "ACTIVA"]

SpaNext ==
    /\ UNCHANGED part
    /\ \/ part = "stock" /\ StockNext /\ UNCHANGED alertVars
       \/ part = "alerts" /\ AlertsNext /\ UNCHANGED stockVars

SpaSpec == SpaInit /\ [][SpaNext]_spaVars

\* Types of the variables of the two modules.
SpaTypeOK == StockConsoleTypeOK /\ AlertsConsoleTypeOK

=============================================================================
