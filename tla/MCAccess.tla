------------------------------ MODULE MCAccess ------------------------------
(***************************************************************************)
(* Small instances of Login and Session, which share no state: a behaviour *)
(* is one of the limiter's or one of the tabs'.                            *)
(***************************************************************************)
EXTENDS Login, Session, TLC

CONSTANTS c1, c2, i1, i2, p1, p2

VARIABLE part       \* which of the two this behaviour is about

Attempt(origin, typed, password) == [origin |-> origin, typed |-> typed, password |-> password]

Direct == [source |-> i1, hops |-> <<>>]
Proxied == [source |-> i1, hops |-> <<i2, i1>>]

\* A right and a wrong password, under two spellings of the name, and a name
\* nobody has, from another address behind the proxy.
MCCalls ==
    {Attempt(Direct, "admin", p1), Attempt(Direct, "Admin", p2), Attempt(Proxied, "ghost", p1)}

MCLower == [t \in {"admin", "Admin", "ghost"} |-> IF t = "ghost" THEN "ghost" ELSE "admin"]
MCFirstUsers == [u \in {"admin", "ghost"} |-> IF u = "admin" THEN p1 ELSE NoUser]

AccessVars == <<loginVars, sessionVars, part>>

AccessInit ==
    /\ LoginInit /\ SessionInit
    /\ part \in {"login", "session"}
    /\ part = "login" => page = [t \in Tab |-> "/"]

AccessNext ==
    /\ UNCHANGED part
    /\ \/ part = "login" /\ LoginNext /\ UNCHANGED sessionVars
       \/ part = "session" /\ SessionNext /\ UNCHANGED loginVars

AccessSpec == AccessInit /\ [][AccessNext]_AccessVars

AccessSymmetry == Permutations(Client) \cup Permutations(Tab)

=============================================================================
