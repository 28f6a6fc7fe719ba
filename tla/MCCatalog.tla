----------------------------- MODULE MCCatalog -----------------------------
(***************************************************************************)
(* Small instances of Catalog: two calls at once, over a seeded product    *)
(* whose alert is resolved, and a second product that a call may create.   *)
(* Each behaviour keeps to one family of requests; families that do not    *)
(* look at alerts have no movements beside them.                           *)
(***************************************************************************)
EXTENDS Catalog, TLC

CONSTANTS c1, c2, s1, s2, k1, k2

VARIABLE family     \* the requests of this behaviour

MCProducts == <<[sku |-> s1, text |-> 0, embedded |-> 0]>>
MCAlerts == <<[of |-> 1, status |-> "RESUELTA"]>>
MCNames == <<k1>>

CreateOf(sku, k) == [op |-> "createProduct", sku |-> sku, category |-> k]
PatchOf(i, f) == [op |-> "patch", id |-> i, fields |-> {f}, category |-> k2]
ProductsOf(p, n, flagged) == [op |-> "products", page |-> p, size |-> n, flagged |-> flagged]
AlertsOf(p, s) == [op |-> "alerts", page |-> p, size |-> 1, status |-> s]

\* Texts written and embedded at once, by patches and by a create.
Embeddings ==
    {CreateOf(s2, k1), PatchOf(1, "supplier"), PatchOf(1, "price"),
     PatchOf(2, "name")}

\* Creates of what exists, of what another call is creating, and in a category
\* that another call is creating; the page, and the search, a new product appears in.
Creations ==
    {CreateOf(s2, k) : k \in {k1, k2}} \cup
    {CreateOf(s1, k1), [op |-> "createCategory", name |-> k2], ProductsOf(2, 1, FALSE),
     [op |-> "search", limit |-> 1], PatchOf(1, "categoryId")}

\* Lists and single reads while alerts are opened and resolved.
Reads ==
    {ProductsOf(1, 2, FALSE), ProductsOf(1, 1, TRUE), AlertsOf(2, "BOTH"), AlertsOf(1, "ACTIVA"),
     [op |-> "movements", page |-> 1, size |-> 1], [op |-> "get", id |-> 1],
     [op |-> "getAlert", id |-> 1], [op |-> "getAlert", id |-> 2], [op |-> "get", id |-> 2]}

MCRequests == Embeddings \cup Creations \cup Reads

MCInit == CatalogInit /\ family \in {Embeddings, Creations, Reads}

MCNext ==
    /\ CatalogNext
    /\ UNCHANGED family
    /\ \A c \in Caller : call'[c].req \in family \cup {NoRequest}
    /\ journal' # journal => family = Reads

MCSpec == MCInit /\ [][MCNext]_<<catalogVars, family>>

CallerSymmetry == Permutations(Caller)

=============================================================================
