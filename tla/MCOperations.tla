----------------------------- MODULE MCOperations -----------------------------
(***************************************************************************)
(* Small instances of DevServer and Provisioning, which share no state: a   *)
(* behaviour is one of the development server or of the database.          *)
(* DevServer: two clients, each route with an id that is no word of the     *)
(* table and with one that is, paths that fit no route, bodies of every     *)
(* size.  Provisioning: two installers over an empty database, one of an    *)
(* earlier checkout, one with an embedding column of another type, and one  *)
(* that is up to date.                                                      *)
(***************************************************************************)
EXTENDS DevServer, Provisioning, TLC

CONSTANTS i1, i2

VARIABLE part       \* which of the two this behaviour is about

MCSegment == {"auth", "login", "products", "semantic-search", "movements", "categories",
              "alerts", "orders", "approve", "reject", "receive", "health", Placeholder, "7", "nowhere"}

\* A template with its placeholder taken for an id.
Filled(template, id) == [i \in DOMAIN template |-> IF template[i] = Placeholder THEN id ELSE template[i]]

MCPaths == {Filled(Routes[i].path, id) : i \in DOMAIN Routes, id \in {"7", "semantic-search"}}
           \cup {<<"nowhere">>, <<"orders", "7", "nowhere">>}

MCCalls ==
         [method : {"GET"}, path : MCPaths, body : {"none"}]
    \cup [method : {"POST"}, path : MCPaths, body : {"small"}]
    \cup [method : {"PATCH"}, path : {<<"products", "7">>, <<"orders", "7">>}, body : {"small"}]
    \cup [method : {"POST"}, path : {<<"products">>}, body : {"large", "chunked"}]
    \cup [method : {"GET", "OPTIONS"}, path : {Outside}, body : {"none"}]
    \cup [method : {"TRACE", "OPTIONS"}, path : {<<"products">>}, body : {"none"}]

Older == [Blank EXCEPT !.tables = TRUE, !.journal = {"initial"}, !.extension = TRUE]
Current == [Older EXCEPT !.journal = Migrations, !.column = "vector", !.description = TRUE]

MCFirstSchemas == {Blank, [Blank EXCEPT !.extension = TRUE], Older, Current,
                   [Current EXCEPT !.column = "plain"]}

OperationsVars == <<devVars, provisioningVars, part>>

OperationsInit ==
    /\ DevInit /\ ProvisioningInit
    /\ part \in {"server", "database"}
    /\ part = "server" => place = "local" /\ schema = Blank

OperationsNext ==
    /\ UNCHANGED part
    /\ \/ part = "server" /\ DevNext /\ UNCHANGED provisioningVars
       \/ part = "database" /\ ProvisioningNext /\ UNCHANGED devVars

OperationsSpec ==
    /\ OperationsInit
    /\ [][OperationsNext]_OperationsVars
    /\ WF_OperationsVars(part = "server" /\ HardCap /\ UNCHANGED <<provisioningVars, part>>)

=============================================================================
