------------------------------ MODULE Provisioning ------------------------------
(***************************************************************************)
(* How a database comes to hold the products table the backend expects:    *)
(* scripts/setup.ts on a developer's machine, the migrations and the seed  *)
(* run by themselves for a deployed stage, and there the custom resource   *)
(* that swaps products.embedding for a vector column, statement by         *)
(* statement, while the API stores embeddings.  Anything may fail, be      *)
(* cancelled or die between two steps, and be run again.                   *)
(***************************************************************************)
EXTENDS Naturals, FiniteSets, FiniteSetsExt

CONSTANTS
    Installer,      \* those who run the setup, or migrations and seed
    Product,        \* rows of products
    FirstSchemas,   \* what the database may hold at first
    MaxStores       \* bound: embeddings the API stores

\* The migrations of drizzle/, and the "when" of each in _journal.json, as ranks:
\* the first one bears the latest date.
Migrations == {"initial", "embedding", "description"}

When == [initial |-> 3, embedding |-> 1, description |-> 2]

\* tables: 0000 was applied; column: products.embedding, absent, of the vector
\* type or of another; temp: embedding_temp; journal: drizzle's own table;
\* extension: pgvector in this database.
Schema == [tables : BOOLEAN, column : {"none", "plain", "vector"}, temp : BOOLEAN,
           description : BOOLEAN, journal : SUBSET Migrations, extension : BOOLEAN]

Blank == [tables |-> FALSE, column |-> "none", temp |-> FALSE, description |-> FALSE,
          journal |-> {}, extension |-> FALSE]

ASSUME ProvisioningAssumption ==
    /\ FirstSchemas \subseteq Schema
    /\ \A s \in FirstSchemas : ~s.tables => s.column = "none"
    /\ MaxStores \in Nat

VARIABLES
    place,      \* a developer's machine or a deployed stage
    server,     \* the Postgres server
    schema,     \* what the database holds
    admin,      \* the seed's rows are there
    run,        \* where each installer is, and the last migration it read
    swap,       \* the statement the custom resource's Lambda awaits
    told,       \* what it last answered
    embedding,  \* products.embedding
    copied,     \* products.embedding_temp
    latest,     \* history: the embedding the API last stored
    missed,     \* history: products stored after the copy and before the swap
    cut         \* history: an invocation ended between DROP and RENAME

provisioningVars == <<place, server, schema, admin, run, swap, told, embedding, copied,
                      latest, missed, cut>>

swapping == <<swap, told, embedding, copied, latest, missed, cut>>

-----------------------------------------------------------------------------
NotRunning == [at |-> "idle", last |-> 0]

None == [p \in Product |-> 0]

ProvisioningInit ==
    /\ place \in {"local", "stage"}
    /\ server = IF place = "local" THEN "off" ELSE "up"
    /\ schema \in FirstSchemas
    /\ admin = FALSE
    /\ run = [i \in Installer |-> NotRunning]
    /\ swap = "idle" /\ told = "none"
    /\ embedding = None /\ copied = None /\ latest = None
    /\ missed = {} /\ cut = FALSE

Moves(i, step) == run' = [run EXCEPT ![i].at = step]

Exits(i, code) == run' = [run EXCEPT ![i] = [NotRunning EXCEPT !.at = code]]

\* A run begins, and may have been made before: setup.ts from its first phase,
\* the workflow with its migrations.
RunBegins(i) ==
    /\ run[i].at \in {"idle", "exit0", "exit1"}
    /\ Moves(i, IF place = "local" THEN "preflight" ELSE "migrate")
    /\ UNCHANGED <<place, server, schema, admin, swapping>>

\* Phases 1 to 3: a tool, the environment file or the install is missing, or not.
Preflight(i) ==
    /\ run[i].at = "preflight"
    /\ Moves(i, "compose") \/ Exits(i, "exit1")
    /\ UNCHANGED <<place, server, schema, admin, swapping>>

\* Phase 4: nothing happens to a container that runs.
ComposeUp(i) ==
    /\ run[i].at = "compose"
    /\ \/ /\ Moves(i, "health")
          /\ server' = IF server = "off" THEN "starting" ELSE server
       \/ Exits(i, "exit1") /\ UNCHANGED server
    /\ UNCHANGED <<place, schema, admin, swapping>>

\* Postgres: the scripts of docker-entrypoint-initdb.d run on an empty volume.
ServerBoots ==
    /\ server = "starting"
    /\ server' = "up"
    /\ schema' = IF schema = Blank THEN [Blank EXCEPT !.extension = TRUE] ELSE schema
    /\ UNCHANGED <<place, admin, run, swapping>>

\* Postgres: the machine or its container stops.
ServerStops ==
    /\ place = "local" /\ server # "off"
    /\ server' = "off"
    /\ UNCHANGED <<place, schema, admin, run, swapping>>

\* pg_isready also finds the server that fills an empty volume.
Healthy == server = "up" \/ (server = "starting" /\ schema = Blank)

\* Phase 5, until the deadline.
WaitForHealthy(i) ==
    /\ run[i].at = "health"
    /\ (Healthy /\ Moves(i, "migrate")) \/ Exits(i, "exit1")
    /\ UNCHANGED <<place, server, schema, admin, swapping>>

-----------------------------------------------------------------------------
\* scripts/db.ts: no DATABASE_URL and no environment file, or drizzle-kit starts.
MigrateStarts(i) ==
    /\ run[i].at = "migrate"
    /\ Moves(i, "journal") \/ Exits(i, "exit1")
    /\ UNCHANGED <<place, server, schema, admin, swapping>>

\* drizzle's migrator reads the latest entry of its journal,
ReadJournal(i) ==
    /\ run[i].at = "journal" /\ server = "up"
    /\ run' = [run EXCEPT ![i] = [at |-> "apply", last |-> Max({When[t] : t \in schema.journal} \cup {0})]]
    /\ UNCHANGED <<place, server, schema, admin, swapping>>

\* and applies, in the order of the journal, what is dated after it.
Due(tag, last) == last < When[tag]

\* No statement of 0000 has an IF NOT EXISTS; the other two have. The type of
\* 0001 needs the extension, its index a column of that type.
Possible(s, tag) ==
    CASE tag = "initial" -> ~s.tables
      [] tag = "embedding" -> s.tables /\ s.extension /\ s.column # "plain"
      [] tag = "description" -> s.tables

\* CREATE TYPE, CREATE TABLE, CREATE INDEX.
InitialTables(s) == [s EXCEPT !.tables = TRUE, !.journal = @ \cup {"initial"}]

EmbeddingColumn(s) == [s EXCEPT !.column = "vector", !.journal = @ \cup {"embedding"}]

DescriptionColumn(s) == [s EXCEPT !.description = TRUE, !.journal = @ \cup {"description"}]

\* The schemas a migration may leave: one, or none if it fails.
Applied(s, tag, last) ==
    CASE ~Due(tag, last) -> {s}
      [] Due(tag, last) /\ ~Possible(s, tag) -> {}
      [] Due(tag, last) /\ Possible(s, tag) ->
            CASE tag = "initial" -> {InitialTables(s)}
              [] tag = "embedding" -> {EmbeddingColumn(s)}
              [] tag = "description" -> {DescriptionColumn(s)}

\* All in one transaction.
ApplyMigrations(i) ==
    /\ run[i].at = "apply" /\ server = "up"
    /\ \E s \in Applied(schema, "initial", run[i].last) :
       \E t \in Applied(s, "embedding", run[i].last) :
            schema' \in Applied(t, "description", run[i].last)
    /\ Moves(i, "seed")
    /\ UNCHANGED <<place, server, admin, swapping>>

\* Mutant: the seed's INSERTs name the columns they have values for.
NamedColumns == schema.tables

\* drizzle names every column of schema.ts in an INSERT, with DEFAULT for the others.
EveryColumn == schema.tables /\ schema.column # "none" /\ schema.description

SeedFits == EveryColumn

\* seed.ts: one transaction.
Seed(i) ==
    /\ run[i].at \in {"seed", "retry"} /\ server = "up" /\ SeedFits
    /\ admin' = TRUE
    /\ Exits(i, "exit0")
    /\ UNCHANGED <<place, server, schema, swapping>>

\* setup.ts tries the seed once more; the workflow does not.
SeedFails(i) ==
    /\ run[i].at \in {"seed", "retry"}
    /\ IF place = "local" /\ run[i].at = "seed" THEN Moves(i, "retry") ELSE Exits(i, "exit1")
    /\ UNCHANGED <<place, server, schema, admin, swapping>>

\* The server is gone, or a statement fails, as one that is not Possible does.
MigrateFails(i) ==
    /\ run[i].at \in {"journal", "apply"}
    /\ Exits(i, "exit1")
    /\ UNCHANGED <<place, server, schema, admin, swapping>>

\* Ctrl-C, or the next push cancels the workflow.
Cancelled(i) ==
    /\ run[i].at \notin {"idle", "exit0", "exit1"}
    /\ Exits(i, "idle")
    /\ UNCHANGED <<place, server, schema, admin, swapping>>

-----------------------------------------------------------------------------
\* The custom resource of a deployment: one invocation at a time.
Deploys ==
    /\ place = "stage" /\ swap = "idle"
    /\ swap' = "extension"
    /\ told' = "none"
    /\ UNCHANGED <<place, server, schema, admin, run, embedding, copied, latest, missed, cut>>

AnswersCloudFormation(status) == swap' = "idle" /\ told' = status

\* CREATE EXTENSION is sent to the database postgres, not to this one.
EnableExtension ==
    /\ swap = "extension"
    /\ swap' = "check"
    /\ UNCHANGED <<place, server, schema, admin, run, told, embedding, copied, latest, missed, cut>>

CheckColumn ==
    /\ swap = "check"
    /\ CASE schema.column = "none" -> AnswersCloudFormation("SUCCESS")
         [] schema.column = "plain" -> swap' = "add" /\ UNCHANGED told
         [] schema.column = "vector" -> swap' = "index" /\ UNCHANGED told
    /\ UNCHANGED <<place, server, schema, admin, run, embedding, copied, latest, missed, cut>>

\* The column an earlier invocation left is an error: StatementFails.
AddTemp ==
    /\ swap = "add" /\ ~schema.temp
    /\ swap' = "copy"
    /\ schema' = [schema EXCEPT !.temp = TRUE]
    /\ UNCHANGED <<place, server, admin, run, told, embedding, copied, latest, missed, cut>>

\* Mutant: the WHERE clause is the other way round.
CopyMissing == None

CopyOf == embedding

CopyToTemp ==
    /\ swap = "copy"
    /\ swap' = "drop"
    /\ copied' = CopyOf
    /\ UNCHANGED <<place, server, schema, admin, run, told, embedding, latest, missed, cut>>

DropColumn ==
    /\ swap = "drop"
    /\ swap' = "rename"
    /\ schema' = [schema EXCEPT !.column = "none"]
    /\ embedding' = None
    /\ UNCHANGED <<place, server, admin, run, told, copied, latest, missed, cut>>

RenameTemp ==
    /\ swap = "rename" /\ schema.column = "none"
    /\ swap' = "index"
    /\ schema' = [schema EXCEPT !.column = "vector", !.temp = FALSE]
    /\ embedding' = copied /\ copied' = None
    /\ UNCHANGED <<place, server, admin, run, told, latest, missed, cut>>

EnsureIndex ==
    /\ swap = "index"
    /\ AnswersCloudFormation("SUCCESS")
    /\ UNCHANGED <<place, server, schema, admin, run, embedding, copied, latest, missed, cut>>

\* A statement fails and the handler answers so, or the Lambda's thirty seconds
\* are over and it answers nothing.
SwapEnds ==
    /\ swap # "idle"
    /\ AnswersCloudFormation("FAILED") \/ AnswersCloudFormation("none")
    /\ cut' = (cut \/ swap = "rename")
    /\ UNCHANGED <<place, server, schema, admin, run, embedding, copied, latest, missed>>

\* updateEmbedding, by any call of the API: a column of the old type takes it too.
StoreEmbedding(p) ==
    /\ server = "up" /\ schema.column # "none" /\ latest[p] < MaxStores
    /\ embedding' = [embedding EXCEPT ![p] = latest[p] + 1]
    /\ latest' = [latest EXCEPT ![p] = @ + 1]
    /\ missed' = IF swap = "drop" THEN missed \cup {p} ELSE missed \ {p}
    /\ UNCHANGED <<place, server, schema, admin, run, swap, told, copied, cut>>

InstallerSteps(i) ==
    \/ RunBegins(i) \/ Preflight(i) \/ ComposeUp(i) \/ WaitForHealthy(i)
    \/ MigrateStarts(i) \/ ReadJournal(i) \/ ApplyMigrations(i) \/ MigrateFails(i)
    \/ Seed(i) \/ SeedFails(i) \/ Cancelled(i)

SwapSteps ==
    \/ Deploys \/ EnableExtension \/ CheckColumn \/ AddTemp \/ CopyToTemp \/ DropColumn
    \/ RenameTemp \/ EnsureIndex \/ SwapEnds

ProvisioningNext ==
    \/ \E i \in Installer : InstallerSteps(i)
    \/ ServerBoots \/ ServerStops
    \/ SwapSteps
    \/ \E p \in Product : StoreEmbedding(p)

ProvisioningSpec == ProvisioningInit /\ [][ProvisioningNext]_provisioningVars

-----------------------------------------------------------------------------
\* Types of the variables.
ProvisioningTypeOK ==
    /\ place \in {"local", "stage"} /\ server \in {"off", "starting", "up"}
    /\ schema \in Schema /\ admin \in BOOLEAN
    /\ embedding \in [Product -> Nat] /\ copied \in [Product -> Nat]
    /\ latest \in [Product -> Nat] /\ missed \subseteq Product /\ cut \in BOOLEAN

\* Whoever was told 0 by the setup, or by migrations and seed, has a products table
\* with every column the backend selects, whatever the database held before and
\* however often runs failed and overlapped; only an invocation of the custom
\* resource that is, or was ended, between DROP and RENAME takes that away
\* (setup.ts:26, vector-extension-handler.ts:82).
ReadyUnlessCut ==
    (\E i \in Installer : run[i].at = "exit0")
        => /\ admin /\ schema.description
           /\ schema.column # "none" \/ swap = "rename" \/ cut

\* The swap loses no embedding but those the API stores between the copy and the
\* DROP, though invocations end anywhere and run again (vector-extension-handler.ts:79).
EmbeddingSurvivesTheSwap ==
    schema.column # "none" => \A p \in Product : p \in missed \/ embedding[p] = latest[p]

=============================================================================
