------------------------------- MODULE Catalog -------------------------------
(***************************************************************************)
(* What the backend does with the catalogue beside moving stock: creating  *)
(* products and categories after a lookup, patching a product, the reads   *)
(* that take several statements, and the embedding computed after the      *)
(* answer.  One action per statement, of any number of calls at once, all  *)
(* in one process; the process may end at any moment and start again.      *)
(* Stock, movements and the rules of alerts are Inventory's.               *)
(***************************************************************************)
EXTENDS Naturals, Sequences, FiniteSets, SequencesExt

CONSTANTS
    Caller,         \* callers, each with one call at a time
    Nobody,         \* no caller
    Requests,       \* what callers ask
    SkuValue,       \* SKUs
    CategoryName,   \* category names
    FirstProducts,  \* the products table at the start
    FirstAlerts,    \* the alerts table at the start
    FirstNames,     \* the categories table at the start
    Attempts,       \* RETRY_DELAYS_MS.length + 1, 4 as deployed
    MaxProducts,    \* bound: rows of products
    MaxTexts,       \* bound: texts written into products
    MaxAlerts,      \* bound: rows of alerts
    MaxJournal      \* bound: stock movements

Fields == {"name", "supplier", "price", "stockMin", "categoryId"}

\* What the handlers let through: one set for each of them.
CreateProductRequest == [op : {"createProduct"}, sku : SkuValue, category : CategoryName]
\* category counts when fields has "categoryId".
PatchRequest ==
    [op : {"patch"}, id : Nat \ {0}, fields : SUBSET Fields, category : CategoryName]
GetProductRequest == [op : {"get"}, id : Nat \ {0}]
SearchRequest == [op : {"search"}, limit : Nat \ {0}]
CreateCategoryRequest == [op : {"createCategory"}, name : CategoryName]
GetAlertRequest == [op : {"getAlert"}, id : Nat \ {0}]

ListProductsRequest == [op : {"products"}, page : Nat \ {0}, size : Nat \ {0}, flagged : BOOLEAN]
ListAlertsRequest ==
    [op : {"alerts"}, page : Nat \ {0}, size : Nat \ {0}, status : {"ACTIVA", "RESUELTA", "BOTH"}]
ListMovementsRequest == [op : {"movements"}, page : Nat \ {0}, size : Nat \ {0}]

Request ==
         CreateProductRequest \cup PatchRequest \cup GetProductRequest \cup ListProductsRequest
    \cup SearchRequest \cup CreateCategoryRequest
    \cup GetAlertRequest \cup ListAlertsRequest \cup ListMovementsRequest

ProductRow == [sku : SkuValue, text : Nat, embedded : Nat]

AlertRow == [of : Nat \ {0}, status : {"ACTIVA", "RESUELTA"}]

ASSUME CatalogAssumption ==
    /\ IsFiniteSet(Caller) /\ Nobody \notin Caller
    /\ Requests \subseteq Request
    /\ FirstProducts \in Seq(ProductRow) /\ Len(FirstProducts) <= MaxProducts
    /\ FirstAlerts \in Seq(AlertRow)
    /\ FirstNames \in Seq(CategoryName)
    /\ Attempts \in Nat \ {0}
    /\ MaxProducts \in Nat \ {0} /\ MaxTexts \in Nat /\ MaxAlerts \in Nat /\ MaxJournal \in Nat

VARIABLES
    products,   \* products table; a row's place is its id
    names,      \* categories table
    alertRows,  \* alerts table; a row's place is its id
    journal,    \* stock_movements: how many
    texts,      \* texts written so far, their source
    warm,       \* globalThis.__mercadoExpressProducts is set
    call,       \* the call each caller has in progress
    answer,     \* what this step answers, and to whom
    jobs,       \* embeddings being computed
    span,       \* history: products with an ACTIVA alert at some, and at every,
                \* moment of a call
    alone       \* history: the last text of a product was written, and its
                \* embedding computed, with no other patch or job of it under way

catalogVars == <<products, names, alertRows, journal, texts, warm, call, answer,
                 jobs, span, alone>>

tables == <<products, names, alertRows, journal>>

-----------------------------------------------------------------------------
\* Products with at least one ACTIVA alert: findProductIdsWithActiveAlert.
Flagged(table) == {table[i].of : i \in {k \in DOMAIN table : table[k].status = "ACTIVA"}}

NoRequest == [op |-> "none"]

\* rows: ids read; flags: the set read; count: count(*).
NoLocals == [rows |-> {}, flags |-> {}, count |-> 0, id |-> 0, text |-> 0]

NoSpan == [some |-> {}, every |-> {}]

NothingAsked == [req |-> NoRequest, at |-> "idle", local |-> NoLocals]

\* An answer of a list carries its rows, the ids it flags, and the total.
NoReply == [to |-> Nobody, is |-> [kind |-> "none"]]

CatalogInit ==
    /\ products = FirstProducts
    /\ names = FirstNames
    /\ alertRows = FirstAlerts
    /\ journal = 0
    /\ texts = 0
    /\ warm = FALSE
    /\ call = [c \in Caller |-> NothingAsked]
    /\ answer = NoReply
    /\ jobs = {}
    /\ span = [c \in Caller |-> NoSpan]
    /\ alone = [i \in 1..MaxProducts |-> i > Len(FirstProducts)]

At(c, op, step) == call[c].req.op = op /\ call[c].at = step

Goes(c, step, local) == call' = [call EXCEPT ![c].at = step, ![c].local = local]

\* The call is answered and its locals are gone.
Answers(c, reply) ==
    /\ call' = [call EXCEPT ![c] = NothingAsked]
    /\ answer' = [to |-> c, is |-> reply]
    /\ span' = [span EXCEPT ![c] = NoSpan]

\* Nothing is answered yet.
Silent == answer' = NoReply /\ UNCHANGED span

Outcome(kind) == [kind |-> kind]

OfProducts(op) == op \in {"createProduct", "patch", "get", "products", "search"}

IsList(op) == op \in {"products", "alerts", "movements"}

\* Mutant: every list sends its two statements at once.
BothAtOnce(op) == "both"

\* The lists of products and alerts read their rows and then count; those of
\* movements and of orders send both statements at once, over two connections.
FirstRead(op) == IF op = "movements" THEN "both" ELSE "items"

FirstStep(op) ==
    CASE op = "createProduct" -> "category"
      [] op \in {"patch", "get"} -> "find"
      [] op = "products" -> "flags"
      [] op = "search" -> "embed"
      [] op = "createCategory" -> "name"
      [] op \in {"alerts", "movements"} -> FirstRead(op)
      [] op = "getAlert" -> "alert"

\* The handler: token and input accepted, the products' objects asked for.
CatalogArrive(c) ==
    /\ call[c].at = "idle"
    /\ \E req \in Requests :
        call' = [call EXCEPT ![c] = [req |-> req, local |-> NoLocals,
                    at |-> IF OfProducts(req.op) THEN "boot" ELSE FirstStep(req.op)]]
    /\ answer' = NoReply
    /\ span' = [span EXCEPT ![c] = [some |-> Flagged(alertRows), every |-> Flagged(alertRows)]]
    /\ UNCHANGED <<tables, texts, warm, jobs, alone>>

\* resolveGeminiApiKey: only what a process holds already is sure to be there.
KeyMissing == ~warm

\* getProductsBootstrap: the first call of a process needs the API key, and so
\* do those that arrive before it has one.
Bootstrap(c) ==
    /\ call[c].at = "boot"
    /\ \/ /\ Goes(c, FirstStep(call[c].req.op), NoLocals)
          /\ warm' = TRUE
          /\ Silent
       \/ /\ KeyMissing
          /\ Answers(c, Outcome("unavailable"))
          /\ UNCHANGED warm
    /\ UNCHANGED <<tables, texts, jobs, alone>>

\* A statement fails: a 500. A patch that is already written is not embedded;
\* the failure of a first alert is caught.
StatementFails(c) ==
    /\ call[c].at \notin {"idle", "boot"} /\ ~At(c, "createProduct", "alert")
    /\ Answers(c, Outcome("error"))
    /\ alone' = IF At(c, "patch", "flag") THEN [alone EXCEPT ![call[c].local.id] = FALSE] ELSE alone
    /\ UNCHANGED <<tables, texts, warm, jobs>>

-----------------------------------------------------------------------------
\* findBySku, and the unique constraint.
TakenSku(sku) == \E i \in DOMAIN products : products[i].sku = sku

\* create-product.ts.  The category, then the SKU, then the INSERT.
FindCategory(c) ==
    /\ At(c, "createProduct", "category")
    /\ IF call[c].req.category \in ToSet(names)
       THEN Goes(c, "sku", NoLocals) /\ Silent
       ELSE Answers(c, Outcome("category_not_found"))
    /\ UNCHANGED <<tables, texts, warm, jobs, alone>>

FindSku(c) ==
    /\ At(c, "createProduct", "sku")
    /\ IF TakenSku(call[c].req.sku)
       THEN Answers(c, Outcome("sku_already_exists"))
       ELSE Goes(c, "insert", NoLocals) /\ Silent
    /\ UNCHANGED <<tables, texts, warm, jobs, alone>>

\* Another create may have come first: the unique constraint is a 500.
InsertProduct(c) ==
    /\ At(c, "createProduct", "insert")
    /\ IF TakenSku(call[c].req.sku)
       THEN /\ Answers(c, Outcome("error"))
            /\ UNCHANGED <<products, texts>>
       ELSE /\ Len(products) < MaxProducts /\ texts < MaxTexts
            /\ products' = Append(products, [sku |-> call[c].req.sku, text |-> texts + 1, embedded |-> 0])
            /\ texts' = texts + 1
            /\ Goes(c, "alert", [NoLocals EXCEPT !.id = Len(products) + 1, !.text = texts + 1])
            /\ Silent
    /\ UNCHANGED <<names, alertRows, journal, warm, jobs, alone>>

\* History: what the change of the alerts table adds to the spans of the calls.
SpansSee(table) ==
    span' = [c \in Caller |-> IF call[c].at = "idle" THEN span[c]
                              ELSE [some |-> span[c].some \cup Flagged(table),
                                    every |-> span[c].every \cap Flagged(table)]]

Opens(of) ==
    /\ of \notin Flagged(alertRows) /\ Len(alertRows) < MaxAlerts
    /\ alertRows' = Append(alertRows, [of |-> of, status |-> "ACTIVA"])

Job(id, text) == [id |-> id, text |-> text, tries |-> 0, vector |-> FALSE]

\* A low product gets its alert, best-effort; the embedding is left for later.
OpenFirstAlert(c) ==
    /\ At(c, "createProduct", "alert")
    /\ LET local == call[c].local
       IN  /\ Opens(local.id) \/ UNCHANGED alertRows
           /\ jobs' = jobs \cup {Job(local.id, local.text)}
    /\ call' = [call EXCEPT ![c] = NothingAsked]
    /\ answer' = [to |-> c, is |-> Outcome("created")]
    /\ span' = [d \in Caller |->
                    IF d = c THEN NoSpan
                    ELSE IF call[d].at = "idle" THEN span[d]
                    ELSE [some |-> span[d].some \cup Flagged(alertRows'),
                          every |-> span[d].every \cap Flagged(alertRows')]]
    /\ UNCHANGED <<products, names, journal, texts, warm, alone>>

-----------------------------------------------------------------------------
\* get-product.ts and update-product.ts.
AfterFind(req) ==
    IF req.op # "patch" THEN "flag"
    ELSE IF "categoryId" \in req.fields THEN "newCategory" ELSE "write"

FindProduct(c) ==
    /\ call[c].at = "find"
    /\ LET req == call[c].req
       IN  IF req.id \notin DOMAIN products
           THEN Answers(c, Outcome("product_not_found"))
           ELSE /\ Goes(c, AfterFind(req),
                        [NoLocals EXCEPT !.id = req.id, !.text = products[req.id].text])
                /\ Silent
    /\ UNCHANGED <<tables, texts, warm, jobs, alone>>

\* The category that the patch names, before anything is written.
FindNewCategory(c) ==
    /\ At(c, "patch", "newCategory")
    /\ IF call[c].req.category \in ToSet(names)
       THEN Goes(c, "write", call[c].local) /\ Silent
       ELSE Answers(c, Outcome("category_not_found"))
    /\ UNCHANGED <<tables, texts, warm, jobs, alone>>

\* Fields whose words the embedding is computed from.
InText == {"name", "supplier"}

\* Patches of a product after their UPDATE, creates after their INSERT.
Unfinished(id) == {c \in Caller : /\ call[c].at \in {"alert", "flag"}
                                  /\ call[c].req.op \in {"patch", "createProduct"}
                                  /\ call[c].local.id = id}

JobsOf(id) == {j \in jobs : j.id = id}

\* What is embedded is the row the UPDATE returned.
TextReturned(c, written) == written

\* The UPDATE of what the patch names.
WriteProduct(c) ==
    /\ At(c, "patch", "write")
    /\ LET id == call[c].req.id
       IN  IF call[c].req.fields \cap InText = {}
           THEN /\ Goes(c, "flag", [call[c].local EXCEPT !.text = products[id].text])
                /\ UNCHANGED <<products, texts, alone>>
           ELSE /\ texts < MaxTexts
                /\ products' = [products EXCEPT ![id].text = texts + 1]
                /\ texts' = texts + 1
                /\ alone' = [alone EXCEPT ![id] = Unfinished(id) = {} /\ JobsOf(id) = {}]
                /\ Goes(c, "flag", [call[c].local EXCEPT !.text = TextReturned(c, texts + 1)])
    /\ answer' = NoReply
    /\ UNCHANGED <<names, alertRows, journal, warm, jobs, span>>

\* Mutant: a change of the supplier does not embed again.
ByNameOnly(fields) == "name" \in fields

\* shouldReembed: by presence, not by value.
ShouldReembed(fields) == fields \cap InText # {}

\* hasActiveAlert: any alert of the product, whatever its status.
HasActiveAlert(id) == \E i \in DOMAIN alertRows : alertRows[i].of = id

ReadFlag(c) ==
    /\ call[c].at = "flag"
    /\ LET req == call[c].req
           local == call[c].local
       IN  /\ Answers(c, [kind |-> req.op, id |-> local.id, flag |-> HasActiveAlert(local.id)])
           /\ jobs' = IF req.op = "patch" /\ ShouldReembed(req.fields)
                      THEN jobs \cup {Job(local.id, local.text)} ELSE jobs
    /\ UNCHANGED <<tables, texts, warm, alone>>

-----------------------------------------------------------------------------
\* Mutant: the ids of every alert are taken.
AnyAlert == {alertRows[i].of : i \in DOMAIN alertRows}

\* list-products.ts: first the set of flagged products,
ReadFlags == Flagged(alertRows)

FindFlagged(c) ==
    /\ At(c, "products", "flags")
    /\ Goes(c, FirstRead("products"), [NoLocals EXCEPT !.flags = ReadFlags])
    /\ answer' = NoReply
    /\ UNCHANGED <<tables, texts, warm, jobs, span, alone>>

\* The ids a list selects.
Selected(c) ==
    LET req == call[c].req
    IN  CASE req.op = "products" ->
                {i \in DOMAIN products : req.flagged => i \in call[c].local.flags}
          [] req.op = "alerts" ->
                {i \in DOMAIN alertRows : req.status \in {"BOTH", alertRows[i].status}}
          [] req.op = "movements" -> 1..journal

\* LIMIT n OFFSET skipped. Which rows these are is left open: names, which lists
\* of products are sorted by, may change and need not differ.
Limited(n, skipped, ids) ==
    LET left == IF skipped < Cardinality(ids) THEN Cardinality(ids) - skipped ELSE 0
    IN  {rows \in SUBSET ids : Cardinality(rows) = IF n < left THEN n ELSE left}

PagesOf(req, ids) == Limited(req.size, (req.page - 1) * req.size, ids)

ListReply(c, rows, total) ==
    [kind |-> call[c].req.op, rows |-> rows, flags |-> call[c].local.flags, total |-> total,
     hasMore |-> call[c].req.page * call[c].req.size < total]

ReadItems(c) ==
    /\ IsList(call[c].req.op)
    /\ \E rows \in PagesOf(call[c].req, Selected(c)) :
           \/ /\ call[c].at \in {"items", "both"}
              /\ Goes(c, "count", [call[c].local EXCEPT !.rows = rows])
              /\ Silent
           \/ /\ call[c].at = "rest"
              /\ Answers(c, ListReply(c, rows, call[c].local.count))
    /\ UNCHANGED <<tables, texts, warm, jobs, alone>>

\* count(*) of the same selection.
ReadCount(c) ==
    /\ LET total == Cardinality(Selected(c))
       IN  \/ /\ call[c].at = "count"
              /\ Answers(c, ListReply(c, call[c].local.rows, total))
           \/ /\ call[c].at = "both"
              /\ Goes(c, "rest", [call[c].local EXCEPT !.count = total])
              /\ Silent
    /\ UNCHANGED <<tables, texts, warm, jobs, alone>>

\* get-alert.ts: the alert, then its product.
FindAlert(c) ==
    /\ At(c, "getAlert", "alert")
    /\ LET id == call[c].req.id
       IN  IF id \notin DOMAIN alertRows THEN Answers(c, Outcome("alert_not_found"))
           ELSE /\ Goes(c, "product", [NoLocals EXCEPT !.id = alertRows[id].of])
                /\ Silent
    /\ UNCHANGED <<tables, texts, warm, jobs, alone>>

FindAlertProduct(c) ==
    /\ At(c, "getAlert", "product")
    /\ Answers(c, Outcome(IF call[c].local.id \in DOMAIN products THEN "getAlert" ELSE "error"))
    /\ UNCHANGED <<tables, texts, warm, jobs, alone>>

-----------------------------------------------------------------------------
\* create-category.ts.
FindName(c) ==
    /\ At(c, "createCategory", "name")
    /\ IF call[c].req.name \in ToSet(names)
       THEN Answers(c, Outcome("category_already_exists"))
       ELSE Goes(c, "insertName", NoLocals) /\ Silent
    /\ UNCHANGED <<tables, texts, warm, jobs, alone>>

\* Another create may have come first: the unique constraint is a 500.
InsertCategory(c) ==
    /\ At(c, "createCategory", "insertName")
    /\ IF call[c].req.name \in ToSet(names)
       THEN Answers(c, Outcome("error")) /\ UNCHANGED names
       ELSE /\ names' = Append(names, call[c].req.name)
            /\ Answers(c, Outcome("created"))
    /\ UNCHANGED <<products, alertRows, journal, texts, warm, jobs, alone>>

-----------------------------------------------------------------------------
\* semantic-search-products.ts: the query's vector, of at most Attempts tries;
\* the provider that is down is StatementFails.
EmbedQuery(c) ==
    /\ At(c, "search", "embed")
    /\ Goes(c, "nearest", NoLocals)
    /\ answer' = NoReply
    /\ UNCHANGED <<tables, texts, warm, jobs, span, alone>>

\* Some products that have an embedding, at most limit: nearness is not modelled.
FindByEmbedding(c) ==
    /\ At(c, "search", "nearest")
    /\ \E hits \in Limited(call[c].req.limit, 0, {i \in DOMAIN products : products[i].embedded # 0}) :
           Answers(c, [kind |-> "search", hits |-> hits])
    /\ UNCHANGED <<tables, texts, warm, jobs, alone>>

\* withRetry: the last attempt.
GivesUp(j) == j.tries + 1 = Attempts

\* embed-in-background.ts: the provider answers, or the try fails; the last
\* failure gives the embedding up and is only logged.
EmbedText(j) ==
    /\ j \in jobs /\ ~j.vector
    /\ \/ /\ jobs' = (jobs \ {j}) \cup {[j EXCEPT !.vector = TRUE]}
          /\ UNCHANGED alone
       \/ /\ ~GivesUp(j)
          /\ jobs' = (jobs \ {j}) \cup {[j EXCEPT !.tries = @ + 1]}
          /\ UNCHANGED alone
       \/ /\ GivesUp(j)
          /\ jobs' = jobs \ {j}
          /\ alone' = [alone EXCEPT ![j.id] = FALSE]
    /\ answer' = NoReply
    /\ UNCHANGED <<tables, texts, warm, call, span>>

StoreEmbedding(j) ==
    /\ j \in jobs /\ j.vector
    /\ jobs' = jobs \ {j}
    /\ \/ products' = [products EXCEPT ![j.id].embedded = j.text] /\ UNCHANGED alone
       \/ alone' = [alone EXCEPT ![j.id] = FALSE] /\ UNCHANGED products
    /\ answer' = NoReply
    /\ UNCHANGED <<names, alertRows, journal, texts, warm, call, span>>

\* The process ends: calls and embeddings in progress end with it.
ProcessEnds ==
    /\ warm
    /\ warm' = FALSE
    /\ jobs' = {}
    /\ alone' = [i \in 1..MaxProducts |-> alone[i] /\ Unfinished(i) = {} /\ JobsOf(i) = {}]
    /\ call' = [c \in Caller |-> NothingAsked]
    /\ answer' = NoReply
    /\ span' = [c \in Caller |-> NoSpan]
    /\ UNCHANGED <<tables, texts>>

\* Movements open and resolve alerts.
StockMoves ==
    /\ journal < MaxJournal
    /\ journal' = journal + 1
    /\ \/ \E of \in DOMAIN products : Opens(of)
       \/ \E i \in DOMAIN alertRows :
            /\ alertRows[i].status = "ACTIVA"
            /\ alertRows' = [alertRows EXCEPT ![i].status = "RESUELTA"]
       \/ UNCHANGED alertRows
    /\ SpansSee(alertRows')
    /\ answer' = NoReply
    /\ UNCHANGED <<products, names, texts, warm, call, jobs, alone>>

CatalogServes(c) ==
    \/ Bootstrap(c) \/ StatementFails(c)
    \/ FindCategory(c) \/ FindSku(c) \/ InsertProduct(c) \/ OpenFirstAlert(c)
    \/ FindProduct(c) \/ FindNewCategory(c) \/ WriteProduct(c) \/ ReadFlag(c)
    \/ FindFlagged(c) \/ ReadItems(c) \/ ReadCount(c)
    \/ FindAlert(c) \/ FindAlertProduct(c)
    \/ FindName(c) \/ InsertCategory(c)
    \/ EmbedQuery(c) \/ FindByEmbedding(c)

CatalogNext ==
    \/ \E c \in Caller : CatalogArrive(c) \/ CatalogServes(c)
    \/ \E j \in jobs : EmbedText(j) \/ StoreEmbedding(j)
    \/ ProcessEnds
    \/ StockMoves

CatalogSpec == CatalogInit /\ [][CatalogNext]_catalogVars

-----------------------------------------------------------------------------
\* Types of the variables.
CatalogTypeOK ==
    /\ products \in Seq(ProductRow)
    /\ names \in Seq(CategoryName)
    /\ alertRows \in Seq(AlertRow)
    /\ journal \in Nat /\ texts \in Nat /\ warm \in BOOLEAN
    /\ \A c \in Caller : call[c].req \in Request \cup {NoRequest}
    /\ \A j \in jobs : j.id \in DOMAIN products /\ j.tries < Attempts
    /\ alone \in [1..MaxProducts -> BOOLEAN]

\* When the last text of a product was written with no other patch or embedding
\* of it under way, and nothing failed, the embedding comes to rest on that text,
\* whatever overlapped before (update-product.ts:56, embed-in-background.ts:21).
EmbeddingOfCurrentText ==
    \A id \in DOMAIN products :
        alone[id] /\ Unfinished(id) = {} /\ JobsOf(id) = {}
            => products[id].embedded = products[id].text

\* The total of a list of products, or of all alerts, covers the rows of its
\* page, though rows are added between its two statements
\* (drizzle-product-repository.ts:87).
TotalCoversThePage ==
    [][\A c \in Caller :
        LET req == call[c].req
            a == answer'.is
        IN  /\ answer'.to = c
            /\ a.kind = "products" \/ (a.kind = "alerts" /\ req.status = "BOTH")
            => a.rows = {} \/ (req.page - 1) * req.size + Cardinality(a.rows) <= a.total
      ]_catalogVars

\* The flag of each product of a list was true, or false, at some moment of the
\* call, while movements open and resolve alerts (list-products.ts:51).
ListFlagWasTrue ==
    [][\A c \in Caller : answer'.to = c /\ answer'.is.kind = "products" =>
        \A i \in answer'.is.rows :
            IF i \in answer'.is.flags THEN i \in span[c].some ELSE i \notin span[c].every
      ]_catalogVars

=============================================================================
