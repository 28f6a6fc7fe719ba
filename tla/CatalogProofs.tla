---------------------------- MODULE CatalogProofs ----------------------------
(***************************************************************************)
(* What lists say of alerts and of totals, and which text a stored        *)
(* embedding belongs to, for any number of callers, products, alerts and   *)
(* attempts.                                                               *)
(***************************************************************************)
EXTENDS Catalog, FiniteSetTheorems, TLAPS

-----------------------------------------------------------------------------
(* Calls *)

\* Calls and spans are kept by caller, and calls have their fields.
Shaped ==
    /\ DOMAIN call = Caller /\ DOMAIN span = Caller
    /\ \A c \in Caller :
           /\ DOMAIN call[c] = {"req", "at", "local"}
           /\ DOMAIN call[c].local = {"rows", "flags", "count", "id", "text"}

LEMMA NothingAskedFields ==
    /\ DOMAIN NothingAsked = {"req", "at", "local"}
    /\ DOMAIN NothingAsked.local = {"rows", "flags", "count", "id", "text"}
    /\ NothingAsked.at = "idle" /\ NothingAsked.req = NoRequest /\ NoRequest.op = "none"
  BY DEF NothingAsked, NoLocals, NoRequest

\* A call that goes on: its own step and locals, and nothing of the others.
LEMMA GoesOn ==
    ASSUME Shaped, NEW c \in Caller, NEW s, NEW l, Goes(c, s, l)
    PROVE  /\ call'[c].at = s /\ call'[c].local = l /\ call'[c].req = call[c].req
           /\ DOMAIN call' = Caller /\ DOMAIN call'[c] = {"req", "at", "local"}
           /\ \A d \in Caller \ {c} : call'[d] = call[d]
  BY DEF Shaped, Goes

LEMMA AnswerEnds ==
    ASSUME Shaped, NEW c \in Caller, NEW r, Answers(c, r)
    PROVE  /\ Shaped'
           /\ call'[c] = NothingAsked /\ call'[c].at = "idle"
           /\ call'[c].req = NoRequest /\ call'[c].req.op = "none"
           /\ \A d \in Caller \ {c} : call'[d] = call[d] /\ span'[d] = span[d]
           /\ answer' = [to |-> c, is |-> r]
  BY NothingAskedFields DEF Shaped, Answers

-----------------------------------------------------------------------------
(* Flags *)

\* What a list has read of the alerts lies between what was so at every moment
\* of the call and what was so at some.
FlagInv(c) ==
    /\ call[c].at # "idle" =>
           span[c].every \subseteq Flagged(alertRows) /\ Flagged(alertRows) \subseteq span[c].some
    /\ call[c].req.op = "products" /\ call[c].at \in {"items", "both", "count", "rest"} =>
           /\ span[c].every \subseteq call[c].local.flags
           /\ call[c].local.flags \subseteq span[c].some
    /\ call[c].at \in {"find", "write", "flag"} => call[c].req.op \notin {"products", "alerts"}

FInv == Shaped /\ \A c \in Caller : FlagInv(c)

LEMMA FlagAnswers ==
    ASSUME FInv, NEW c \in Caller, NEW r, Answers(c, r), UNCHANGED alertRows
    PROVE  FInv'
  BY AnswerEnds DEF FInv, FlagInv, Flagged

LEMMA FlagGoes ==
    ASSUME FInv, NEW c \in Caller, NEW s, NEW l, Goes(c, s, l), UNCHANGED <<alertRows, span>>,
           call[c].at # "idle", DOMAIN l = {"rows", "flags", "count", "id", "text"},
           s \in {"find", "write", "flag"} => call[c].req.op \notin {"products", "alerts"},
           call[c].req.op = "products" /\ s \in {"items", "both", "count", "rest"} =>
               span[c].every \subseteq l.flags /\ l.flags \subseteq span[c].some
    PROVE  FInv'
<1>1. Shaped'
  BY GoesOn DEF FInv, Shaped
<1>2. ASSUME NEW d \in Caller PROVE FlagInv(d)'
  BY GoesOn DEF FInv, FlagInv, Flagged
<1> QED
  BY <1>1, <1>2 DEF FInv

LEMMA NoLocalsFields == DOMAIN NoLocals = {"rows", "flags", "count", "id", "text"}
  BY DEF NoLocals

LEMMA FlagServes == ASSUME FInv, NEW c \in Caller, CatalogServes(c), ~OpenFirstAlert(c) PROVE FInv'
<1> USE NoLocalsFields DEF Silent, tables, At
<1>1. CASE Bootstrap(c)
  BY <1>1, FlagAnswers, FlagGoes DEF Bootstrap, FirstStep, FirstRead
<1>2. CASE StatementFails(c)
  BY <1>2, FlagAnswers DEF StatementFails
<1>3. CASE FindCategory(c) \/ FindSku(c)
  BY <1>3, FlagAnswers, FlagGoes DEF FindCategory, FindSku
<1>4. CASE InsertProduct(c)
  BY <1>4, FlagAnswers, FlagGoes DEF InsertProduct
<1>5. CASE FindProduct(c) \/ FindNewCategory(c) \/ WriteProduct(c)
  BY <1>5, FlagAnswers, FlagGoes
     DEF FindProduct, AfterFind, FindNewCategory, WriteProduct, FInv, FlagInv, Shaped
<1>6. CASE ReadFlag(c)
  BY <1>6, FlagAnswers DEF ReadFlag
<1>7. CASE FindFlagged(c)
  BY <1>7, FlagGoes DEF FindFlagged, FirstRead, ReadFlags, FInv, FlagInv
<1>8. CASE ReadItems(c) \/ ReadCount(c)
  BY <1>8, FlagAnswers, FlagGoes DEF ReadItems, ReadCount, FInv, FlagInv, Shaped
<1>9. CASE FindAlert(c) \/ FindAlertProduct(c)
  BY <1>9, FlagAnswers, FlagGoes DEF FindAlert, FindAlertProduct
<1>10. CASE FindName(c) \/ InsertCategory(c)
  BY <1>10, FlagAnswers, FlagGoes DEF FindName, InsertCategory
<1>11. CASE EmbedQuery(c) \/ FindByEmbedding(c)
  BY <1>11, FlagAnswers, FlagGoes DEF EmbedQuery, FindByEmbedding
<1> QED
  BY <1>1, <1>2, <1>3, <1>4, <1>5, <1>6, <1>7, <1>8, <1>9, <1>10, <1>11 DEF CatalogServes

LEMMA FlagOpens == ASSUME FInv, NEW c \in Caller, OpenFirstAlert(c) PROVE FInv'
<1>1. /\ call' = [call EXCEPT ![c] = NothingAsked]
      /\ span' = [d \in Caller |->
                    IF d = c THEN NoSpan
                    ELSE IF call[d].at = "idle" THEN span[d]
                    ELSE [some |-> span[d].some \cup Flagged(alertRows)',
                          every |-> span[d].every \cap Flagged(alertRows)']]
  BY DEF OpenFirstAlert, Flagged
<1>2. Shaped'
  BY <1>1, NothingAskedFields DEF FInv, Shaped
<1>3. call'[c].at = "idle" /\ call'[c].req.op = "none"
  BY <1>1, NothingAskedFields DEF FInv, Shaped
<1>4. \A d \in Caller \ {c} : call'[d] = call[d]
  BY <1>1 DEF FInv, Shaped
<1>5. ASSUME NEW d \in Caller \ {c}, call[d].at # "idle"
      PROVE  /\ span'[d].some = span[d].some \cup Flagged(alertRows)'
             /\ span'[d].every = span[d].every \cap Flagged(alertRows)'
  BY <1>1, <1>5
<1>6. ASSUME NEW d \in Caller PROVE FlagInv(d)'
  <2>1. CASE d = c
    BY <1>3, <2>1 DEF FlagInv
  <2>2. CASE d # c
    BY <1>4, <1>5, <2>2 DEF FInv, FlagInv
  <2> QED
    BY <2>1, <2>2
<1> QED
  BY <1>2, <1>6 DEF FInv

LEMMA FlagMoves == ASSUME FInv, StockMoves PROVE FInv'
<1>1. /\ call' = call
      /\ span' = [d \in Caller |-> IF call[d].at = "idle" THEN span[d]
                    ELSE [some |-> span[d].some \cup Flagged(alertRows)',
                          every |-> span[d].every \cap Flagged(alertRows)']]
  BY DEF StockMoves, SpansSee, Flagged
<1>2. Shaped'
  BY <1>1 DEF FInv, Shaped
<1>3. ASSUME NEW d \in Caller, call[d].at # "idle"
      PROVE  /\ span'[d].some = span[d].some \cup Flagged(alertRows)'
             /\ span'[d].every = span[d].every \cap Flagged(alertRows)'
  BY <1>1, <1>3
<1>4. ASSUME NEW d \in Caller PROVE FlagInv(d)'
  BY <1>1, <1>3 DEF FInv, FlagInv
<1> QED
  BY <1>2, <1>4 DEF FInv

LEMMA FlagArrives == ASSUME FInv, NEW c \in Caller, CatalogArrive(c) PROVE FInv'
<1>1. PICK req \in Requests :
          call' = [call EXCEPT ![c] = [req |-> req, local |-> NoLocals,
                     at |-> IF OfProducts(req.op) THEN "boot" ELSE FirstStep(req.op)]]
  BY DEF CatalogArrive
<1>2. /\ span' = [span EXCEPT ![c] = [some |-> Flagged(alertRows), every |-> Flagged(alertRows)]]
      /\ alertRows' = alertRows
  BY DEF CatalogArrive, tables
<1>3. /\ call'[c].req = req /\ DOMAIN call'[c] = {"req", "at", "local"}
      /\ call'[c].local = NoLocals
      /\ call'[c].at = (IF OfProducts(req.op) THEN "boot" ELSE FirstStep(req.op))
      /\ \A d \in Caller \ {c} : call'[d] = call[d] /\ span'[d] = span[d]
      /\ span'[c].some = Flagged(alertRows) /\ span'[c].every = Flagged(alertRows)
      /\ DOMAIN call' = Caller /\ DOMAIN span' = Caller
  BY <1>1, <1>2 DEF FInv, Shaped
<1>4. Shaped'
  BY <1>3, NoLocalsFields DEF FInv, Shaped
<1>5. req.op \in {"createProduct", "patch", "get", "products", "search", "createCategory",
                  "getAlert", "alerts", "movements"}
  BY CatalogAssumption
     DEF Request, CreateProductRequest, PatchRequest, GetProductRequest, SearchRequest,
         CreateCategoryRequest, GetAlertRequest, ListProductsRequest, ListAlertsRequest,
         ListMovementsRequest
<1>6. /\ call'[c].at \notin {"find", "write", "flag"}
      /\ req.op = "products" => call'[c].at = "boot"
  BY <1>3, <1>5 DEF OfProducts, FirstStep, FirstRead
<1>7. ASSUME NEW d \in Caller PROVE FlagInv(d)'
  BY <1>2, <1>3, <1>6 DEF FInv, FlagInv, Flagged
<1> QED
  BY <1>4, <1>7 DEF FInv

LEMMA FlagEnds == ASSUME FInv, ProcessEnds PROVE FInv'
<1>1. \A c \in Caller : call'[c] = NothingAsked
  BY DEF ProcessEnds
<1>2. DOMAIN call' = Caller /\ DOMAIN span' = Caller
  BY DEF ProcessEnds
<1> QED
  BY <1>1, <1>2, NothingAskedFields DEF FInv, Shaped, FlagInv

LEMMA FlagKept == ASSUME FInv, UNCHANGED <<call, span, alertRows>> PROVE FInv'
  BY DEF FInv, Shaped, FlagInv, Flagged

LEMMA FInvStep == FInv /\ [CatalogNext]_catalogVars => FInv'
<1> SUFFICES ASSUME FInv, [CatalogNext]_catalogVars PROVE FInv'
  OBVIOUS
<1>1. ASSUME NEW c \in Caller, CatalogArrive(c) \/ CatalogServes(c) PROVE FInv'
  BY <1>1, FlagArrives, FlagServes, FlagOpens
<1>2. ASSUME NEW j \in jobs, EmbedText(j) \/ StoreEmbedding(j) PROVE FInv'
  BY <1>2, FlagKept DEF EmbedText, StoreEmbedding, tables
<1>3. CASE ProcessEnds \/ StockMoves
  BY <1>3, FlagEnds, FlagMoves
<1>4. CASE UNCHANGED catalogVars
  BY <1>4, FlagKept DEF catalogVars, tables
<1> QED
  BY <1>1, <1>2, <1>3, <1>4 DEF CatalogNext

LEMMA FInvInit == CatalogInit => FInv
<1> SUFFICES ASSUME CatalogInit PROVE FInv
  OBVIOUS
<1>1. \A c \in Caller : call[c] = NothingAsked
  BY DEF CatalogInit
<1>2. DOMAIN call = Caller /\ DOMAIN span = Caller
  BY DEF CatalogInit
<1> QED
  BY <1>1, <1>2, NothingAskedFields DEF FInv, Shaped, FlagInv

\* What the answer of a list flags is what it read before, and so are its rows
\* when the total is read last.
LEMMA ListAnswers ==
    ASSUME FInv, CatalogNext, NEW c \in Caller, answer'.to = c,
           answer'.is.kind \in {"products", "alerts"}
    PROVE  /\ call[c].req.op = answer'.is.kind /\ call[c].at \in {"count", "rest"}
           /\ answer'.is.flags = call[c].local.flags
           /\ call[c].at = "count" => /\ answer'.is.rows = call[c].local.rows
                                      /\ answer'.is.total = Cardinality(Selected(c))
<1>1. NoReply.is.kind = "none" /\ \A k : Outcome(k).kind = k
  BY DEF NoReply, Outcome
<1>2. PICK d \in Caller : CatalogServes(d)
  BY <1>1 DEF CatalogNext, CatalogArrive, EmbedText, StoreEmbedding, ProcessEnds, StockMoves
<1>3. CASE ReadItems(d) \/ ReadCount(d)
  <2>1. PICK rows, total :
            /\ Answers(d, ListReply(d, rows, total)) /\ call[d].at \in {"count", "rest"}
            /\ call[d].at = "count" => rows = call[d].local.rows /\ total = Cardinality(Selected(d))
    BY <1>1, <1>3 DEF ReadItems, ReadCount, Silent
  <2>2. answer' = [to |-> d, is |-> ListReply(d, rows, total)]
    BY <2>1 DEF Answers
  <2>3. /\ ListReply(d, rows, total).kind = call[d].req.op
        /\ ListReply(d, rows, total).flags = call[d].local.flags
        /\ ListReply(d, rows, total).rows = rows /\ ListReply(d, rows, total).total = total
    BY DEF ListReply
  <2> QED
    BY <2>1, <2>2, <2>3
<1>4. CASE ReadFlag(d)
  <2>1. answer'.is.kind = call[d].req.op /\ call[d].at = "flag"
    BY <1>4 DEF ReadFlag, Answers
  <2> QED
    BY <2>1 DEF FInv, FlagInv
<1>5. CASE ~(ReadItems(d) \/ ReadCount(d) \/ ReadFlag(d))
  <2>1. \A r : Answers(d, r) => answer'.is = r
    BY DEF Answers
  <2>2. CASE Silent
    BY <1>1, <2>2 DEF Silent
  <2>3. ASSUME NEW k, k \notin {"products", "alerts"}, Answers(d, Outcome(k)) PROVE FALSE
    BY <1>1, <2>1, <2>3
  <2>4. CASE Bootstrap(d) \/ StatementFails(d)
    BY <2>2, <2>3, <2>4 DEF Bootstrap, StatementFails
  <2>5. CASE FindCategory(d) \/ FindSku(d) \/ InsertProduct(d) \/ FindProduct(d)
           \/ FindNewCategory(d)
    BY <2>2, <2>3, <2>5 DEF FindCategory, FindSku, InsertProduct, FindProduct, FindNewCategory
  <2>6. CASE FindName(d) \/ InsertCategory(d) \/ FindAlert(d)
    BY <2>2, <2>3, <2>6 DEF FindName, InsertCategory, FindAlert
  <2>7. CASE FindAlertProduct(d)
    <3>1. PICK k \in {"getAlert", "error"} : Answers(d, Outcome(k))
      BY <2>7 DEF FindAlertProduct
    <3> QED
      BY <2>3, <3>1
  <2>8. CASE OpenFirstAlert(d)
    <3>1. answer'.is = Outcome("created")
      BY <2>8 DEF OpenFirstAlert
    <3> QED
      BY <1>1, <3>1
  <2>9. CASE WriteProduct(d) \/ FindFlagged(d) \/ EmbedQuery(d)
    BY <1>1, <2>9 DEF WriteProduct, FindFlagged, EmbedQuery
  <2>10. CASE FindByEmbedding(d)
    BY <2>1, <2>10 DEF FindByEmbedding
  <2> QED
    BY <1>2, <1>5, <2>4, <2>5, <2>6, <2>7, <2>8, <2>9, <2>10 DEF CatalogServes
<1> QED
  BY <1>3, <1>4, <1>5

\* The flag of each product of a list was true, or false, at some moment of the
\* call, however many alerts are opened and resolved meanwhile.
THEOREM FlagsWereTrue == CatalogSpec => ListFlagWasTrue
<1>1. FInv /\ [CatalogNext]_catalogVars =>
        [\A c \in Caller : answer'.to = c /\ answer'.is.kind = "products" =>
            \A i \in answer'.is.rows :
                IF i \in answer'.is.flags THEN i \in span[c].some ELSE i \notin span[c].every
        ]_catalogVars
  <2> SUFFICES ASSUME FInv, CatalogNext, NEW c \in Caller, answer'.to = c,
                      answer'.is.kind = "products", NEW i \in answer'.is.rows
               PROVE  IF i \in answer'.is.flags THEN i \in span[c].some ELSE i \notin span[c].every
    OBVIOUS
  <2> QED
    BY ListAnswers DEF FInv, FlagInv
<1> QED
  BY <1>1, FInvInit, FInvStep, PTL DEF CatalogSpec, ListFlagWasTrue

-----------------------------------------------------------------------------
(* Embeddings *)

\* Calls that will leave an embedding to be computed.
Embeds(c) ==
    \/ At(c, "createProduct", "alert")
    \/ At(c, "patch", "flag") /\ ShouldReembed(call[c].req.fields)

\* What will be embedded for a product, and what is, once nothing is to come.
Current(id) ==
    /\ \A c \in Caller : Embeds(c) /\ call[c].local.id = id =>
           call[c].local.text = products[id].text
    /\ \A j \in jobs : j.id = id => j.text = products[id].text
    /\ \/ \E c \in Caller : Embeds(c) /\ call[c].local.id = id
       \/ \E j \in jobs : j.id = id
       \/ products[id].embedded = products[id].text

\* A call past the lookup, or past the INSERT, knows a row.
PlaceInv(c) ==
    /\ call[c].req \in Request \cup {NoRequest}
    /\ call[c].at = "boot" => OfProducts(call[c].req.op)
    /\ call[c].at \in {"newCategory", "write", "flag"} \/ At(c, "createProduct", "alert") =>
           /\ call[c].local.id \in DOMAIN products /\ call[c].local.text \in Nat
           /\ call[c].at \in {"newCategory", "write"} => call[c].req.id = call[c].local.id

JobInv(j) ==
    /\ j.id \in DOMAIN products /\ j.text \in Nat
    /\ DOMAIN j = {"id", "text", "tries", "vector"}

RowsInv ==
    /\ products \in Seq(ProductRow) /\ Len(products) <= MaxProducts /\ texts \in Nat
    /\ alone \in [1..MaxProducts -> BOOLEAN]

EInv ==
    /\ Shaped /\ RowsInv
    /\ \A c \in Caller : PlaceInv(c)
    /\ \A j \in jobs : JobInv(j)
    /\ \A id \in DOMAIN products : alone[id] => Current(id)

LEMMA RowFields ==
    ASSUME EInv, NEW id \in DOMAIN products
    PROVE  /\ products[id] \in ProductRow
           /\ products[id].text \in Nat /\ products[id].embedded \in Nat
<1>1. products[id] \in ProductRow
  BY DEF EInv, RowsInv
<1> QED
  BY <1>1 DEF ProductRow

LEMMA RowPlaces ==
    ASSUME EInv PROVE DOMAIN products = 1..Len(products) /\ DOMAIN products \subseteq 1..MaxProducts
<1>1. Len(products) \in Nat /\ Len(products) <= MaxProducts /\ DOMAIN products = 1..Len(products)
  BY DEF EInv, RowsInv
<1>2. MaxProducts \in Nat
  BY CatalogAssumption
<1> QED
  BY <1>1, <1>2

\* A step of a call that neither writes a row nor has an embedding to leave.
LEMMA CallSteps ==
    ASSUME EInv, NEW c \in Caller, Shaped', \A d \in Caller \ {c} : call'[d] = call[d],
           UNCHANGED <<products, texts, jobs, alone>>, ~Embeds(c), ~Embeds(c)', PlaceInv(c)'
    PROVE  EInv'
<1>1. \A d \in Caller \ {c} : /\ Embeds(d)' <=> Embeds(d)
                              /\ PlaceInv(d) => PlaceInv(d)'
  BY DEF Embeds, At, ShouldReembed, PlaceInv, OfProducts
<1>2. \A d \in Caller : PlaceInv(d)'
  BY <1>1 DEF EInv
<1>3. \A id \in DOMAIN products : Current(id) => Current(id)'
  BY <1>1 DEF Current
<1> QED
  BY <1>2, <1>3 DEF EInv, RowsInv, JobInv

LEMMA CallAnswers ==
    ASSUME EInv, NEW c \in Caller, NEW r, Answers(c, r), ~Embeds(c),
           UNCHANGED <<products, texts, jobs, alone>>
    PROVE  EInv'
<1>1. /\ Shaped' /\ call'[c].at = "idle" /\ call'[c].req = NoRequest
      /\ \A d \in Caller \ {c} : call'[d] = call[d]
  BY AnswerEnds DEF EInv
<1>2. ~Embeds(c)' /\ PlaceInv(c)'
  BY <1>1 DEF Embeds, At, PlaceInv
<1> QED
  BY <1>1, <1>2, CallSteps

LEMMA CallGoes ==
    ASSUME EInv, NEW c \in Caller, NEW s, NEW l, Goes(c, s, l), ~Embeds(c),
           DOMAIN l = {"rows", "flags", "count", "id", "text"},
           UNCHANGED <<span, products, texts, jobs, alone>>, s # "boot",
           s = "alert" => call[c].req.op # "createProduct",
           s = "flag" => call[c].req.op # "patch" \/ ~ShouldReembed(call[c].req.fields),
           s \in {"newCategory", "write", "flag"} =>
               /\ l.id \in DOMAIN products /\ l.text \in Nat
               /\ s \in {"newCategory", "write"} => call[c].req.id = l.id
    PROVE  EInv'
<1>1. /\ call'[c].at = s /\ call'[c].local = l /\ call'[c].req = call[c].req
      /\ DOMAIN call' = Caller /\ DOMAIN call'[c] = {"req", "at", "local"}
      /\ \A d \in Caller \ {c} : call'[d] = call[d]
  BY GoesOn DEF EInv
<1>2. Shaped'
  BY <1>1 DEF EInv, Shaped
<1>3. ~Embeds(c)'
  BY <1>1 DEF Embeds, At, ShouldReembed
<1>4. PlaceInv(c)'
  BY <1>1 DEF EInv, PlaceInv, At
<1> QED
  BY <1>1, <1>2, <1>3, <1>4, CallSteps

\* The rows that a step of a call leaves to the others.
LEMMA CallReads ==
    ASSUME EInv, NEW c \in Caller, CatalogServes(c), ~InsertProduct(c), ~OpenFirstAlert(c),
           ~WriteProduct(c), ~ReadFlag(c), ~StatementFails(c)
    PROVE  EInv'
<1> USE NoLocalsFields DEF Silent, tables, At
<1>1. CASE Bootstrap(c)
  <2>1. call[c].at = "boot" /\ OfProducts(call[c].req.op)
    BY <1>1 DEF Bootstrap, EInv, PlaceInv
  <2>2. FirstStep(call[c].req.op) \in {"category", "find", "flags", "embed"}
    BY <2>1 DEF OfProducts, FirstStep
  <2> QED
    BY <1>1, <2>1, <2>2, CallAnswers, CallGoes DEF Bootstrap, Embeds
<1>2. CASE FindCategory(c) \/ FindSku(c)
  BY <1>2, CallAnswers, CallGoes DEF FindCategory, FindSku, Embeds
<1>3. CASE FindProduct(c)
  <2> DEFINE req == call[c].req
             l == [NoLocals EXCEPT !.id = req.id, !.text = products[req.id].text]
             s == AfterFind(req)
  <2>1. CASE req.id \notin DOMAIN products
    BY <1>3, <2>1, CallAnswers DEF FindProduct, Embeds
  <2>2. CASE req.id \in DOMAIN products
    <3>1. products[req.id].text \in Nat
      BY <2>2, RowFields
    <3>2. /\ DOMAIN l = {"rows", "flags", "count", "id", "text"}
          /\ l.id = req.id /\ l.text = products[req.id].text
      BY DEF NoLocals
    <3>3. /\ Goes(c, s, l) /\ call[c].at = "find" /\ UNCHANGED <<span, products, texts, jobs, alone>>
      BY <1>3, <2>2 DEF FindProduct
    <3> HIDE DEF l
    <3> QED
      BY <2>2, <3>1, <3>2, <3>3, CallGoes DEF Embeds, AfterFind
  <2> QED
    BY <2>1, <2>2
<1>12. CASE FindNewCategory(c)
  BY <1>12, CallAnswers, CallGoes DEF FindNewCategory, Embeds, EInv, Shaped, PlaceInv
<1>4. CASE FindFlagged(c) \/ ReadItems(c) \/ ReadCount(c)
  BY <1>4, CallAnswers, CallGoes
     DEF FindFlagged, FirstRead, ReadItems, ReadCount, Embeds, EInv, Shaped
<1>5. CASE FindAlert(c) \/ FindAlertProduct(c)
  BY <1>5, CallAnswers, CallGoes DEF FindAlert, FindAlertProduct, Embeds
<1>6. CASE FindName(c) \/ InsertCategory(c)
  BY <1>6, CallAnswers, CallGoes DEF FindName, InsertCategory, Embeds
<1>7. CASE EmbedQuery(c) \/ FindByEmbedding(c)
  BY <1>7, CallAnswers, CallGoes DEF EmbedQuery, FindByEmbedding, Embeds
<1> QED
  BY <1>1, <1>2, <1>3, <1>4, <1>5, <1>6, <1>7, <1>12 DEF CatalogServes

\* A call that stops, or reads its flag, with nothing left to be embedded, or
\* gives up what it had to.
LEMMA CallFails == ASSUME EInv, NEW c \in Caller, StatementFails(c) PROVE EInv'
<1> USE DEF tables
<1>1. CASE ~At(c, "patch", "flag")
  BY <1>1, CallAnswers DEF StatementFails, Embeds
<1>2. CASE At(c, "patch", "flag")
  <2> DEFINE id == call[c].local.id
  <2>1. /\ Shaped' /\ call'[c].at = "idle" /\ call'[c].req = NoRequest
        /\ \A d \in Caller \ {c} : call'[d] = call[d]
    BY AnswerEnds DEF EInv, StatementFails
  <2>2. /\ UNCHANGED <<products, texts, jobs>>
        /\ alone' = [alone EXCEPT ![id] = FALSE]
    BY <1>2 DEF StatementFails
  <2>3. /\ id \in 1..MaxProducts
        /\ alone' \in [1..MaxProducts -> BOOLEAN] /\ ~alone'[id]
        /\ \A i \in 1..MaxProducts : i # id => alone'[i] = alone[i]
    BY <1>2, <2>2, RowPlaces DEF EInv, PlaceInv, At, RowsInv
  <2>4. \A d \in Caller \ {c} : (Embeds(d)' <=> Embeds(d)) /\ (PlaceInv(d) => PlaceInv(d)')
    BY <2>1, <2>2 DEF Embeds, At, ShouldReembed, PlaceInv, OfProducts
  <2>5. ~Embeds(c)' /\ PlaceInv(c)'
    BY <2>1 DEF Embeds, At, PlaceInv
  <2>6. ASSUME NEW i \in DOMAIN products, alone'[i] PROVE Current(i)'
    <3>1. i # id /\ alone[i]
      BY <2>3, <2>6, RowPlaces
    <3>2. Current(i)
      BY <3>1 DEF EInv
    <3> QED
      BY <2>1, <2>2, <2>4, <2>5, <3>1, <3>2 DEF Current
  <2> QED
    BY <2>1, <2>2, <2>3, <2>4, <2>5, <2>6 DEF EInv, RowsInv, JobInv
<1> QED
  BY <1>1, <1>2

\* Jobs and calls of others are as they were when a call leaves its job.
LEMMA CallLeavesJob ==
    ASSUME EInv, NEW c \in Caller, Embeds(c), Shaped', call'[c] = NothingAsked,
           \A d \in Caller \ {c} : call'[d] = call[d],
           jobs' = jobs \cup {Job(call[c].local.id, call[c].local.text)},
           UNCHANGED <<products, texts, alone>>
    PROVE  EInv'
<1> DEFINE k == Job(call[c].local.id, call[c].local.text)
<1>1. /\ k.id = call[c].local.id /\ k.text = call[c].local.text
      /\ DOMAIN k = {"id", "text", "tries", "vector"}
  BY DEF Job
<1>2. k.id \in DOMAIN products /\ k.text \in Nat
  BY <1>1 DEF EInv, PlaceInv, Embeds, At
<1> HIDE DEF k
<1>3. \A d \in Caller \ {c} : (Embeds(d)' <=> Embeds(d)) /\ (PlaceInv(d) => PlaceInv(d)')
  BY DEF Embeds, At, ShouldReembed, PlaceInv, OfProducts
<1>4. ~Embeds(c)' /\ PlaceInv(c)'
  BY NothingAskedFields DEF Embeds, At, PlaceInv
<1>5. \A j \in jobs' : JobInv(j)'
  BY <1>1, <1>2 DEF k, EInv, JobInv
<1>6. ASSUME NEW i \in DOMAIN products, Current(i) PROVE Current(i)'
  <2>1. k.id = i => k.text = products[i].text
    BY <1>1, <1>6 DEF Current
  <2>2. jobs' = jobs \cup {k}
    BY DEF k
  <2>3. \A j \in jobs' : j.id = i => j.text = products[i].text
    BY <1>6, <2>1, <2>2 DEF Current
  <2>4. \A d \in Caller : Embeds(d)' /\ call'[d].local.id = i => call'[d].local.text = products[i].text
    BY <1>3, <1>4, <1>6 DEF Current
  <2>5. \/ \E d \in Caller : Embeds(d)' /\ call'[d].local.id = i
        \/ \E j \in jobs' : j.id = i
        \/ products[i].embedded = products[i].text
    <3>1. CASE \E d \in Caller : Embeds(d) /\ call[d].local.id = i
      BY <1>1, <1>3, <2>2, <3>1
    <3>2. CASE ~\E d \in Caller : Embeds(d) /\ call[d].local.id = i
      BY <1>6, <2>2, <3>2 DEF Current
    <3> QED
      BY <3>1, <3>2
  <2> QED
    BY <2>3, <2>4, <2>5 DEF Current
<1> QED
  BY <1>3, <1>4, <1>5, <1>6 DEF EInv, RowsInv

LEMMA CallReadsFlag == ASSUME EInv, NEW c \in Caller, ReadFlag(c) PROVE EInv'
<1> USE DEF tables
<1>1. CASE Embeds(c)
  <2>1. At(c, "patch", "flag") /\ ShouldReembed(call[c].req.fields)
    BY <1>1 DEF ReadFlag, Embeds, At
  <2>2. PICK r : Answers(c, r)
    BY DEF ReadFlag
  <2> QED
    BY <1>1, <2>1, <2>2, AnswerEnds, CallLeavesJob DEF ReadFlag, At, EInv
<1>2. CASE ~Embeds(c)
  <2>1. jobs' = jobs
    BY <1>2 DEF ReadFlag, Embeds, At
  <2> QED
    BY <1>2, <2>1, CallAnswers DEF ReadFlag
<1> QED
  BY <1>1, <1>2

LEMMA CallOpens == ASSUME EInv, NEW c \in Caller, OpenFirstAlert(c) PROVE EInv'
<1>1. /\ call' = [call EXCEPT ![c] = NothingAsked] /\ DOMAIN span' = Caller
      /\ jobs' = jobs \cup {Job(call[c].local.id, call[c].local.text)}
      /\ UNCHANGED <<products, texts, alone>> /\ Embeds(c)
  BY DEF OpenFirstAlert, Embeds
<1>2. call'[c] = NothingAsked /\ \A d \in Caller \ {c} : call'[d] = call[d]
  BY <1>1 DEF EInv, Shaped
<1>3. Shaped'
  BY <1>1, <1>2, NothingAskedFields DEF EInv, Shaped
<1> QED
  BY <1>1, <1>2, <1>3, CallLeavesJob

\* A row keeps what it has coming when only other rows and their calls change.
LEMMA OthersKeep ==
    ASSUME EInv, NEW c \in Caller, NEW i \in DOMAIN products, Current(i),
           ~Embeds(c), Embeds(c)' => call'[c].local.id # i,
           \A d \in Caller \ {c} : call'[d] = call[d], jobs' = jobs,
           products'[i] = products[i]
    PROVE  Current(i)'
<1>1. \A d \in Caller \ {c} : Embeds(d)' <=> Embeds(d)
  BY DEF Embeds, At, ShouldReembed
<1> QED
  BY <1>1 DEF Current

\* The UPDATE: with nothing else of the row under way, what it leaves to be
\* embedded is its text.
LEMMA CallWritesText ==
    ASSUME EInv, NEW c \in Caller, At(c, "patch", "write"), WriteProduct(c),
           call[c].req.fields \cap InText # {}
    PROVE  EInv'
<1> DEFINE id == call[c].req.id
           l == [call[c].local EXCEPT !.text = texts + 1]
<1>1. id \in DOMAIN products /\ call[c].local.id = id
  BY DEF EInv, PlaceInv, At
<1>2. /\ Goes(c, "flag", l) /\ UNCHANGED <<jobs, span>>
      /\ products' = [products EXCEPT ![id].text = texts + 1] /\ texts' = texts + 1
      /\ alone' = [alone EXCEPT ![id] = Unfinished(id) = {} /\ JobsOf(id) = {}]
  BY DEF WriteProduct, TextReturned
<1>3. /\ DOMAIN l = {"rows", "flags", "count", "id", "text"}
      /\ l.id = id /\ l.text = texts + 1
  BY <1>1 DEF EInv, Shaped
<1> HIDE DEF l
<1>4. /\ call'[c].at = "flag" /\ call'[c].local = l /\ call'[c].req = call[c].req
      /\ DOMAIN call' = Caller /\ DOMAIN call'[c] = {"req", "at", "local"}
      /\ \A d \in Caller \ {c} : call'[d] = call[d]
  BY <1>2, GoesOn DEF EInv
<1>5. Shaped'
  BY <1>2, <1>3, <1>4 DEF EInv, Shaped
<1>6. texts \in Nat /\ texts + 1 \in Nat
  BY DEF EInv, RowsInv
<1>7. /\ DOMAIN products' = DOMAIN products /\ Len(products') = Len(products)
      /\ products' \in Seq(ProductRow)
      /\ \A i \in DOMAIN products : i # id => products'[i] = products[i]
      /\ products'[id].text = texts + 1
  <2>1. products[id] \in ProductRow
    BY <1>1, RowFields
  <2>2. [products[id] EXCEPT !.text = texts + 1] \in ProductRow
    BY <1>6, <2>1 DEF ProductRow
  <2>3. [products[id] EXCEPT !.text = texts + 1].text = texts + 1
    BY <2>1 DEF ProductRow
  <2>4. products \in Seq(ProductRow)
    BY DEF EInv, RowsInv
  <2>5. products' = [products EXCEPT ![id] = [products[id] EXCEPT !.text = texts + 1]]
    BY <1>2
  <2>6. DOMAIN products' = DOMAIN products /\ Len(products') = Len(products)
    BY <2>4, <2>5
  <2>7. products' \in Seq(ProductRow)
    BY <1>1, <2>2, <2>4, <2>5
  <2>8. /\ products'[id].text = texts + 1
        /\ \A i \in DOMAIN products : i # id => products'[i] = products[i]
    BY <1>1, <2>3, <2>5
  <2> QED
    BY <2>6, <2>7, <2>8
<1>8. /\ alone' \in [1..MaxProducts -> BOOLEAN]
      /\ alone'[id] => Unfinished(id) = {} /\ JobsOf(id) = {}
      /\ \A i \in 1..MaxProducts : i # id => alone'[i] = alone[i]
  <2>1. id \in 1..MaxProducts /\ alone \in [1..MaxProducts -> BOOLEAN]
    BY <1>1, RowPlaces DEF EInv, RowsInv
  <2>2. (Unfinished(id) = {} /\ JobsOf(id) = {}) \in BOOLEAN
    OBVIOUS
  <2> QED
    BY <1>2, <2>1, <2>2
<1>9. \A d \in Caller : PlaceInv(d)'
  <2>1. \A d \in Caller \ {c} : PlaceInv(d)'
    BY <1>4, <1>7 DEF EInv, PlaceInv, At
  <2>2. PlaceInv(c)'
    BY <1>1, <1>3, <1>4, <1>6, <1>7 DEF EInv, PlaceInv, At
  <2> QED
    BY <2>1, <2>2
<1>10. ~Embeds(c) /\ Embeds(c)'
  BY <1>4 DEF Embeds, At, ShouldReembed
<1>11. ASSUME NEW i \in DOMAIN products, alone'[i] PROVE Current(i)'
  <2>1. CASE i = id
    <3>1. Unfinished(id) = {} /\ JobsOf(id) = {}
      BY <1>8, <1>11, <2>1
    <3>2. \A j \in jobs' : j.id # id
      BY <1>2, <3>1 DEF JobsOf
    <3>3. \A d \in Caller \ {c} : ~(Embeds(d)' /\ call'[d].local.id = id)
      BY <1>4, <3>1 DEF Unfinished, Embeds, At
    <3> QED
      BY <1>3, <1>4, <1>7, <1>10, <2>1, <3>2, <3>3 DEF Current
  <2>2. CASE i # id
    <3>1. Current(i)
      BY <1>8, <1>11, <2>2, RowPlaces DEF EInv
    <3> QED
      BY <1>2, <1>3, <1>4, <1>7, <1>10, <2>2, <3>1, OthersKeep
  <2> QED
    BY <2>1, <2>2
<1>12. \A j \in jobs' : JobInv(j)'
  BY <1>2, <1>7 DEF EInv, JobInv
<1> QED
  BY <1>2, <1>5, <1>6, <1>7, <1>8, <1>9, <1>11, <1>12 DEF EInv, RowsInv

LEMMA CallWrites == ASSUME EInv, NEW c \in Caller, WriteProduct(c) PROVE EInv'
<1>1. At(c, "patch", "write")
  BY DEF WriteProduct
<1>2. CASE call[c].req.fields \cap InText = {}
  <2> DEFINE l == [call[c].local EXCEPT !.text = products[call[c].req.id].text]
  <2>1. call[c].req.id \in DOMAIN products /\ call[c].local.id = call[c].req.id
    BY <1>1 DEF EInv, PlaceInv, At
  <2>2. /\ DOMAIN l = {"rows", "flags", "count", "id", "text"}
        /\ l.id = call[c].req.id /\ l.text = products[call[c].req.id].text
    BY <2>1 DEF EInv, Shaped
  <2>3. Goes(c, "flag", l) /\ UNCHANGED <<span, products, texts, jobs, alone>>
    BY <1>2 DEF WriteProduct
  <2>4. products[call[c].req.id].text \in Nat
    BY <2>1, RowFields
  <2>5. ~Embeds(c) /\ ~ShouldReembed(call[c].req.fields)
    BY <1>1, <1>2 DEF Embeds, At, ShouldReembed
  <2> HIDE DEF l
  <2> QED
    BY <2>1, <2>2, <2>3, <2>4, <2>5, CallGoes
<1> QED
  BY <1>1, <1>2, CallWritesText

\* The INSERT: nothing was under way for a row that was not there.
LEMMA CallInserts == ASSUME EInv, NEW c \in Caller, InsertProduct(c) PROVE EInv'
<1>1. At(c, "createProduct", "insert") /\ ~Embeds(c)
  BY DEF InsertProduct, Embeds, At
<1>2. CASE TakenSku(call[c].req.sku)
  BY <1>1, <1>2, CallAnswers DEF InsertProduct
<1>3. CASE ~TakenSku(call[c].req.sku)
  <2> DEFINE id == Len(products) + 1
             row == [sku |-> call[c].req.sku, text |-> texts + 1, embedded |-> 0]
             l == [NoLocals EXCEPT !.id = id, !.text = texts + 1]
  <2>1. /\ Len(products) < MaxProducts /\ products' = Append(products, row)
        /\ texts' = texts + 1 /\ Goes(c, "alert", l) /\ UNCHANGED <<jobs, alone, span>>
    BY <1>3 DEF InsertProduct, Silent
  <2>2. /\ DOMAIN l = {"rows", "flags", "count", "id", "text"}
        /\ l.id = id /\ l.text = texts + 1
    BY DEF NoLocals
  <2>3. /\ texts \in Nat /\ Len(products) \in Nat /\ texts + 1 \in Nat
        /\ products \in Seq(ProductRow) /\ MaxProducts \in Nat
        /\ DOMAIN products = 1..Len(products)
    BY CatalogAssumption DEF EInv, RowsInv
  <2> HIDE DEF l
  <2>4. /\ call'[c].at = "alert" /\ call'[c].local = l /\ call'[c].req = call[c].req
        /\ DOMAIN call' = Caller /\ DOMAIN call'[c] = {"req", "at", "local"}
        /\ \A d \in Caller \ {c} : call'[d] = call[d]
    BY <2>1, GoesOn DEF EInv
  <2>5. Shaped'
    BY <2>1, <2>2, <2>4 DEF EInv, Shaped
  <2>6. row \in ProductRow
    <3>1. call[c].req.sku \in SkuValue
      <4>1. call[c].req \in Request /\ call[c].req.op = "createProduct"
        BY <1>1 DEF EInv, PlaceInv, At, NoRequest
      <4> QED
        BY <4>1 DEF Request, CreateProductRequest, PatchRequest, GetProductRequest, SearchRequest,
                    CreateCategoryRequest, GetAlertRequest, ListProductsRequest,
                    ListAlertsRequest, ListMovementsRequest
    <3> QED
      BY <2>3, <3>1 DEF ProductRow
  <2>7. row.text = texts + 1
    OBVIOUS
  <2> HIDE DEF row
  <2>8. products' \in Seq(ProductRow) /\ Len(products') = Len(products) + 1
    BY <2>1, <2>3, <2>6
  <2>9. DOMAIN products' = 1..(Len(products) + 1)
    BY <2>3, <2>8
  <2>10. products'[id] = row /\ \A i \in DOMAIN products : products'[i] = products[i]
    BY <2>1, <2>3, <2>6
  <2>11. id \notin DOMAIN products /\ id \in DOMAIN products' /\ DOMAIN products \subseteq DOMAIN products'
    BY <2>3, <2>9
  <2>12. \A d \in Caller : PlaceInv(d)'
    <3>1. \A d \in Caller \ {c} : PlaceInv(d)'
      BY <2>4, <2>11 DEF EInv, PlaceInv, At
    <3>2. PlaceInv(c)'
      BY <2>2, <2>3, <2>4, <2>11 DEF EInv, PlaceInv
    <3> QED
      BY <3>1, <3>2
  <2>13. \A j \in jobs' : JobInv(j)'
    BY <2>1, <2>11 DEF EInv, JobInv
  <2>14. ASSUME NEW i \in DOMAIN products', alone'[i] PROVE Current(i)'
    <3>1. CASE i = id
      <4>1. \A j \in jobs' : j.id # id
        BY <2>1, <2>11 DEF EInv, JobInv
      <4>2. \A d \in Caller \ {c} : ~(Embeds(d)' /\ call'[d].local.id = id)
        BY <2>4, <2>11 DEF EInv, PlaceInv, Embeds, At
      <4>3. Embeds(c)'
        BY <1>1, <2>4 DEF Embeds, At
      <4> QED
        BY <2>2, <2>4, <2>7, <2>10, <3>1, <4>1, <4>2, <4>3 DEF Current
    <3>2. CASE i # id
      <4>1. i \in DOMAIN products
        BY <2>3, <2>9, <3>2
      <4>2. Current(i)
        BY <2>1, <2>14, <4>1 DEF EInv
      <4> QED
        BY <1>1, <2>1, <2>2, <2>4, <2>10, <3>2, <4>1, <4>2, OthersKeep
    <3> QED
      BY <3>1, <3>2
  <2>15. Len(products') <= MaxProducts /\ texts' \in Nat
    BY <2>1, <2>3, <2>8
  <2> QED
    BY <2>1, <2>5, <2>8, <2>12, <2>13, <2>14, <2>15 DEF EInv, RowsInv
<1> QED
  BY <1>2, <1>3

LEMMA CallArrives == ASSUME EInv, NEW c \in Caller, CatalogArrive(c) PROVE EInv'
<1>1. PICK req \in Requests :
          call' = [call EXCEPT ![c] = [req |-> req, local |-> NoLocals,
                     at |-> IF OfProducts(req.op) THEN "boot" ELSE FirstStep(req.op)]]
  BY DEF CatalogArrive
<1>2. /\ call'[c].req = req /\ DOMAIN call'[c] = {"req", "at", "local"}
      /\ call'[c].local = NoLocals
      /\ call'[c].at = (IF OfProducts(req.op) THEN "boot" ELSE FirstStep(req.op))
      /\ \A d \in Caller \ {c} : call'[d] = call[d]
      /\ DOMAIN call' = Caller
  BY <1>1 DEF EInv, Shaped
<1>3. Shaped' /\ UNCHANGED <<products, texts, jobs, alone>>
  BY <1>2, NoLocalsFields DEF CatalogArrive, EInv, Shaped, tables
<1>4. req \in Request
  BY CatalogAssumption
<1>5. req.op \in {"createProduct", "patch", "get", "products", "search", "createCategory",
                  "getAlert", "alerts", "movements"}
  BY <1>4
     DEF Request, CreateProductRequest, PatchRequest, GetProductRequest, SearchRequest,
         CreateCategoryRequest, GetAlertRequest, ListProductsRequest, ListAlertsRequest,
         ListMovementsRequest
<1>6. /\ call'[c].at \notin {"newCategory", "write", "flag"} /\ ~At(c, "createProduct", "alert")'
      /\ call'[c].at = "boot" => OfProducts(req.op)
  BY <1>2, <1>5 DEF OfProducts, FirstStep, FirstRead, At
<1>7. ~Embeds(c) /\ ~Embeds(c)'
  BY <1>6 DEF CatalogArrive, Embeds, At
<1>8. PlaceInv(c)'
  BY <1>2, <1>4, <1>6 DEF PlaceInv
<1> QED
  BY <1>2, <1>3, <1>7, <1>8, CallSteps

\* A job that changes, or ends, for a row that is given up.
LEMMA CallsSame ==
    ASSUME call' = call, DOMAIN products' = DOMAIN products, NEW d \in Caller
    PROVE  (Embeds(d)' <=> Embeds(d)) /\ (PlaceInv(d) => PlaceInv(d)')
  BY DEF Embeds, At, ShouldReembed, PlaceInv, OfProducts

LEMMA JobChanges ==
    ASSUME EInv, NEW j \in jobs, NEW k, JobInv(k), k.id = j.id, k.text = j.text,
           jobs' = (jobs \ {j}) \cup {k}, UNCHANGED <<call, span, products, texts, alone>>
    PROVE  EInv'
<1>1. \A d \in Caller : (Embeds(d)' <=> Embeds(d)) /\ PlaceInv(d)'
  BY CallsSame DEF EInv
<1>2. ASSUME NEW i \in DOMAIN products, Current(i) PROVE Current(i)'
  <2>1. \A m \in jobs' : m.id = i => m.text = products[i].text
    BY <1>2 DEF Current
  <2>2. (\E m \in jobs : m.id = i) => \E m \in jobs' : m.id = i
    OBVIOUS
  <2> QED
    BY <1>1, <1>2, <2>1, <2>2 DEF Current
<1> QED
  BY <1>1, <1>2 DEF EInv, Shaped, RowsInv, JobInv

LEMMA JobGivenUp ==
    ASSUME EInv, NEW j \in jobs, jobs' = jobs \ {j}, alone' = [alone EXCEPT ![j.id] = FALSE],
           UNCHANGED <<call, span, products, texts>>
    PROVE  EInv'
<1>1. \A d \in Caller : (Embeds(d)' <=> Embeds(d)) /\ PlaceInv(d)'
  BY CallsSame DEF EInv
<1>2. /\ j.id \in 1..MaxProducts /\ alone' \in [1..MaxProducts -> BOOLEAN] /\ ~alone'[j.id]
      /\ \A i \in 1..MaxProducts : i # j.id => alone'[i] = alone[i]
  BY RowPlaces DEF EInv, JobInv, RowsInv
<1>3. ASSUME NEW i \in DOMAIN products, alone'[i] PROVE Current(i)'
  <2>1. i # j.id /\ alone[i]
    BY <1>2, <1>3, RowPlaces
  <2>2. Current(i)
    BY <2>1 DEF EInv
  <2> QED
    BY <1>1, <2>1, <2>2 DEF Current
<1> QED
  BY <1>1, <1>2, <1>3 DEF EInv, Shaped, RowsInv, JobInv

\* Storing: what a job of an undisturbed row holds is the row's text.
LEMMA JobStores ==
    ASSUME EInv, NEW j \in jobs, jobs' = jobs \ {j},
           products' = [products EXCEPT ![j.id].embedded = j.text],
           UNCHANGED <<call, span, texts, alone>>
    PROVE  EInv'
<1>1. j.id \in DOMAIN products /\ j.text \in Nat
  BY DEF EInv, JobInv
<1>2. products \in Seq(ProductRow) /\ products[j.id] \in ProductRow
  BY <1>1, RowFields DEF EInv, RowsInv
<1>3. [products[j.id] EXCEPT !.embedded = j.text] \in ProductRow
  BY <1>1, <1>2 DEF ProductRow
<1>4. /\ [products[j.id] EXCEPT !.embedded = j.text].embedded = j.text
      /\ [products[j.id] EXCEPT !.embedded = j.text].text = products[j.id].text
  BY <1>2 DEF ProductRow
<1>5. products' = [products EXCEPT ![j.id] = [products[j.id] EXCEPT !.embedded = j.text]]
  OBVIOUS
<1>6. DOMAIN products' = DOMAIN products /\ Len(products') = Len(products)
  BY <1>2, <1>5
<1>7. products' \in Seq(ProductRow)
  BY <1>1, <1>2, <1>3, <1>5
<1>8. /\ products'[j.id].embedded = j.text /\ products'[j.id].text = products[j.id].text
      /\ \A i \in DOMAIN products : i # j.id => products'[i] = products[i]
  BY <1>1, <1>4, <1>5
<1>9. \A d \in Caller : (Embeds(d)' <=> Embeds(d)) /\ PlaceInv(d)'
  BY <1>6, CallsSame DEF EInv
<1>10. ASSUME NEW i \in DOMAIN products, Current(i) PROVE Current(i)'
  <2>1. products'[i].text = products[i].text
    BY <1>8
  <2>2. i = j.id => products'[i].embedded = products'[i].text
    BY <1>8, <1>10 DEF Current
  <2>3. i # j.id => products'[i] = products[i]
    BY <1>8
  <2> QED
    BY <1>9, <1>10, <2>1, <2>2, <2>3 DEF Current
<1>11. \A m \in jobs' : JobInv(m)'
  BY <1>6 DEF EInv, JobInv
<1> QED
  BY <1>6, <1>7, <1>9, <1>10, <1>11 DEF EInv, Shaped, RowsInv

LEMMA JobSteps == ASSUME EInv, NEW j \in jobs, EmbedText(j) \/ StoreEmbedding(j) PROVE EInv'
<1> USE DEF tables
<1>1. JobInv(j)
  BY DEF EInv
<1>2. /\ JobInv([j EXCEPT !.vector = TRUE]) /\ JobInv([j EXCEPT !.tries = @ + 1])
      /\ [j EXCEPT !.vector = TRUE].id = j.id /\ [j EXCEPT !.vector = TRUE].text = j.text
      /\ [j EXCEPT !.tries = @ + 1].id = j.id /\ [j EXCEPT !.tries = @ + 1].text = j.text
  BY <1>1 DEF JobInv
<1>3. CASE EmbedText(j)
  <2>1. UNCHANGED <<call, span, products, texts>>
    BY <1>3 DEF EmbedText
  <2>2. \/ jobs' = (jobs \ {j}) \cup {[j EXCEPT !.vector = TRUE]} /\ UNCHANGED alone
        \/ jobs' = (jobs \ {j}) \cup {[j EXCEPT !.tries = @ + 1]} /\ UNCHANGED alone
        \/ jobs' = jobs \ {j} /\ alone' = [alone EXCEPT ![j.id] = FALSE]
    BY <1>3 DEF EmbedText
  <2> QED
    BY <1>2, <2>1, <2>2, JobChanges, JobGivenUp
<1>4. CASE StoreEmbedding(j)
  BY <1>4, JobStores, JobGivenUp DEF StoreEmbedding
<1> QED
  BY <1>3, <1>4

\* The process ends: a row with nothing under way holds the embedding of its text.
LEMMA RowAtRest ==
    ASSUME EInv, NEW i \in DOMAIN products, alone[i], Unfinished(i) = {}, JobsOf(i) = {}
    PROVE  products[i].embedded = products[i].text
<1>1. Current(i)
  BY DEF EInv
<1>2. ~\E j \in jobs : j.id = i
  BY DEF JobsOf
<1>3. ~\E c \in Caller : Embeds(c) /\ call[c].local.id = i
  BY DEF Unfinished, Embeds, At
<1> QED
  BY <1>1, <1>2, <1>3 DEF Current

LEMMA EmbeddingsEnd == ASSUME EInv, ProcessEnds PROVE EInv'
<1>1. /\ call' = [c \in Caller |-> NothingAsked] /\ DOMAIN span' = Caller
      /\ jobs' = {} /\ UNCHANGED <<products, texts>>
      /\ alone' = [i \in 1..MaxProducts |-> alone[i] /\ Unfinished(i) = {} /\ JobsOf(i) = {}]
  BY DEF ProcessEnds, tables
<1>2. \A c \in Caller : call'[c] = NothingAsked
  BY <1>1
<1>3. Shaped'
  BY <1>1, <1>2, NothingAskedFields DEF Shaped
<1>4. \A c \in Caller : ~Embeds(c)' /\ PlaceInv(c)'
  BY <1>2, NothingAskedFields DEF Embeds, At, PlaceInv
<1>5. ASSUME NEW i \in DOMAIN products, alone'[i] PROVE Current(i)'
  <2>1. alone[i] /\ Unfinished(i) = {} /\ JobsOf(i) = {}
    BY <1>1, <1>5, RowPlaces
  <2> QED
    BY <1>1, <1>4, <2>1, RowAtRest DEF Current
<1>6. alone' \in [1..MaxProducts -> BOOLEAN]
  <2>1. \A i \in 1..MaxProducts : (alone[i] /\ Unfinished(i) = {} /\ JobsOf(i) = {}) \in BOOLEAN
    OBVIOUS
  <2> QED
    BY <1>1, <2>1
<1> QED
  BY <1>1, <1>3, <1>4, <1>5, <1>6 DEF EInv, RowsInv

LEMMA EmbeddingsKept ==
    ASSUME EInv, UNCHANGED <<call, products, texts, jobs, alone>>, DOMAIN span' = Caller
    PROVE  EInv'
<1>1. \A d \in Caller : (Embeds(d)' <=> Embeds(d)) /\ PlaceInv(d)'
  BY CallsSame DEF EInv
<1>2. \A i \in DOMAIN products : Current(i) => Current(i)'
  BY <1>1 DEF Current
<1> QED
  BY <1>1, <1>2 DEF EInv, Shaped, RowsInv, JobInv

LEMMA EInvStep == EInv /\ [CatalogNext]_catalogVars => EInv'
<1> SUFFICES ASSUME EInv, [CatalogNext]_catalogVars PROVE EInv'
  OBVIOUS
<1>1. ASSUME NEW c \in Caller, CatalogArrive(c) \/ CatalogServes(c) PROVE EInv'
  BY <1>1, CallArrives, CallInserts, CallOpens, CallWrites, CallReadsFlag, CallFails, CallReads
<1>2. ASSUME NEW j \in jobs, EmbedText(j) \/ StoreEmbedding(j) PROVE EInv'
  BY <1>2, JobSteps
<1>3. CASE ProcessEnds
  BY <1>3, EmbeddingsEnd
<1>4. CASE StockMoves
  BY <1>4, EmbeddingsKept DEF StockMoves, SpansSee
<1>5. CASE UNCHANGED catalogVars
  BY <1>5, EmbeddingsKept DEF catalogVars, tables, EInv, Shaped
<1> QED
  BY <1>1, <1>2, <1>3, <1>4, <1>5 DEF CatalogNext

LEMMA EInvInit == CatalogInit => EInv
<1> SUFFICES ASSUME CatalogInit PROVE EInv
  OBVIOUS
<1>1. /\ \A c \in Caller : call[c] = NothingAsked
      /\ DOMAIN call = Caller /\ DOMAIN span = Caller
      /\ products = FirstProducts /\ texts = 0 /\ jobs = {}
      /\ alone = [i \in 1..MaxProducts |-> i > Len(FirstProducts)]
  BY DEF CatalogInit
<1>2. /\ FirstProducts \in Seq(ProductRow) /\ Len(FirstProducts) <= MaxProducts
      /\ MaxProducts \in Nat /\ Len(FirstProducts) \in Nat
      /\ DOMAIN FirstProducts = 1..Len(FirstProducts)
  BY CatalogAssumption
<1>3. Shaped
  BY <1>1, NothingAskedFields DEF Shaped
<1>4. RowsInv
  <2>1. \A i \in 1..MaxProducts : (i > Len(FirstProducts)) \in BOOLEAN
    OBVIOUS
  <2> QED
    BY <1>1, <1>2, <2>1 DEF RowsInv
<1>5. \A c \in Caller : PlaceInv(c)
  BY <1>1, NothingAskedFields DEF PlaceInv, At
<1>6. ASSUME NEW i \in DOMAIN products PROVE ~alone[i]
  <2>1. i \in 1..Len(FirstProducts)
    BY <1>1, <1>2
  <2>2. i \in 1..MaxProducts /\ ~(i > Len(FirstProducts))
    BY <1>2, <2>1
  <2> QED
    BY <1>1, <2>2
<1> QED
  BY <1>1, <1>3, <1>4, <1>5, <1>6 DEF EInv

\* A product whose last text was written with nothing else of it under way
\* comes to rest on the embedding of that text, however many calls, failures and
\* ends of the process there are.
THEOREM EmbeddingSettles == CatalogSpec => []EmbeddingOfCurrentText
<1>1. EInv => EmbeddingOfCurrentText
  BY RowAtRest DEF EmbeddingOfCurrentText
<1> QED
  BY <1>1, EInvInit, EInvStep, PTL DEF CatalogSpec

-----------------------------------------------------------------------------
(* Totals *)

\* Lists whose selection only grows: rows of products and alerts stay, and the
\* flags are read once.
Whole(req) == req.op = "products" \/ (req.op = "alerts" /\ req.status = "BOTH")

Skipped(req) == (req.page - 1) * req.size

\* The selection covers the rows of a page and those before it.
Covers(skipped, rows, ids) ==
    IsFiniteSet(rows) /\ (rows = {} \/ skipped + Cardinality(rows) <= Cardinality(ids))

TotalInv(c) ==
    /\ call[c].at \in {"both", "rest"} => ~Whole(call[c].req)
    /\ call[c].at = "count" /\ Whole(call[c].req) =>
           Covers(Skipped(call[c].req), call[c].local.rows, Selected(c))

TInv == alertRows \in Seq(AlertRow) /\ \A c \in Caller : TotalInv(c)

LEMMA SkippedNat ==
    ASSUME EInv, NEW c \in Caller, Whole(call[c].req)
    PROVE  Skipped(call[c].req) \in Nat /\ call[c].req.size \in Nat
<1> DEFINE req == call[c].req
<1>1. req \in Request
  BY DEF EInv, PlaceInv, Whole, NoRequest
<1>2. req \in ListProductsRequest \cup ListAlertsRequest
  BY <1>1
     DEF Whole, Request, CreateProductRequest, PatchRequest, GetProductRequest, SearchRequest,
         CreateCategoryRequest, GetAlertRequest, ListProductsRequest, ListAlertsRequest,
         ListMovementsRequest
<1>3. req.page \in Nat \ {0} /\ req.size \in Nat
  BY <1>2 DEF ListProductsRequest, ListAlertsRequest
<1>4. \A m, n \in Nat : m * n \in Nat
  OBVIOUS
<1>5. req.page - 1 \in Nat
  BY <1>3
<1> QED
  BY <1>3, <1>4, <1>5 DEF Skipped

LEMMA SelectedFinite ==
    ASSUME EInv, TInv, NEW c \in Caller, Whole(call[c].req)
    PROVE  /\ IsFiniteSet(Selected(c))
           /\ Selected(c) = IF call[c].req.op = "products"
                            THEN {i \in DOMAIN products :
                                      call[c].req.flagged => i \in call[c].local.flags}
                            ELSE DOMAIN alertRows
<1>1. IsFiniteSet(DOMAIN products) /\ IsFiniteSet(DOMAIN alertRows)
  <2>1. \A n \in Nat : IsFiniteSet(1..n)
    BY FS_Interval
  <2>2. /\ Len(products) \in Nat /\ DOMAIN products = 1..Len(products)
        /\ Len(alertRows) \in Nat /\ DOMAIN alertRows = 1..Len(alertRows)
    BY DEF EInv, RowsInv, TInv
  <2> QED
    BY <2>1, <2>2
<1>2. CASE call[c].req.op = "products"
  <2>1. Selected(c) = {i \in DOMAIN products : call[c].req.flagged => i \in call[c].local.flags}
    BY <1>2 DEF Selected
  <2>2. Selected(c) \subseteq DOMAIN products
    BY <2>1
  <2> QED
    BY <1>1, <1>2, <2>1, <2>2, FS_Subset
<1>3. CASE call[c].req.op # "products"
  <2>1. call[c].req.op = "alerts" /\ call[c].req.status = "BOTH"
    BY <1>3 DEF Whole
  <2>2. Selected(c) = DOMAIN alertRows
    BY <2>1 DEF Selected
  <2> QED
    BY <1>1, <1>3, <2>2
<1> QED
  BY <1>2, <1>3

\* The rows a statement with LIMIT and OFFSET returns.
LEMMA PageCovered ==
    ASSUME NEW n \in Nat, NEW skipped \in Nat, NEW ids, IsFiniteSet(ids),
           NEW rows \in Limited(n, skipped, ids)
    PROVE  Covers(skipped, rows, ids)
<1>1. rows \subseteq ids /\ IsFiniteSet(rows) /\ Cardinality(rows) \in Nat /\ Cardinality(ids) \in Nat
  BY FS_Subset, FS_CardinalityType DEF Limited
<1>2. CASE skipped < Cardinality(ids)
  <2>1. Cardinality(rows) <= Cardinality(ids) - skipped
    BY <1>1, <1>2 DEF Limited
  <2> QED
    BY <1>1, <2>1 DEF Covers
<1>3. CASE ~(skipped < Cardinality(ids))
  <2>1. Cardinality(rows) = 0
    BY <1>3 DEF Limited
  <2> QED
    BY <1>1, <2>1, FS_EmptySet DEF Covers
<1> QED
  BY <1>2, <1>3

LEMMA CoveredByMore ==
    ASSUME NEW skipped \in Nat, NEW rows, NEW ids, NEW more, Covers(skipped, rows, ids),
           ids \subseteq more, IsFiniteSet(more)
    PROVE  Covers(skipped, rows, more)
<1>1. /\ IsFiniteSet(ids) /\ Cardinality(ids) <= Cardinality(more)
      /\ Cardinality(ids) \in Nat /\ Cardinality(more) \in Nat
  BY FS_Subset, FS_CardinalityType
<1>2. Cardinality(rows) \in Nat
  BY FS_CardinalityType DEF Covers
<1> QED
  BY <1>1, <1>2 DEF Covers

\* No step takes a product or an alert away.
LEMMA TablesGrow ==
    ASSUME EInv, TInv, [CatalogNext]_catalogVars
    PROVE  /\ DOMAIN products \subseteq DOMAIN products'
           /\ alertRows' \in Seq(AlertRow) /\ DOMAIN alertRows \subseteq DOMAIN alertRows'
<1> USE DEF tables
<1>1. products \in Seq(ProductRow) /\ alertRows \in Seq(AlertRow)
  BY DEF EInv, RowsInv, TInv
<1>2. \A x : DOMAIN products \subseteq DOMAIN Append(products, x)
  BY <1>1
<1>3. ASSUME NEW of \in DOMAIN products, Opens(of)
      PROVE  alertRows' \in Seq(AlertRow) /\ DOMAIN alertRows \subseteq DOMAIN alertRows'
  <2>1. [of |-> of, status |-> "ACTIVA"] \in AlertRow
    BY <1>1, <1>3 DEF AlertRow
  <2> QED
    BY <1>1, <1>3, <2>1 DEF Opens
<1>4. CASE UNCHANGED <<products, alertRows>>
  BY <1>1, <1>4
<1>5. ASSUME NEW c \in Caller, CatalogServes(c), ~UNCHANGED <<products, alertRows>>
      PROVE  InsertProduct(c) \/ OpenFirstAlert(c) \/ WriteProduct(c)
  BY <1>5
     DEF CatalogServes, Bootstrap, StatementFails, FindCategory, FindSku, FindProduct,
         FindNewCategory, ReadFlag,
         FindFlagged, ReadItems, ReadCount, FindAlert, FindAlertProduct, FindName, InsertCategory,
         EmbedQuery, FindByEmbedding
<1>6. ASSUME NEW c \in Caller, InsertProduct(c) \/ WriteProduct(c)
      PROVE  DOMAIN products \subseteq DOMAIN products' /\ alertRows' = alertRows
  BY <1>2, <1>6 DEF InsertProduct, WriteProduct
<1>7. ASSUME NEW c \in Caller, OpenFirstAlert(c)
      PROVE  /\ products' = products
             /\ alertRows' \in Seq(AlertRow) /\ DOMAIN alertRows \subseteq DOMAIN alertRows'
  <2>1. call[c].local.id \in DOMAIN products
    BY <1>7 DEF OpenFirstAlert, EInv, PlaceInv
  <2>2. products' = products /\ (Opens(call[c].local.id) \/ alertRows' = alertRows)
    BY <1>7 DEF OpenFirstAlert
  <2> QED
    BY <1>1, <1>3, <2>1, <2>2
<1>8. CASE StockMoves
  <2>1. products' = products
    BY <1>8 DEF StockMoves
  <2>2. CASE \E i \in DOMAIN alertRows : alertRows' = [alertRows EXCEPT ![i].status = "RESUELTA"]
    <3>1. PICK i \in DOMAIN alertRows : alertRows' = [alertRows EXCEPT ![i].status = "RESUELTA"]
      BY <2>2
    <3>2. alertRows[i] \in AlertRow
      BY <1>1
    <3>3. [alertRows[i] EXCEPT !.status = "RESUELTA"] \in AlertRow
      BY <3>2 DEF AlertRow
    <3> QED
      BY <1>1, <2>1, <3>1, <3>3
  <2> QED
    BY <1>1, <1>3, <1>8, <2>1, <2>2 DEF StockMoves
<1>9. ASSUME NEW c \in Caller, CatalogArrive(c) PROVE UNCHANGED <<products, alertRows>>
  BY <1>9 DEF CatalogArrive
<1>10. ASSUME NEW j \in jobs, EmbedText(j) \/ StoreEmbedding(j)
       PROVE  DOMAIN products \subseteq DOMAIN products' /\ alertRows' = alertRows
  BY <1>10 DEF EmbedText, StoreEmbedding
<1>11. ASSUME ProcessEnds \/ UNCHANGED catalogVars PROVE UNCHANGED <<products, alertRows>>
  BY <1>11 DEF ProcessEnds, catalogVars
<1> QED
  BY <1>1, <1>4, <1>5, <1>6, <1>7, <1>8, <1>9, <1>10, <1>11 DEF CatalogNext

\* A call that does not move, and one that goes where no page is held.
LEMMA TotalWaits ==
    ASSUME EInv, TInv, EInv', alertRows' \in Seq(AlertRow), DOMAIN alertRows \subseteq DOMAIN alertRows',
           DOMAIN products \subseteq DOMAIN products', NEW c \in Caller, call'[c] = call[c]
    PROVE  TotalInv(c)'
<1>1. TotalInv(c)
  BY DEF TInv
<1>2. ASSUME call[c].at = "count", Whole(call[c].req)
      PROVE  Covers(Skipped(call[c].req), call[c].local.rows, Selected(c)')
  <2>1. IsFiniteSet(Selected(c)') /\ Selected(c) \subseteq Selected(c)'
    <3>1. CASE call[c].req.op = "products"
      <4>1. Selected(c) = {i \in DOMAIN products : call[c].req.flagged => i \in call[c].local.flags}
        BY <3>1 DEF Selected
      <4>2. Selected(c)' = {i \in DOMAIN products' : call[c].req.flagged => i \in call[c].local.flags}
        BY <3>1 DEF Selected
      <4>3. Selected(c)' \subseteq DOMAIN products'
        BY <4>2
      <4>4. IsFiniteSet(DOMAIN products')
        <5>1. Len(products') \in Nat /\ DOMAIN products' = 1..Len(products')
          BY DEF EInv, RowsInv
        <5> QED
          BY <5>1, FS_Interval
      <4> QED
        BY <4>1, <4>2, <4>3, <4>4, FS_Subset
    <3>2. CASE call[c].req.op # "products"
      <4>1. call[c].req.op = "alerts" /\ call[c].req.status = "BOTH"
        BY <1>2, <3>2 DEF Whole
      <4>2. Selected(c) = DOMAIN alertRows /\ Selected(c)' = DOMAIN alertRows'
        BY <4>1 DEF Selected
      <4>3. Len(alertRows') \in Nat /\ DOMAIN alertRows' = 1..Len(alertRows')
        OBVIOUS
      <4> QED
        BY <4>2, <4>3, FS_Interval
    <3> QED
      BY <3>1, <3>2
  <2>2. Covers(Skipped(call[c].req), call[c].local.rows, Selected(c))
    BY <1>1, <1>2 DEF TotalInv
  <2> QED
    BY <1>2, <2>1, <2>2, SkippedNat, CoveredByMore
<1>3. (call[c].at = "count" /\ Whole(call[c].req))' <=> call[c].at = "count" /\ Whole(call[c].req)
  BY DEF Whole
<1>4. (call[c].at \in {"both", "rest"} => ~Whole(call[c].req))'
  BY <1>1 DEF TotalInv, Whole
<1> QED
  BY <1>2, <1>3, <1>4 DEF TotalInv, Skipped

LEMMA TotalElsewhere ==
    ASSUME NEW c \in Caller, call'[c].at \notin {"both", "rest", "count"} PROVE TotalInv(c)'
  BY DEF TotalInv

\* A list that reads its page before it counts.
LEMMA PageRead ==
    ASSUME EInv, TInv, NEW c \in Caller, ReadItems(c) PROVE TotalInv(c)'
<1>1. PICK rows \in PagesOf(call[c].req, Selected(c)) :
          \/ /\ call[c].at \in {"items", "both"}
             /\ Goes(c, "count", [call[c].local EXCEPT !.rows = rows])
          \/ Answers(c, ListReply(c, rows, call[c].local.count))
  BY DEF ReadItems
<1>2. UNCHANGED <<products, alertRows, journal>>
  BY DEF ReadItems, tables
<1>3. Shaped
  BY DEF EInv
<1>4. CASE Answers(c, ListReply(c, rows, call[c].local.count))
  BY <1>3, <1>4, AnswerEnds, TotalElsewhere
<1>5. CASE Goes(c, "count", [call[c].local EXCEPT !.rows = rows])
  <2>1. /\ call'[c].at = "count" /\ call'[c].req = call[c].req
        /\ call'[c].local.rows = rows /\ call'[c].local.flags = call[c].local.flags
    BY <1>3, <1>5, GoesOn DEF Shaped
  <2>2. ASSUME Whole(call[c].req) PROVE Covers(Skipped(call[c].req), rows, Selected(c))
    <3>1. rows \in Limited(call[c].req.size, Skipped(call[c].req), Selected(c))
      BY <1>1 DEF PagesOf, Skipped
    <3> QED
      BY <2>2, <3>1, SkippedNat, SelectedFinite, PageCovered
  <2>3. Selected(c)' = Selected(c)
    BY <1>2, <2>1 DEF Selected
  <2> QED
    BY <2>1, <2>2, <2>3 DEF TotalInv, Whole, Skipped
<1> QED
  BY <1>1, <1>4, <1>5

LEMMA TotalServes ==
    ASSUME EInv, TInv, NEW c \in Caller, CatalogServes(c)
    PROVE  TotalInv(c)'
<1> USE DEF Silent, At
<1>1. Shaped
  BY DEF EInv
<1>2. ASSUME NEW s, NEW l, Goes(c, s, l), s \notin {"both", "rest", "count"} PROVE TotalInv(c)'
  BY <1>1, <1>2, GoesOn, TotalElsewhere
<1>3. ASSUME NEW r, Answers(c, r) PROVE TotalInv(c)'
  BY <1>1, <1>3, AnswerEnds, TotalElsewhere
<1>4. CASE Bootstrap(c)
  <2>1. FirstStep(call[c].req.op) \in {"category", "find", "flags", "embed"}
    BY <1>4 DEF Bootstrap, EInv, PlaceInv, OfProducts, FirstStep
  <2> QED
    BY <1>2, <1>3, <1>4, <2>1 DEF Bootstrap
<1>5. CASE StatementFails(c) \/ FindCategory(c) \/ FindSku(c) \/ InsertProduct(c)
  BY <1>2, <1>3, <1>5 DEF StatementFails, FindCategory, FindSku, InsertProduct
<1>6. CASE FindProduct(c) \/ FindNewCategory(c) \/ WriteProduct(c) \/ ReadFlag(c)
  BY <1>2, <1>3, <1>6 DEF FindProduct, AfterFind, FindNewCategory, WriteProduct, ReadFlag
<1>7. CASE OpenFirstAlert(c)
  <2>1. call'[c].at = "idle"
    BY <1>1, <1>7, NothingAskedFields DEF OpenFirstAlert, Shaped
  <2> QED
    BY <2>1, TotalElsewhere
<1>8. CASE FindFlagged(c)
  BY <1>2, <1>8 DEF FindFlagged, FirstRead
<1>9. CASE ReadItems(c)
  BY <1>9, PageRead
<1>10. CASE ReadCount(c)
  <2>1. CASE \E r : Answers(c, r)
    BY <1>3, <2>1
  <2>2. CASE call[c].at = "both" /\ \E l : Goes(c, "rest", l)
    <3>1. ~Whole(call[c].req)
      BY <2>2 DEF TInv, TotalInv
    <3>2. call'[c].at = "rest" /\ call'[c].req = call[c].req
      BY <1>1, <2>2, GoesOn
    <3> QED
      BY <3>1, <3>2 DEF TotalInv, Whole
  <2> QED
    BY <1>10, <2>1, <2>2 DEF ReadCount
<1>11. CASE FindAlert(c) \/ FindAlertProduct(c) \/ FindName(c) \/ InsertCategory(c)
  BY <1>2, <1>3, <1>11 DEF FindAlert, FindAlertProduct, FindName, InsertCategory
<1>12. CASE EmbedQuery(c) \/ FindByEmbedding(c)
  BY <1>2, <1>3, <1>12 DEF EmbedQuery, FindByEmbedding
<1> QED
  BY <1>4, <1>5, <1>6, <1>7, <1>8, <1>9, <1>10, <1>11, <1>12 DEF CatalogServes

LEMMA TotalArrives ==
    ASSUME EInv, NEW c \in Caller, CatalogArrive(c) PROVE TotalInv(c)'
<1>1. PICK req \in Requests :
          call' = [call EXCEPT ![c] = [req |-> req, local |-> NoLocals,
                     at |-> IF OfProducts(req.op) THEN "boot" ELSE FirstStep(req.op)]]
  BY DEF CatalogArrive
<1>2. /\ call'[c].req = req
      /\ call'[c].at = (IF OfProducts(req.op) THEN "boot" ELSE FirstStep(req.op))
  BY <1>1 DEF EInv, Shaped
<1>3. req.op \in {"createProduct", "patch", "get", "products", "search", "createCategory",
                  "getAlert", "alerts", "movements"}
  BY CatalogAssumption
     DEF Request, CreateProductRequest, PatchRequest, GetProductRequest, SearchRequest,
         CreateCategoryRequest, GetAlertRequest, ListProductsRequest, ListAlertsRequest,
         ListMovementsRequest
<1>4. call'[c].at \in {"boot", "name", "items", "alert"} \/ (call'[c].at = "both" /\ req.op = "movements")
  BY <1>2, <1>3 DEF OfProducts, FirstStep, FirstRead
<1> QED
  BY <1>2, <1>4 DEF TotalInv, Whole

LEMMA OthersWait ==
    ASSUME EInv, CatalogNext, NEW d \in Caller, call'[d] # call[d]
    PROVE  \/ CatalogArrive(d) \/ CatalogServes(d)
           \/ call'[d] = NothingAsked
<1>1. ASSUME NEW c \in Caller, c # d, CatalogArrive(c) PROVE FALSE
  BY <1>1 DEF CatalogArrive, EInv, Shaped
<1>2. ASSUME NEW c \in Caller, c # d, CatalogServes(c) PROVE FALSE
  <2>1. Shaped
    BY DEF EInv
  <2>2. \A s, l : ~Goes(c, s, l)
    BY <1>2, <2>1, GoesOn
  <2>3. \A r : ~Answers(c, r)
    BY <1>2, <2>1, AnswerEnds
  <2>4. call' # [call EXCEPT ![c] = NothingAsked]
    BY <1>2, <2>1 DEF Shaped
  <2> QED
    BY <1>2, <2>2, <2>3, <2>4
       DEF CatalogServes, Bootstrap, StatementFails, FindCategory, FindSku, FindProduct,
         FindNewCategory, ReadFlag,
           FindFlagged, ReadItems, ReadCount, FindAlert, FindAlertProduct, FindName, InsertCategory,
           EmbedQuery, FindByEmbedding, InsertProduct, WriteProduct, OpenFirstAlert
<1>3. ASSUME NEW j \in jobs, EmbedText(j) \/ StoreEmbedding(j) PROVE FALSE
  BY <1>3 DEF EmbedText, StoreEmbedding
<1>4. CASE StockMoves
  BY <1>4 DEF StockMoves
<1>5. CASE ProcessEnds
  BY <1>5 DEF ProcessEnds
<1> QED
  BY <1>1, <1>2, <1>3, <1>4, <1>5 DEF CatalogNext

LEMMA TInvStep == EInv /\ EInv' /\ TInv /\ [CatalogNext]_catalogVars => TInv'
<1> SUFFICES ASSUME EInv, EInv', TInv, [CatalogNext]_catalogVars PROVE TInv'
  OBVIOUS
<1>1. ASSUME NEW d \in Caller, call'[d] = call[d] PROVE TotalInv(d)'
  BY <1>1, TablesGrow, TotalWaits
<1>2. ASSUME NEW d \in Caller, call'[d] # call[d] PROVE TotalInv(d)'
  <2>1. CatalogNext
    BY <1>2 DEF catalogVars
  <2>2. CASE call'[d] = NothingAsked
    BY <2>2, NothingAskedFields, TotalElsewhere
  <2> QED
    BY <1>2, <2>1, <2>2, OthersWait, TotalArrives, TotalServes
<1> QED
  BY <1>1, <1>2, TablesGrow DEF TInv

LEMMA TInvInit == CatalogInit => TInv
<1> SUFFICES ASSUME CatalogInit PROVE TInv
  OBVIOUS
<1>1. \A c \in Caller : call[c] = NothingAsked
  BY DEF CatalogInit
<1> QED
  BY <1>1, NothingAskedFields, CatalogAssumption DEF CatalogInit, TInv, TotalInv

\* The total of a list of products, or of all alerts, covers the rows of its
\* page, however many rows are added between its two statements
\* (drizzle-product-repository.ts:87).
THEOREM TotalsCover == CatalogSpec => TotalCoversThePage
<1>1. FInv /\ EInv /\ TInv /\ [CatalogNext]_catalogVars =>
        [\A c \in Caller :
            LET req == call[c].req
                a == answer'.is
            IN  /\ answer'.to = c
                /\ a.kind = "products" \/ (a.kind = "alerts" /\ req.status = "BOTH")
                => a.rows = {} \/ (req.page - 1) * req.size + Cardinality(a.rows) <= a.total
        ]_catalogVars
  <2> SUFFICES ASSUME FInv, EInv, TInv, CatalogNext, NEW c \in Caller, answer'.to = c,
                      \/ answer'.is.kind = "products"
                      \/ answer'.is.kind = "alerts" /\ call[c].req.status = "BOTH"
               PROVE  \/ answer'.is.rows = {}
                      \/ Skipped(call[c].req) + Cardinality(answer'.is.rows) <= answer'.is.total
    BY DEF Skipped
  <2>1. /\ call[c].req.op = answer'.is.kind /\ call[c].at \in {"count", "rest"}
        /\ call[c].at = "count" => /\ answer'.is.rows = call[c].local.rows
                                   /\ answer'.is.total = Cardinality(Selected(c))
    BY ListAnswers
  <2>2. Whole(call[c].req)
    BY <2>1 DEF Whole
  <2>3. TotalInv(c)
    BY DEF TInv
  <2>4. call[c].at = "count" /\ Covers(Skipped(call[c].req), call[c].local.rows, Selected(c))
    BY <2>1, <2>2, <2>3 DEF TotalInv
  <2> QED
    BY <2>1, <2>4 DEF Covers
<1> QED
  BY <1>1, FInvInit, FInvStep, EInvInit, EInvStep, TInvInit, TInvStep, PTL
     DEF CatalogSpec, TotalCoversThePage

-----------------------------------------------------------------------------
(* Types *)

RestTypes ==
    /\ names \in Seq(CategoryName) /\ journal \in Nat /\ warm \in BOOLEAN
    /\ \A j \in jobs : j.tries \in Nat /\ j.tries < Attempts

LEMMA RestServes == ASSUME EInv, RestTypes, NEW c \in Caller, CatalogServes(c) PROVE RestTypes'
<1> USE DEF tables
<1>1. names' \in Seq(CategoryName)
  <2>1. CASE names' = names
    BY <2>1 DEF RestTypes
  <2>2. CASE InsertCategory(c) /\ names' # names
    <3>1. call[c].req \in Request /\ call[c].req.op = "createCategory"
      BY <2>2 DEF InsertCategory, At, EInv, PlaceInv, NoRequest
    <3>2. call[c].req.name \in CategoryName
      BY <3>1
         DEF Request, CreateProductRequest, PatchRequest, GetProductRequest, SearchRequest,
             CreateCategoryRequest, GetAlertRequest, ListProductsRequest, ListAlertsRequest,
             ListMovementsRequest
    <3> QED
      BY <2>2, <3>2 DEF InsertCategory, RestTypes
  <2> QED
    BY <2>1, <2>2
       DEF CatalogServes, Bootstrap, StatementFails, FindCategory, FindSku, FindProduct,
         FindNewCategory, ReadFlag,
           FindFlagged, ReadItems, ReadCount, FindAlert, FindAlertProduct, FindName,
           EmbedQuery, FindByEmbedding, InsertProduct, WriteProduct, OpenFirstAlert
<1>2. journal' = journal /\ (warm' = warm \/ warm' = TRUE)
  BY DEF CatalogServes, Bootstrap, StatementFails, FindCategory, FindSku, FindProduct,
         FindNewCategory, ReadFlag,
         FindFlagged, ReadItems, ReadCount, FindAlert, FindAlertProduct, FindName, InsertCategory,
         EmbedQuery, FindByEmbedding, InsertProduct, WriteProduct, OpenFirstAlert
<1>3. jobs' = jobs \/ \E i, t : jobs' = jobs \cup {Job(i, t)}
  BY DEF CatalogServes, Bootstrap, StatementFails, FindCategory, FindSku, FindProduct,
         FindNewCategory, ReadFlag,
         FindFlagged, ReadItems, ReadCount, FindAlert, FindAlertProduct, FindName, InsertCategory,
         EmbedQuery, FindByEmbedding, InsertProduct, WriteProduct, OpenFirstAlert
<1>4. \A j \in jobs' : j.tries \in Nat /\ j.tries < Attempts
  <2>1. \A i, t : Job(i, t).tries = 0
    BY DEF Job
  <2>2. \A j \in jobs' : j \in jobs \/ j.tries = 0
    BY <1>3, <2>1
  <2>3. Attempts \in Nat \ {0}
    BY CatalogAssumption
  <2> QED
    BY <2>2, <2>3 DEF RestTypes
<1>5. journal' \in Nat /\ warm' \in BOOLEAN
  BY <1>2 DEF RestTypes
<1> QED
  BY <1>1, <1>4, <1>5 DEF RestTypes

LEMMA RestTypesStep == EInv /\ RestTypes /\ [CatalogNext]_catalogVars => RestTypes'
<1> SUFFICES ASSUME EInv, RestTypes, [CatalogNext]_catalogVars PROVE RestTypes'
  OBVIOUS
<1>1. ASSUME NEW c \in Caller, CatalogServes(c) PROVE RestTypes'
  BY <1>1, RestServes
<1>2. ASSUME NEW c \in Caller, CatalogArrive(c) PROVE RestTypes'
  BY <1>2 DEF CatalogArrive, tables, RestTypes
<1>3. ASSUME NEW j \in jobs, EmbedText(j) \/ StoreEmbedding(j) PROVE RestTypes'
  <2>1. DOMAIN j = {"id", "text", "tries", "vector"} /\ j.tries \in Nat /\ j.tries < Attempts
    BY DEF EInv, JobInv, RestTypes
  <2>2. \/ jobs' \subseteq jobs
        \/ jobs' = (jobs \ {j}) \cup {[j EXCEPT !.vector = TRUE]}
        \/ ~GivesUp(j) /\ jobs' = (jobs \ {j}) \cup {[j EXCEPT !.tries = @ + 1]}
    BY <1>3 DEF EmbedText, StoreEmbedding
  <2>3. [j EXCEPT !.vector = TRUE].tries = j.tries /\ [j EXCEPT !.tries = @ + 1].tries = j.tries + 1
    BY <2>1
  <2>4. ~GivesUp(j) => j.tries + 1 < Attempts
    BY <2>1, CatalogAssumption DEF GivesUp
  <2>5. \A k \in jobs' : k.tries \in Nat /\ k.tries < Attempts
    BY <2>1, <2>2, <2>3, <2>4 DEF RestTypes
  <2> QED
    BY <1>3, <2>5 DEF EmbedText, StoreEmbedding, tables, RestTypes
<1>4. CASE ProcessEnds
  BY <1>4 DEF ProcessEnds, tables, RestTypes
<1>5. CASE StockMoves
  BY <1>5 DEF StockMoves, RestTypes
<1>6. CASE UNCHANGED catalogVars
  BY <1>6 DEF catalogVars, tables, RestTypes
<1> QED
  BY <1>1, <1>2, <1>3, <1>4, <1>5, <1>6 DEF CatalogNext

\* The tables, the calls and the jobs keep their types; no job is tried more
\* often than there are attempts.
THEOREM CatalogTyped == CatalogSpec => []CatalogTypeOK
<1>1. CatalogInit => RestTypes
  <2> SUFFICES ASSUME CatalogInit PROVE RestTypes
    OBVIOUS
  <2>1. names = FirstNames /\ journal = 0 /\ warm = FALSE /\ jobs = {}
    BY DEF CatalogInit
  <2>2. FirstNames \in Seq(CategoryName)
    BY CatalogAssumption
  <2> QED
    BY <2>1, <2>2 DEF RestTypes
<1>2. EInv /\ TInv /\ RestTypes => CatalogTypeOK
  BY DEF EInv, TInv, RestTypes, RowsInv, PlaceInv, JobInv, CatalogTypeOK
<1> QED
  BY <1>1, <1>2, RestTypesStep, EInvInit, EInvStep, TInvInit, TInvStep, PTL DEF CatalogSpec

=============================================================================
