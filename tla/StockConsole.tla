----------------------------- MODULE StockConsole -----------------------------
(***************************************************************************)
(* The products and movements pages of the SPA over their stores: the list, *)
(* the detail page that loads three things at once and fills its form when *)
(* all have come, the forms for a new product and for a movement, and the  *)
(* page of all movements. Answers come in any order and outlive the page   *)
(* that asked; another administrator edits and moves the same products.    *)
(***************************************************************************)
EXTENDS Integers, FiniteSets

CONSTANTS
    Product,        \* products, created or not yet
    First,          \* those that exist at the start
    Elsewhere,      \* those that another administrator works on
    LastSeen,       \* the one whose page was left before the start, or NoProduct
    ProductJumps,   \* bound: those that a jump in the history leads to
    NoProduct,      \* current = null; a page without a product; not in a list
    NoText,         \* a product not created yet, a call that carries no body
    PageSize,       \* the rows an answer with movements has at most
    MaxStock,       \* bound: stock of a product
    MaxEdits,       \* bound: texts written after the first ones
    MaxMoves,       \* bound: movements of a product
    MaxVisits,      \* bound: pages opened
    MaxCalls        \* bound: calls in flight

ASSUME StockConsoleAssumption ==
    /\ IsFiniteSet(Product) /\ First \subseteq Product /\ Elsewhere \subseteq Product
    /\ ProductJumps \subseteq First /\ LastSeen \in First \cup {NoProduct} /\ NoProduct \notin Product
    /\ PageSize \in Nat \ {0} /\ MaxStock \in Nat /\ MaxEdits \in Nat /\ MaxMoves \in Nat
    /\ MaxVisits \in Nat /\ MaxCalls \in Nat
    /\ NoText \notin Product \X Nat

VARIABLES
    text,       \* products table: the fields of the form (name, price, ...)
    stock,      \* products table: stock
    moves,      \* stock_movements: how many a product has
    list,       \* products store: items, by id
    current,    \* products store: current
    history,    \* inventory store: movementsByProduct, how many rows of a product
    counted,    \* inventory store: currentTotal, currentHasMore, and whose they are
    raised,     \* the loading flag of each store
    address,    \* the page, and the product in its address
    visit,      \* pages opened so far: the one that is mounted
    mount,      \* detail page: waiting for its three answers, failed or done
    form,       \* detail page: the fields of the form
    editing,    \* detail page: editMode
    pending,    \* the page's own loading flag
    sent,       \* calls in flight
    edits,      \* texts written so far
    since,      \* history: movements the detail page's product had when it was mounted
    patient     \* history: nothing was sent while an earlier page still had
                \* calls in flight, and no jump led from one product to another

stockVars == <<text, stock, moves, list, current, history, counted, raised,
               address, visit, mount, form, editing, pending, sent, edits, since, patient>>

dbVars == <<text, stock, moves>>
storeVars == <<list, current, history, counted>>
pageVars == <<address, visit, mount, form, editing, pending, since>>

-----------------------------------------------------------------------------
\* A text is known by the product it was written for and a number.
Text == Product \X Nat

Card == [id : Product, text : Text, stock : Nat]

CardOf(p) == [id |-> p, text |-> text[p], stock |-> stock[p]]

Stores == {"products", "inventory", "categories"}

\* preload is the list that the page of all movements asks for.
StoreOf(op) ==
    CASE op \in {"products", "preload", "product", "save", "create"} -> "products"
      [] op \in {"movements", "entrada", "salida"} -> "inventory"
      [] op = "categories" -> "categories"

\* What a statement has not answered yet.
Unread == -1

\* page, rows, total: of a list of movements. count: how often a movement was posted.
Asked(op, p, v) ==
    [op |-> op, id |-> p, visit |-> v, text |-> NoText, status |-> "sent",
     cards |-> {}, page |-> 1, rows |-> Unread, total |-> Unread, count |-> 0]

\* The newest of n movements that one answer has, and the rows of a page: page 2
\* stands for every later one.
FirstPage(n) == IF n > PageSize THEN PageSize ELSE n

RowsOn(page, n) ==
    IF page = 1 THEN FirstPage(n) ELSE IF n > PageSize THEN FirstPage(n - PageSize) ELSE 0

\* The stock of a product came with one movement; the last page left is in the stores.
StockInit ==
    /\ text = [p \in Product |-> IF p \in First THEN <<p, 0>> ELSE NoText]
    /\ stock = [p \in Product |-> IF p \in First THEN 1 ELSE 0]
    /\ moves = stock
    /\ list = [p \in Product |-> NoProduct]
    /\ current = IF LastSeen = NoProduct THEN NoProduct ELSE CardOf(LastSeen)
    /\ history = [p \in Product |-> IF p = LastSeen THEN 1 ELSE 0]
    /\ counted = [of |-> LastSeen, n |-> IF LastSeen = NoProduct THEN 0 ELSE 1, more |-> FALSE]
    /\ raised = [s \in Stores |-> FALSE]
    /\ address = [name |-> "other", id |-> NoProduct]
    /\ visit = 0
    /\ mount = "done"
    /\ form = NoText
    /\ editing = FALSE
    /\ pending = FALSE
    /\ sent = {}
    /\ edits = 0
    /\ since = 0
    /\ patient = TRUE

-----------------------------------------------------------------------------
\* What a page asks for when it is mounted.
MountCalls(r, v, items) ==
    CASE r.name = "detail" -> {Asked("product", r.id, v), Asked("categories", NoProduct, v),
                               Asked("movements", r.id, v)}
      [] r.name = "list" -> {Asked("products", NoProduct, v), Asked("categories", NoProduct, v)}
      [] r.name = "create" -> {Asked("categories", NoProduct, v)}
      [] r.name = "movements" -> {Asked("preload", NoProduct, v)}
      [] r.name = "record" -> IF \E p \in Product : items[p] # NoProduct THEN {}
                              ELSE {Asked("products", NoProduct, v)}
      [] OTHER -> {}

\* Calls are sent beside those that were in flight; each store's flag is set.
Sends(new, before, flags) ==
    /\ Cardinality(before \cup new) <= MaxCalls
    /\ sent' = before \cup new
    /\ raised' = [s \in Stores |-> flags[s] \/ \E c \in new : StoreOf(c.op) = s]
    /\ patient' = (patient /\ (new # {} => before = {}))

\* A navigation: the page is new, the stores are as the last page left them.
Goes(r, before, flags, items) ==
    /\ visit < MaxVisits
    /\ address' = r
    /\ visit' = visit + 1
    /\ mount' = IF r.name = "detail" THEN "waiting" ELSE "done"
    /\ form' = NoText
    /\ editing' = FALSE
    /\ pending' = FALSE
    /\ since' = IF r.name = "detail" THEN moves[r.id] ELSE 0
    /\ Sends(MountCalls(r, visit + 1, items), before, flags)

Addresses == [name : {"list", "create", "movements"}, id : {NoProduct}]
          \cup [name : {"detail", "record"}, id : First]

\* A link, a click on a row, or one step in the history.
OpenPage(r) ==
    /\ r \in Addresses /\ r.name # address.name
    /\ Goes(r, sent, raised, list)
    /\ UNCHANGED <<dbVars, storeVars, edits>>

\* A jump in the history to the same page of another product keeps the page
\* mounted: it fetches nothing, and its form is as it was.
JumpToProduct(p) ==
    /\ address.name \in {"detail", "record"}
    /\ p \in ProductJumps \ {address.id}
    /\ address' = [address EXCEPT !.id = p]
    /\ patient' = FALSE
    /\ UNCHANGED <<dbVars, storeVars, visit, mount, form, editing, pending, raised, sent, edits,
                   since>>

\* Filters and pages of the list; the filter strip does not wait for an answer.
Search ==
    /\ address.name = "list"
    /\ Asked("products", NoProduct, visit) \notin sent
    /\ Sends({Asked("products", NoProduct, visit)}, sent, raised)
    /\ UNCHANGED <<dbVars, storeVars, pageVars, edits>>

\* The history's next page, for the product chosen on the page of all movements;
\* the page before asks as the preload did. Whether there is more is one flag too.
PageMovements(p) ==
    /\ address.name = "movements" /\ list[p] # NoProduct /\ counted.more
    /\ LET call == [Asked("movements", p, visit) EXCEPT !.page = 2]
       IN  call \notin sent /\ Sends({call}, sent, raised)
    /\ UNCHANGED <<dbVars, storeVars, pageVars, edits>>

StartEditing ==
    /\ address.name = "detail" /\ ~editing
    /\ editing' = TRUE
    /\ UNCHANGED <<dbVars, storeVars, address, visit, mount, form, pending, raised, sent,
                   edits, since, patient>>

\* The form is on the page while the products store is not loading.
FormShown == address.name = "detail" /\ editing /\ ~raised["products"] /\ current # NoProduct

TypeText ==
    /\ FormShown /\ edits < MaxEdits
    /\ form' = <<address.id, edits + 1>>
    /\ edits' = edits + 1
    /\ UNCHANGED <<dbVars, storeVars, address, visit, mount, editing, pending, raised, sent,
                   since, patient>>

\* handleSave: all four fields of the form, whichever the user touched.
Save ==
    /\ FormShown /\ ~pending /\ form # NoText
    /\ pending' = TRUE
    /\ Sends({[Asked("save", address.id, visit) EXCEPT !.text = form]}, sent, raised)
    /\ UNCHANGED <<dbVars, storeVars, address, visit, mount, form, editing, edits, since>>

\* The movement form is shown for a product of the list, and checks a SALIDA
\* against the stock the list has.
SubmitMovement(type) ==
    /\ address.name = "record" /\ ~pending
    /\ list[address.id] # NoProduct
    /\ type = "salida" => list[address.id].stock >= 1
    /\ pending' = TRUE
    /\ Sends({Asked(type, address.id, visit)}, sent, raised)
    /\ UNCHANGED <<dbVars, storeVars, address, visit, mount, form, editing, edits, since>>

SubmitProduct(p) ==
    /\ address.name = "create" /\ ~pending
    /\ p \notin First
    /\ pending' = TRUE
    /\ Sends({Asked("create", p, visit)}, sent, raised)
    /\ UNCHANGED <<dbVars, storeVars, address, visit, mount, form, editing, edits, since>>

-----------------------------------------------------------------------------
Rest(c) == sent \ {c}

\* The backend carries out a call; it refuses a SALIDA of what is not there,
\* and a SKU it has.
Reads(op) == op \in {"products", "preload", "product", "movements", "categories"}

Accepts(c) ==
    CASE c.op = "salida" -> stock[c.id] >= 1 /\ moves[c.id] < MaxMoves
      [] c.op = "entrada" -> stock[c.id] < MaxStock /\ moves[c.id] < MaxMoves
      [] c.op = "create" -> text[c.id] = NoText
      [] OTHER -> TRUE

Carries(c) ==
    /\ text' = CASE c.op = "save" -> [text EXCEPT ![c.id] = c.text]
                 [] c.op = "create" -> [text EXCEPT ![c.id] = <<c.id, 0>>]
                 [] OTHER -> text
    /\ stock' = CASE c.op = "entrada" -> [stock EXCEPT ![c.id] = @ + 1]
                  [] c.op = "salida" -> [stock EXCEPT ![c.id] = @ - 1]
                  [] OTHER -> stock
    /\ moves' = IF c.op \in {"entrada", "salida"} THEN [moves EXCEPT ![c.id] = @ + 1] ELSE moves

Posts(c) == IF c.op \in {"entrada", "salida"} THEN 1 ELSE 0

\* A list of movements is answered when both of its statements are.
Answered(c) ==
    [c EXCEPT
        !.status = "ok",
        !.cards = CASE c.op \in {"products", "preload"} -> {CardOf(p) : p \in {x \in Product : text[x] # NoText}}
                    [] c.op = "product" -> {CardOf(c.id)}
                    [] c.op = "save" -> {[CardOf(c.id) EXCEPT !.text = c.text]}
                    [] c.op = "create" -> {[id |-> c.id, text |-> <<c.id, 0>>, stock |-> 0]}
                    [] OTHER -> {},
        !.count = @ + Posts(c)]

ServeStock(c) ==
    /\ c.status = "sent" /\ c.op # "movements" /\ Accepts(c)
    /\ Carries(c)
    /\ sent' = Rest(c) \cup {Answered(c)}
    /\ UNCHANGED <<storeVars, pageVars, raised, edits, patient>>

\* The two statements of a list of movements, which go out together: the rows of
\* the page and the total. A movement may be written between them.
ListsMovements(c, d) ==
    /\ c.status = "sent" /\ c.op = "movements"
    /\ sent' = Rest(c) \cup {[d EXCEPT !.status = IF d.rows # Unread /\ d.total # Unread
                                               THEN "ok" ELSE "sent"]}
    /\ UNCHANGED <<dbVars, storeVars, pageVars, raised, edits, patient>>

ReadRows(c) ==
    /\ c.rows = Unread
    /\ ListsMovements(c, [c EXCEPT !.rows = RowsOn(c.page, moves[c.id])])

CountRows(c) ==
    /\ c.total = Unread
    /\ ListsMovements(c, [c EXCEPT !.total = moves[c.id]])

\* Mutant: a call that has had no answer is sent once more.
RetryOnTimeout(c) ==
    /\ c.status = "sent" /\ c.op = "entrada"
    /\ Carries(c)
    /\ sent' = Rest(c) \cup {[c EXCEPT !.count = @ + Posts(c)]}
    /\ UNCHANGED <<storeVars, pageVars, raised, edits, patient>>

\* An error answer, or none within TIMEOUT_MS: carried out or not, and not
\* repeated (retry is 0).
StockCallBreaks(c) ==
    /\ c.status = "sent"
    /\ \/ /\ Accepts(c) /\ ~Reads(c.op) /\ Carries(c)
          /\ sent' = Rest(c) \cup {[c EXCEPT !.status = "failed", !.count = @ + Posts(c)]}
       \/ /\ UNCHANGED dbVars
          /\ sent' = Rest(c) \cup {[c EXCEPT !.status = "failed", !.rows = Unread, !.total = Unread]}
    /\ UNCHANGED <<storeVars, pageVars, raised, edits, patient>>

EditedElsewhere(p) ==
    /\ text[p] # NoText /\ edits < MaxEdits
    /\ text' = [text EXCEPT ![p] = <<p, edits + 1>>]
    /\ edits' = edits + 1
    /\ UNCHANGED <<stock, moves, storeVars, pageVars, raised, sent, patient>>

MovedElsewhere(p) ==
    /\ text[p] # NoText /\ moves[p] < MaxMoves
    /\ \E s \in {stock[p] - 1, stock[p] + 1} : /\ s \in 0..MaxStock
                                               /\ stock' = [stock EXCEPT ![p] = s]
    /\ moves' = [moves EXCEPT ![p] = @ + 1]
    /\ UNCHANGED <<text, storeVars, pageVars, raised, sent, edits, patient>>

-----------------------------------------------------------------------------
Own(c) == c.visit = visit

\* The finally block of a store.
Lowered(c) == [raised EXCEPT ![StoreOf(c.op)] = FALSE]

MountOps == {"product", "categories", "movements"}

\* Mutant: the form is filled when the categories have come, whatever has not.
LoadedEarly(c) == Own(c) /\ mount = "waiting" /\ c.op = "categories"

\* Promise.all of the detail page: the last of its three answers has come.
AllLoaded(c) ==
    /\ Own(c) /\ mount = "waiting" /\ c.op \in MountOps
    /\ \A d \in Rest(c) : ~(Own(d) /\ d.op \in MountOps)

StockFailureArrives(c) ==
    /\ c.status = "failed"
    /\ mount' = IF Own(c) /\ mount = "waiting" /\ c.op \in MountOps THEN "failed" ELSE mount
    /\ sent' = Rest(c)
    /\ raised' = Lowered(c)
    /\ pending' = IF Own(c) /\ c.op \in {"save", "create", "entrada", "salida"} THEN FALSE ELSE pending
    /\ UNCHANGED <<dbVars, storeVars, address, visit, form, editing, edits, since, patient>>

Ok(c, op) == c.status = "ok" /\ c.op = op

\* The form takes what the store has on show by now.
Fills(c, shown) ==
    IF AllLoaded(c) THEN /\ mount' = "done"
                         /\ form' = IF shown = NoProduct THEN form ELSE shown.text
                    ELSE UNCHANGED <<mount, form>>

CardsArrive(c) ==
    /\ Ok(c, "products")
    /\ list' = [p \in Product |-> IF \E k \in c.cards : k.id = p
                                  THEN CHOOSE k \in c.cards : k.id = p ELSE NoProduct]
    /\ sent' = Rest(c)
    /\ raised' = Lowered(c)
    /\ UNCHANGED <<dbVars, current, history, counted, pageVars, edits, patient>>

\* The page of all movements goes on to ask for those of every product, even
\* when the user has left it.
PreloadArrives(c) ==
    /\ Ok(c, "preload")
    /\ list' = [p \in Product |-> IF \E k \in c.cards : k.id = p
                                  THEN CHOOSE k \in c.cards : k.id = p ELSE NoProduct]
    /\ Sends({Asked("movements", k.id, c.visit) : k \in c.cards}, Rest(c), Lowered(c))
    /\ UNCHANGED <<dbVars, current, history, counted, pageVars, edits>>

CardArrives(c) ==
    /\ Ok(c, "product")
    /\ \E k \in c.cards : current' = k
    /\ Fills(c, current')
    /\ sent' = Rest(c)
    /\ raised' = Lowered(c)
    /\ UNCHANGED <<dbVars, list, history, counted, address, visit, editing, pending,
                   edits, since, patient>>

CategoriesArrive(c) ==
    /\ Ok(c, "categories")
    /\ Fills(c, current)
    /\ sent' = Rest(c)
    /\ raised' = Lowered(c)
    /\ UNCHANGED <<dbVars, storeVars, address, visit, editing, pending, edits, since, patient>>

\* Mutant: a history the store has is not replaced.
KeptHistory(c) ==
    IF history[c.id] > 0 THEN counted
                         ELSE [of |-> c.id, n |-> c.total, more |-> c.page * PageSize < c.total]

\* Total and hasMore are one for all products: the last answer's.
TotalOf(c) == [of |-> c.id, n |-> c.total, more |-> c.page * PageSize < c.total]

HistoryArrives(c) ==
    /\ Ok(c, "movements")
    /\ history' = [history EXCEPT ![c.id] = c.rows]
    /\ counted' = TotalOf(c)
    /\ Fills(c, current)
    /\ sent' = Rest(c)
    /\ raised' = Lowered(c)
    /\ UNCHANGED <<dbVars, list, current, address, visit, editing, pending, edits, since, patient>>

\* update: the card replaces the one in the list and the one on show.
SaveArrives(c) ==
    /\ Ok(c, "save")
    /\ \E k \in c.cards :
        /\ list' = [list EXCEPT ![c.id] = IF @ = NoProduct THEN @ ELSE k]
        /\ current' = IF current # NoProduct /\ current.id = c.id THEN k ELSE current
    /\ sent' = Rest(c)
    /\ raised' = Lowered(c)
    /\ pending' = IF Own(c) THEN FALSE ELSE pending
    /\ editing' = IF Own(c) THEN FALSE ELSE editing
    /\ UNCHANGED <<dbVars, history, counted, address, visit, mount, form, edits, since, patient>>

\* recordMovement: one row more, one more in the total, whoever it counts. The
\* page moves on to the product of the address as it is by now, and nowhere if
\* the user has left the form. The list keeps the stock it had.
MovementArrives(c) ==
    /\ c.status = "ok" /\ c.op \in {"entrada", "salida"}
    /\ history' = [history EXCEPT ![c.id] = @ + 1]
    /\ counted' = [counted EXCEPT !.n = @ + 1]
    /\ IF address.name = "record"
       THEN Goes([name |-> "detail", id |-> address.id], Rest(c), Lowered(c), list)
       ELSE /\ sent' = Rest(c)
            /\ raised' = Lowered(c)
            /\ UNCHANGED <<pageVars, patient>>
    /\ UNCHANGED <<dbVars, list, current, edits>>

\* create: the card is put before the others, and the page moves on to the list.
ProductArrives(c) ==
    /\ Ok(c, "create")
    /\ \E k \in c.cards : list' = [list EXCEPT ![c.id] = k]
    /\ IF address.name = "list"
       THEN /\ sent' = Rest(c)
            /\ raised' = Lowered(c)
            /\ UNCHANGED <<pageVars, patient>>
       ELSE Goes([name |-> "list", id |-> NoProduct], Rest(c), Lowered(c), list')
    /\ UNCHANGED <<dbVars, current, history, counted, edits>>

StockUserActs ==
    \/ \E r \in Addresses : OpenPage(r)
    \/ \E p \in Product : PageMovements(p) \/ SubmitProduct(p) \/ JumpToProduct(p)
    \/ \E type \in {"entrada", "salida"} : SubmitMovement(type)
    \/ Search \/ StartEditing \/ TypeText \/ Save

StockSettles(c) ==
    \/ ServeStock(c) \/ ReadRows(c) \/ CountRows(c)
    \/ StockCallBreaks(c) \/ StockFailureArrives(c)
    \/ CardsArrive(c) \/ PreloadArrives(c) \/ CardArrives(c) \/ CategoriesArrive(c)
    \/ HistoryArrives(c) \/ SaveArrives(c) \/ MovementArrives(c) \/ ProductArrives(c)

StockNext ==
    \/ StockUserActs
    \/ \E c \in sent : StockSettles(c)
    \/ \E p \in Elsewhere : EditedElsewhere(p) \/ MovedElsewhere(p)

StockSpec == StockInit /\ [][StockNext]_stockVars

-----------------------------------------------------------------------------
\* Types of the variables.
StockConsoleTypeOK ==
    /\ text \in [Product -> Text \cup {NoText}]
    /\ stock \in [Product -> Nat] /\ moves \in [Product -> Nat]
    /\ list \in [Product -> Card \cup {NoProduct}]
    /\ current \in Card \cup {NoProduct}
    /\ history \in [Product -> Nat]
    /\ counted \in [of : Product \cup {NoProduct}, n : Nat, more : BOOLEAN]
    /\ raised \in [Stores -> BOOLEAN]
    /\ mount \in {"waiting", "failed", "done"}
    /\ form \in Text \cup {NoText}
    /\ editing \in BOOLEAN /\ pending \in BOOLEAN /\ patient \in BOOLEAN
    /\ since \in Nat

\* For a user who waits for the answers of a page before he opens the next one:
\* no save writes into a product what was read from, or typed for, another one,
\* though the stores still hold what earlier pages showed (ProductDetailPage.vue:77).
TextStaysHome ==
    patient => \A p \in Product : text[p] # NoText => text[p][1] = p

\* A movement is posted at most once per submission, whatever times out
\* (http.ts:46): no Idempotency-Key is looked at by the backend.
OneMovementPerSubmission ==
    \A c \in sent : c.op \in {"entrada", "salida"} => c.count <= 1

\* For that user, the history on a product's page comes to rest with that
\* product's rows and total, though the total is one for all products
\* (stores/inventory.ts:15): neither is older than the page, so a movement just
\* recorded is there, and neither is ahead of the table, so it is there once.
\* Between the two statements others write: the total need not fit the rows.
HistoryIsCurrent ==
    patient /\ sent = {} /\ mount = "done" /\ address.name = "detail" =>
        /\ counted.of = address.id
        /\ counted.n \in since..moves[address.id]
        /\ history[address.id] \in FirstPage(since)..FirstPage(moves[address.id])

=============================================================================
