----------------------------- MODULE StockAlertsProofs -----------------------------
(***************************************************************************)
(* The pages of products and movements, and those of alerts and categories,*)
(* for any number of each, of calls in flight and of pages opened: what a  *)
(* user who waits sees and saves belongs to the page's product or tab, and a*)
(* submission posts one movement.                                          *)
(***************************************************************************)
EXTENDS StockConsole, AlertsConsole, TLAPS

-----------------------------------------------------------------------------
(* The products' and movements' pages *)

StockOps == {"products", "preload", "product", "save", "create", "movements", "entrada",
             "salida", "categories"}

\* What a call carries and what its answer may.
StockCall ==
    [op : StockOps, id : Product \cup {NoProduct}, visit : Nat, text : Text \cup {NoText},
     status : {"sent", "ok", "failed"}, cards : SUBSET Card, page : {1, 2},
     rows : Nat \cup {Unread}, total : Nat \cup {Unread}, count : Nat]

\* Calls about a product name one, and what is answered is about that one. A
\* movement has been posted once, and only if the call is no longer on its way.
StockFits(c) ==
    /\ c.op \in {"product", "save", "create", "movements", "entrada", "salida"} => c.id \in Product
    /\ c.op \in {"product", "save"} => c.id \in First /\ \A k \in c.cards : k.id = c.id
    /\ c.op = "save" => c.text \in Text
    /\ c.op \in {"entrada", "salida"} => c.count <= 1
    /\ c.status = "sent" => c.count = 0
    /\ c.op = "movements" /\ c.status = "ok" => c.rows # Unread /\ c.total # Unread

StockTypes ==
    /\ StockConsoleTypeOK
    /\ edits \in Nat /\ visit \in Nat
    /\ address \in [name : {"list", "create", "movements", "detail", "record", "other"},
                    id : First \cup {NoProduct}]
    /\ address.name \in {"detail", "record"} => address.id \in First
    /\ \A p \in First : text[p] \in Text
    /\ sent \subseteq StockCall /\ \A c \in sent : StockFits(c)

CardHome(k) == k.text[1] = k.id

\* Every text in the tables, on its way and on show is of the product it is with.
TextsHome ==
    /\ \A p \in Product : text[p] # NoText => text[p][1] = p
    /\ \A c \in sent : /\ c.op = "save" => c.text[1] = c.id
                       /\ \A k \in c.cards : CardHome(k)
    /\ current # NoProduct => CardHome(current)

\* What the detail page has been told of its history, or will be, is neither older
\* than the page nor ahead of the table.
RowsHere(n) == n \in FirstPage(since)..FirstPage(moves[address.id])
TotalHere(n) == n \in since..moves[address.id]

HistoryHere ==
    counted.of = address.id /\ TotalHere(counted.n) /\ RowsHere(history[address.id])

ReadHere(c) ==
    c.op = "movements" => /\ c.page = 1
                          /\ c.rows = Unread \/ RowsHere(c.rows)
                          /\ c.total = Unread \/ TotalHere(c.total)

\* The detail page of a user who waits: every call in flight is its own, and what
\* it has not been answered yet is still to come.
DetailHome ==
    address.name = "detail" =>
        /\ \A c \in sent : /\ Own(c) /\ c.op \in MountOps \cup {"save"}
                           /\ c.op \in {"product", "movements", "save"} => c.id = address.id
                           /\ ReadHere(c)
        /\ since <= moves[address.id]
        /\ form # NoText => form[1] = address.id
        /\ mount = "done" => \A c \in sent : c.op \notin MountOps
        /\ mount # "failed" =>
               /\ \/ current = NoProduct \/ current.id = address.id
                  \/ \E c \in sent : c.op = "product"
               /\ \/ HistoryHere
                  \/ \E c \in sent : c.op = "movements"

StockInv == StockTypes /\ (patient => TextsHome /\ DetailHome)

-----------------------------------------------------------------------------
\* The fields of a call that has just been asked.
LEMMA AskedType ==
    ASSUME NEW op \in StockOps, NEW p \in Product \cup {NoProduct}, NEW v \in Nat
    PROVE  /\ Asked(op, p, v) \in StockCall
           /\ Asked(op, p, v).op = op /\ Asked(op, p, v).id = p /\ Asked(op, p, v).visit = v
           /\ Asked(op, p, v).status = "sent" /\ Asked(op, p, v).count = 0
           /\ Asked(op, p, v).cards = {} /\ Asked(op, p, v).text = NoText
           /\ Asked(op, p, v).page = 1
           /\ Asked(op, p, v).rows = Unread /\ Asked(op, p, v).total = Unread
  BY DEF Asked, StockCall

\* A page has rows, and no fewer of a longer history.
LEMMA PagesGrow ==
    ASSUME NEW n \in Nat
    PROVE  /\ FirstPage(n) \in Nat /\ RowsOn(1, n) = FirstPage(n) /\ RowsOn(2, n) \in Nat
           /\ \A m \in Nat : n <= m => FirstPage(n) <= FirstPage(m)
  BY StockConsoleAssumption DEF FirstPage, RowsOn

\* A call that asks for something and changes nothing.
LEMMA AskedFits ==
    ASSUME NEW op \in StockOps \ {"save"}, NEW p \in Product \cup {NoProduct}, NEW v \in Nat,
           op \in {"product", "create", "movements", "entrada", "salida"} => p \in Product,
           op = "product" => p \in First
    PROVE  Asked(op, p, v) \in StockCall /\ StockFits(Asked(op, p, v))
  BY AskedType DEF StockFits

LEMMA FirstAreProducts == First \subseteq Product
  BY StockConsoleAssumption

\* What a page asks for when it is mounted.
LEMMA MountCallsType ==
    ASSUME NEW r \in Addresses, NEW v \in Nat, NEW items
    PROVE  \A c \in MountCalls(r, v, items) :
               /\ c \in StockCall /\ StockFits(c) /\ c.op # "save" /\ c.cards = {}
               /\ c.visit = v
               /\ c.page = 1 /\ c.rows = Unread /\ c.total = Unread
               /\ r.name = "detail" =>
                      /\ c.op \in MountOps
                      /\ c.op \in {"product", "movements"} => c.id = r.id
<1>1. CASE r.name = "detail"
  <2>1. r.id \in First /\ r.id \in Product
    BY <1>1, FirstAreProducts DEF Addresses
  <2>2. MountCalls(r, v, items) = {Asked("product", r.id, v), Asked("categories", NoProduct, v),
                                   Asked("movements", r.id, v)}
    BY <1>1 DEF MountCalls
  <2> QED
    <3>1. \A op \in {"product", "movements"} :
              LET c == Asked(op, r.id, v)
              IN  /\ c \in StockCall /\ StockFits(c) /\ c.op = op /\ c.cards = {} /\ c.visit = v
                  /\ c.id = r.id /\ c.page = 1 /\ c.rows = Unread /\ c.total = Unread
      BY <2>1, AskedType, AskedFits DEF StockOps
    <3>2. LET c == Asked("categories", NoProduct, v)
          IN  /\ c \in StockCall /\ StockFits(c) /\ c.op = "categories" /\ c.cards = {}
              /\ c.visit = v /\ c.page = 1 /\ c.rows = Unread /\ c.total = Unread
      <4>1. "categories" \in StockOps \ {"save"}
        BY DEF StockOps
      <4>2. /\ Asked("categories", NoProduct, v) \in StockCall
            /\ StockFits(Asked("categories", NoProduct, v))
        BY <4>1, AskedFits
      <4> QED
        BY <4>1, <4>2, AskedType
    <3> QED
      BY <2>2, <3>1, <3>2 DEF MountOps
<1>2. CASE r.name # "detail"
  <2>1. ASSUME NEW c \in MountCalls(r, v, items)
        PROVE  \E op \in {"products", "categories", "preload"} : c = Asked(op, NoProduct, v)
    BY <1>2, <2>1 DEF MountCalls, Addresses
  <2> QED
    <3>1. ASSUME NEW op \in {"products", "categories", "preload"}
          PROVE  LET c == Asked(op, NoProduct, v)
                 IN  /\ c \in StockCall /\ StockFits(c) /\ c.op = op /\ c.cards = {}
                     /\ c.visit = v /\ c.page = 1 /\ c.rows = Unread /\ c.total = Unread
      <4>1. op \in StockOps \ {"save"}
        BY DEF StockOps
      <4>2. op \notin {"product", "create", "movements", "entrada", "salida"}
        OBVIOUS
      <4>3. Asked(op, NoProduct, v) \in StockCall /\ StockFits(Asked(op, NoProduct, v))
        BY <4>1, <4>2, AskedFits
      <4> QED
        BY <4>1, <4>3, AskedType
    <3> QED
      BY <1>2, <2>1, <3>1
<1> QED
  BY <1>1, <1>2

\* What a page's calls leave to prove.
LEMMA SendsTypes ==
    ASSUME StockTypes, NEW new, \A c \in new : c \in StockCall /\ StockFits(c),
           NEW before \in SUBSET sent, NEW flags, Sends(new, before, flags)
    PROVE  /\ sent' = before \cup new
           /\ sent' \subseteq StockCall /\ \A c \in sent' : StockFits(c)
           /\ raised' \in [Stores -> BOOLEAN] /\ patient' \in BOOLEAN
           /\ patient' => patient /\ (new = {} \/ before = {})
<1>1. patient \in BOOLEAN
  BY DEF StockTypes, StockConsoleTypeOK
<1>2. /\ sent' = before \cup new
      /\ patient' = (patient /\ (new # {} => before = {}))
  BY DEF Sends
<1>3. raised' \in [Stores -> BOOLEAN]
  <2>1. raised' = [s \in Stores |-> flags[s] \/ \E c \in new : StoreOf(c.op) = s]
    BY DEF Sends
  <2>2. \A s \in Stores : (flags[s] \/ \E c \in new : StoreOf(c.op) = s) \in BOOLEAN
    OBVIOUS
  <2> QED
    BY <2>1, <2>2
<1> QED
  BY <1>1, <1>2, <1>3 DEF StockTypes

\* A navigation, from whatever page and whatever calls it leaves behind.
LEMMA PageMounts ==
    ASSUME StockInv, NEW r \in Addresses, NEW before \in SUBSET sent, NEW flags, NEW items,
           Goes(r, before, flags, items),
           list' \in [Product -> Card \cup {NoProduct}],
           history' \in [Product -> Nat],
           counted' \in [of : Product \cup {NoProduct}, n : Nat, more : BOOLEAN],
           UNCHANGED <<dbVars, current, edits>>
    PROVE  StockInv'
<1> DEFINE new == MountCalls(r, visit + 1, items)
<1>1. visit + 1 \in Nat
  BY DEF StockInv, StockTypes
<1>2. \A c \in new : /\ c \in StockCall /\ StockFits(c) /\ c.op # "save" /\ c.cards = {}
                     /\ c.visit = visit + 1
                     /\ c.page = 1 /\ c.rows = Unread /\ c.total = Unread
                     /\ r.name = "detail" => /\ c.op \in MountOps
                                             /\ c.op \in {"product", "movements"} => c.id = r.id
  BY <1>1, MountCallsType
<1>3. r.name = "detail" => /\ \E c \in new : c.op = "product"
                           /\ \E c \in new : c.op = "movements"
  BY DEF MountCalls, Asked
<1> HIDE DEF new
<1>4. /\ address' = r /\ visit' = visit + 1 /\ mount' \in {"waiting", "done"}
      /\ r.name = "detail" => mount' = "waiting"
      /\ form' = NoText /\ editing' = FALSE /\ pending' = FALSE
      /\ since' = IF r.name = "detail" THEN moves[r.id] ELSE 0
      /\ Sends(new, before, flags)
  BY DEF Goes, new
<1>5. /\ sent' = before \cup new
      /\ sent' \subseteq StockCall /\ \A c \in sent' : StockFits(c)
      /\ raised' \in [Stores -> BOOLEAN] /\ patient' \in BOOLEAN
      /\ patient' => patient /\ (new = {} \/ before = {})
  BY <1>2, <1>4, SendsTypes DEF StockInv
<1>6. StockTypes'
  <2>1. /\ r.name \in {"list", "create", "movements", "detail", "record"}
        /\ r \in [name : {"list", "create", "movements", "detail", "record", "other"},
                  id : First \cup {NoProduct}]
        /\ r.name \in {"detail", "record"} => r.id \in First
    BY DEF Addresses
  <2>2. since' \in Nat
    BY <1>4, <2>1, FirstAreProducts DEF StockInv, StockTypes, StockConsoleTypeOK
  <2> QED
    BY <1>1, <1>4, <1>5, <2>1, <2>2 DEF StockInv, StockTypes, StockConsoleTypeOK, dbVars
<1>7. ASSUME patient' PROVE TextsHome'
  BY <1>2, <1>5, <1>7 DEF StockInv, TextsHome, dbVars, CardHome
<1>8. ASSUME patient' PROVE DetailHome'
  <2>1. r.name = "detail" => since' = moves'[address'.id] /\ moves'[address'.id] \in Nat
    BY <1>4, FirstAreProducts DEF Addresses, dbVars, StockInv, StockTypes, StockConsoleTypeOK
  <2>2. r.name = "detail" => \A c \in sent' : ReadHere(c)'
    BY <1>2, <1>3, <1>5, <1>8 DEF ReadHere
  <2> QED
    BY <1>2, <1>3, <1>4, <1>5, <1>8, <2>1, <2>2 DEF DetailHome, Own
<1> QED
  BY <1>6, <1>7, <1>8 DEF StockInv

\* A page that sends one more call of its own.
LEMMA PageSends ==
    ASSUME StockInv, NEW call \in StockCall, StockFits(call), call.visit = visit, call.cards = {},
           call.op = "save" => call.text[1] = call.id \/ ~patient,
           address.name = "detail" => call.op = "save" /\ call.id = address.id,
           Sends({call}, sent, raised), pending' \in BOOLEAN,
           UNCHANGED <<dbVars, storeVars, address, visit, mount, form, editing, edits, since>>
    PROVE  StockInv'
<1>1. /\ sent' = sent \cup {call}
      /\ sent' \subseteq StockCall /\ \A c \in sent' : StockFits(c)
      /\ raised' \in [Stores -> BOOLEAN] /\ patient' \in BOOLEAN
      /\ patient' => patient /\ sent = {}
  BY SendsTypes DEF StockInv
<1>2. StockTypes'
  BY <1>1 DEF StockInv, StockTypes, StockConsoleTypeOK, dbVars, storeVars
<1>3. ASSUME patient' PROVE TextsHome'
  BY <1>1, <1>3 DEF StockInv, TextsHome, dbVars, storeVars, CardHome
<1>4. ASSUME patient' PROVE DetailHome'
  <2>1. \A c : ReadHere(c) <=> ReadHere(c)'
    BY DEF ReadHere, RowsHere, TotalHere, dbVars
  <2>2. HistoryHere <=> HistoryHere'
    BY DEF HistoryHere, RowsHere, TotalHere, dbVars, storeVars
  <2>3. address.name = "detail" => ReadHere(call)
    BY DEF ReadHere
  <2> QED
    BY <1>1, <1>4, <2>1, <2>2, <2>3 DEF StockInv, DetailHome, MountOps, storeVars, dbVars, Own
<1> QED
  BY <1>2, <1>3, <1>4 DEF StockInv

\* What the user does.
LEMMA StockUserSteps == ASSUME StockInv, StockUserActs PROVE StockInv'
<1> USE FirstAreProducts
<1>0. visit \in Nat /\ pending \in BOOLEAN
  BY DEF StockInv, StockTypes, StockConsoleTypeOK
<1>1. ASSUME NEW r \in Addresses, OpenPage(r) PROVE StockInv'
  <2>1. Goes(r, sent, raised, list) /\ UNCHANGED <<dbVars, storeVars, edits>>
    BY <1>1 DEF OpenPage
  <2>2. /\ list' \in [Product -> Card \cup {NoProduct}] /\ history' \in [Product -> Nat]
        /\ counted' \in [of : Product \cup {NoProduct}, n : Nat, more : BOOLEAN]
        /\ UNCHANGED <<dbVars, current, edits>>
    BY <2>1 DEF StockInv, StockTypes, StockConsoleTypeOK, storeVars
  <2> QED
    BY <2>1, <2>2, PageMounts
<1>2. ASSUME NEW p \in Product, PageMovements(p) PROVE StockInv'
  <2> DEFINE call == [Asked("movements", p, visit) EXCEPT !.page = 2]
  <2>1. /\ call \in StockCall /\ StockFits(call) /\ call.visit = visit /\ call.cards = {}
        /\ call.op = "movements"
    BY <1>0 DEF Asked, StockCall, StockOps, StockFits
  <2>2. address.name = "movements" /\ Sends({call}, sent, raised)
        /\ UNCHANGED <<dbVars, storeVars, pageVars, edits>>
    BY <1>2 DEF PageMovements
  <2> HIDE DEF call
  <2> QED
    BY <1>0, <2>1, <2>2, PageSends DEF pageVars
<1>3. ASSUME NEW p \in Product, SubmitProduct(p) PROVE StockInv'
  <2> DEFINE call == Asked("create", p, visit)
  <2>1. /\ call \in StockCall /\ StockFits(call) /\ call.visit = visit /\ call.cards = {}
        /\ call.op = "create"
    BY <1>0, AskedType, AskedFits DEF StockOps
  <2>2. address.name = "create" /\ Sends({call}, sent, raised) /\ pending' = TRUE
        /\ UNCHANGED <<dbVars, storeVars, address, visit, mount, form, editing, edits, since>>
    BY <1>3 DEF SubmitProduct
  <2> HIDE DEF call
  <2> QED
    BY <2>1, <2>2, PageSends
<1>4. ASSUME NEW p \in Product, JumpToProduct(p) PROVE StockInv'
  <2>1. p \in First
    BY <1>4, StockConsoleAssumption DEF JumpToProduct
  <2> QED
    BY <1>4, <2>1 DEF JumpToProduct, StockInv, StockTypes, StockConsoleTypeOK, dbVars, storeVars
<1>5. ASSUME NEW type \in {"entrada", "salida"}, SubmitMovement(type) PROVE StockInv'
  <2> DEFINE call == Asked(type, address.id, visit)
  <2>1. address.name = "record" /\ address.id \in Product
    BY <1>5 DEF SubmitMovement, StockInv, StockTypes
  <2>2. /\ call \in StockCall /\ StockFits(call) /\ call.visit = visit /\ call.cards = {}
        /\ call.op = type
    BY <1>0, <2>1, AskedType, AskedFits DEF StockOps
  <2>3. Sends({call}, sent, raised) /\ pending' = TRUE
        /\ UNCHANGED <<dbVars, storeVars, address, visit, mount, form, editing, edits, since>>
    BY <1>5 DEF SubmitMovement
  <2> HIDE DEF call
  <2> QED
    BY <2>1, <2>2, <2>3, PageSends
<1>6. CASE Search
  <2> DEFINE call == Asked("products", NoProduct, visit)
  <2>1. /\ call \in StockCall /\ StockFits(call) /\ call.visit = visit /\ call.cards = {}
        /\ call.op = "products"
    BY <1>0 DEF Asked, StockCall, StockOps, StockFits
  <2>2. address.name = "list" /\ Sends({call}, sent, raised)
        /\ UNCHANGED <<dbVars, storeVars, pageVars, edits>>
    BY <1>6 DEF Search
  <2> HIDE DEF call
  <2> QED
    BY <1>0, <2>1, <2>2, PageSends DEF pageVars
<1>7. CASE StartEditing
  BY <1>7 DEF StartEditing, StockInv, StockTypes, StockConsoleTypeOK, TextsHome, DetailHome,
              dbVars, storeVars, Own, HistoryHere, ReadHere, RowsHere, TotalHere
<1>8. CASE TypeText
  <2>1. address.id \in Product /\ address.name = "detail"
    BY <1>8 DEF TypeText, FormShown, StockInv, StockTypes
  <2>2. form' = <<address.id, edits + 1>> /\ form' \in Text /\ edits + 1 \in Nat
    BY <1>8, <2>1 DEF TypeText, StockInv, StockTypes, Text
  <2>3. edits' = edits + 1
        /\ UNCHANGED <<dbVars, storeVars, address, visit, mount, editing, pending, raised, sent,
                       since, patient>>
    BY <1>8 DEF TypeText
  <2> QED
    BY <2>1, <2>2, <2>3 DEF StockInv, StockTypes, StockConsoleTypeOK, TextsHome, DetailHome,
                            dbVars, storeVars, Own, HistoryHere, ReadHere, RowsHere, TotalHere
<1>9. CASE Save
  <2> DEFINE call == [Asked("save", address.id, visit) EXCEPT !.text = form]
  <2>1. address.name = "detail" /\ address.id \in First /\ form \in Text
    BY <1>9 DEF Save, FormShown, StockInv, StockTypes, StockConsoleTypeOK
  <2>2. /\ call \in StockCall /\ StockFits(call) /\ call.visit = visit /\ call.cards = {}
        /\ call.op = "save" /\ call.id = address.id /\ call.text = form
    BY <1>0, <2>1 DEF Asked, StockCall, StockOps, StockFits
  <2>3. Sends({call}, sent, raised) /\ pending' = TRUE
        /\ UNCHANGED <<dbVars, storeVars, address, visit, mount, form, editing, edits, since>>
    BY <1>9 DEF Save
  <2>4. form # NoText
    BY <1>9 DEF Save
  <2>5. patient => form[1] = address.id
    BY <2>1, <2>4 DEF StockInv, DetailHome
  <2> HIDE DEF call
  <2> QED
    BY <2>1, <2>2, <2>3, <2>5, PageSends
<1> QED
  BY <1>1, <1>2, <1>3, <1>4, <1>5, <1>6, <1>7, <1>8, <1>9 DEF StockUserActs

-----------------------------------------------------------------------------
\* The card of a product that exists.
LEMMA CardType ==
    ASSUME StockTypes, NEW p \in Product, text[p] # NoText
    PROVE  /\ CardOf(p) \in Card /\ CardOf(p).id = p
           /\ text[p][1] = p => CardHome(CardOf(p))
  BY DEF StockTypes, StockConsoleTypeOK, CardOf, Card, CardHome

\* What a call that is carried out leaves in the tables.
LEMMA TablesAfter ==
    ASSUME StockTypes, NEW c \in sent, Accepts(c), Carries(c)
    PROVE  /\ text' \in [Product -> Text \cup {NoText}]
           /\ stock' \in [Product -> Nat] /\ moves' \in [Product -> Nat]
           /\ \A p \in First : text'[p] \in Text
           /\ \A p \in Product : moves[p] <= moves'[p]
           /\ (\A p \in Product : text[p] # NoText => text[p][1] = p)
              /\ (c.op = "save" => c.text[1] = c.id)
              => \A p \in Product : text'[p] # NoText => text'[p][1] = p
<1>0. StockFits(c) /\ c \in StockCall
  BY DEF StockTypes
<1>1. CASE c.op = "save"
  <2>1. c.id \in Product /\ c.text \in Text
    BY <1>0, <1>1 DEF StockFits
  <2>2. text' = [text EXCEPT ![c.id] = c.text] /\ stock' = stock /\ moves' = moves
    BY <1>1 DEF Carries
  <2> QED
    BY <1>1, <2>1, <2>2, FirstAreProducts DEF StockTypes, StockConsoleTypeOK
<1>2. CASE c.op = "create"
  <2>1. c.id \in Product /\ <<c.id, 0>> \in Text
    BY <1>0, <1>2 DEF StockFits, Text
  <2>2. text' = [text EXCEPT ![c.id] = <<c.id, 0>>] /\ stock' = stock /\ moves' = moves
    BY <1>2 DEF Carries
  <2> QED
    BY <1>2, <2>1, <2>2, FirstAreProducts DEF StockTypes, StockConsoleTypeOK
<1>3. CASE c.op \in {"entrada", "salida"}
  <2>1. c.id \in Product
    BY <1>0, <1>3 DEF StockFits
  <2>2. text' = text /\ moves' = [moves EXCEPT ![c.id] = @ + 1]
    BY <1>3 DEF Carries
  <2>3. stock' \in [Product -> Nat]
    <3>1. CASE c.op = "entrada"
      BY <3>1, <2>1 DEF Carries, StockTypes, StockConsoleTypeOK
    <3>2. CASE c.op = "salida"
      BY <3>2, <2>1 DEF Carries, Accepts, StockTypes, StockConsoleTypeOK
    <3> QED
      BY <1>3, <3>1, <3>2
  <2>4. moves' \in [Product -> Nat]
    BY <2>1, <2>2 DEF StockTypes, StockConsoleTypeOK
  <2> QED
    BY <2>2, <2>3, <2>4 DEF StockTypes, StockConsoleTypeOK
<1>4. CASE c.op \notin {"save", "create", "entrada", "salida"}
  BY <1>4 DEF Carries, StockTypes, StockConsoleTypeOK
<1> QED
  BY <1>1, <1>2, <1>3, <1>4

\* What is answered to a call.
LEMMA AnsweredType ==
    ASSUME StockTypes, NEW c \in sent, c.status = "sent", c.op # "movements", Accepts(c)
    PROVE  LET d == Answered(c)
           IN  /\ d \in StockCall /\ StockFits(d)
               /\ d.op = c.op /\ d.id = c.id /\ d.visit = c.visit /\ d.text = c.text
               /\ (\A p \in Product : text[p] # NoText => text[p][1] = p)
                  /\ (c.op = "save" => c.text[1] = c.id) /\ (\A k \in c.cards : CardHome(k))
                  => \A k \in d.cards : CardHome(k)
<1> DEFINE cards == CASE c.op \in {"products", "preload"} -> {CardOf(p) : p \in {x \in Product : text[x] # NoText}}
                      [] c.op = "product" -> {CardOf(c.id)}
                      [] c.op = "save" -> {[CardOf(c.id) EXCEPT !.text = c.text]}
                      [] c.op = "create" -> {[id |-> c.id, text |-> <<c.id, 0>>, stock |-> 0]}
                      [] OTHER -> {}
           count == c.count + Posts(c)
<1>0. StockFits(c) /\ c \in StockCall /\ c.count = 0
  BY DEF StockTypes, StockFits
<1>1. Answered(c) = [c EXCEPT !.status = "ok", !.cards = cards, !.count = count]
  BY <1>0 DEF Answered, StockCall
<1>2. /\ cards \subseteq Card
      /\ c.op \in {"product", "save"} => \A k \in cards : k.id = c.id
      /\ (\A p \in Product : text[p] # NoText => text[p][1] = p)
         /\ (c.op = "save" => c.text[1] = c.id)
         => \A k \in cards : CardHome(k)
  <2>1. CASE c.op \in {"products", "preload"}
    <3>1. cards = {CardOf(p) : p \in {x \in Product : text[x] # NoText}}
      BY <2>1
    <3> QED
      BY <2>1, <3>1, CardType
  <2>2. CASE c.op = "product"
    <3>1. cards = {CardOf(c.id)} /\ c.id \in First /\ text[c.id] \in Text /\ c.id \in Product
      BY <1>0, <2>2, FirstAreProducts DEF StockFits, StockTypes
    <3>2. text[c.id] # NoText
      BY <3>1, StockConsoleAssumption DEF Text
    <3> QED
      BY <3>1, <3>2, CardType
  <2>3. CASE c.op = "save"
    <3>1. cards = {[CardOf(c.id) EXCEPT !.text = c.text]} /\ c.id \in Product /\ c.text \in Text
      BY <1>0, <2>3 DEF StockFits
    <3> QED
      BY <2>3, <3>1 DEF CardOf, Card, CardHome, StockTypes, StockConsoleTypeOK
  <2>4. CASE c.op = "create"
    <3>1. cards = {[id |-> c.id, text |-> <<c.id, 0>>, stock |-> 0]} /\ c.id \in Product
      BY <1>0, <2>4 DEF StockFits
    <3> QED
      BY <2>4, <3>1 DEF Card, Text, CardHome
  <2>5. CASE c.op \notin {"products", "preload", "product", "save", "create"}
    BY <2>5
  <2> QED
    BY <2>1, <2>2, <2>3, <2>4, <2>5
<1>3. count \in Nat /\ (c.op \in {"entrada", "salida"} => count <= 1)
  BY <1>0 DEF StockFits, Posts, StockTypes, StockConsoleTypeOK
<1> HIDE DEF cards, count
<1> DEFINE d == [c EXCEPT !.status = "ok", !.cards = cards, !.count = count]
<1>4. /\ d \in StockCall /\ d.op = c.op /\ d.id = c.id /\ d.visit = c.visit /\ d.text = c.text
      /\ d.cards = cards /\ d.count = count /\ d.status = "ok"
  BY <1>0, <1>2, <1>3 DEF StockCall
<1> HIDE DEF d
<1>5. StockFits(d)
  BY <1>0, <1>2, <1>3, <1>4 DEF StockFits
<1> QED
  BY <1>1, <1>2, <1>4, <1>5 DEF d

\* What is here stays here while movements are only added.
StillHere ==
    /\ since' <= moves'[address'.id]
    /\ \A c : ReadHere(c) => ReadHere(c)'
    /\ UNCHANGED <<history, counted>> /\ HistoryHere => HistoryHere'

LEMMA HereStays ==
    ASSUME StockInv, patient, address.name = "detail", UNCHANGED <<address, since>>,
           moves' \in [Product -> Nat], \A p \in Product : moves[p] <= moves'[p]
    PROVE  StillHere
<1>1. /\ address.id \in Product /\ since \in Nat /\ moves[address.id] \in Nat
      /\ since <= moves[address.id]
  BY FirstAreProducts DEF StockInv, StockTypes, StockConsoleTypeOK, DetailHome
<1>2. moves'[address.id] \in Nat /\ moves[address.id] <= moves'[address.id]
  BY <1>1
<1>3. /\ FirstPage(since) \in Nat /\ FirstPage(moves[address.id]) \in Nat
      /\ FirstPage(moves'[address.id]) \in Nat
      /\ FirstPage(moves[address.id]) <= FirstPage(moves'[address.id])
  BY <1>1, <1>2, PagesGrow
<1>4. ASSUME NEW n PROVE (RowsHere(n) => RowsHere(n)') /\ (TotalHere(n) => TotalHere(n)')
  <2>1. RowsHere(n)' <=> n \in FirstPage(since)..FirstPage(moves'[address.id])
    BY DEF RowsHere, FirstPage
  <2>2. TotalHere(n)' <=> n \in since..moves'[address.id]
    BY DEF TotalHere
  <2> QED
    BY <1>1, <1>2, <1>3, <2>1, <2>2 DEF RowsHere, TotalHere
<1>5. \A c : ReadHere(c) => ReadHere(c)'
  BY <1>4 DEF ReadHere
<1>6. UNCHANGED <<history, counted>> /\ HistoryHere => HistoryHere'
  BY <1>4 DEF HistoryHere, RowsHere, TotalHere
<1> QED
  BY <1>1, <1>2, <1>5, <1>6 DEF StillHere

\* A call changes in flight, as does a table; the pages and the stores stay.
LEMMA CallMoves ==
    ASSUME StockInv, NEW c \in sent, NEW d \in StockCall, StockFits(d),
           d.op = c.op, d.id = c.id, d.visit = c.visit, d.text = c.text,
           patient => \A k \in d.cards : CardHome(k),
           sent' = Rest(c) \cup {d},
           patient /\ address.name = "detail" => ReadHere(d)',
           \A p \in Product : moves[p] <= moves'[p],
           text' \in [Product -> Text \cup {NoText}],
           stock' \in [Product -> Nat], moves' \in [Product -> Nat],
           \A p \in First : text'[p] \in Text,
           patient => \A p \in Product : text'[p] # NoText => text'[p][1] = p,
           UNCHANGED <<storeVars, pageVars, raised, edits, patient>>
    PROVE  StockInv'
<1>1. StockTypes'
  BY DEF StockInv, StockTypes, StockConsoleTypeOK, storeVars, pageVars, Rest
<1>2. ASSUME patient' PROVE TextsHome'
  <2>1. TextsHome /\ patient
    BY <1>2 DEF StockInv
  <2> QED
    BY <2>1 DEF TextsHome, storeVars, Rest, CardHome
<1>3. ASSUME patient' PROVE DetailHome'
  <2>1. DetailHome
    BY <1>3 DEF StockInv
  <2>2. sent' = (sent \ {c}) \cup {d} /\ address' = address /\ form' = form /\ mount' = mount
        /\ current' = current /\ visit' = visit
    BY DEF storeVars, pageVars, Rest
  <2>3. address.name = "detail" => StillHere
    BY <1>3, HereStays DEF pageVars
  <2> QED
    BY <1>3, <2>1, <2>2, <2>3 DEF DetailHome, Own, StillHere, storeVars
<1> QED
  BY <1>1, <1>2, <1>3 DEF StockInv

LEMMA ServedSteps ==
    ASSUME StockInv, NEW c \in sent, ServeStock(c) \/ StockCallBreaks(c) PROVE StockInv'
<1>0. /\ StockTypes /\ StockFits(c) /\ c \in StockCall /\ c.status = "sent" /\ c.count = 0
      /\ patient => /\ \A p \in Product : text[p] # NoText => text[p][1] = p
                    /\ c.op = "save" => c.text[1] = c.id
                    /\ \A k \in c.cards : CardHome(k)
  BY DEF StockInv, StockTypes, StockFits, TextsHome, ServeStock, StockCallBreaks
<1>4. ~Reads(c.op) => c.op # "movements"
  BY DEF Reads
<1>1. CASE ServeStock(c)
  <2>1. Accepts(c) /\ Carries(c) /\ c.op # "movements" /\ sent' = Rest(c) \cup {Answered(c)}
        /\ UNCHANGED <<storeVars, pageVars, raised, edits, patient>>
    BY <1>1 DEF ServeStock
  <2>0. PICK d : d = Answered(c)
    OBVIOUS
  <2>2. /\ d \in StockCall /\ StockFits(d)
        /\ d.op = c.op /\ d.id = c.id /\ d.visit = c.visit /\ d.text = c.text
        /\ patient => \A k \in d.cards : CardHome(k)
    BY <1>0, <2>0, <2>1, AnsweredType
  <2>3. sent' = Rest(c) \cup {d}
    BY <2>0, <2>1
  <2>4. ReadHere(d)'
    BY <2>1, <2>2 DEF ReadHere
  <2> QED
    BY <1>0, <2>1, <2>2, <2>3, <2>4, TablesAfter, CallMoves
<1>2. CASE Accepts(c) /\ Carries(c) /\ ~Reads(c.op)
           /\ sent' = Rest(c) \cup {[c EXCEPT !.status = "failed", !.count = @ + Posts(c)]}
           /\ UNCHANGED <<storeVars, pageVars, raised, edits, patient>>
  <2> DEFINE d == [c EXCEPT !.status = "failed", !.count = @ + Posts(c)]
  <2>0. d = [c EXCEPT !.status = "failed", !.count = Posts(c)] /\ Posts(c) \in {0, 1}
    BY <1>0 DEF StockCall, Posts
  <2> HIDE DEF d
  <2>1. /\ d \in StockCall /\ StockFits(d)
        /\ d.op = c.op /\ d.id = c.id /\ d.visit = c.visit /\ d.text = c.text /\ d.cards = c.cards
    <3>1. PICK n \in {0, 1} : d = [c EXCEPT !.status = "failed", !.count = n]
      BY <2>0
    <3>2. n \in Nat /\ n <= 1 /\ c \in StockCall
      BY <1>0
    <3>3. /\ d.op = c.op /\ d.id = c.id /\ d.visit = c.visit /\ d.text = c.text /\ d.cards = c.cards
          /\ d.status = "failed" /\ d.count = n /\ d \in StockCall
      BY <3>1, <3>2 DEF StockCall
    <3> QED
      BY <1>0, <3>2, <3>3 DEF StockFits
  <2> HIDE DEF d
  <2>2. sent' = Rest(c) \cup {d}
    BY <1>2 DEF d
  <2>3. ReadHere(d)'
    BY <1>4, <1>2, <2>1 DEF ReadHere
  <2> QED
    BY <1>0, <1>2, <2>1, <2>2, <2>3, TablesAfter, CallMoves
<1>3. CASE /\ UNCHANGED dbVars
           /\ sent' = Rest(c) \cup {[c EXCEPT !.status = "failed", !.rows = Unread, !.total = Unread]}
           /\ UNCHANGED <<storeVars, pageVars, raised, edits, patient>>
  <2> DEFINE d == [c EXCEPT !.status = "failed", !.rows = Unread, !.total = Unread]
  <2>1. /\ d \in StockCall /\ StockFits(d)
        /\ d.op = c.op /\ d.id = c.id /\ d.visit = c.visit /\ d.text = c.text /\ d.cards = c.cards
        /\ d.page = c.page /\ d.rows = Unread /\ d.total = Unread
    BY <1>0 DEF StockCall, StockFits
  <2> HIDE DEF d
  <2>2. sent' = Rest(c) \cup {d}
    BY <1>3 DEF d
  <2>4. patient /\ address.name = "detail" => ReadHere(d)'
    BY <2>1 DEF StockInv, DetailHome, ReadHere
  <2>3. /\ text' \in [Product -> Text \cup {NoText}]
        /\ stock' \in [Product -> Nat] /\ moves' \in [Product -> Nat]
        /\ \A p \in First : text'[p] \in Text
        /\ patient => \A p \in Product : text'[p] # NoText => text'[p][1] = p
        /\ \A p \in Product : moves[p] <= moves'[p]
    BY <1>0, <1>3 DEF dbVars, StockTypes, StockConsoleTypeOK
  <2> QED
    BY <1>0, <1>3, <2>1, <2>2, <2>3, <2>4, CallMoves
<1> QED
  BY <1>1, <1>2, <1>3 DEF StockCallBreaks

\* One statement of a list of movements, or the second of the two.
LEMMA ListedSteps ==
    ASSUME StockInv, NEW c \in sent, ReadRows(c) \/ CountRows(c) PROVE StockInv'
<1>0. /\ StockTypes /\ StockFits(c) /\ c \in StockCall
      /\ c.status = "sent" /\ c.op = "movements" /\ c.count = 0 /\ c.id \in Product
      /\ moves[c.id] \in Nat
      /\ UNCHANGED <<dbVars, storeVars, pageVars, raised, edits, patient>>
  BY DEF ReadRows, CountRows, ListsMovements, StockInv, StockTypes, StockFits, StockConsoleTypeOK
<1>1. PICK nRows \in Nat \cup {Unread}, total \in Nat \cup {Unread} :
        /\ sent' = Rest(c) \cup {[c EXCEPT !.rows = nRows, !.total = total, !.status =
                                       IF nRows # Unread /\ total # Unread THEN "ok" ELSE "sent"]}
        /\ nRows \in {c.rows, RowsOn(c.page, moves[c.id])}
        /\ total \in {c.total, moves[c.id]}
  <2>0. RowsOn(c.page, moves[c.id]) \in Nat
    BY <1>0, PagesGrow DEF StockCall
  <2>1. CASE ReadRows(c)
    <3> DEFINE nRows == RowsOn(c.page, moves[c.id])
               d == [c EXCEPT !.rows = nRows]
    <3>1. sent' = Rest(c) \cup {[d EXCEPT !.status = IF d.rows # Unread /\ d.total # Unread
                                                   THEN "ok" ELSE "sent"]}
      BY <2>1 DEF ReadRows, ListsMovements
    <3>2. [d EXCEPT !.status = IF d.rows # Unread /\ d.total # Unread THEN "ok" ELSE "sent"]
          = [c EXCEPT !.rows = nRows, !.total = c.total, !.status =
                 IF nRows # Unread /\ c.total # Unread THEN "ok" ELSE "sent"]
      BY <1>0 DEF StockCall
    <3> QED
      BY <1>0, <2>0, <3>1, <3>2 DEF StockCall
  <2>2. CASE CountRows(c)
    <3> DEFINE d == [c EXCEPT !.total = moves[c.id]]
    <3>1. sent' = Rest(c) \cup {[d EXCEPT !.status = IF d.rows # Unread /\ d.total # Unread
                                                   THEN "ok" ELSE "sent"]}
      BY <2>2 DEF CountRows, ListsMovements
    <3>2. [d EXCEPT !.status = IF d.rows # Unread /\ d.total # Unread THEN "ok" ELSE "sent"]
          = [c EXCEPT !.rows = c.rows, !.total = moves[c.id], !.status =
                 IF c.rows # Unread /\ moves[c.id] # Unread THEN "ok" ELSE "sent"]
      BY <1>0 DEF StockCall
    <3> QED
      BY <1>0, <3>1, <3>2 DEF StockCall
  <2> QED
    BY <2>1, <2>2
<1> DEFINE d == [c EXCEPT !.rows = nRows, !.total = total, !.status =
                     IF nRows # Unread /\ total # Unread THEN "ok" ELSE "sent"]
<1>2. /\ d \in StockCall
      /\ d.op = c.op /\ d.id = c.id /\ d.visit = c.visit /\ d.text = c.text /\ d.cards = c.cards
      /\ d.page = c.page /\ d.rows = nRows /\ d.total = total /\ d.count = c.count
      /\ d.status = "ok" => nRows # Unread /\ total # Unread
  BY <1>0 DEF StockCall
<1>3. sent' = Rest(c) \cup {d}
  BY <1>1
<1> HIDE DEF d
<1>4. StockFits(d)
  BY <1>0, <1>2 DEF StockFits
<1>5. patient /\ address.name = "detail" => ReadHere(d)'
  <2> SUFFICES ASSUME patient, address.name = "detail" PROVE ReadHere(d)'
    OBVIOUS
  <2>1. /\ ReadHere(c) /\ c.id = address.id /\ since <= moves[address.id] /\ since \in Nat
        /\ c.page = 1
    BY <1>0 DEF StockInv, StockTypes, StockConsoleTypeOK, DetailHome, ReadHere
  <2>2. RowsHere(RowsOn(c.page, moves[c.id])) /\ TotalHere(moves[c.id])
    BY <1>0, <2>1, PagesGrow DEF RowsHere, TotalHere
  <2>3. ReadHere(d)
    BY <1>0, <1>1, <1>2, <2>1, <2>2 DEF ReadHere
  <2> QED
    BY <1>0, <2>3 DEF ReadHere, RowsHere, TotalHere, dbVars, pageVars
<1>6. /\ text' \in [Product -> Text \cup {NoText}]
      /\ stock' \in [Product -> Nat] /\ moves' \in [Product -> Nat]
      /\ \A p \in First : text'[p] \in Text
      /\ \A p \in Product : moves[p] <= moves'[p]
      /\ patient => \A p \in Product : text'[p] # NoText => text'[p][1] = p
      /\ patient => \A k \in c.cards : CardHome(k)
  BY <1>0 DEF dbVars, StockInv, StockTypes, StockConsoleTypeOK, TextsHome
<1> QED
  BY <1>0, <1>2, <1>3, <1>4, <1>5, <1>6, CallMoves

\* What the other administrator does.
LEMMA ElsewhereSteps ==
    ASSUME StockInv, NEW p \in Elsewhere, EditedElsewhere(p) \/ MovedElsewhere(p) PROVE StockInv'
<1>0. p \in Product
  BY StockConsoleAssumption
<1>1. CASE EditedElsewhere(p)
  <2>1. edits + 1 \in Nat /\ <<p, edits + 1>> \in Text /\ <<p, edits + 1>>[1] = p
    BY <1>0 DEF Text, StockInv, StockTypes
  <2>2. text' = [text EXCEPT ![p] = <<p, edits + 1>>] /\ edits' = edits + 1
        /\ UNCHANGED <<stock, moves, storeVars, pageVars, raised, sent, patient>>
    BY <1>1 DEF EditedElsewhere
  <2>3. StockTypes'
    BY <1>0, <2>1, <2>2, FirstAreProducts DEF StockInv, StockTypes, StockConsoleTypeOK, storeVars, pageVars
  <2> QED
    BY <1>0, <2>1, <2>2, <2>3 DEF StockInv, StockTypes, StockConsoleTypeOK, TextsHome, DetailHome,
                                  storeVars, pageVars, Own, HistoryHere, ReadHere, RowsHere, TotalHere
<1>2. CASE MovedElsewhere(p)
  <2>1. PICK s \in 0..MaxStock : stock' = [stock EXCEPT ![p] = s]
    BY <1>2 DEF MovedElsewhere
  <2>2. /\ moves' = [moves EXCEPT ![p] = @ + 1]
        /\ UNCHANGED <<text, storeVars, pageVars, raised, sent, edits, patient>>
    BY <1>2 DEF MovedElsewhere
  <2>3. s \in Nat
    BY StockConsoleAssumption
  <2>4. stock' \in [Product -> Nat] /\ moves' \in [Product -> Nat]
    BY <1>0, <2>1, <2>2, <2>3 DEF StockInv, StockTypes, StockConsoleTypeOK
  <2>5. \A q \in Product : moves[q] <= moves'[q]
    BY <1>0, <2>2 DEF StockInv, StockTypes, StockConsoleTypeOK
  <2>6. patient /\ address.name = "detail" => StillHere
    BY <2>2, <2>4, <2>5, HereStays DEF pageVars
  <2>7. StockTypes'
    BY <2>2, <2>4 DEF StockInv, StockTypes, StockConsoleTypeOK, storeVars, pageVars
  <2>8. ASSUME patient' PROVE TextsHome' /\ DetailHome'
    BY <2>2, <2>6, <2>8 DEF StockInv, TextsHome, DetailHome, StillHere, storeVars, pageVars, Own
  <2> QED
    BY <2>7, <2>8 DEF StockInv
<1> QED
  BY <1>1, <1>2

-----------------------------------------------------------------------------
\* An answer is taken, and the page stays.
LEMMA CallLeaves ==
    ASSUME StockInv, NEW c \in sent, sent' = Rest(c), raised' = Lowered(c),
           UNCHANGED <<dbVars, address, visit, edits, since, patient>>,
           list' \in [Product -> Card \cup {NoProduct}], current' \in Card \cup {NoProduct},
           history' \in [Product -> Nat],
           counted' \in [of : Product \cup {NoProduct}, n : Nat, more : BOOLEAN],
           mount' \in {"waiting", "failed", "done"}, form' \in Text \cup {NoText},
           editing' \in BOOLEAN, pending' \in BOOLEAN,
           patient /\ current' # NoProduct => CardHome(current'),
           patient /\ address.name = "detail" =>
               /\ form' # NoText => form'[1] = address.id
               /\ mount' = "done" => \A d \in Rest(c) : d.op \notin MountOps
               /\ mount' # "failed" =>
                      /\ \/ current' = NoProduct \/ current'.id = address.id
                         \/ \E d \in Rest(c) : d.op = "product"
                      /\ \/ HistoryHere'
                         \/ \E d \in Rest(c) : d.op = "movements"
    PROVE  StockInv'
<1>1. sent' \subseteq sent
  BY DEF Rest
<1>2. raised' \in [Stores -> BOOLEAN]
  BY DEF Lowered, StockInv, StockTypes, StockConsoleTypeOK
<1>3. StockTypes'
  BY <1>1, <1>2 DEF StockInv, StockTypes, StockConsoleTypeOK, dbVars
<1>4. ASSUME patient' PROVE TextsHome'
  BY <1>1, <1>4 DEF StockInv, TextsHome, dbVars
<1>5. ASSUME patient' PROVE DetailHome'
  <2>1. \A d : ReadHere(d) <=> ReadHere(d)'
    BY DEF ReadHere, RowsHere, TotalHere, dbVars
  <2> QED
    BY <1>1, <1>5, <2>1 DEF StockInv, DetailHome, Own, dbVars
<1> QED
  BY <1>3, <1>4, <1>5 DEF StockInv

\* What is known of an answer before it is taken.
LEMMA AnswerHome ==
    ASSUME StockInv, NEW c \in sent
    PROVE  /\ c \in StockCall /\ StockFits(c)
           /\ \A k \in c.cards : k \in Card /\ (patient => CardHome(k))
           /\ patient /\ address.name = "detail" =>
                  /\ Own(c) /\ c.op \in MountOps \cup {"save"}
                  /\ c.op \in {"product", "movements", "save"} => c.id = address.id
                  /\ ReadHere(c)
                  /\ form # NoText => form[1] = address.id
                  /\ mount = "done" => \A d \in sent : d.op \notin MountOps
                  /\ mount # "failed" =>
                         /\ \/ current = NoProduct \/ current.id = address.id
                            \/ \E d \in sent : d.op = "product"
                         /\ \/ HistoryHere
                            \/ \E d \in sent : d.op = "movements"
           /\ patient /\ current # NoProduct => CardHome(current)
<1>1. c \in StockCall /\ StockFits(c)
  BY DEF StockInv, StockTypes
<1>2. \A k \in c.cards : k \in Card
  BY <1>1 DEF StockCall
<1> QED
  BY <1>1, <1>2 DEF StockInv, TextsHome, DetailHome

\* The form is filled once no answer that it waits for is still to come.
LEMMA FormFills ==
    ASSUME StockInv, NEW c \in sent, c.op \in MountOps, NEW shown \in Card \cup {NoProduct},
           patient /\ shown # NoProduct => CardHome(shown), Fills(c, shown),
           patient /\ address.name = "detail" =>
               \/ shown = NoProduct \/ shown.id = address.id
               \/ mount = "failed" \/ \E d \in Rest(c) : d.op = "product"
    PROVE  /\ mount' \in {"waiting", "failed", "done"} /\ form' \in Text \cup {NoText}
           /\ mount' # "failed" => mount # "failed"
           /\ patient /\ address.name = "detail" =>
                  /\ form' # NoText => form'[1] = address.id
                  /\ mount' = "done" => \A d \in Rest(c) : d.op \notin MountOps
<1>1. mount \in {"waiting", "failed", "done"} /\ form \in Text \cup {NoText}
  BY DEF StockInv, StockTypes, StockConsoleTypeOK
<1>2. CASE ~AllLoaded(c)
  <2>1. mount' = mount /\ form' = form
    BY <1>2 DEF Fills
  <2> QED
    BY <1>1, <2>1, AnswerHome DEF Rest
<1>3. CASE AllLoaded(c)
  <2>1. mount' = "done" /\ form' = (IF shown = NoProduct THEN form ELSE shown.text)
    BY <1>3 DEF Fills
  <2>2. mount = "waiting" /\ \A d \in Rest(c) : ~(Own(d) /\ d.op \in MountOps)
    BY <1>3 DEF AllLoaded
  <2>3. shown # NoProduct => shown.text \in Text
    BY DEF Card
  <2>4. ASSUME patient, address.name = "detail"
        PROVE  /\ form' # NoText => form'[1] = address.id
               /\ \A d \in Rest(c) : d.op \notin MountOps
    <3>1. \A d \in Rest(c) : d.op \notin MountOps
      BY <2>2, <2>4, AnswerHome DEF Rest, MountOps
    <3>2. shown = NoProduct \/ shown.id = address.id
      BY <2>2, <2>4, <3>1 DEF MountOps
    <3> QED
      <4>1. shown # NoProduct => CardHome(shown)
        BY <2>4
      <4>2. form # NoText => form[1] = address.id
        BY <2>4, AnswerHome
      <4> QED
        BY <2>1, <3>1, <3>2, <4>1, <4>2 DEF CardHome
  <2> QED
    BY <1>1, <2>1, <2>2, <2>3, <2>4
<1> QED
  BY <1>2, <1>3

\* While neither the tables nor the history in the store move, nor does this.
LEMMA HistoryStays ==
    ASSUME UNCHANGED <<moves, history, counted, address, since>>
    PROVE  HistoryHere <=> HistoryHere'
  BY DEF HistoryHere, RowsHere, TotalHere

\* What a list of cards leaves in the store.
LEMMA ListType ==
    ASSUME NEW cards \in SUBSET Card
    PROVE  [p \in Product |-> IF \E k \in cards : k.id = p
                              THEN CHOOSE k \in cards : k.id = p ELSE NoProduct]
               \in [Product -> Card \cup {NoProduct}]
<1>1. ASSUME NEW p \in Product, \E k \in cards : k.id = p
      PROVE  (CHOOSE k \in cards : k.id = p) \in Card
  BY <1>1
<1> QED
  BY <1>1

LEMMA FailureArrivesStep == ASSUME StockInv, NEW c \in sent, StockFailureArrives(c) PROVE StockInv'
<1>1. /\ mount' = IF Own(c) /\ mount = "waiting" /\ c.op \in MountOps THEN "failed" ELSE mount
      /\ sent' = Rest(c) /\ raised' = Lowered(c)
      /\ pending' \in {FALSE, pending}
      /\ UNCHANGED <<dbVars, storeVars, address, visit, form, editing, edits, since, patient>>
  BY DEF StockFailureArrives
<1>2. ASSUME patient, address.name = "detail", mount' # "failed"
      PROVE  /\ current = NoProduct \/ current.id = address.id \/ \E d \in Rest(c) : d.op = "product"
             /\ \/ HistoryHere
                \/ \E d \in Rest(c) : d.op = "movements"
  <2>1. mount # "failed" /\ (mount = "done" \/ c.op = "save")
    BY <1>1, <1>2, AnswerHome DEF StockInv, StockTypes, StockConsoleTypeOK
  <2> QED
    <3>1. CASE c.op = "save"
      BY <1>2, <2>1, <3>1, AnswerHome DEF Rest
    <3>2. CASE mount = "done"
      BY <1>2, <2>1, <3>2, AnswerHome DEF Rest
    <3> QED
      BY <2>1, <3>1, <3>2
<1>3. patient /\ address.name = "detail" /\ mount' = "done" => \A d \in Rest(c) : d.op \notin MountOps
  BY <1>1, AnswerHome DEF Rest
<1>4. /\ StockTypes /\ mount' \in {"waiting", "failed", "done"} /\ pending' \in BOOLEAN
      /\ patient /\ current # NoProduct => CardHome(current)
      /\ patient /\ address.name = "detail" => (form # NoText => form[1] = address.id)
  BY <1>1, AnswerHome DEF StockInv, StockTypes, StockConsoleTypeOK
<1> QED
  BY <1>1, <1>2, <1>3, <1>4, HistoryStays, CallLeaves DEF StockTypes, StockConsoleTypeOK, storeVars, dbVars

\* The state as the leaves below need it.
LEMMA StockTyped ==
    ASSUME StockInv
    PROVE  /\ text \in [Product -> Text \cup {NoText}]
           /\ list \in [Product -> Card \cup {NoProduct}] /\ current \in Card \cup {NoProduct}
           /\ history \in [Product -> Nat]
           /\ counted \in [of : Product \cup {NoProduct}, n : Nat, more : BOOLEAN]
           /\ mount \in {"waiting", "failed", "done"} /\ form \in Text \cup {NoText}
           /\ editing \in BOOLEAN /\ pending \in BOOLEAN
  BY DEF StockInv, StockTypes, StockConsoleTypeOK

LEMMA CardsArriveStep == ASSUME StockInv, NEW c \in sent, CardsArrive(c) PROVE StockInv'
<1>1. c.op = "products" /\ sent' = Rest(c) /\ raised' = Lowered(c)
      /\ UNCHANGED <<dbVars, current, history, counted, pageVars, edits, patient>>
  BY DEF CardsArrive, Ok
<1>2. list' \in [Product -> Card \cup {NoProduct}]
  BY ListType, AnswerHome DEF CardsArrive, StockCall
<1>3. ~(patient /\ address.name = "detail")
  BY <1>1, AnswerHome DEF MountOps
<1>4. patient /\ current # NoProduct => CardHome(current)
  BY AnswerHome
<1> QED
  BY <1>1, <1>2, <1>3, <1>4, StockTyped, CallLeaves DEF pageVars

LEMMA PreloadArrivesStep == ASSUME StockInv, NEW c \in sent, PreloadArrives(c) PROVE StockInv'
<1> DEFINE new == {Asked("movements", k.id, c.visit) : k \in c.cards}
<1>1. c.op = "preload" /\ Sends(new, Rest(c), Lowered(c))
      /\ UNCHANGED <<dbVars, current, history, counted, pageVars, edits>>
  BY DEF PreloadArrives, Ok
<1>2. list' \in [Product -> Card \cup {NoProduct}]
  BY ListType, AnswerHome DEF PreloadArrives, StockCall
<1>3. \A d \in new : d \in StockCall /\ StockFits(d) /\ d.op = "movements" /\ d.cards = {}
  <2>1. c.visit \in Nat /\ \A k \in c.cards : k.id \in Product
    BY AnswerHome DEF StockCall, Card
  <2> QED
    BY <2>1, AskedType, AskedFits DEF StockOps
<1> HIDE DEF new
<1>4. /\ sent' = Rest(c) \cup new
      /\ sent' \subseteq StockCall /\ \A d \in sent' : StockFits(d)
      /\ raised' \in [Stores -> BOOLEAN] /\ patient' \in BOOLEAN
      /\ patient' => patient
  BY <1>1, <1>3, SendsTypes DEF StockInv, Rest
<1>5. StockTypes'
  BY <1>1, <1>2, <1>4 DEF StockInv, StockTypes, StockConsoleTypeOK, dbVars, pageVars
<1>6. ASSUME patient' PROVE TextsHome' /\ DetailHome'
  <2>1. address.name # "detail"
    BY <1>1, <1>4, <1>6, AnswerHome DEF MountOps
  <2>2. TextsHome
    BY <1>4, <1>6 DEF StockInv
  <2> QED
    BY <1>1, <1>3, <1>4, <2>1, <2>2 DEF TextsHome, DetailHome, dbVars, pageVars, Rest
<1> QED
  BY <1>5, <1>6 DEF StockInv

LEMMA CardArrivesStep == ASSUME StockInv, NEW c \in sent, CardArrives(c) PROVE StockInv'
<1>1. /\ c.op = "product" /\ Fills(c, current') /\ sent' = Rest(c) /\ raised' = Lowered(c)
      /\ UNCHANGED <<dbVars, list, history, counted, address, visit, editing, pending, edits, since,
                     patient>>
  BY DEF CardArrives, Ok
<1>2. PICK k \in c.cards : current' = k
  BY DEF CardArrives
<1>3. k \in Card /\ k.id = c.id /\ (patient => CardHome(k))
  BY <1>1, AnswerHome DEF StockFits
<1>4. patient /\ address.name = "detail" => current'.id = address.id
  BY <1>1, <1>2, <1>3, AnswerHome
<1>5. /\ mount' \in {"waiting", "failed", "done"} /\ form' \in Text \cup {NoText}
      /\ mount' # "failed" => mount # "failed"
      /\ patient /\ address.name = "detail" =>
             /\ form' # NoText => form'[1] = address.id
             /\ mount' = "done" => \A d \in Rest(c) : d.op \notin MountOps
  BY <1>1, <1>2, <1>3, <1>4, FormFills DEF MountOps
<1>6. ASSUME patient, address.name = "detail", mount' # "failed"
      PROVE  \/ HistoryHere'
             \/ \E d \in Rest(c) : d.op = "movements"
  BY <1>1, <1>5, <1>6, AnswerHome, HistoryStays DEF Rest, dbVars
<1> QED
  BY <1>1, <1>2, <1>3, <1>4, <1>5, <1>6, StockTyped, CallLeaves

LEMMA CategoriesArriveStep ==
    ASSUME StockInv, NEW c \in sent, CategoriesArrive(c) PROVE StockInv'
<1>1. /\ c.op = "categories" /\ Fills(c, current) /\ sent' = Rest(c) /\ raised' = Lowered(c)
      /\ UNCHANGED <<dbVars, storeVars, address, visit, editing, pending, edits, since, patient>>
  BY DEF CategoriesArrive, Ok
<1>2. patient /\ current # NoProduct => CardHome(current)
  BY AnswerHome
<1>3. ASSUME patient, address.name = "detail", mount # "failed"
      PROVE  /\ current = NoProduct \/ current.id = address.id \/ \E d \in Rest(c) : d.op = "product"
             /\ \/ HistoryHere
                \/ \E d \in Rest(c) : d.op = "movements"
  BY <1>1, <1>3, AnswerHome DEF Rest
<1>4. /\ mount' \in {"waiting", "failed", "done"} /\ form' \in Text \cup {NoText}
      /\ mount' # "failed" => mount # "failed"
      /\ patient /\ address.name = "detail" =>
             /\ form' # NoText => form'[1] = address.id
             /\ mount' = "done" => \A d \in Rest(c) : d.op \notin MountOps
  BY <1>1, <1>2, <1>3, StockTyped, FormFills DEF MountOps
<1> QED
  BY <1>1, <1>2, <1>3, <1>4, StockTyped, HistoryStays, CallLeaves DEF storeVars, dbVars

LEMMA HistoryArrivesStep == ASSUME StockInv, NEW c \in sent, HistoryArrives(c) PROVE StockInv'
<1>1. /\ c.op = "movements" /\ Fills(c, current) /\ sent' = Rest(c) /\ raised' = Lowered(c)
      /\ c.status = "ok" /\ history' = [history EXCEPT ![c.id] = c.rows]
      /\ counted' = [of |-> c.id, n |-> c.total, more |-> c.page * PageSize < c.total]
      /\ UNCHANGED <<dbVars, list, current, address, visit, editing, pending, edits, since, patient>>
  BY DEF HistoryArrives, TotalOf, Ok
<1>2. /\ c.id \in Product /\ c.rows \in Nat /\ c.total \in Nat
      /\ c.rows # Unread /\ c.total # Unread
  BY <1>1, AnswerHome DEF StockFits, StockCall
<1>3. /\ history' \in [Product -> Nat] /\ counted' \in [of : Product \cup {NoProduct}, n : Nat, more : BOOLEAN]
      /\ counted'.of = c.id /\ counted'.n = c.total /\ history'[c.id] = c.rows
  <2>1. (c.page * PageSize < c.total) \in BOOLEAN
    OBVIOUS
  <2> QED
    BY <1>1, <1>2, <2>1, StockTyped
<1>4. patient /\ current # NoProduct => CardHome(current)
  BY AnswerHome
<1>5. ASSUME patient, address.name = "detail", mount # "failed"
      PROVE  current = NoProduct \/ current.id = address.id \/ \E d \in Rest(c) : d.op = "product"
  BY <1>1, <1>5, AnswerHome DEF Rest
<1>6. /\ mount' \in {"waiting", "failed", "done"} /\ form' \in Text \cup {NoText}
      /\ mount' # "failed" => mount # "failed"
      /\ patient /\ address.name = "detail" =>
             /\ form' # NoText => form'[1] = address.id
             /\ mount' = "done" => \A d \in Rest(c) : d.op \notin MountOps
  BY <1>1, <1>4, <1>5, StockTyped, FormFills DEF MountOps
<1>7. patient /\ address.name = "detail" => HistoryHere'
  <2> SUFFICES ASSUME patient, address.name = "detail" PROVE HistoryHere'
    OBVIOUS
  <2>1. c.id = address.id /\ RowsHere(c.rows) /\ TotalHere(c.total)
    BY <1>1, <1>2, AnswerHome DEF ReadHere
  <2> QED
    BY <1>1, <1>3, <2>1 DEF HistoryHere, RowsHere, TotalHere, dbVars
<1> QED
  BY <1>1, <1>3, <1>4, <1>5, <1>6, <1>7, StockTyped, CallLeaves

LEMMA SaveArrivesStep == ASSUME StockInv, NEW c \in sent, SaveArrives(c) PROVE StockInv'
<1>1. PICK k \in c.cards :
        /\ list' = [list EXCEPT ![c.id] = IF @ = NoProduct THEN @ ELSE k]
        /\ current' = IF current # NoProduct /\ current.id = c.id THEN k ELSE current
  BY DEF SaveArrives
<1>2. /\ c.op = "save" /\ sent' = Rest(c) /\ raised' = Lowered(c)
      /\ pending' \in {FALSE, pending} /\ editing' \in {FALSE, editing}
      /\ UNCHANGED <<dbVars, history, counted, address, visit, mount, form, edits, since, patient>>
  BY DEF SaveArrives, Ok
<1>3. k \in Card /\ k.id = c.id /\ (patient => CardHome(k)) /\ c.id \in Product
  BY <1>2, AnswerHome DEF StockFits
<1>4. list' \in [Product -> Card \cup {NoProduct}] /\ current' \in Card \cup {NoProduct}
  BY <1>1, <1>3, StockTyped
<1>5. patient /\ current' # NoProduct => CardHome(current')
  BY <1>1, <1>3, AnswerHome
<1>6. current = NoProduct => current' = NoProduct
  BY <1>1
<1>7. current # NoProduct /\ current.id = address.id => current'.id = address.id
  BY <1>1, <1>3
<1>8. ASSUME patient, address.name = "detail"
      PROVE  /\ form # NoText => form[1] = address.id
             /\ mount = "done" => \A d \in Rest(c) : d.op \notin MountOps
             /\ mount # "failed" =>
                  /\ \/ current = NoProduct \/ current.id = address.id
                     \/ \E d \in Rest(c) : d.op = "product"
                  /\ \/ HistoryHere
                     \/ \E d \in Rest(c) : d.op = "movements"
  BY <1>2, <1>8, AnswerHome DEF Rest
<1> QED
  BY <1>2, <1>4, <1>5, <1>6, <1>7, <1>8, StockTyped, HistoryStays, CallLeaves DEF dbVars

LEMMA MovementArrivesStep == ASSUME StockInv, NEW c \in sent, MovementArrives(c) PROVE StockInv'
<1>1. /\ c.op \in {"entrada", "salida"}
      /\ history' = [history EXCEPT ![c.id] = @ + 1] /\ counted' = [counted EXCEPT !.n = @ + 1]
      /\ UNCHANGED <<dbVars, list, current, edits>>
  BY DEF MovementArrives
<1>2. c.id \in Product
  BY <1>1, AnswerHome DEF StockFits
<1>3. history' \in [Product -> Nat] /\ counted' \in [of : Product \cup {NoProduct}, n : Nat, more : BOOLEAN]
  BY <1>1, <1>2, StockTyped
<1>4. CASE address.name = "record"
  <2> DEFINE r == [name |-> "detail", id |-> address.id]
  <2>1. Goes(r, Rest(c), Lowered(c), list)
    BY <1>4 DEF MovementArrives
  <2>2. r \in Addresses /\ Rest(c) \in SUBSET sent
    BY <1>4 DEF StockInv, StockTypes, Addresses, Rest
  <2> HIDE DEF r
  <2> QED
    BY <1>1, <1>3, <2>1, <2>2, StockTyped, PageMounts
<1>5. CASE address.name # "record"
  <2>1. sent' = Rest(c) /\ raised' = Lowered(c) /\ UNCHANGED <<pageVars, patient>>
    BY <1>5 DEF MovementArrives
  <2>2. ~(patient /\ address.name = "detail")
    BY <1>1, AnswerHome DEF MountOps
  <2>3. patient /\ current # NoProduct => CardHome(current)
    BY AnswerHome
  <2> QED
    BY <1>1, <1>3, <2>1, <2>2, <2>3, StockTyped, CallLeaves DEF pageVars
<1> QED
  BY <1>4, <1>5

LEMMA ProductArrivesStep == ASSUME StockInv, NEW c \in sent, ProductArrives(c) PROVE StockInv'
<1>1. c.op = "create" /\ UNCHANGED <<dbVars, current, history, counted, edits>>
  BY DEF ProductArrives, Ok
<1>2. PICK k \in c.cards : list' = [list EXCEPT ![c.id] = k]
  BY DEF ProductArrives
<1>3. k \in Card
  BY AnswerHome
<1>4. list' \in [Product -> Card \cup {NoProduct}]
  BY <1>2, <1>3, StockTyped
<1>5. CASE address.name = "list"
  <2>1. sent' = Rest(c) /\ raised' = Lowered(c) /\ UNCHANGED <<pageVars, patient>>
    BY <1>5 DEF ProductArrives
  <2>2. patient /\ current # NoProduct => CardHome(current)
    BY AnswerHome
  <2> QED
    BY <1>1, <1>4, <1>5, <2>1, <2>2, StockTyped, CallLeaves DEF pageVars
<1>6. CASE address.name # "list"
  <2> DEFINE r == [name |-> "list", id |-> NoProduct]
  <2>1. Goes(r, Rest(c), Lowered(c), list')
    BY <1>6 DEF ProductArrives
  <2>2. r \in Addresses /\ Rest(c) \in SUBSET sent
    BY DEF Addresses, Rest
  <2> HIDE DEF r
  <2> QED
    BY <1>1, <1>4, <2>1, <2>2, StockTyped, PageMounts
<1> QED
  BY <1>5, <1>6

\* Every text starts with the product it was written for, and stays with it.
LEMMA StockInvInit == StockInit => StockInv
<1> SUFFICES ASSUME StockInit PROVE StockInv
  OBVIOUS
<1>1. /\ text = [p \in Product |-> IF p \in First THEN <<p, 0>> ELSE NoText]
      /\ stock = [p \in Product |-> IF p \in First THEN 1 ELSE 0]
      /\ moves = stock /\ since = 0 /\ list = [p \in Product |-> NoProduct]
      /\ current = IF LastSeen = NoProduct THEN NoProduct ELSE CardOf(LastSeen)
      /\ counted = [of |-> LastSeen, n |-> IF LastSeen = NoProduct THEN 0 ELSE 1, more |-> FALSE]
      /\ history = [p \in Product |-> IF p = LastSeen THEN 1 ELSE 0]
      /\ raised = [s \in Stores |-> FALSE] /\ address = [name |-> "other", id |-> NoProduct]
      /\ visit = 0 /\ mount = "done" /\ form = NoText /\ editing = FALSE /\ pending = FALSE
      /\ sent = {} /\ edits = 0 /\ patient = TRUE
  BY DEF StockInit
<1>2. text \in [Product -> Text \cup {NoText}] /\ \A p \in First : text[p] \in Text
  BY <1>1, FirstAreProducts DEF Text
<1>3. \A p \in Product : text[p] # NoText => text[p][1] = p
  BY <1>1
<1>4. current \in Card \cup {NoProduct} /\ (current # NoProduct => CardHome(current))
  <2>1. CASE LastSeen = NoProduct
    BY <1>1, <2>1
  <2>2. CASE LastSeen # NoProduct
    <3>1. LastSeen \in First
      BY <2>2, StockConsoleAssumption
    <3>2. LastSeen \in Product /\ text[LastSeen] = <<LastSeen, 0>> /\ stock[LastSeen] = 1
      BY <1>1, <3>1, FirstAreProducts
    <3> QED
      BY <1>1, <2>2, <3>2 DEF CardOf, Card, Text, CardHome
  <2> QED
    BY <2>1, <2>2
<1>5. counted \in [of : Product \cup {NoProduct}, n : Nat, more : BOOLEAN]
  BY <1>1, FirstAreProducts, StockConsoleAssumption
<1>6. StockTypes
  BY <1>1, <1>2, <1>4, <1>5 DEF StockTypes, StockConsoleTypeOK
<1> QED
  BY <1>1, <1>3, <1>4, <1>6 DEF StockInv, TextsHome, DetailHome

LEMMA StockInvStep == StockInv /\ [StockNext]_stockVars => StockInv'
<1> SUFFICES ASSUME StockInv, [StockNext]_stockVars PROVE StockInv'
  OBVIOUS
<1>1. CASE StockUserActs
  BY <1>1, StockUserSteps
<1>2. ASSUME NEW c \in sent, StockSettles(c) PROVE StockInv'
  BY <1>2, ServedSteps, ListedSteps, FailureArrivesStep, CardsArriveStep, PreloadArrivesStep, CardArrivesStep,
     CategoriesArriveStep, HistoryArrivesStep, SaveArrivesStep, MovementArrivesStep,
     ProductArrivesStep DEF StockSettles
<1>3. ASSUME NEW p \in Elsewhere, EditedElsewhere(p) \/ MovedElsewhere(p) PROVE StockInv'
  BY <1>3, ElsewhereSteps
<1>4. CASE UNCHANGED stockVars
  BY <1>4 DEF stockVars, StockInv, StockTypes, StockConsoleTypeOK, TextsHome, DetailHome, Own,
              HistoryHere, ReadHere, RowsHere, TotalHere
<1> QED
  BY <1>1, <1>2, <1>3, <1>4 DEF StockNext

LEMMA StockInvariant == StockSpec => []StockInv
  BY StockInvInit, StockInvStep, PTL DEF StockSpec

\* The pages' and stores' variables keep their types, whichever answers come
\* when, and after whichever pages were left (stores/products.ts, stores/inventory.ts).
THEOREM StockPagesTyped == StockSpec => []StockConsoleTypeOK
<1>1. StockInv => StockConsoleTypeOK
  BY DEF StockInv, StockTypes
<1> QED
  BY <1>1, StockInvariant, PTL

\* One submission is at most one movement, answered, refused or timed out: no
\* assumption on the user is needed (http.ts:46).
THEOREM SubmissionsPostOnce == StockSpec => []OneMovementPerSubmission
<1>1. StockInv => OneMovementPerSubmission
  BY DEF StockInv, StockTypes, StockFits, OneMovementPerSubmission
<1> QED
  BY <1>1, StockInvariant, PTL

\* A user who waits for a page's answers never saves one product's fields into
\* another, whatever the stores held before (ProductDetailPage.vue:77).
THEOREM SavesStayHome == StockSpec => []TextStaysHome
<1>1. StockInv => TextStaysHome
  BY DEF StockInv, TextsHome, TextStaysHome
<1> QED
  BY <1>1, StockInvariant, PTL

\* When a product's page has come to rest for that user, its rows and its total
\* are the product's, no older than the page and not ahead of the table, whatever
\* was written between the two statements (drizzle-stock-movement-repository.ts:54).
THEOREM HistoryRestsCurrent == StockSpec => []HistoryIsCurrent
<1>1. StockInv => HistoryIsCurrent
  BY DEF StockInv, DetailHome, HistoryHere, RowsHere, TotalHere, HistoryIsCurrent
<1> QED
  BY <1>1, StockInvariant, PTL

-----------------------------------------------------------------------------
(* The alerts' and categories' pages *)

\* What a call may carry: the tab, the alert or the name it is about, and what
\* was answered.
LookupCall ==
    [op : {"alerts", "alert", "order", "products", "prefill", "categories", "category"},
     arg : Tabs \cup Alert \cup Category \cup {None}, page : Nat, item : Item \cup {None},
     status : {"sent", "ok", "failed"}, answer : SUBSET (Seen \cup Category)]

\* Calls about an alert name one, answers are of the kind that was asked for.
LookupFits(c) ==
    /\ c.op = "alerts" => c.arg \in Tabs
    /\ c.op \in {"alert", "order", "products", "prefill"} => c.arg \in Alert
    /\ c.op = "order" => c.item \in Item
    /\ c.op = "category" => c.arg \in Category
    /\ c.status = "ok" /\ OfAlerts(c.op) => c.answer \subseteq Seen
    /\ c.status = "ok" /\ c.op = "categories" => c.answer \subseteq Category

UnderTab(answer, t) == \A row \in answer : t \in {"all", row.status}

\* The calls of a user who waits: one at most, and on the alerts' page the one
\* of the tab that is lit.
OneList ==
    unhurried =>
        /\ \A c, d \in asked : c = d
        /\ at.name = "alerts" =>
               /\ \A c \in asked : /\ c.op = "alerts" /\ c.arg = tab
                                   /\ c.status = "ok" => UnderTab(c.answer, tab)
               /\ asked = {} /\ ~failed => UnderTab(rows, tab)

AlertsTypes ==
    /\ AlertsConsoleTypeOK
    /\ at \in [name : {"alerts", "alert", "order", "categories", "other"},
               alert : Alert \cup {None}, page : Nat]
    /\ at.name = "order" => at.alert \in Alert
    /\ asked \subseteq LookupCall
    /\ \A c \in asked : LookupFits(c)

AlertsInv == AlertsTypes /\ OneList

\* The fields of a call that has just been asked.
LEMMA AskType ==
    ASSUME NEW op \in {"alerts", "alert", "order", "products", "prefill", "categories", "category"},
           NEW arg \in Tabs \cup Alert \cup Category \cup {None}, NEW page \in Nat
    PROVE  /\ Ask(op, arg, page) \in LookupCall
           /\ Ask(op, arg, page).op = op /\ Ask(op, arg, page).arg = arg
           /\ Ask(op, arg, page).page = page
           /\ Ask(op, arg, page).status = "sent" /\ Ask(op, arg, page).item = None
  BY DEF Ask, LookupCall

\* What a store operation that begins leaves to prove.
LEMMA BeginsTypes ==
    ASSUME AlertsTypes, NEW call \in LookupCall, LookupFits(call),
           NEW before \in SUBSET asked, Begins(call, before)
    PROVE  /\ asked' \subseteq LookupCall /\ \A c \in asked' : LookupFits(c)
           /\ fetching' \in BOOLEAN /\ failed' \in BOOLEAN /\ unhurried' \in BOOLEAN
           /\ unhurried' => unhurried /\ before = {} /\ asked' = {call}
           /\ OfAlerts(call.op) => ~failed'
  BY DEF AlertsTypes, AlertsConsoleTypeOK, Begins

LEMMA PageOpens ==
    ASSUME AlertsInv, NEW name \in {"alerts", "order", "categories"},
           NEW alert \in Alert \cup {None}, name = "order" => alert \in Alert,
           OpenLookupPage(name, alert)
    PROVE  AlertsInv'
<1> DEFINE call == MountCall(name, alert, at.page + 1)
<1>1. at.page + 1 \in Nat
  BY DEF AlertsInv, AlertsTypes
<1>2. /\ call \in LookupCall /\ LookupFits(call)
      /\ call.op = CASE name = "alerts" -> "alerts" [] name = "order" -> "products"
                     [] name = "categories" -> "categories"
      /\ name = "alerts" => call.arg = "ACTIVA" /\ call.status = "sent"
  BY <1>1, AskType DEF MountCall, LookupFits, Tabs, OfAlerts
<1> HIDE DEF call
<1>3. Begins(call, asked)
  BY DEF OpenLookupPage, call
<1>4. /\ asked' \subseteq LookupCall /\ \A c \in asked' : LookupFits(c)
      /\ fetching' \in BOOLEAN /\ failed' \in BOOLEAN /\ unhurried' \in BOOLEAN
      /\ unhurried' => asked' = {call}
  BY <1>2, <1>3, BeginsTypes DEF AlertsInv
<1>5. /\ at' = [name |-> name, alert |-> alert, page |-> at.page + 1]
      /\ tab' = "ACTIVA" /\ chosen' = None /\ locked' = FALSE /\ waiting' = FALSE
      /\ UNCHANGED <<tables, rows, opened, names>>
  BY DEF OpenLookupPage
<1>6. AlertsTypes'
  BY <1>1, <1>4, <1>5 DEF AlertsInv, AlertsTypes, AlertsConsoleTypeOK, tables, Tabs
<1>7. OneList'
  BY <1>2, <1>4, <1>5 DEF OneList
<1> QED
  BY <1>6, <1>7 DEF AlertsInv

\* What the user does.
LEMMA LookupUserActs == ASSUME AlertsInv, AlertsUserActs PROVE AlertsInv'
<1>1. ASSUME NEW name \in {"alerts", "categories"}, OpenLookupPage(name, None) PROVE AlertsInv'
  BY <1>1, PageOpens
<1>2. CASE FollowCard
  <2>1. PICK row \in rows : OpenLookupPage("order", row.id)
    BY <1>2 DEF FollowCard
  <2>2. row.id \in Alert
    BY DEF AlertsInv, AlertsTypes, AlertsConsoleTypeOK, Seen
  <2> QED
    BY <2>1, <2>2, PageOpens
<1>3. CASE OrderForShown
  <2>1. opened.id \in Alert
    BY <1>3 DEF OrderForShown, AlertsInv, AlertsTypes, AlertsConsoleTypeOK, Seen
  <2> QED
    BY <1>3, <2>1, PageOpens DEF OrderForShown
<1>4. ASSUME NEW a \in Alert, LoadAlertPage(a) PROVE AlertsInv'
  <2> DEFINE call == MountCall("alert", a, at.page + 1)
  <2>1. at.page + 1 \in Nat
    BY DEF AlertsInv, AlertsTypes
  <2>2. call \in LookupCall /\ LookupFits(call)
    BY <2>1, AskType DEF MountCall, LookupFits, OfAlerts
  <2> HIDE DEF call
  <2>3. /\ at' = [name |-> "alert", alert |-> a, page |-> at.page + 1]
        /\ tab' = "ACTIVA" /\ chosen' = None /\ locked' = FALSE /\ waiting' = FALSE
        /\ rows' = {} /\ opened' = None /\ failed' = FALSE /\ fetching' = TRUE /\ names' = {}
        /\ asked' = {call} /\ UNCHANGED <<tables, unhurried>>
    BY <1>4 DEF LoadAlertPage, call
  <2> QED
    BY <2>1, <2>2, <2>3
       DEF AlertsInv, AlertsTypes, AlertsConsoleTypeOK, OneList, tables, Tabs
<1>5. ASSUME NEW t \in Tabs, Begins(Ask("alerts", t, at.page), asked), tab' = t,
             UNCHANGED <<tables, rows, opened, names, at, chosen, locked, waiting>>
      PROVE  AlertsInv'
  <2> DEFINE call == Ask("alerts", t, at.page)
  <2>1. /\ call \in LookupCall /\ LookupFits(call)
        /\ call.op = "alerts" /\ call.arg = t /\ call.status = "sent"
    BY AskType DEF AlertsInv, AlertsTypes, LookupFits
  <2> HIDE DEF call
  <2>2. Begins(call, asked)
    BY <1>5 DEF call
  <2>3. AlertsTypes'
    BY <1>5, <2>1, <2>2, BeginsTypes DEF AlertsInv, AlertsTypes, AlertsConsoleTypeOK, tables
  <2>4. OneList'
    BY <1>5, <2>1, <2>2, BeginsTypes DEF AlertsInv, OneList
  <2> QED
    BY <2>3, <2>4 DEF AlertsInv
<1>6. CASE TurnPage
  <2>1. tab \in Tabs /\ tab' = tab
    BY <1>6 DEF TurnPage, fields, AlertsInv, AlertsTypes, AlertsConsoleTypeOK
  <2> QED
    BY <1>5, <1>6, <2>1 DEF TurnPage, fields
<1>7. ASSUME NEW t \in Tabs, ClickTab(t) PROVE AlertsInv'
  BY <1>5, <1>7 DEF ClickTab
<1>8. ASSUME NEW i \in Item, ChooseItem(i) PROVE AlertsInv'
  BY <1>8 DEF ChooseItem, AlertsInv, AlertsTypes, AlertsConsoleTypeOK, OneList, tables, stores
<1>9. CASE SubmitOrder
  <2> DEFINE call == [Ask("order", at.alert, at.page) EXCEPT !.item = chosen]
  <2>1. at.name = "order" /\ at.alert \in Alert /\ at.page \in Nat /\ chosen \in Item
    BY <1>9 DEF SubmitOrder, AlertsInv, AlertsTypes, AlertsConsoleTypeOK
  <2>2. call \in LookupCall /\ LookupFits(call)
    BY <2>1 DEF Ask, LookupCall, LookupFits, OfAlerts
  <2> HIDE DEF call
  <2>3. Begins(call, asked) /\ waiting' = TRUE
        /\ UNCHANGED <<tables, rows, opened, names, at, tab, chosen, locked>>
    BY <1>9 DEF SubmitOrder, call
  <2>4. AlertsTypes'
    BY <2>2, <2>3, BeginsTypes DEF AlertsInv, AlertsTypes, AlertsConsoleTypeOK, tables
  <2>5. OneList'
    BY <2>1, <2>2, <2>3, BeginsTypes DEF AlertsInv, OneList
  <2> QED
    BY <2>4, <2>5 DEF AlertsInv
<1>10. ASSUME NEW n \in Category, SubmitCategory(n) PROVE AlertsInv'
  <2> DEFINE call == Ask("category", n, at.page)
  <2>1. call \in LookupCall /\ LookupFits(call)
    BY AskType DEF AlertsInv, AlertsTypes, LookupFits, OfAlerts
  <2> HIDE DEF call
  <2>2. Begins(call, asked) /\ waiting' = TRUE /\ at.name = "categories"
        /\ UNCHANGED <<tables, rows, opened, names, at, tab, chosen, locked>>
    BY <1>10 DEF SubmitCategory, call
  <2>3. AlertsTypes'
    BY <2>1, <2>2, BeginsTypes DEF AlertsInv, AlertsTypes, AlertsConsoleTypeOK, tables
  <2>4. OneList'
    BY <2>1, <2>2, BeginsTypes DEF AlertsInv, OneList
  <2> QED
    BY <2>3, <2>4 DEF AlertsInv
<1> QED
  BY <1>1, <1>2, <1>3, <1>4, <1>6, <1>7, <1>8, <1>9, <1>10 DEF AlertsUserActs

\* A call whose answer, or failure, has come.
LEMMA CallAnswered ==
    ASSUME AlertsTypes, NEW c \in asked, NEW s \in {"ok", "failed"},
           NEW answer \in SUBSET (Seen \cup Category),
           s = "ok" /\ OfAlerts(c.op) => answer \subseteq Seen,
           s = "ok" /\ c.op = "categories" => answer \subseteq Category
    PROVE  LET d == [c EXCEPT !.status = s, !.answer = answer]
           IN  /\ d \in LookupCall /\ LookupFits(d)
               /\ d.op = c.op /\ d.arg = c.arg /\ d.page = c.page
               /\ d.status = s /\ d.answer = answer
  BY DEF AlertsTypes, LookupCall, LookupFits

\* The rows that a tab's filter selects are that tab's.
LEMMA FilterSelects ==
    ASSUME AlertsTypes, NEW filter \in Tabs
    PROVE  Under(filter) \subseteq Seen /\ UnderTab(Under(filter), filter)
<1>1. \A a \in Alert : alerts[a] # "ABSENT" => alerts[a] \in {"ACTIVA", "RESUELTA"}
  BY DEF AlertsTypes, AlertsConsoleTypeOK
<1> QED
  BY <1>1 DEF Under, UnderTab, Seen

LEMMA AnswerFits ==
    ASSUME AlertsTypes, NEW c \in asked, Grants(c)
    PROVE  /\ AnswerTo(c) \in SUBSET (Seen \cup Category)
           /\ OfAlerts(c.op) => AnswerTo(c) \subseteq Seen
           /\ c.op = "categories" => AnswerTo(c) \subseteq Category
           /\ c.op = "alerts" => UnderTab(AnswerTo(c), c.arg)
<1> USE DEF AnswerTo, OfAlerts
<1>1. CASE c.op = "alerts"
  BY <1>1, FilterSelects DEF AlertsTypes, LookupFits
<1>2. CASE c.op \in {"alert", "prefill"}
  <2>1. c.arg \in Alert /\ alerts[c.arg] \in {"ACTIVA", "RESUELTA"}
    BY <1>2 DEF AlertsTypes, AlertsConsoleTypeOK, LookupFits, Grants
  <2> QED
    BY <1>2, <2>1 DEF Seen
<1>3. CASE c.op = "categories"
  BY <1>3 DEF AlertsTypes, AlertsConsoleTypeOK
<1>4. CASE c.op \in {"order", "products", "category"}
  BY <1>4
<1> QED
  BY <1>1, <1>2, <1>3, <1>4 DEF AlertsTypes, LookupCall

LEMMA EffectsTypes ==
    ASSUME AlertsTypes, NEW c \in asked, Grants(c), Effects(c)
    PROVE  placed' \subseteq Alert \X Item /\ categories' \subseteq Category
  BY DEF AlertsTypes, AlertsConsoleTypeOK, LookupFits, Effects

\* A call is replaced by what it has become; nothing but two tables changes.
LEMMA CallBecomes ==
    ASSUME AlertsInv, NEW c \in asked, NEW d \in LookupCall, LookupFits(d),
           d.op = c.op, d.arg = c.arg,
           d.status = "ok" /\ d.op = "alerts" => UnderTab(d.answer, d.arg),
           asked' = Others(c) \cup {d},
           placed' \subseteq Alert \X Item, categories' \subseteq Category,
           UNCHANGED <<alerts, stores, fetching, at, fields, unhurried>>
    PROVE  AlertsInv'
<1>1. AlertsTypes'
  BY DEF AlertsInv, AlertsTypes, AlertsConsoleTypeOK, stores, fields, Others
<1>2. OneList'
  BY DEF AlertsInv, OneList, stores, fields, Others
<1> QED
  BY <1>1, <1>2 DEF AlertsInv

LEMMA LookupServed == ASSUME AlertsInv, NEW c \in asked, ServeLookup(c) PROVE AlertsInv'
<1> DEFINE d == [c EXCEPT !.status = "ok", !.answer = AnswerTo(c)]
<1>0. AlertsTypes
  BY DEF AlertsInv
<1>1. Grants(c) /\ Effects(c) /\ asked' = Others(c) \cup {d}
      /\ UNCHANGED <<alerts, stores, fetching, at, fields, unhurried>>
  BY DEF ServeLookup
<1>2. /\ d \in LookupCall /\ LookupFits(d) /\ d.op = c.op /\ d.arg = c.arg
      /\ d.answer = AnswerTo(c)
  <2>1. /\ AnswerTo(c) \in SUBSET (Seen \cup Category)
        /\ OfAlerts(c.op) => AnswerTo(c) \subseteq Seen
        /\ c.op = "categories" => AnswerTo(c) \subseteq Category
    BY <1>0, <1>1, AnswerFits
  <2> HIDE DEF d
  <2>2. \A answer \in SUBSET (Seen \cup Category) :
            /\ OfAlerts(c.op) => answer \subseteq Seen
            /\ c.op = "categories" => answer \subseteq Category
            => LET e == [c EXCEPT !.status = "ok", !.answer = answer]
               IN  e \in LookupCall /\ LookupFits(e) /\ e.op = c.op /\ e.arg = c.arg /\ e.answer = answer
    BY <1>0, CallAnswered
  <2> QED
    BY <2>1, <2>2 DEF d
<1>3. d.op = "alerts" => UnderTab(d.answer, d.arg)
  BY <1>0, <1>1, <1>2, AnswerFits
<1> HIDE DEF d
<1> QED
  BY <1>0, <1>1, <1>2, <1>3, EffectsTypes, CallBecomes

LEMMA LookupBroken == ASSUME AlertsInv, NEW c \in asked, LookupBreaks(c) PROVE AlertsInv'
<1> DEFINE d == [c EXCEPT !.status = "failed"]
<1>0. AlertsTypes
  BY DEF AlertsInv
<1>1. /\ asked' = Others(c) \cup {d} /\ UNCHANGED <<alerts, stores, fetching, at, fields, unhurried>>
      /\ (Grants(c) /\ Effects(c)) \/ UNCHANGED <<placed, categories>>
  BY DEF LookupBreaks
<1>2. d \in LookupCall /\ LookupFits(d) /\ d.op = c.op /\ d.arg = c.arg /\ d.status = "failed"
  BY <1>0 DEF AlertsTypes, LookupCall, LookupFits
<1> HIDE DEF d
<1>3. placed' \subseteq Alert \X Item /\ categories' \subseteq Category
  BY <1>0, <1>1, EffectsTypes DEF AlertsTypes, AlertsConsoleTypeOK
<1> QED
  BY <1>1, <1>2, <1>3, CallBecomes

\* An answer, or a failure, is dealt with and its call is gone.
LEMMA CallEnds ==
    ASSUME AlertsInv, NEW c \in asked, Ends(c), UNCHANGED <<tables, at, tab, unhurried>>
    PROVE  /\ asked' \subseteq asked
           /\ fetching' \in BOOLEAN /\ waiting' \in BOOLEAN
           /\ unhurried => asked' = {}
  BY DEF AlertsInv, AlertsTypes, AlertsConsoleTypeOK, OneList, Ends, Others

LEMMA LookupEnds ==
    ASSUME AlertsInv, NEW c \in asked,
           \/ LookupFails(c) \/ AlertsArrive(c) \/ AlertArrives(c) \/ PrefillArrives(c)
           \/ CategoriesCome(c) \/ CategoryComes(c)
    PROVE  AlertsInv'
<1>1. /\ Ends(c) /\ UNCHANGED <<tables, at, tab, unhurried>>
      /\ asked' \subseteq asked /\ fetching' \in BOOLEAN /\ waiting' \in BOOLEAN
      /\ unhurried => asked' = {}
  BY CallEnds DEF LookupFails, AlertsArrive, AlertArrives, PrefillArrives, CategoriesCome,
                  CategoryComes
<1> USE DEF AlertsInv, AlertsTypes, AlertsConsoleTypeOK, OneList, tables
<1>2. CASE LookupFails(c)
  BY <1>1, <1>2 DEF LookupFails, OfAlerts
<1>3. CASE AlertsArrive(c)
  BY <1>1, <1>3 DEF AlertsArrive, Came, Replaced, LookupFits, OfAlerts
<1>4. CASE AlertArrives(c)
  BY <1>1, <1>4 DEF AlertArrives, Came, LookupFits, OfAlerts
<1>5. CASE PrefillArrives(c)
  <2>1. ItemOf[c.arg] \in Item
    BY <1>5, AlertsConsoleAssumption DEF PrefillArrives, Came, LookupFits
  <2> QED
    BY <1>1, <1>5, <2>1 DEF PrefillArrives, Came, LookupFits, OfAlerts
<1>6. CASE CategoriesCome(c)
  BY <1>1, <1>6 DEF CategoriesCome, Came, LookupFits
<1>7. CASE CategoryComes(c)
  BY <1>1, <1>7 DEF CategoryComes, Came, Listed, LookupFits
<1> QED
  BY <1>2, <1>3, <1>4, <1>5, <1>6, <1>7

\* The form's second call.
LEMMA ProductsCome == ASSUME AlertsInv, NEW c \in asked, ProductsArrive(c) PROVE AlertsInv'
<1>1. CASE at.name = "order"
  <2> DEFINE call == Ask("prefill", at.alert, c.page)
  <2>1. call \in LookupCall /\ LookupFits(call)
    BY <1>1, AskType DEF AlertsInv, AlertsTypes, LookupCall, LookupFits, OfAlerts
  <2> HIDE DEF call
  <2>2. Begins(call, Others(c)) /\ UNCHANGED <<tables, rows, opened, names, at, tab, chosen, locked, waiting>>
    BY <1>1 DEF ProductsArrive, call
  <2>3. Others(c) \in SUBSET asked
    BY DEF Others
  <2>4. AlertsTypes'
    BY <2>1, <2>2, <2>3, BeginsTypes DEF AlertsInv, AlertsTypes, AlertsConsoleTypeOK, tables
  <2>5. OneList'
    BY <1>1, <2>1, <2>2, <2>3, BeginsTypes DEF AlertsInv, OneList
  <2> QED
    BY <2>4, <2>5 DEF AlertsInv
<1>2. CASE at.name # "order"
  <2>1. /\ Ends(c) /\ UNCHANGED <<tables, rows, opened, names, at, tab, chosen, locked, failed, unhurried>>
        /\ c.op = "products"
    BY <1>2 DEF ProductsArrive, Came
  <2>2. /\ asked' \subseteq asked /\ fetching' \in BOOLEAN /\ waiting' \in BOOLEAN
        /\ unhurried => asked' = {}
    BY <2>1, CallEnds
  <2> QED
    BY <2>1, <2>2 DEF AlertsInv, AlertsTypes, AlertsConsoleTypeOK, OneList, tables
<1> QED
  BY <1>1, <1>2

LEMMA OrderPlaced == ASSUME AlertsInv, NEW c \in asked, OrderArrives(c) PROVE AlertsInv'
<1>1. \A d \in Others(c) : /\ [d EXCEPT !.page = 0] \in LookupCall
                           /\ LookupFits([d EXCEPT !.page = 0])
  BY DEF AlertsInv, AlertsTypes, LookupCall, LookupFits, Others
<1>2. /\ at' = [name |-> "other", alert |-> None, page |-> at.page]
      /\ tab' = "ACTIVA" /\ chosen' = None /\ locked' = FALSE /\ waiting' = FALSE
      /\ asked' = {[d EXCEPT !.page = 0] : d \in Others(c)}
      /\ UNCHANGED <<tables, stores, fetching, unhurried>>
  BY DEF OrderArrives
<1>3. AlertsTypes'
  BY <1>1, <1>2 DEF AlertsInv, AlertsTypes, AlertsConsoleTypeOK, tables, stores, Tabs
<1>4. unhurried' => asked' = {}
  BY <1>2 DEF AlertsInv, OneList, Others
<1> QED
  BY <1>2, <1>3, <1>4 DEF AlertsInv, OneList

LEMMA AlertsInvStep == AlertsInv /\ [AlertsNext]_alertVars => AlertsInv'
<1> SUFFICES ASSUME AlertsInv, [AlertsNext]_alertVars PROVE AlertsInv'
  OBVIOUS
<1>1. ASSUME NEW c \in asked, AlertsSettle(c) PROVE AlertsInv'
  BY <1>1, LookupServed, LookupBroken, LookupEnds, ProductsCome, OrderPlaced DEF AlertsSettle
<1>2. ASSUME NEW a \in Alert, AlertChanges(a) PROVE AlertsInv'
  BY <1>2 DEF AlertChanges, AlertsInv, AlertsTypes, AlertsConsoleTypeOK, OneList, stores, fields
<1>3. CASE UNCHANGED alertVars
  BY <1>3 DEF alertVars, AlertsInv, AlertsTypes, AlertsConsoleTypeOK, OneList
<1> QED
  BY <1>1, <1>2, <1>3, LookupUserActs DEF AlertsNext

LEMMA AlertsInvInit == AlertsInit => AlertsInv
<1> SUFFICES ASSUME AlertsInit PROVE AlertsInv
  OBVIOUS
<1> USE DEF AlertsInit
<1>1. AlertsConsoleTypeOK
  <2>1. alerts \in [Alert -> {"ABSENT", "ACTIVA", "RESUELTA"}]
    OBVIOUS
  <2> QED
    BY <2>1 DEF AlertsConsoleTypeOK, Tabs
<1>2. AlertsTypes
  BY <1>1 DEF AlertsTypes
<1>3. OneList
  BY DEF OneList
<1> QED
  BY <1>2, <1>3 DEF AlertsInv

\* The variables of the alerts' and categories' pages keep their types.
THEOREM AlertsPagesTyped == AlertsSpec => []AlertsConsoleTypeOK
<1>1. AlertsInv => AlertsConsoleTypeOK
  BY DEF AlertsInv, AlertsTypes
<1> QED
  BY <1>1, AlertsInvInit, AlertsInvStep, PTL DEF AlertsSpec

\* For a user who waits for each list, the rows at rest are those of the tab that
\* is lit, or an error says that they are not (AlertsListPage.vue:20).
THEOREM RowsMatchTheTab == AlertsSpec => []RowsUnderTheirTab
<1>1. AlertsInv => RowsUnderTheirTab
  BY DEF AlertsInv, OneList, UnderTab, RowsUnderTheirTab
<1> QED
  BY <1>1, AlertsInvInit, AlertsInvStep, PTL DEF AlertsSpec

=============================================================================
