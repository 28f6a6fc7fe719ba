---------------------------- MODULE AlertsConsole ----------------------------
(***************************************************************************)
(* Three more pages of the SPA: the alerts with their tabs, an alert with   *)
(* its button to the order form, and that form, which locks the product of *)
(* the alert it came from; and the categories with their inline form. The  *)
(* tabs can be clicked while a list is still on its way. Meanwhile alerts  *)
(* are opened and resolved.                                                *)
(***************************************************************************)
EXTENDS Naturals, FiniteSets

CONSTANTS
    Alert,          \* alerts, opened or not yet
    Item,           \* products
    ItemOf,         \* the product of an alert
    Category,       \* category names
    None,           \* no alert, no product, no category
    MaxPages,       \* bound: pages opened
    MaxAsked        \* bound: calls in flight

ASSUME AlertsConsoleAssumption ==
    /\ IsFiniteSet(Alert) /\ IsFiniteSet(Category)
    /\ ItemOf \in [Alert -> Item]
    /\ None \notin Alert \cup Item \cup Category
    /\ MaxPages \in Nat /\ MaxAsked \in Nat

VARIABLES
    alerts,         \* alerts table: status
    placed,         \* orders placed from an alert: <<alert, product>>
    categories,     \* categories table
    rows,           \* alerts store: items
    opened,         \* alerts store: current
    failed,         \* alerts store: error
    fetching,       \* alerts store: loading
    names,          \* categories store: items
    at,             \* the page, the alert in its address, and its number
    tab,            \* alerts page: statusFilter
    chosen,         \* order form: the product selected
    locked,         \* order form: productLocked
    waiting,        \* the page's own loading flag (loading, submitting)
    asked,          \* calls in flight
    unhurried       \* history: nothing was sent while an earlier call was in
                    \* flight, but for what one page asks by itself

alertVars == <<alerts, placed, categories, rows, opened, failed, fetching, names,
               at, tab, chosen, locked, waiting, asked, unhurried>>

tables == <<alerts, placed, categories>>
stores == <<rows, opened, failed, names>>
fields == <<tab, chosen, locked, waiting>>

-----------------------------------------------------------------------------
Seen == [id : Alert, status : {"ACTIVA", "RESUELTA"}]

Tabs == {"ACTIVA", "RESUELTA", "all"}

\* The alerts a filter selects.
Under(filter) == {[id |-> a, status |-> alerts[a]] :
                    a \in {x \in Alert : /\ alerts[x] # "ABSENT"
                                         /\ filter \in {"all", alerts[x]}}}

Ask(op, arg, page) ==
    [op |-> op, arg |-> arg, page |-> page, item |-> None, status |-> "sent", answer |-> {}]

AlertsInit ==
    /\ alerts \in [Alert -> {"ABSENT", "ACTIVA"}]
    /\ placed = {}
    /\ categories = {}
    /\ rows = {} /\ opened = None /\ failed = FALSE /\ fetching = FALSE
    /\ names = {}
    /\ at = [name |-> "other", alert |-> None, page |-> 0]
    /\ tab = "ACTIVA" /\ chosen = None /\ locked = FALSE /\ waiting = FALSE
    /\ asked = {}
    /\ unhurried = TRUE

OfAlerts(op) == op \in {"alerts", "alert", "prefill"}

\* A store operation begins: its store loads, its error is gone.
Begins(call, before) ==
    /\ Cardinality(before) < MaxAsked
    /\ asked' = before \cup {call}
    /\ fetching' = (fetching \/ OfAlerts(call.op))
    /\ failed' = (failed /\ ~OfAlerts(call.op))
    /\ unhurried' = (unhurried /\ before = {})

\* A navigation mounts a page, which asks for what it shows: with the filter a
\* new page starts with, the alert of its address, or the products to choose.
MountCall(name, alert, page) ==
    CASE name = "alerts" -> Ask("alerts", "ACTIVA", page)
      [] name = "alert" -> Ask("alert", alert, page)
      [] name = "order" -> Ask("products", alert, page)
      [] name = "categories" -> Ask("categories", None, page)

OpenLookupPage(name, alert) ==
    /\ at.page < MaxPages
    /\ name # at.name
    /\ at' = [name |-> name, alert |-> alert, page |-> at.page + 1]
    /\ tab' = "ACTIVA" /\ chosen' = None /\ locked' = FALSE /\ waiting' = FALSE
    /\ Begins(MountCall(name, alert, at.page + 1), asked)
    /\ UNCHANGED <<tables, rows, opened, names>>

\* A card has a button while its alert is seen ACTIVA.
FollowCard ==
    /\ at.name = "alerts" /\ ~fetching
    /\ \E row \in rows : row.status = "ACTIVA" /\ OpenLookupPage("order", row.id)

\* No page links to an alert's own: its address loads the application anew, and
\* what the tab had in its stores and in flight is gone.
LoadAlertPage(a) ==
    /\ at.page < MaxPages
    /\ at' = [name |-> "alert", alert |-> a, page |-> at.page + 1]
    /\ tab' = "ACTIVA" /\ chosen' = None /\ locked' = FALSE /\ waiting' = FALSE
    /\ rows' = {} /\ opened' = None /\ failed' = FALSE /\ fetching' = TRUE /\ names' = {}
    /\ asked' = {MountCall("alert", a, at.page + 1)}
    /\ UNCHANGED <<tables, unhurried>>

\* The button of the detail page names the alert on show.
OrderForShown ==
    /\ at.name = "alert" /\ ~fetching
    /\ opened # None
    /\ opened.status = "ACTIVA"
    /\ OpenLookupPage("order", opened.id)

\* A tab asks for its list, whether or not another is on its way.
ClickTab(t) ==
    /\ at.name = "alerts"
    /\ Ask("alerts", t, at.page) \notin asked
    /\ tab' = t
    /\ Begins(Ask("alerts", t, at.page), asked)
    /\ UNCHANGED <<tables, rows, opened, names, at, chosen, locked, waiting>>

\* The pagination asks again under the page's tab, while nothing loads.
TurnPage ==
    /\ at.name = "alerts" /\ ~fetching
    /\ Ask("alerts", tab, at.page) \notin asked
    /\ Begins(Ask("alerts", tab, at.page), asked)
    /\ UNCHANGED <<tables, rows, opened, names, at, fields>>

\* The select is disabled once the alert has locked it.
ChooseItem(i) ==
    /\ at.name = "order" /\ ~locked
    /\ chosen' = i
    /\ UNCHANGED <<tables, stores, fetching, at, tab, locked, waiting, asked, unhurried>>

SubmitOrder ==
    /\ at.name = "order" /\ ~waiting /\ chosen # None
    /\ waiting' = TRUE
    /\ Begins([Ask("order", at.alert, at.page) EXCEPT !.item = chosen], asked)
    /\ UNCHANGED <<tables, rows, opened, names, at, tab, chosen, locked>>

SubmitCategory(n) ==
    /\ at.name = "categories" /\ ~waiting
    /\ waiting' = TRUE
    /\ Begins(Ask("category", n, at.page), asked)
    /\ UNCHANGED <<tables, rows, opened, names, at, tab, chosen, locked>>

-----------------------------------------------------------------------------
Others(c) == asked \ {c}

\* The backend: an order from an alert needs the alert ACTIVA and the product
\* to be the alert's; a category needs a name nobody has.
Grants(c) ==
    CASE c.op = "order" -> alerts[c.arg] = "ACTIVA" /\ ItemOf[c.arg] = c.item
      [] c.op = "category" -> c.arg \notin categories
      [] c.op \in {"alert", "prefill"} -> alerts[c.arg] # "ABSENT"
      [] OTHER -> TRUE

Effects(c) ==
    /\ placed' = IF c.op = "order" THEN placed \cup {<<c.arg, c.item>>} ELSE placed
    /\ categories' = IF c.op = "category" THEN categories \cup {c.arg} ELSE categories

AnswerTo(c) ==
    CASE c.op = "alerts" -> Under(c.arg)
      [] c.op \in {"alert", "prefill"} -> {[id |-> c.arg, status |-> alerts[c.arg]]}
      [] c.op = "categories" -> categories
      [] OTHER -> {}

ServeLookup(c) ==
    /\ c.status = "sent" /\ Grants(c)
    /\ Effects(c)
    /\ asked' = Others(c) \cup {[c EXCEPT !.status = "ok", !.answer = AnswerTo(c)]}
    /\ UNCHANGED <<alerts, stores, fetching, at, fields, unhurried>>

\* Refused, or no answer in time: carried out or not.
LookupBreaks(c) ==
    /\ c.status = "sent"
    /\ (Grants(c) /\ Effects(c)) \/ UNCHANGED <<placed, categories>>
    /\ asked' = Others(c) \cup {[c EXCEPT !.status = "failed"]}
    /\ UNCHANGED <<alerts, stores, fetching, at, fields, unhurried>>

AlertChanges(a) ==
    /\ alerts' = [alerts EXCEPT ![a] = CASE @ = "ABSENT" -> "ACTIVA"
                                         [] @ = "ACTIVA" -> "RESUELTA"
                                         [] @ = "RESUELTA" -> @]
    /\ alerts[a] # "RESUELTA"
    /\ UNCHANGED <<placed, categories, stores, fetching, at, fields, asked, unhurried>>

-----------------------------------------------------------------------------
Mounted(c) == c.page = at.page

\* The finally blocks of the alerts store and of the page.
Ends(c) ==
    /\ asked' = Others(c)
    /\ fetching' = IF OfAlerts(c.op) THEN FALSE ELSE fetching
    /\ waiting' = IF Mounted(c) /\ c.op \in {"order", "category"} THEN FALSE ELSE waiting

Came(c, op) == c.status = "ok" /\ c.op = op

LookupFails(c) ==
    /\ c.status = "failed"
    /\ Ends(c)
    /\ failed' = (failed \/ OfAlerts(c.op))
    /\ UNCHANGED <<tables, rows, opened, names, at, tab, chosen, locked, unhurried>>

\* Mutant: further rows are added to those of before.
Appended(c) == rows \cup c.answer

\* fetchList keeps what came last, for whichever tab.
Replaced(c) == c.answer

AlertsArrive(c) ==
    /\ Came(c, "alerts")
    /\ rows' = Replaced(c)
    /\ Ends(c)
    /\ UNCHANGED <<tables, opened, failed, names, at, tab, chosen, locked, unhurried>>

AlertArrives(c) ==
    /\ Came(c, "alert")
    /\ \E row \in c.answer : opened' = row
    /\ Ends(c)
    /\ UNCHANGED <<tables, rows, failed, names, at, tab, chosen, locked, unhurried>>

\* The order form has its products: it goes on to ask for the alert of the
\* address as it is by now, if there is one.
ProductsArrive(c) ==
    /\ Came(c, "products")
    /\ IF at.name = "order"
       THEN /\ Begins(Ask("prefill", at.alert, c.page), Others(c))
            /\ UNCHANGED waiting
       ELSE /\ Ends(c)
            /\ UNCHANGED <<failed, unhurried>>
    /\ UNCHANGED <<tables, rows, opened, names, at, tab, chosen, locked>>

\* The alert's product is selected over whatever the user had chosen.
PrefillArrives(c) ==
    /\ Came(c, "prefill")
    /\ \E row \in c.answer : opened' = row
    /\ chosen' = IF Mounted(c) THEN ItemOf[c.arg] ELSE chosen
    /\ locked' = (locked \/ Mounted(c))
    /\ Ends(c)
    /\ UNCHANGED <<tables, rows, failed, names, at, tab, unhurried>>

\* The order is placed and the orders' list opens, which is another store's.
OrderArrives(c) ==
    /\ Came(c, "order")
    /\ at' = [name |-> "other", alert |-> None, page |-> at.page]
    /\ asked' = {[d EXCEPT !.page = 0] : d \in Others(c)}
    /\ tab' = "ACTIVA" /\ chosen' = None /\ locked' = FALSE /\ waiting' = FALSE
    /\ UNCHANGED <<tables, stores, fetching, unhurried>>

CategoriesCome(c) ==
    /\ Came(c, "categories")
    /\ names' = c.answer
    /\ Ends(c)
    /\ UNCHANGED <<tables, rows, opened, failed, at, tab, chosen, locked, unhurried>>

\* create: unshift.
Listed(c) == names \cup {c.arg}

CategoryComes(c) ==
    /\ Came(c, "category")
    /\ names' = Listed(c)
    /\ Ends(c)
    /\ UNCHANGED <<tables, rows, opened, failed, at, tab, chosen, locked, unhurried>>

AlertsUserActs ==
    \/ \E name \in {"alerts", "categories"} : OpenLookupPage(name, None)
    \/ FollowCard \/ OrderForShown \/ TurnPage \/ SubmitOrder
    \/ \E a \in Alert : LoadAlertPage(a)
    \/ \E t \in Tabs : ClickTab(t)
    \/ \E i \in Item : ChooseItem(i)
    \/ \E n \in Category : SubmitCategory(n)

AlertsSettle(c) ==
    \/ ServeLookup(c) \/ LookupBreaks(c) \/ LookupFails(c)
    \/ AlertsArrive(c) \/ AlertArrives(c) \/ ProductsArrive(c) \/ PrefillArrives(c)
    \/ OrderArrives(c) \/ CategoriesCome(c) \/ CategoryComes(c)

AlertsNext ==
    \/ AlertsUserActs
    \/ \E c \in asked : AlertsSettle(c)
    \/ \E a \in Alert : AlertChanges(a)

AlertsSpec == AlertsInit /\ [][AlertsNext]_alertVars

-----------------------------------------------------------------------------
\* Types of the variables.
AlertsConsoleTypeOK ==
    /\ alerts \in [Alert -> {"ABSENT", "ACTIVA", "RESUELTA"}]
    /\ placed \subseteq Alert \X Item
    /\ categories \subseteq Category /\ names \subseteq Category
    /\ rows \subseteq Seen
    /\ opened \in Seen \cup {None}
    /\ failed \in BOOLEAN /\ fetching \in BOOLEAN /\ waiting \in BOOLEAN
    /\ at.name \in {"alerts", "alert", "order", "categories", "other"}
    /\ tab \in Tabs
    /\ chosen \in Item \cup {None}
    /\ locked \in BOOLEAN /\ unhurried \in BOOLEAN

\* For a user who waits for each list, the rows at rest are those of the tab
\* that is lit, or an error says that they are not (AlertsListPage.vue:20).
RowsUnderTheirTab ==
    unhurried /\ asked = {} /\ at.name = "alerts" /\ ~failed
        => \A row \in rows : tab \in {"all", row.status}

=============================================================================
