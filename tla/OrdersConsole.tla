---------------------------- MODULE OrdersConsole ----------------------------
(***************************************************************************)
(* The orders pages of the SPA over one Pinia store: the list, the detail  *)
(* page with its timeline, buttons and dialogs, and the form for a new     *)
(* order. Every store operation is a call in flight whose answer arrives   *)
(* when it does; the user may act, and leave the page, at any moment, and  *)
(* another administrator works on the same orders.                         *)
(***************************************************************************)
EXTENDS Naturals, Sequences, FiniteSets

CONSTANTS
    Order,          \* orders, numbered in the order of their creation
    FirstStatus,    \* their statuses at the start
    Shared,         \* those another administrator decides on too
    OrderJumps,     \* bound: those that a jump in the history leads to
    Slot,           \* bound: calls the tab has in flight
    Hand,           \* bound: calls the backend works on that nobody here waits for
    NoOrder,        \* current = null
    NoAnswer        \* the answer of a call that has none yet

Statuses == {"PENDIENTE", "APROBADA", "RECIBIDA", "RECHAZADA"}

Row == [id : Order, status : Statuses]

ASSUME OrdersConsoleAssumption ==
    /\ Order \subseteq Nat /\ IsFiniteSet(Order) /\ Shared \subseteq Order
    /\ OrderJumps \subseteq Order
    /\ FirstStatus \in [Order -> Statuses \cup {"ABSENT"}]
    /\ NoOrder \notin Row

VARIABLES
    orders,     \* the orders table: the status of each order
    items,      \* store: the list, as answered
    shown,      \* store: current
    loading,    \* store: the flag all its operations share
    route,      \* the page, and the id in its address
    busy,       \* the page's own loading flag
    dialog,     \* the dialog the detail page has open
    flight,     \* calls in flight
    adrift,     \* calls under way in the backend that nobody here waits for
    had,        \* history: every status an order has had
    calm        \* history: every call was sent alone, every page loaded, and no
                \* jump led from one order to another

consoleVars == <<orders, items, shown, loading, route, busy, dialog,
                 flight, adrift, had, calm>>

-----------------------------------------------------------------------------
Decisions == {"approve", "reject", "receive"}

Routes == [name : {"list", "create", "other"}, id : {0}] \cup [name : {"detail"}, id : Order]

\* at: how far the backend is with it. own: the page that waits for the end of
\* the call is still mounted. An answer is the rows it carries.
NoCall == [op |-> "idle", id |-> 0, at |-> "none", own |-> FALSE, failed |-> FALSE,
           answer |-> NoAnswer]

\* What the backend works on for others.
NoWork == [op |-> "idle", id |-> 0, at |-> "none"]

OrdersConsoleInit ==
    /\ orders = FirstStatus
    /\ items = <<>>
    /\ shown = NoOrder
    /\ loading = FALSE
    /\ route = [name |-> "other", id |-> 0]
    /\ busy = FALSE
    /\ dialog = "closed"
    /\ flight = [s \in Slot |-> NoCall]
    /\ adrift = [h \in Hand |-> NoWork]
    /\ had = [o \in Order |-> {FirstStatus[o]}]
    /\ calm = TRUE

RowOf(o, table) == [id |-> o, status |-> table[o]]

\* The sequences of all of S from the newest on: there is one.
Falling(S) == {l \in [1..Cardinality(S) -> S] : \A i, j \in DOMAIN l : i < j => l[i] > l[j]}

\* GET /orders: newest first.
Listings(table) ==
    {[i \in DOMAIN l |-> RowOf(l[i], table)] : l \in Falling({o \in Order : table[o] # "ABSENT"})}

\* Which status a decision needs and which it leaves.
Needs(op) == IF op = "receive" THEN "APROBADA" ELSE "PENDIENTE"
Leaves(op) == CASE op = "approve" -> "APROBADA"
                [] op = "reject" -> "RECHAZADA"
                [] op = "receive" -> "RECIBIDA"

-----------------------------------------------------------------------------
\* The flight once the page of its calls is gone.
Orphaned == [s \in Slot |-> IF flight[s] = NoCall THEN NoCall
                            ELSE [flight[s] EXCEPT !.own = FALSE]]

\* The detail page and the form are busy until these end.
PageWaits(op) == op \in Decisions \cup {"create"}

\* A decision first reads the order; a create and a read have no such check.
CallOf(op, id) ==
    [NoCall EXCEPT !.op = op, !.id = id, !.own = PageWaits(op),
                   !.at = IF op \in Decisions THEN "sent" ELSE "checked"]

\* The first lines of every store operation, and the call it sends, beside
\* the calls of before.
Send(op, id, before) ==
    /\ \E s \in Slot :
        /\ flight[s] = NoCall
        /\ flight' = [before EXCEPT ![s] = CallOf(op, id)]
    /\ loading' = TRUE
    /\ calm' = (calm /\ \A s \in Slot : flight[s] = NoCall)
    /\ UNCHANGED <<adrift, had>>

\* A navigation mounts the next page: its flags are new, the store is not.
Visit(r) ==
    /\ r # route
    /\ route' = r
    /\ busy' = FALSE
    /\ dialog' = "closed"

\* The list page fetches the list when it is mounted.
OpenList ==
    /\ Visit([name |-> "list", id |-> 0])
    /\ Send("list", 0, Orphaned)
    /\ UNCHANGED <<orders, items, shown>>

\* A click on a row, or one step in the history.
OpenDetail(o) ==
    /\ route.name # "detail"
    /\ Visit([name |-> "detail", id |-> o])
    /\ Send("one", o, Orphaned)
    /\ UNCHANGED <<orders, items, shown>>

\* A jump in the history from one order to another keeps the page mounted: it
\* fetches nothing, and shows what it showed.
JumpToOrder(o) ==
    /\ route.name = "detail" /\ o \in OrderJumps \ {route.id}
    /\ route' = [name |-> "detail", id |-> o]
    /\ calm' = FALSE
    /\ UNCHANGED <<orders, items, shown, loading, busy, dialog, flight, adrift, had>>

\* The form, which fetches nothing about orders. A page that is not about
\* orders leaves the store as the form does: it is only where a tab starts.
OpenForm ==
    /\ Visit([name |-> "create", id |-> 0])
    /\ flight' = Orphaned
    /\ UNCHANGED <<orders, items, shown, loading, adrift, had, calm>>

\* Pagination of the list, disabled while the store is loading.
ChangePage ==
    /\ route.name = "list" /\ ~loading
    /\ Send("list", 0, flight)
    /\ UNCHANGED <<orders, items, shown, route, busy, dialog>>

\* The form's submit button is disabled while the page is busy.
SubmitForm ==
    /\ route.name = "create" /\ ~busy
    /\ busy' = TRUE
    /\ Send("create", 0, flight)
    /\ UNCHANGED <<orders, items, shown, route, dialog>>

\* OrderTimeline's buttons: by the status of the order shown, not while loading.
Clickable(op) == shown # NoOrder /\ shown.status = Needs(op) /\ ~busy

\* The buttons of reject and receive open a dialog.
OpenDialog(op) ==
    /\ route.name = "detail" /\ dialog = "closed"
    /\ op \in {"reject", "receive"} /\ Clickable(op)
    /\ dialog' = op
    /\ UNCHANGED <<orders, items, shown, loading, route, busy, flight, adrift, had, calm>>

CancelDialog ==
    /\ dialog # "closed"
    /\ dialog' = "closed"
    /\ UNCHANGED <<orders, items, shown, loading, route, busy, flight, adrift, had, calm>>

\* Mutant: the new status is shown before the answer.
OptimisticDecide(op) ==
    /\ route.name = "detail" /\ shown # NoOrder
    /\ IF op = "approve" THEN dialog = "closed" /\ Clickable(op)
                         ELSE dialog = op /\ ~busy
    /\ busy' = TRUE
    /\ dialog' = "closed"
    /\ shown' = [shown EXCEPT !.status = Leaves(op)]
    /\ Send(op, route.id, flight)
    /\ UNCHANGED <<orders, items, route>>

\* Approve is sent at the click, reject and receive when their dialog is
\* confirmed; the dialog does not look at the order again. The id is the route's.
Decide(op) ==
    /\ route.name = "detail"
    /\ IF op = "approve" THEN dialog = "closed" /\ Clickable(op)
                         ELSE dialog = op /\ ~busy
    /\ busy' = TRUE
    /\ dialog' = "closed"
    /\ Send(op, route.id, flight)
    /\ UNCHANGED <<orders, items, shown, route>>

-----------------------------------------------------------------------------
\* What the backend does with a call once a decision has been checked: the rows
\* it answers and the table it leaves, for each outcome it has. The UPDATE of a
\* decision names the order by its id alone: the status may have moved.
Outcomes(c) ==
    CASE c.op = "list" -> {[rows |-> l, table |-> orders] : l \in Listings(orders)}
      [] c.op = "one" -> IF orders[c.id] = "ABSENT" THEN {}
                         ELSE {[rows |-> <<RowOf(c.id, orders)>>, table |-> orders]}
      [] c.op = "create" ->
            {[rows |-> <<[id |-> o, status |-> "PENDIENTE"]>>,
              table |-> [orders EXCEPT ![o] = "PENDIENTE"]] :
                o \in {x \in Order : orders[x] = "ABSENT"
                                     /\ \A y \in Order : y < x => orders[y] # "ABSENT"}}
      [] OTHER -> {[rows |-> <<[id |-> c.id, status |-> Leaves(c.op)]>>,
                    table |-> [orders EXCEPT ![c.id] = Leaves(c.op)]]}

\* The table a statement leaves.
Stored(table) ==
    /\ orders' = table
    /\ had' = [o \in Order |-> had[o] \cup {table[o]}]

InFlight(s) == flight[s] # NoCall /\ flight[s].answer = NoAnswer /\ ~flight[s].failed

\* A decision reads its order and finds the status it needs. The write is
\* another statement, and anything may come between.
CheckDecision(s) ==
    /\ InFlight(s) /\ flight[s].at = "sent"
    /\ orders[flight[s].id] = Needs(flight[s].op)
    /\ flight' = [flight EXCEPT ![s].at = "checked"]
    /\ UNCHANGED <<orders, items, shown, loading, route, busy, dialog, adrift, had, calm>>

\* The statement of the call, and its answer on the way.
ServeOrders(s) ==
    /\ InFlight(s) /\ flight[s].at = "checked"
    /\ \E out \in Outcomes(flight[s]) :
        /\ Stored(out.table)
        /\ flight' = [flight EXCEPT ![s].answer = out.rows]
    /\ UNCHANGED <<items, shown, loading, route, busy, dialog, adrift, calm>>

\* An error answer, or no answer within TIMEOUT_MS: the backend has given the
\* call up, or goes on with it.
CallBreaks(s) ==
    /\ InFlight(s)
    /\ flight' = [flight EXCEPT ![s].failed = TRUE]
    /\ \/ UNCHANGED adrift
       \/ /\ PageWaits(flight[s].op)
          /\ \E h \in Hand :
                /\ adrift[h] = NoWork
                /\ adrift' = [adrift EXCEPT ![h] =
                        [op |-> flight[s].op, id |-> flight[s].id, at |-> flight[s].at]]
    /\ UNCHANGED <<orders, items, shown, loading, route, busy, dialog, had, calm>>

\* Another administrator's decision, once the order it read allows it.
CheckElsewhere(o) ==
    /\ \E op \in Decisions, h \in Hand :
        /\ orders[o] = Needs(op) /\ adrift[h] = NoWork
        /\ adrift' = [adrift EXCEPT ![h] = [op |-> op, id |-> o, at |-> "checked"]]
    /\ UNCHANGED <<orders, items, shown, loading, route, busy, dialog, flight, had, calm>>

CheckAdrift(h) ==
    /\ adrift[h].at = "sent" /\ orders[adrift[h].id] = Needs(adrift[h].op)
    /\ adrift' = [adrift EXCEPT ![h].at = "checked"]
    /\ UNCHANGED <<orders, items, shown, loading, route, busy, dialog, flight, had, calm>>

WriteAdrift(h) ==
    /\ adrift[h].at = "checked"
    /\ \E out \in Outcomes(adrift[h]) : Stored(out.table)
    /\ adrift' = [adrift EXCEPT ![h] = NoWork]
    /\ UNCHANGED <<items, shown, loading, route, busy, dialog, flight, calm>>

\* Refused, or failed before its write.
DropAdrift(h) ==
    /\ adrift[h] # NoWork
    /\ adrift' = [adrift EXCEPT ![h] = NoWork]
    /\ UNCHANGED <<orders, items, shown, loading, route, busy, dialog, flight, had, calm>>

\* The finally blocks of the store and, while it is mounted, of the page.
Land(s) ==
    /\ flight' = [flight EXCEPT ![s] = NoCall]
    /\ loading' = FALSE
    /\ busy' = (busy /\ ~flight[s].own)

LoadFailed(s) == calm' = (calm /\ flight[s].op # "one")

\* Mutant: the page's flag is not reset when an operation fails.
FailureLeavesBusy(s) ==
    /\ flight[s].failed
    /\ flight' = [flight EXCEPT ![s] = NoCall]
    /\ loading' = FALSE
    /\ LoadFailed(s)
    /\ UNCHANGED <<orders, items, shown, route, busy, dialog, adrift, had>>

\* The catch blocks.
FailureArrives(s) ==
    /\ flight[s].failed
    /\ Land(s)
    /\ LoadFailed(s)
    /\ UNCHANGED <<orders, items, shown, route, dialog, adrift, had>>

Arrived(s, op) == flight[s].op = op /\ flight[s].answer # NoAnswer

ListArrives(s) ==
    /\ Arrived(s, "list")
    /\ items' = flight[s].answer
    /\ Land(s)
    /\ UNCHANGED <<orders, shown, route, dialog, adrift, had, calm>>

\* Mutant: an order already on show is not replaced.
ShownAfter(s) == IF shown = NoOrder THEN flight[s].answer[1] ELSE shown

\* fetchOne: whatever order is on show, the answer replaces it.
ShownByOne(s) == flight[s].answer[1]

OneArrives(s) ==
    /\ Arrived(s, "one")
    /\ shown' = ShownByOne(s)
    /\ Land(s)
    /\ UNCHANGED <<orders, items, route, dialog, adrift, had, calm>>

\* create: unshift, and the page moves on to the list, which fetches it. The
\* push happens wherever the user is by now.
CreateArrives(s) ==
    /\ Arrived(s, "create")
    /\ items' = flight[s].answer \o items
    /\ route' = [name |-> "list", id |-> 0]
    /\ dialog' = IF route.name = "list" THEN dialog ELSE "closed"
    /\ busy' = FALSE
    /\ IF route.name = "list"
       THEN /\ flight' = [flight EXCEPT ![s] = NoCall]
            /\ loading' = FALSE
            /\ UNCHANGED calm
       ELSE /\ flight' = [x \in Slot |->
                CASE x = s -> CallOf("list", 0)
                  [] flight[x] = NoCall -> NoCall
                  [] OTHER -> [flight[x] EXCEPT !.own = FALSE]]
            /\ loading' = TRUE
            /\ calm' = (calm /\ \A x \in Slot \ {s} : flight[x] = NoCall)
    /\ UNCHANGED <<orders, shown, adrift, had>>

\* approve, reject, receive: the row is replaced in the list if it is there,
\* and on show if it is still the one on show.
DecisionArrives(s) ==
    /\ \E op \in Decisions : Arrived(s, op)
    /\ LET row == flight[s].answer[1]
           at == {i \in DOMAIN items : items[i].id = row.id}
       IN  /\ items' = IF at = {} THEN items
                       ELSE [items EXCEPT ![CHOOSE i \in at : \A j \in at : i <= j] = row]
           /\ shown' = IF shown # NoOrder /\ shown.id = flight[s].id THEN row ELSE shown
           /\ Land(s)
    /\ UNCHANGED <<orders, route, dialog, adrift, had, calm>>

ConsoleUserActs ==
    \/ OpenList \/ OpenForm \/ ChangePage \/ SubmitForm \/ CancelDialog
    \/ \E o \in Order : OpenDetail(o) \/ JumpToOrder(o)
    \/ \E op \in Decisions : OpenDialog(op) \/ Decide(op)

ConsoleSettles(s) ==
    \/ CheckDecision(s) \/ ServeOrders(s) \/ CallBreaks(s) \/ FailureArrives(s)
    \/ ListArrives(s) \/ OneArrives(s) \/ CreateArrives(s) \/ DecisionArrives(s)

OrdersConsoleNext ==
    \/ ConsoleUserActs
    \/ \E s \in Slot : ConsoleSettles(s)
    \/ \E o \in Shared : CheckElsewhere(o)
    \/ \E h \in Hand : CheckAdrift(h) \/ WriteAdrift(h) \/ DropAdrift(h)

OrdersConsoleSpec == OrdersConsoleInit /\ [][OrdersConsoleNext]_consoleVars

-----------------------------------------------------------------------------
\* Types of the variables.
OrdersConsoleTypeOK ==
    /\ orders \in [Order -> Statuses \cup {"ABSENT"}]
    /\ \A i \in DOMAIN items : items[i] \in Row
    /\ shown \in Row \cup {NoOrder}
    /\ loading \in BOOLEAN /\ busy \in BOOLEAN /\ calm \in BOOLEAN
    /\ route \in Routes
    /\ dialog \in {"closed", "reject", "receive"}
    /\ \A s \in Slot : flight[s].op \in {"idle", "list", "one", "create"} \cup Decisions
    /\ adrift \in [Hand -> {NoWork} \cup [op : Decisions \cup {"create"}, id : Order \cup {0},
                                         at : {"sent", "checked"}]]
    /\ had \in [Order -> SUBSET (Statuses \cup {"ABSENT"})]

Quiet == \A s \in Slot : flight[s] = NoCall

\* When the user waits for each answer before the next call and pages load, the
\* detail page comes to rest on the order of its address, whatever order the
\* store still held from an earlier visit (stores/orders.ts:45).
RestsOnTheRoute ==
    calm /\ Quiet /\ route.name = "detail" => shown # NoOrder /\ shown.id = route.id

\* However the answers overtake each other, and whatever fails, the SPA never
\* shows a status the order did not have at some moment: a lost or refused
\* decision leaves no trace in the list or on the page (stores/orders.ts:45).
\* The moment is past: a later decision checked before may overwrite any status.
ShownWasTrue ==
    /\ shown # NoOrder => shown.status \in had[shown.id]
    /\ \A i \in DOMAIN items : items[i].status \in had[items[i].id]

\* No flag stays set: a store that loads has a call in flight, and a page that
\* is busy has one of its own, so the timeout of the call clears both even when
\* calls overlap, fail or outlive their page.
SpinnersHaveACall ==
    /\ loading => \E s \in Slot : flight[s] # NoCall
    /\ busy => \E s \in Slot : flight[s].own

=============================================================================
