---------------------------- MODULE OrdersConsoleProofs ----------------------------
(***************************************************************************)
(* The orders pages, for any number of orders and of calls in flight: no   *)
(* flag stays set without a call to clear it, a user who waits ends on the *)
(* order of the address, and no status is shown that an order never had.   *)
(***************************************************************************)
EXTENDS OrdersConsole, FiniteSetTheorems, TLAPS

\* Calls about one order.
About(op) == op \in {"one"} \cup Decisions

\* What an answer shows is a row of the order it was asked for.
CallInv(s) ==
    /\ DOMAIN flight[s] = {"op", "id", "at", "own", "failed", "answer"}
    /\ \/ flight[s] = NoCall
       \/ /\ flight[s].op \in {"list", "one", "create"} \cup Decisions
          /\ flight[s].at \in {"sent", "checked"} /\ flight[s].id \in Order \cup {0}
    /\ About(flight[s].op) =>
        /\ flight[s].id \in Order
        /\ flight[s].answer # NoAnswer =>
              flight[s].answer[1] \in Row /\ flight[s].answer[1].id = flight[s].id

\* One call at a time, and the one a detail page sent is about its order.
CalmInv ==
    calm =>
        /\ \A s, t \in Slot : flight[s] # NoCall /\ flight[t] # NoCall => s = t
        /\ route.name = "detail" =>
            /\ \A s \in Slot : flight[s].op = "one" => flight[s].id = route.id
            /\ \/ \E s \in Slot : flight[s].op = "one"
               \/ shown # NoOrder /\ shown.id = route.id

PagesInv ==
    /\ DOMAIN flight = Slot
    /\ route \in Routes
    /\ \A s \in Slot : CallInv(s)
    /\ SpinnersHaveACall
    /\ CalmInv

\* The backend's side: whatever is written is remembered, and a decision under
\* way for others is about an order.
BackInv ==
    /\ orders \in [Order -> Statuses \cup {"ABSENT"}]
    /\ had \in [Order -> SUBSET (Statuses \cup {"ABSENT"})]
    /\ \A o \in Order : orders[o] \in had[o]
    /\ adrift \in [Hand -> {NoWork} \cup [op : Decisions \cup {"create"}, id : Order \cup {0},
                                         at : {"sent", "checked"}]]
    /\ \A h \in Hand : adrift[h].op \in Decisions => adrift[h].id \in Order

LEMMA NoCallFields ==
    /\ DOMAIN NoCall = {"op", "id", "at", "own", "failed", "answer"}
    /\ NoCall.op = "idle" /\ ~NoCall.own /\ ~NoCall.failed /\ NoCall.answer = NoAnswer
    /\ ~About("idle")
  BY DEF NoCall, About, Decisions

LEMMA RowShown == ASSUME NEW r \in Row PROVE r # NoOrder
  BY OrdersConsoleAssumption

\* A call that is sent, beside calls of before that are as they were but for
\* their page.
LEMMA Sends ==
    ASSUME PagesInv, NEW op \in {"list", "one", "create"} \cup Decisions,
           NEW id \in Order \cup {0}, NEW before,
           About(op) => id \in Order, Send(op, id, before), route' \in Routes,
           before \in {flight, Orphaned},
           busy' => PageWaits(op) \/ (busy /\ before = flight),
           calm' /\ route'.name = "detail" =>
               (op = "one" /\ id = route'.id)
               \/ (op # "one" /\ shown' # NoOrder /\ shown'.id = route'.id)
    PROVE  PagesInv'
<1>1. PICK s \in Slot :
        /\ flight[s] = NoCall
        /\ flight' = [before EXCEPT ![s] = CallOf(op, id)]
  BY DEF Send
<1>2. loading' = TRUE /\ calm' = (calm /\ \A t \in Slot : flight[t] = NoCall)
  BY DEF Send
<1> DEFINE call == CallOf(op, id)
<1>3. /\ DOMAIN call = {"op", "id", "at", "own", "failed", "answer"}
      /\ call.op = op /\ call.id = id /\ call.own = PageWaits(op) /\ call.answer = NoAnswer
      /\ call.at \in {"sent", "checked"}
  BY DEF NoCall, CallOf
<1>4. DOMAIN before = Slot
  BY DEF PagesInv, Orphaned
<1>5. flight'[s] = call /\ DOMAIN flight' = Slot /\ \A t \in Slot \ {s} : flight'[t] = before[t]
  BY <1>1, <1>4
<1> HIDE DEF call
<1>6. op # "idle" /\ call # NoCall
  BY <1>3, NoCallFields DEF Decisions
<1>7. ASSUME NEW t \in Slot
      PROVE  /\ before[t].op = flight[t].op /\ before[t].id = flight[t].id
             /\ before[t].at = flight[t].at
             /\ before[t].answer = flight[t].answer
             /\ DOMAIN before[t] = DOMAIN flight[t]
             /\ flight[t] = NoCall => before[t] = NoCall
             /\ before = flight => before[t].own = flight[t].own
  BY DEF PagesInv, CallInv, Orphaned
<1>8. ASSUME NEW t \in Slot PROVE CallInv(t)'
  <2>1. CASE t = s
    BY <1>3, <1>5, <2>1 DEF CallInv
  <2>2. CASE t # s
    BY <1>5, <1>7, <2>2 DEF PagesInv, CallInv
  <2> QED
    BY <2>1, <2>2
<1>9. SpinnersHaveACall'
  <2>1. \E t \in Slot : flight'[t] # NoCall
    BY <1>5, <1>6
  <2>2. CASE busy'
    <3>1. CASE PageWaits(op)
      BY <1>3, <1>5, <3>1, <2>1 DEF SpinnersHaveACall
    <3>2. CASE busy /\ before = flight
      <4>1. PICK t \in Slot : flight[t].own
        BY <3>2 DEF PagesInv, SpinnersHaveACall
      <4>2. t # s
        BY <1>1, <4>1, NoCallFields
      <4> QED
        BY <1>5, <2>1, <3>2, <4>1, <4>2 DEF SpinnersHaveACall
    <3> QED
      BY <2>2, <3>1, <3>2
  <2> QED
    BY <2>1, <2>2 DEF SpinnersHaveACall
<1>10. CalmInv'
  <2> SUFFICES ASSUME calm' PROVE CalmInv'
    BY DEF CalmInv
  <2>1. \A t \in Slot \ {s} : flight'[t] = NoCall
    BY <1>2, <1>5, <1>7
  <2>2. \A t \in Slot \ {s} : flight'[t].op = "idle"
    BY <2>1, NoCallFields
  <2> QED
    BY <1>3, <1>5, <2>1, <2>2 DEF CalmInv
<1> QED
  BY <1>5, <1>8, <1>9, <1>10 DEF PagesInv

LEMMA DetailRoute ==
    ASSUME NEW r \in Routes
    PROVE  (r.name = "detail" => r.id \in Order)
  BY DEF Routes

\* Steps that leave calls and store alone keep everything but the address.
LEMMA CallsStay ==
    ASSUME PagesInv, UNCHANGED <<loading, busy, flight>>, route' \in Routes,
           calm' => calm /\ UNCHANGED <<route, shown>>
    PROVE  PagesInv'
<1>1. \A s \in Slot : CallInv(s)'
  BY DEF PagesInv, CallInv
<1> QED
  BY <1>1 DEF PagesInv, SpinnersHaveACall, CalmInv

LEMMA FormOpens == ASSUME PagesInv, OpenForm PROVE PagesInv'
<1>1. /\ flight' = Orphaned /\ route' = [name |-> "create", id |-> 0] /\ ~busy'
      /\ UNCHANGED <<loading, calm>>
  BY DEF OpenForm, Visit
<1>2. ASSUME NEW t \in Slot
      PROVE  /\ flight'[t].op = flight[t].op /\ flight'[t].id = flight[t].id
             /\ flight'[t].at = flight[t].at /\ flight'[t].answer = flight[t].answer
             /\ DOMAIN flight'[t] = DOMAIN flight[t]
             /\ flight[t] = NoCall <=> flight'[t] = NoCall
  <2>1. CASE flight[t] = NoCall
    BY <1>1, <2>1 DEF Orphaned
  <2>2. CASE flight[t] # NoCall
    <3>1. flight[t].op \in {"list", "one", "create"} \cup Decisions
      BY <2>2 DEF PagesInv, CallInv
    <3>2. flight'[t] = [flight[t] EXCEPT !.own = FALSE]
      BY <1>1, <2>2 DEF Orphaned
    <3>3. flight'[t].op = flight[t].op
      BY <3>2 DEF PagesInv, CallInv
    <3> QED
      BY <2>2, <3>1, <3>2, <3>3, NoCallFields DEF PagesInv, CallInv, Decisions
  <2> QED
    BY <2>1, <2>2
<1>3. \A s \in Slot : CallInv(s)'
  BY <1>2 DEF PagesInv, CallInv
<1>4. DOMAIN flight' = Slot /\ route' \in Routes
  BY <1>1 DEF Orphaned, Routes
<1>5. SpinnersHaveACall'
  BY <1>1, <1>2 DEF PagesInv, SpinnersHaveACall
<1>6. CalmInv'
  BY <1>1, <1>2 DEF PagesInv, CalmInv
<1> QED
  BY <1>1, <1>3, <1>4, <1>5, <1>6 DEF PagesInv

LEMMA UserActs == ASSUME PagesInv, ConsoleUserActs PROVE PagesInv'
<1>1. CASE OpenList
  <2>1. route' = [name |-> "list", id |-> 0] /\ ~busy'
    BY <1>1 DEF OpenList, Visit
  <2>2. route' \in Routes /\ route'.name # "detail"
    BY <2>1 DEF Routes
  <2> QED
    BY <1>1, <2>1, <2>2, Sends DEF OpenList, About, Decisions
<1>2. ASSUME NEW o \in Order, OpenDetail(o) PROVE PagesInv'
  <2>1. route' = [name |-> "detail", id |-> o] /\ ~busy'
    BY <1>2 DEF OpenDetail, Visit
  <2>2. route' \in Routes /\ route'.id = o
    BY <2>1 DEF Routes
  <2> QED
    BY <1>2, <2>1, <2>2, Sends DEF OpenDetail
<1>3. ASSUME NEW o \in Order, JumpToOrder(o) PROVE PagesInv'
  <2>1. route' \in Routes
    BY <1>3 DEF JumpToOrder, Routes
  <2> QED
    BY <1>3, <2>1, CallsStay DEF JumpToOrder
<1>4. CASE OpenForm
  BY <1>4, FormOpens
<1>5. CASE ChangePage
  BY <1>5, Sends DEF ChangePage, PagesInv, About, Decisions
<1>6. CASE SubmitForm
  BY <1>6, Sends DEF SubmitForm, PagesInv, PageWaits, About, Decisions
<1>7. ASSUME NEW op \in Decisions, Decide(op) PROVE PagesInv'
  <2>1. /\ Send(op, route.id, flight) /\ route.name = "detail"
        /\ UNCHANGED <<orders, items, shown, route>>
    BY <1>7 DEF Decide
  <2>2. route.id \in Order /\ route' \in Routes
    BY <2>1, DetailRoute DEF PagesInv
  <2>3. PageWaits(op) /\ op # "one"
    BY DEF PageWaits, Decisions
  <2>4. calm' => shown # NoOrder /\ shown.id = route.id
    <3>1. calm' => calm /\ \A s \in Slot : flight[s].op = "idle"
      BY <2>1, NoCallFields DEF Send
    <3> QED
      BY <2>1, <3>1 DEF PagesInv, CalmInv
  <2> QED
    BY <2>1, <2>2, <2>3, <2>4, Sends
<1>8. ASSUME NEW op \in Decisions, OpenDialog(op) PROVE PagesInv'
  BY <1>8, CallsStay DEF OpenDialog, PagesInv
<1>9. CASE CancelDialog
  BY <1>9, CallsStay DEF CancelDialog, PagesInv
<1> QED
  BY <1>1, <1>2, <1>3, <1>4, <1>5, <1>6, <1>7, <1>8, <1>9 DEF ConsoleUserActs

-----------------------------------------------------------------------------
(* What the backend does *)

LEMMA LeavesStatus ==
    ASSUME NEW op \in Decisions PROVE Leaves(op) \in Statuses
  BY DEF Decisions, Leaves, Statuses

\* What the statement of a call may be about.
Worked(c) ==
    /\ c.op \in {"list", "one", "create"} \cup Decisions
    /\ About(c.op) => c.id \in Order

LEMMA OutcomeKinds ==
    ASSUME BackInv, NEW c, Worked(c), NEW out \in Outcomes(c)
    PROVE  /\ out.table \in [Order -> Statuses \cup {"ABSENT"}]
           /\ out.rows \in Seq(Row)
           /\ \A i \in DOMAIN out.rows : out.rows[i].status = out.table[out.rows[i].id]
           /\ c.op # "list" => 1 \in DOMAIN out.rows
           /\ About(c.op) => out.rows[1].id = c.id
<1>1. /\ c.op \in {"list", "one", "create"} \cup Decisions
      /\ About(c.op) => c.id \in Order
      /\ orders \in [Order -> Statuses \cup {"ABSENT"}]
  BY DEF BackInv, Worked
<1>2. CASE c.op = "list"
  <2> DEFINE present == {o \in Order : orders[o] # "ABSENT"}
  <2>1. PICK l \in Falling(present) :
            out.rows = [i \in DOMAIN l |-> RowOf(l[i], orders)] /\ out.table = orders
    <3>1. PICK rows \in Listings(orders) : out = [rows |-> rows, table |-> orders]
      BY <1>2 DEF Outcomes
    <3>2. PICK l \in Falling(present) : rows = [i \in DOMAIN l |-> RowOf(l[i], orders)]
      BY DEF Listings
    <3> QED
      BY <3>1, <3>2
  <2>2. Cardinality(present) \in Nat /\ l \in [1..Cardinality(present) -> present]
    BY OrdersConsoleAssumption, FS_Subset, FS_CardinalityType DEF Falling
  <2>3. \A o \in present : RowOf(o, orders) \in Row /\ RowOf(o, orders).status = orders[RowOf(o, orders).id]
    BY <1>1 DEF RowOf, Row
  <2>4. \A i \in DOMAIN out.rows : /\ out.rows[i] \in Row
                                   /\ out.rows[i].status = orders[out.rows[i].id]
    BY <2>1, <2>2, <2>3
  <2>5. out.rows \in [1..Cardinality(present) -> Row]
    BY <2>1, <2>2, <2>4
  <2>6. out.rows \in Seq(Row)
    <3>1. PICK n \in Nat : out.rows \in [1..n -> Row]
      BY <2>2, <2>5
    <3> QED
      BY <3>1
  <2> QED
    BY <1>1, <1>2, <2>1, <2>4, <2>6 DEF About, Decisions
<1>3. CASE c.op = "one"
  <2>1. orders[c.id] # "ABSENT" /\ out.table = orders /\ out.rows = <<RowOf(c.id, orders)>>
    BY <1>3 DEF Outcomes
  <2>2. /\ RowOf(c.id, orders) \in Row /\ RowOf(c.id, orders).id = c.id
        /\ RowOf(c.id, orders).status = orders[c.id]
    BY <1>1, <1>3, <2>1 DEF About, RowOf, Row
  <2> QED
    BY <1>1, <2>1, <2>2
<1>4. CASE c.op = "create"
  <2>1. PICK o \in Order : /\ out.rows = <<[id |-> o, status |-> "PENDIENTE"]>>
                           /\ out.table = [orders EXCEPT ![o] = "PENDIENTE"]
    <3> DEFINE free == {x \in Order : orders[x] = "ABSENT"
                                      /\ \A y \in Order : y < x => orders[y] # "ABSENT"}
    <3>1. out \in {[rows |-> <<[id |-> o, status |-> "PENDIENTE"]>>,
                    table |-> [orders EXCEPT ![o] = "PENDIENTE"]] : o \in free}
      BY <1>4 DEF Outcomes
    <3>2. free \subseteq Order
      OBVIOUS
    <3> HIDE DEF free
    <3>3. PICK o \in free : out = [rows |-> <<[id |-> o, status |-> "PENDIENTE"]>>,
                                  table |-> [orders EXCEPT ![o] = "PENDIENTE"]]
      BY <3>1
    <3>4. /\ out.rows = <<[id |-> o, status |-> "PENDIENTE"]>>
          /\ out.table = [orders EXCEPT ![o] = "PENDIENTE"]
      BY <3>3
    <3> QED
      BY <3>2, <3>4
  <2>2. [id |-> o, status |-> "PENDIENTE"] \in Row /\ "PENDIENTE" \in Statuses
    BY DEF Row, Statuses
  <2> QED
    BY <1>1, <1>4, <2>1, <2>2 DEF About, Decisions
<1>5. CASE c.op \in Decisions
  <2>1. /\ out.rows = <<[id |-> c.id, status |-> Leaves(c.op)]>>
        /\ out.table = [orders EXCEPT ![c.id] = Leaves(c.op)]
    BY <1>5 DEF Outcomes, Decisions
  <2>2. c.id \in Order /\ Leaves(c.op) \in Statuses
    BY <1>1, <1>5, LeavesStatus DEF About
  <2>3. [id |-> c.id, status |-> Leaves(c.op)] \in Row
    BY <2>2 DEF Row
  <2> QED
    BY <1>1, <2>1, <2>2, <2>3
<1> QED
  BY <1>1, <1>2, <1>3, <1>4, <1>5

\* A call in flight is one the backend may work on.
LEMMA FlightIsWork ==
    ASSUME PagesInv, NEW s \in Slot, flight[s] # NoCall PROVE Worked(flight[s])
  BY DEF PagesInv, CallInv, Worked

\* The answer of a call, or its failure, on the way.
LEMMA CallGoesOn ==
    ASSUME PagesInv, NEW s \in Slot, flight[s] # NoCall, NEW k, flight' = [flight EXCEPT ![s] = k],
           DOMAIN k = DOMAIN flight[s],
           k.op = flight[s].op, k.id = flight[s].id, k.own = flight[s].own,
           k.at \in {"sent", "checked"},
           About(k.op) /\ k.answer # NoAnswer => k.answer[1] \in Row /\ k.answer[1].id = k.id,
           UNCHANGED <<shown, loading, route, busy, calm>>
    PROVE  PagesInv'
<1>1. /\ flight[s].op \in {"list", "one", "create"} \cup Decisions
      /\ flight[s].id \in Order \cup {0}
  BY DEF PagesInv, CallInv
<1>2. /\ DOMAIN flight' = Slot /\ DOMAIN flight'[s] = {"op", "id", "at", "own", "failed", "answer"}
      /\ flight'[s].op = flight[s].op /\ flight'[s].id = flight[s].id
      /\ flight'[s].own = flight[s].own /\ flight'[s] = k
      /\ \A t \in Slot \ {s} : flight'[t] = flight[t]
  BY DEF PagesInv, CallInv
<1>3. flight'[s] # NoCall
  BY <1>1, <1>2, NoCallFields DEF Decisions
<1>4. ASSUME NEW t \in Slot PROVE CallInv(t)'
  BY <1>1, <1>2 DEF PagesInv, CallInv
<1>5. SpinnersHaveACall'
  BY <1>2, <1>3 DEF PagesInv, SpinnersHaveACall
<1>6. CalmInv'
  BY <1>2, <1>3 DEF PagesInv, CalmInv
<1> QED
  BY <1>2, <1>4, <1>5, <1>6 DEF PagesInv

\* A decision's check, and the failure of a call, leave what it asked for.
LEMMA CallMoves ==
    ASSUME PagesInv, NEW s \in Slot, CheckDecision(s) \/ CallBreaks(s)
    PROVE  PagesInv'
<1>1. /\ flight[s] # NoCall /\ flight[s].answer = NoAnswer
      /\ UNCHANGED <<shown, loading, route, busy, calm>>
  BY DEF CheckDecision, CallBreaks, InFlight
<1>2. PICK k \in {[flight[s] EXCEPT !.at = "checked"], [flight[s] EXCEPT !.failed = TRUE]} :
          flight' = [flight EXCEPT ![s] = k]
  BY DEF CheckDecision, CallBreaks
<1>3. /\ DOMAIN k = DOMAIN flight[s] /\ k.op = flight[s].op /\ k.id = flight[s].id
      /\ k.own = flight[s].own /\ k.answer = NoAnswer /\ k.at \in {"sent", "checked"}
  BY <1>1 DEF PagesInv, CallInv
<1> QED
  BY <1>1, <1>2, <1>3, CallGoesOn

LEMMA BackendServes ==
    ASSUME PagesInv, BackInv, NEW s \in Slot, ServeOrders(s) PROVE PagesInv'
<1>1. PICK out \in Outcomes(flight[s]) : flight' = [flight EXCEPT ![s].answer = out.rows]
  BY DEF ServeOrders
<1>2. flight[s] # NoCall /\ UNCHANGED <<shown, loading, route, busy, calm>>
  BY DEF ServeOrders, InFlight
<1> DEFINE k == [flight[s] EXCEPT !.answer = out.rows]
<1>3. /\ DOMAIN k = DOMAIN flight[s] /\ k.op = flight[s].op /\ k.id = flight[s].id
      /\ k.own = flight[s].own /\ k.answer = out.rows /\ k.at \in {"sent", "checked"}
  BY <1>2 DEF PagesInv, CallInv
<1>4. flight' = [flight EXCEPT ![s] = k]
  BY <1>1
<1> HIDE DEF k
<1>5. About(flight[s].op) => out.rows[1] \in Row /\ out.rows[1].id = flight[s].id
  BY <1>2, FlightIsWork, OutcomeKinds DEF About, Decisions
<1>6. About(k.op) => k.answer[1] \in Row /\ k.answer[1].id = k.id
  BY <1>3, <1>5
<1> QED
  BY <1>1, <1>2, <1>3, <1>4, <1>5, <1>6, CallGoesOn

\* What others do at the orders.
OthersAct ==
    \/ \E o \in Shared : CheckElsewhere(o)
    \/ \E h \in Hand : CheckAdrift(h) \/ WriteAdrift(h) \/ DropAdrift(h)

LEMMA OthersLeavePages ==
    ASSUME OthersAct
    PROVE  UNCHANGED <<items, shown, loading, route, busy, dialog, flight, calm>>
  BY DEF OthersAct, CheckElsewhere, CheckAdrift, WriteAdrift, DropAdrift

LEMMA OthersDecide == ASSUME PagesInv, OthersAct PROVE PagesInv'
<1>1. UNCHANGED <<shown, loading, route, busy, flight, calm>>
  BY OthersLeavePages
<1>2. \A s \in Slot : CallInv(s)'
  BY <1>1 DEF PagesInv, CallInv
<1> QED
  BY <1>1, <1>2 DEF PagesInv, SpinnersHaveACall, CalmInv

-----------------------------------------------------------------------------
(* Answers *)

\* A call that ends, with what it leaves on show.
LEMMA Lands ==
    ASSUME PagesInv, NEW s \in Slot, Land(s), UNCHANGED route,
           calm' => /\ calm
                    /\ route.name = "detail" =>
                          \/ flight[s].op # "one" /\ shown' = shown
                          \/ shown' # NoOrder /\ shown'.id = route.id
    PROVE  PagesInv'
<1>1. /\ flight' = [flight EXCEPT ![s] = NoCall] /\ ~loading'
      /\ busy' = (busy /\ ~flight[s].own)
  BY DEF Land
<1>2. /\ DOMAIN flight' = Slot /\ flight'[s] = NoCall
      /\ \A t \in Slot \ {s} : flight'[t] = flight[t]
  BY <1>1 DEF PagesInv
<1>3. ASSUME NEW t \in Slot PROVE CallInv(t)'
  BY <1>2, NoCallFields DEF PagesInv, CallInv
<1>4. SpinnersHaveACall'
  <2>1. busy' => \E t \in Slot \ {s} : flight[t].own
    BY <1>1 DEF PagesInv, SpinnersHaveACall
  <2> QED
    BY <1>1, <1>2, <2>1 DEF SpinnersHaveACall
<1>5. CalmInv'
  <2> SUFFICES ASSUME calm' PROVE CalmInv'
    BY DEF CalmInv
  <2>1. \A x, y \in Slot : flight'[x] # NoCall /\ flight'[y] # NoCall => x = y
    BY <1>2 DEF PagesInv, CalmInv
  <2>2. CASE route.name # "detail"
    BY <2>1, <2>2 DEF CalmInv
  <2>3. CASE route.name = "detail"
    <3>1. \A x \in Slot : flight'[x].op = "one" => flight'[x].id = route'.id
      BY <1>2, <2>3, NoCallFields DEF PagesInv, CalmInv
    <3>2. \/ \E x \in Slot : flight'[x].op = "one"
          \/ shown' # NoOrder /\ shown'.id = route'.id
      BY <1>2, <2>3 DEF PagesInv, CalmInv
    <3> QED
      BY <2>1, <3>1, <3>2 DEF CalmInv
  <2> QED
    BY <2>2, <2>3
<1> QED
  BY <1>2, <1>3, <1>4, <1>5 DEF PagesInv

LEMMA RouteStays == ASSUME PagesInv PROVE route \in Routes
  BY DEF PagesInv

LEMMA AnswersArrive ==
    ASSUME PagesInv, NEW s \in Slot,
           FailureArrives(s) \/ ListArrives(s) \/ OneArrives(s) \/ DecisionArrives(s)
    PROVE  PagesInv'
<1>1. CASE FailureArrives(s)
  <2>1. calm' => calm /\ flight[s].op # "one"
    BY <1>1 DEF FailureArrives, LoadFailed
  <2> QED
    BY <1>1, <2>1, Lands DEF FailureArrives
<1>2. CASE ListArrives(s)
  <2>1. flight[s].op # "one"
    BY <1>2 DEF ListArrives, Arrived
  <2> QED
    BY <1>2, <2>1, Lands DEF ListArrives
<1>3. CASE OneArrives(s)
  <2>1. flight[s].op = "one" /\ shown' = flight[s].answer[1] /\ flight[s].answer # NoAnswer
    BY <1>3 DEF OneArrives, Arrived, ShownByOne
  <2>2. shown' \in Row /\ shown'.id = flight[s].id
    BY <2>1 DEF PagesInv, CallInv, About
  <2>3. calm /\ route.name = "detail" => flight[s].id = route.id
    BY <2>1 DEF PagesInv, CalmInv
  <2> QED
    BY <1>3, <2>2, <2>3, RowShown, Lands DEF OneArrives
<1>4. CASE DecisionArrives(s)
  <2>1. PICK op \in Decisions : flight[s].op = op /\ flight[s].answer # NoAnswer
    BY <1>4 DEF DecisionArrives, Arrived
  <2>2. flight[s].op # "one" /\ About(flight[s].op)
    BY <2>1 DEF Decisions, About
  <2>3. flight[s].answer[1] \in Row /\ flight[s].answer[1].id = flight[s].id
    BY <2>1, <2>2 DEF PagesInv, CallInv
  <2>4. /\ shown' = (IF shown # NoOrder /\ shown.id = flight[s].id THEN flight[s].answer[1] ELSE shown)
        /\ Land(s) /\ UNCHANGED <<route, calm>>
    BY <1>4 DEF DecisionArrives
  <2>5. CASE shown # NoOrder /\ shown.id = flight[s].id
    <3>1. shown' # NoOrder /\ shown'.id = shown.id
      BY <2>3, <2>4, <2>5, RowShown
    <3>2. calm /\ route.name = "detail" => shown.id = route.id
      <4> SUFFICES ASSUME calm, route.name = "detail" PROVE shown.id = route.id
        OBVIOUS
      <4>1. \A t \in Slot : flight[t] # NoCall => t = s
        BY <2>2, NoCallFields DEF PagesInv, CalmInv
      <4>2. \A t \in Slot : flight[t].op # "one"
        BY <2>2, <4>1, NoCallFields
      <4> QED
        BY <4>2 DEF PagesInv, CalmInv
    <3> QED
      BY <2>4, <3>1, <3>2, Lands
  <2>6. CASE ~(shown # NoOrder /\ shown.id = flight[s].id)
    BY <2>2, <2>4, <2>6, Lands
  <2> QED
    BY <2>5, <2>6
<1> QED
  BY <1>1, <1>2, <1>3, <1>4

\* The answer of a create moves the page on to the list, wherever it was.
LEMMA CreatedArrives == ASSUME PagesInv, NEW s \in Slot, CreateArrives(s) PROVE PagesInv'
<1>1. route' = [name |-> "list", id |-> 0] /\ ~busy'
  BY DEF CreateArrives
<1>2. route' \in Routes /\ route'.name # "detail"
  BY <1>1 DEF Routes
<1>3. CASE route.name = "list"
  <2>1. flight' = [flight EXCEPT ![s] = NoCall] /\ ~loading' /\ calm' = calm
    BY <1>3 DEF CreateArrives
  <2>2. /\ DOMAIN flight' = Slot /\ flight'[s] = NoCall
        /\ \A t \in Slot \ {s} : flight'[t] = flight[t]
    BY <2>1 DEF PagesInv
  <2>3. \A t \in Slot : CallInv(t)'
    BY <2>2, NoCallFields DEF PagesInv, CallInv
  <2>4. SpinnersHaveACall' /\ CalmInv'
    BY <1>1, <1>2, <2>1, <2>2 DEF PagesInv, SpinnersHaveACall, CalmInv
  <2> QED
    BY <1>1, <1>2, <2>2, <2>3, <2>4 DEF PagesInv
<1>4. CASE route.name # "list"
  <2> DEFINE next == CallOf("list", 0)
  <2>1. /\ flight' = [x \in Slot |->
               CASE x = s -> next
                 [] flight[x] = NoCall -> NoCall
                 [] OTHER -> [flight[x] EXCEPT !.own = FALSE]]
        /\ loading' = TRUE
        /\ calm' = (calm /\ \A x \in Slot \ {s} : flight[x] = NoCall)
    BY <1>4 DEF CreateArrives
  <2>2. /\ DOMAIN next = {"op", "id", "at", "own", "failed", "answer"}
        /\ next.op = "list" /\ next # NoCall /\ next.at = "checked" /\ next.id = 0
    BY NoCallFields DEF NoCall, CallOf, Decisions
  <2> HIDE DEF next
  <2>3. flight'[s] = next /\ DOMAIN flight' = Slot
    <3>1. flight[s] # NoCall
      BY NoCallFields DEF CreateArrives, Arrived
    <3> QED
      BY <2>1, <3>1
  <2>4. ASSUME NEW t \in Slot \ {s}
        PROVE  /\ flight'[t].op = flight[t].op /\ flight'[t].id = flight[t].id
               /\ flight'[t].at = flight[t].at /\ flight'[t].answer = flight[t].answer
               /\ DOMAIN flight'[t] = DOMAIN flight[t]
               /\ flight[t] = NoCall => flight'[t] = NoCall
    <3>1. CASE flight[t] = NoCall
      BY <2>1, <3>1
    <3>2. CASE flight[t] # NoCall
      <4>1. flight'[t] = [flight[t] EXCEPT !.own = FALSE]
        BY <2>1, <3>2
      <4> QED
        BY <3>2, <4>1 DEF PagesInv, CallInv
    <3> QED
      BY <3>1, <3>2
  <2>5. ASSUME NEW t \in Slot PROVE CallInv(t)'
    <3>1. CASE t = s
      BY <2>2, <2>3, <3>1 DEF CallInv, About, Decisions
    <3>2. CASE t # s
      BY <2>4, <3>2 DEF PagesInv, CallInv
    <3> QED
      BY <3>1, <3>2
  <2>6. SpinnersHaveACall'
    BY <1>1, <2>2, <2>3 DEF SpinnersHaveACall
  <2>7. CalmInv'
    BY <1>2, <2>1, <2>4 DEF CalmInv
  <2> QED
    BY <1>1, <1>2, <2>3, <2>5, <2>6, <2>7 DEF PagesInv
<1> QED
  BY <1>3, <1>4

-----------------------------------------------------------------------------
(* Specification *)

\* Whatever the backend writes for a call, the order had that status.
LEMMA StoredIsRemembered ==
    ASSUME BackInv, NEW c, Worked(c), NEW out \in Outcomes(c), Stored(out.table)
    PROVE  /\ orders' \in [Order -> Statuses \cup {"ABSENT"}]
           /\ had' \in [Order -> SUBSET (Statuses \cup {"ABSENT"})]
           /\ \A o \in Order : orders'[o] \in had'[o] /\ had[o] \subseteq had'[o]
<1>1. out.table \in [Order -> Statuses \cup {"ABSENT"}]
  BY OutcomeKinds
<1> QED
  BY <1>1 DEF Stored, BackInv

\* Steps of the pages that write nothing.
LEMMA PagesWriteNothing ==
    ASSUME \/ ConsoleUserActs
           \/ \E s \in Slot : \/ CheckDecision(s) \/ FailureArrives(s) \/ ListArrives(s)
                             \/ OneArrives(s) \/ CreateArrives(s) \/ DecisionArrives(s)
    PROVE  UNCHANGED <<orders, had, adrift>>
<1>1. CASE ConsoleUserActs
  BY <1>1 DEF ConsoleUserActs, OpenList, OpenForm, ChangePage, SubmitForm, CancelDialog, OpenDetail,
              JumpToOrder, OpenDialog, Decide, Send
<1>2. ASSUME NEW s \in Slot, \/ CheckDecision(s) \/ FailureArrives(s) \/ ListArrives(s)
                             \/ OneArrives(s) \/ CreateArrives(s) \/ DecisionArrives(s)
      PROVE  UNCHANGED <<orders, had, adrift>>
  BY <1>2 DEF CheckDecision, FailureArrives, ListArrives, OneArrives, CreateArrives, DecisionArrives
<1> QED
  BY <1>1, <1>2

LEMMA BackInvStep ==
    ASSUME PagesInv, BackInv, [OrdersConsoleNext]_consoleVars
    PROVE  BackInv' /\ \A o \in Order : had[o] \subseteq had'[o]
<1> USE DEF BackInv
<1>1. CASE UNCHANGED <<orders, had, adrift>>
  BY <1>1
<1>2. ASSUME NEW s \in Slot, ServeOrders(s)
      PROVE  BackInv' /\ \A o \in Order : had[o] \subseteq had'[o]
  <2>1. PICK out \in Outcomes(flight[s]) : Stored(out.table)
    BY <1>2 DEF ServeOrders
  <2>2. Worked(flight[s]) /\ UNCHANGED adrift
    BY <1>2, FlightIsWork DEF ServeOrders, InFlight
  <2> QED
    BY <2>1, <2>2, StoredIsRemembered
<1>3. ASSUME NEW s \in Slot, CallBreaks(s)
      PROVE  BackInv' /\ \A o \in Order : had[o] \subseteq had'[o]
  <2>1. UNCHANGED <<orders, had>> /\ flight[s] # NoCall
    BY <1>3 DEF CallBreaks, InFlight
  <2>2. CASE UNCHANGED adrift
    BY <2>1, <2>2
  <2>3. CASE ~UNCHANGED adrift
    <3> DEFINE work == [op |-> flight[s].op, id |-> flight[s].id, at |-> flight[s].at]
    <3>1. PICK h \in Hand : PageWaits(flight[s].op) /\ adrift' = [adrift EXCEPT ![h] = work]
      BY <1>3, <2>3 DEF CallBreaks
    <3>2. /\ flight[s].op \in Decisions \cup {"create"}
          /\ flight[s].op \in Decisions => flight[s].id \in Order
      BY <3>1 DEF PageWaits, PagesInv, CallInv, About
    <3>3. flight[s].at \in {"sent", "checked"} /\ flight[s].id \in Order \cup {0}
      BY <2>1, <3>2 DEF PagesInv, CallInv
    <3>4. work \in [op : Decisions \cup {"create"}, id : Order \cup {0}, at : {"sent", "checked"}]
          /\ work.op = flight[s].op /\ work.id = flight[s].id
      BY <3>2, <3>3
    <3> HIDE DEF work
    <3> QED
      BY <2>1, <3>1, <3>2, <3>4
  <2> QED
    BY <2>2, <2>3
<1>4. ASSUME NEW o \in Shared, CheckElsewhere(o)
      PROVE  BackInv' /\ \A x \in Order : had[x] \subseteq had'[x]
  <2>1. PICK op \in Decisions, h \in Hand :
            adrift' = [adrift EXCEPT ![h] = [op |-> op, id |-> o, at |-> "checked"]]
    BY <1>4 DEF CheckElsewhere
  <2>2. UNCHANGED <<orders, had>> /\ o \in Order
    BY <1>4, OrdersConsoleAssumption DEF CheckElsewhere
  <2> QED
    BY <2>1, <2>2
<1>5. ASSUME NEW h \in Hand, CheckAdrift(h) \/ DropAdrift(h)
      PROVE  BackInv' /\ \A o \in Order : had[o] \subseteq had'[o]
  <2>1. UNCHANGED <<orders, had>>
    BY <1>5 DEF CheckAdrift, DropAdrift
  <2>2. CASE CheckAdrift(h)
    BY <2>1, <2>2 DEF CheckAdrift, NoWork
  <2>3. CASE DropAdrift(h)
    BY <2>1, <2>3 DEF DropAdrift, NoWork, Decisions
  <2> QED
    BY <1>5, <2>2, <2>3
<1>6. ASSUME NEW h \in Hand, WriteAdrift(h)
      PROVE  BackInv' /\ \A o \in Order : had[o] \subseteq had'[o]
  <2>1. PICK out \in Outcomes(adrift[h]) : Stored(out.table)
    BY <1>6 DEF WriteAdrift
  <2>2. adrift' = [adrift EXCEPT ![h] = NoWork] /\ adrift[h].at = "checked"
    BY <1>6 DEF WriteAdrift
  <2>3. Worked(adrift[h])
    BY <2>2 DEF Worked, About, NoWork, Decisions
  <2>4. adrift' \in [Hand -> {NoWork} \cup [op : Decisions \cup {"create"}, id : Order \cup {0},
                                           at : {"sent", "checked"}]]
        /\ \A g \in Hand : adrift'[g].op \in Decisions => adrift'[g].id \in Order
    BY <2>2 DEF NoWork, Decisions
  <2> QED
    BY <2>1, <2>3, <2>4, StoredIsRemembered
<1> QED
  BY <1>1, <1>2, <1>3, <1>4, <1>5, <1>6, PagesWriteNothing
     DEF OrdersConsoleNext, ConsoleSettles, consoleVars

LEMMA PagesInvStep == PagesInv /\ BackInv /\ [OrdersConsoleNext]_consoleVars => PagesInv'
<1> SUFFICES ASSUME PagesInv, BackInv, [OrdersConsoleNext]_consoleVars PROVE PagesInv'
  OBVIOUS
<1>1. CASE ConsoleUserActs
  BY <1>1, UserActs
<1>2. ASSUME NEW s \in Slot, ConsoleSettles(s) PROVE PagesInv'
  BY <1>2, BackendServes, CallMoves, AnswersArrive, CreatedArrives DEF ConsoleSettles
<1>3. CASE OthersAct
  BY <1>3, OthersDecide
<1>4. CASE UNCHANGED consoleVars
  BY <1>4, CallsStay DEF consoleVars, PagesInv
<1> QED
  BY <1>1, <1>2, <1>3, <1>4 DEF OrdersConsoleNext, OthersAct

LEMMA PagesInvInit == OrdersConsoleInit => PagesInv
<1> SUFFICES ASSUME OrdersConsoleInit PROVE PagesInv
  OBVIOUS
<1>1. DOMAIN flight = Slot /\ \A s \in Slot : flight[s] = NoCall
  BY DEF OrdersConsoleInit
<1>2. route \in Routes /\ route.name # "detail" /\ ~loading /\ ~busy
  BY DEF OrdersConsoleInit, Routes
<1>3. \A s \in Slot : CallInv(s)
  BY <1>1, NoCallFields DEF CallInv
<1> QED
  BY <1>1, <1>2, <1>3 DEF PagesInv, SpinnersHaveACall, CalmInv

LEMMA BackInvInit == OrdersConsoleInit => BackInv
  BY OrdersConsoleAssumption DEF OrdersConsoleInit, BackInv, NoWork, Decisions

LEMMA PagesInvariant == OrdersConsoleSpec => [](PagesInv /\ BackInv)
<1>1. PagesInv /\ BackInv /\ [OrdersConsoleNext]_consoleVars => PagesInv' /\ BackInv'
  BY PagesInvStep, BackInvStep
<1> QED
  BY <1>1, PagesInvInit, BackInvInit, PTL DEF OrdersConsoleSpec

\* A store that loads has a call in flight and a busy page one of its own, so
\* no flag outlives the calls, however many overlap.
THEOREM SpinnersEnd == OrdersConsoleSpec => []SpinnersHaveACall
<1>1. PagesInv => SpinnersHaveACall
  BY DEF PagesInv
<1> QED
  BY <1>1, PagesInvariant, PTL

\* A user who waits for each answer ends on the order of the address, for any
\* number of orders, visits and decisions of others.
THEOREM PageRestsOnRoute == OrdersConsoleSpec => []RestsOnTheRoute
<1>1. PagesInv => RestsOnTheRoute
  <2> SUFFICES ASSUME PagesInv, calm, Quiet, route.name = "detail"
               PROVE  shown # NoOrder /\ shown.id = route.id
    BY DEF RestsOnTheRoute
  <2>1. \A s \in Slot : flight[s].op = "idle"
    BY NoCallFields DEF Quiet
  <2> QED
    BY <2>1 DEF PagesInv, CalmInv
<1> QED
  BY <1>1, PagesInvariant, PTL

-----------------------------------------------------------------------------
(* What is on show was true *)

\* A row whose status its order has had.
Told(row) == row \in Row /\ row.status \in had[row.id]

\* The rows on show, in the list and in every answer on its way.
TruthInv ==
    /\ shown # NoOrder => Told(shown)
    /\ items \in Seq(Row) /\ \A i \in DOMAIN items : Told(items[i])
    /\ \A s \in Slot : flight[s].answer # NoAnswer =>
        /\ flight[s].answer \in Seq(Row)
        /\ \A i \in DOMAIN flight[s].answer : Told(flight[s].answer[i])
        /\ flight[s].op # "list" => 1 \in DOMAIN flight[s].answer

\* The flags and the dialog.
FlagTypes ==
    /\ loading \in BOOLEAN /\ busy \in BOOLEAN /\ calm \in BOOLEAN
    /\ dialog \in {"closed", "reject", "receive"}

\* No status is forgotten.
Remembers == \A o \in Order : had[o] \subseteq had'[o]

LEMMA RowFields == ASSUME NEW r \in Row PROVE r.id \in Order /\ r.status \in Statuses
  BY DEF Row

\* A row that was true stays so.
LEMMA StillTold == ASSUME Remembers, NEW row, Told(row) PROVE Told(row)'
  BY RowFields DEF Told, Remembers

\* Steps that neither answer a call nor take an answer.
LEMMA NothingIsTold ==
    ASSUME TruthInv, Remembers, UNCHANGED <<items, shown>>,
           \A s \in Slot : /\ flight'[s].answer \in {flight[s].answer, NoAnswer}
                           /\ flight'[s].answer # NoAnswer => flight'[s].op = flight[s].op
    PROVE  TruthInv'
<1>1. \A row : Told(row) => Told(row)'
  BY StillTold
<1>2. /\ shown' # NoOrder => Told(shown)'
      /\ items' \in Seq(Row) /\ \A i \in DOMAIN items' : Told(items[i])'
  BY <1>1 DEF TruthInv
<1>3. ASSUME NEW s \in Slot, flight'[s].answer # NoAnswer
      PROVE  /\ flight'[s].answer \in Seq(Row)
             /\ \A i \in DOMAIN flight'[s].answer : Told(flight[s].answer[i])'
             /\ flight'[s].op # "list" => 1 \in DOMAIN flight'[s].answer
  <2>1. flight'[s].answer = flight[s].answer /\ flight'[s].op = flight[s].op
    BY <1>3
  <2> QED
    BY <1>1, <1>3, <2>1 DEF TruthInv
<1> QED
  BY <1>2, <1>3 DEF TruthInv

\* A call that is sent has no answer; the others keep theirs.
LEMMA SendTellsNothing ==
    ASSUME PagesInv, NEW op, NEW id, NEW before \in {flight, Orphaned}, Send(op, id, before)
    PROVE  \A s \in Slot : /\ flight'[s].answer \in {flight[s].answer, NoAnswer}
                           /\ flight'[s].answer # NoAnswer => flight'[s].op = flight[s].op
<1>1. PICK s \in Slot :
        flight' = [before EXCEPT ![s] = CallOf(op, id)]
  BY DEF Send
<1> DEFINE call == CallOf(op, id)
<1>2. call.answer = NoAnswer
  BY DEF NoCall, CallOf
<1> HIDE DEF call
<1>3. DOMAIN before = Slot
  BY DEF PagesInv, Orphaned
<1>4. flight'[s] = call /\ \A t \in Slot \ {s} : flight'[t] = before[t]
  BY <1>1, <1>3 DEF call
<1>5. ASSUME NEW t \in Slot
      PROVE  before[t].op = flight[t].op /\ before[t].answer = flight[t].answer
  BY DEF PagesInv, CallInv, Orphaned
<1> QED
  BY <1>2, <1>4, <1>5

LEMMA UserTellsNothing ==
    ASSUME PagesInv, TruthInv, Remembers, ConsoleUserActs PROVE TruthInv'
<1>1. /\ UNCHANGED <<items, shown>>
      /\ \/ UNCHANGED flight
         \/ flight' = Orphaned
         \/ \E op, id : \E before \in {flight, Orphaned} : Send(op, id, before)
  BY DEF ConsoleUserActs, OpenList, OpenForm, ChangePage, SubmitForm, CancelDialog, OpenDetail,
         JumpToOrder, OpenDialog, Decide
<1>2. \A s \in Slot : /\ flight'[s].answer \in {flight[s].answer, NoAnswer}
                      /\ flight'[s].answer # NoAnswer => flight'[s].op = flight[s].op
  <2>1. CASE UNCHANGED flight
    BY <2>1
  <2>2. CASE flight' = Orphaned
    BY <2>2 DEF Orphaned, PagesInv, CallInv
  <2>3. CASE \E op, id : \E before \in {flight, Orphaned} : Send(op, id, before)
    BY <2>3, SendTellsNothing
  <2> QED
    BY <1>1, <2>1, <2>2, <2>3
<1> QED
  BY <1>1, <1>2, NothingIsTold

LEMMA ServedIsTold ==
    ASSUME PagesInv, BackInv, TruthInv, Remembers, NEW s \in Slot, ServeOrders(s) PROVE TruthInv'
<1>1. PICK out \in Outcomes(flight[s]) :
          Stored(out.table) /\ flight' = [flight EXCEPT ![s].answer = out.rows]
  BY DEF ServeOrders
<1>2. flight[s] # NoCall /\ UNCHANGED <<items, shown>>
  BY DEF ServeOrders, InFlight
<1>3. /\ out.rows \in Seq(Row)
      /\ \A i \in DOMAIN out.rows : Told(out.rows[i])'
      /\ flight[s].op # "list" => 1 \in DOMAIN out.rows
  <2>1. /\ out.rows \in Seq(Row)
        /\ \A i \in DOMAIN out.rows : out.rows[i].status = out.table[out.rows[i].id]
        /\ flight[s].op # "list" => 1 \in DOMAIN out.rows
    BY <1>2, FlightIsWork, OutcomeKinds
  <2>2. orders' = out.table /\ \A o \in Order : orders'[o] \in had'[o]
    BY <1>1, <1>2, FlightIsWork, StoredIsRemembered DEF Stored
  <2>3. ASSUME NEW i \in DOMAIN out.rows PROVE Told(out.rows[i])'
    <3>1. out.rows[i] \in Row
      BY <2>1
    <3> QED
      BY <2>1, <2>2, <3>1, RowFields DEF Told
  <2> QED
    BY <2>1, <2>3
<1>4. \A row : Told(row) => Told(row)'
  BY StillTold
<1>5. /\ flight'[s].answer = out.rows /\ flight'[s].op = flight[s].op
      /\ \A t \in Slot \ {s} : flight'[t] = flight[t]
  BY <1>1 DEF PagesInv, CallInv
<1>7. ASSUME NEW t \in Slot, flight'[t].answer # NoAnswer
      PROVE  /\ flight'[t].answer \in Seq(Row)
             /\ \A i \in DOMAIN flight'[t].answer : Told(flight[t].answer[i])'
             /\ flight'[t].op # "list" => 1 \in DOMAIN flight'[t].answer
  <2>1. CASE t = s
    BY <1>3, <1>5, <2>1 DEF Told
  <2>2. CASE t # s
    BY <1>4, <1>5, <1>7, <2>2 DEF TruthInv
  <2> QED
    BY <2>1, <2>2
<1>8. /\ shown' # NoOrder => Told(shown)'
      /\ items' \in Seq(Row) /\ \A i \in DOMAIN items' : Told(items[i])'
  BY <1>2, <1>4 DEF TruthInv
<1> QED
  BY <1>7, <1>8 DEF TruthInv

LEMMA BrokenTellsNothing ==
    ASSUME PagesInv, TruthInv, Remembers, NEW s \in Slot, CheckDecision(s) \/ CallBreaks(s)
    PROVE  TruthInv'
<1>1. UNCHANGED <<items, shown>>
  BY DEF CheckDecision, CallBreaks
<1>2. \A t \in Slot : flight'[t].answer = flight[t].answer /\ flight'[t].op = flight[t].op
  BY DEF CheckDecision, CallBreaks, PagesInv, CallInv
<1> QED
  BY <1>1, <1>2, NothingIsTold

LEMMA OthersTellNothing == ASSUME TruthInv, Remembers, OthersAct PROVE TruthInv'
  BY OthersLeavePages, NothingIsTold

\* An answer is taken: the rows on show are the ones there were or the answer's.
LEMMA TakenIsTold ==
    ASSUME TruthInv, UNCHANGED had,
           \A t \in Slot : /\ flight'[t].answer \in {flight[t].answer, NoAnswer}
                           /\ flight'[t].answer # NoAnswer => flight'[t].op = flight[t].op,
           shown' # NoOrder => Told(shown'),
           items' \in Seq(Row), \A i \in DOMAIN items' : Told(items'[i])
    PROVE  TruthInv'
<1>1. \A row : Told(row) <=> Told(row)'
  BY DEF Told
<1>2. ASSUME NEW t \in Slot, flight'[t].answer # NoAnswer
      PROVE  /\ flight'[t].answer \in Seq(Row)
             /\ \A i \in DOMAIN flight'[t].answer : Told(flight[t].answer[i])'
             /\ flight'[t].op # "list" => 1 \in DOMAIN flight'[t].answer
  <2>1. flight'[t].answer = flight[t].answer /\ flight'[t].op = flight[t].op
    BY <1>2
  <2>2. \A i \in DOMAIN flight[t].answer : Told(flight[t].answer[i])
    BY <1>2, <2>1 DEF TruthInv
  <2> QED
    BY <1>2, <2>1, <2>2 DEF TruthInv, Told
<1>3. shown' # NoOrder => Told(shown)'
  BY DEF Told
<1>4. \A i \in DOMAIN items' : Told(items[i])'
  BY DEF Told
<1> QED
  BY <1>2, <1>3, <1>4 DEF TruthInv

LEMMA LandTellsNothing ==
    ASSUME PagesInv, NEW s \in Slot, flight' = [flight EXCEPT ![s] = NoCall]
    PROVE  \A t \in Slot : /\ flight'[t].answer \in {flight[t].answer, NoAnswer}
                           /\ flight'[t].answer # NoAnswer => flight'[t].op = flight[t].op
  BY NoCallFields DEF PagesInv

LEMMA AnswersTellTruth ==
    ASSUME PagesInv, TruthInv, NEW s \in Slot,
           FailureArrives(s) \/ ListArrives(s) \/ OneArrives(s) \/ DecisionArrives(s)
    PROVE  TruthInv'
<1>0. /\ flight' = [flight EXCEPT ![s] = NoCall] /\ UNCHANGED had
  BY DEF FailureArrives, ListArrives, OneArrives, DecisionArrives, Land
<1>1. /\ shown # NoOrder => Told(shown)
      /\ items \in Seq(Row) /\ \A i \in DOMAIN items : Told(items[i])
  BY DEF TruthInv
<1>2. CASE FailureArrives(s)
  BY <1>0, <1>1, <1>2, LandTellsNothing, TakenIsTold DEF FailureArrives
<1>3. CASE ListArrives(s)
  <2>1. flight[s].answer # NoAnswer /\ items' = flight[s].answer /\ shown' = shown
    BY <1>3 DEF ListArrives, Arrived
  <2>2. items' \in Seq(Row) /\ \A i \in DOMAIN items' : Told(items'[i])
    BY <2>1 DEF TruthInv
  <2> QED
    BY <1>0, <1>1, <2>1, <2>2, LandTellsNothing, TakenIsTold
<1>4. CASE OneArrives(s)
  <2>1. flight[s].op = "one" /\ flight[s].answer # NoAnswer
        /\ shown' = flight[s].answer[1] /\ items' = items
    BY <1>4 DEF OneArrives, Arrived, ShownByOne
  <2>2. Told(shown')
    BY <2>1 DEF TruthInv
  <2> QED
    BY <1>0, <1>1, <2>1, <2>2, LandTellsNothing, TakenIsTold
<1>5. CASE DecisionArrives(s)
  <2> DEFINE row == flight[s].answer[1]
             at == {i \in DOMAIN items : items[i].id = row.id}
             place == CHOOSE i \in at : \A j \in at : i <= j
  <2>1. flight[s].op # "list" /\ flight[s].answer # NoAnswer
    BY <1>5 DEF DecisionArrives, Arrived, Decisions
  <2>2. items' \in {items, [items EXCEPT ![place] = row]} /\ shown' \in {shown, row}
    BY <1>5 DEF DecisionArrives
  <2>3. Told(row) /\ row \in Row
    BY <2>1 DEF TruthInv, Told
  <2> HIDE DEF row, place
  <2>4. [items EXCEPT ![place] = row] \in Seq(Row)
        /\ \A i \in DOMAIN items : [items EXCEPT ![place] = row][i] \in {items[i], row}
        /\ DOMAIN [items EXCEPT ![place] = row] = DOMAIN items
    <3>1. PICK n \in Nat : items \in [1..n -> Row]
      BY <1>1
    <3>2. [items EXCEPT ![place] = row] \in [1..n -> Row]
      BY <2>3, <3>1
    <3> DEFINE new == [items EXCEPT ![place] = row]
    <3>3. new \in Seq(Row)
      <4>1. new \in [1..n -> Row]
        BY <3>2
      <4> HIDE DEF new
      <4> QED
        BY <4>1
    <3> QED
      BY <3>1, <3>3
  <2>5. items' \in Seq(Row) /\ \A i \in DOMAIN items' : Told(items'[i])
    BY <1>1, <2>2, <2>3, <2>4
  <2>6. shown' # NoOrder => Told(shown')
    BY <1>1, <2>2, <2>3
  <2> QED
    BY <1>0, <2>5, <2>6, LandTellsNothing, TakenIsTold
<1> QED
  BY <1>2, <1>3, <1>4, <1>5

LEMMA CreatedIsTold == ASSUME PagesInv, TruthInv, NEW s \in Slot, CreateArrives(s) PROVE TruthInv'
<1>1. /\ flight[s].op = "create" /\ flight[s].answer # NoAnswer
      /\ items' = flight[s].answer \o items /\ UNCHANGED <<had, shown>>
  BY DEF CreateArrives, Arrived
<1>2. /\ shown # NoOrder => Told(shown)
      /\ items \in Seq(Row) /\ \A i \in DOMAIN items : Told(items[i])
      /\ flight[s].answer \in Seq(Row)
      /\ \A i \in DOMAIN flight[s].answer : Told(flight[s].answer[i])
  BY <1>1 DEF TruthInv
<1>3. items' \in Seq(Row) /\ \A i \in DOMAIN items' : Told(items'[i])
  <2>1. items' \in Seq(Row)
    BY <1>1, <1>2
  <2>2. ASSUME NEW i \in DOMAIN items' PROVE Told(items'[i])
    <3>1. \/ i \in DOMAIN flight[s].answer /\ items'[i] = flight[s].answer[i]
          \/ /\ i - Len(flight[s].answer) \in DOMAIN items
             /\ items'[i] = items[i - Len(flight[s].answer)]
      BY <1>1, <1>2
    <3> QED
      BY <1>2, <3>1
  <2> QED
    BY <2>1, <2>2
<1>4. \A t \in Slot : /\ flight'[t].answer \in {flight[t].answer, NoAnswer}
                      /\ flight'[t].answer # NoAnswer => flight'[t].op = flight[t].op
  <2>1. CASE route.name = "list"
    <3>1. flight' = [flight EXCEPT ![s] = NoCall]
      BY <2>1 DEF CreateArrives
    <3> QED
      BY <3>1, LandTellsNothing
  <2>2. CASE route.name # "list"
    <3> DEFINE next == CallOf("list", 0)
    <3>1. flight' = [x \in Slot |->
               CASE x = s -> next
                 [] flight[x] = NoCall -> NoCall
                 [] OTHER -> [flight[x] EXCEPT !.own = FALSE]]
      BY <2>2 DEF CreateArrives
    <3>2. next.answer = NoAnswer
      BY DEF NoCall, CallOf
    <3> HIDE DEF next
    <3>3. flight[s] # NoCall
      BY <1>1, NoCallFields
    <3>4. ASSUME NEW t \in Slot
          PROVE  /\ flight'[t].answer \in {flight[t].answer, NoAnswer}
                 /\ flight'[t].answer # NoAnswer => flight'[t].op = flight[t].op
      <4>1. CASE t = s
        BY <3>1, <3>2, <3>3, <4>1
      <4>2. CASE t # s /\ flight[t] = NoCall
        BY <3>1, <4>2
      <4>3. CASE t # s /\ flight[t] # NoCall
        <5>1. flight'[t] = [flight[t] EXCEPT !.own = FALSE]
          BY <3>1, <4>3
        <5> QED
          BY <5>1 DEF PagesInv, CallInv
      <4> QED
        BY <4>1, <4>2, <4>3
    <3> QED
      BY <3>4
  <2> QED
    BY <2>1, <2>2
<1> QED
  BY <1>1, <1>2, <1>3, <1>4, TakenIsTold

\* The flags and the dialog have their types.
LEMMA FlagTypesStep ==
    ASSUME FlagTypes, [OrdersConsoleNext]_consoleVars PROVE FlagTypes'
<1>1. CASE ConsoleUserActs
  BY <1>1 DEF FlagTypes, ConsoleUserActs, OpenList, OpenForm, ChangePage, SubmitForm, CancelDialog,
              OpenDetail, JumpToOrder, OpenDialog, Decide, Visit, Send, Decisions
<1>2. ASSUME NEW s \in Slot, ConsoleSettles(s) PROVE FlagTypes'
  <2>1. CASE CreateArrives(s)
    BY <2>1 DEF FlagTypes, CreateArrives
  <2>2. CASE ~CreateArrives(s)
    BY <1>2, <2>2 DEF FlagTypes, ConsoleSettles, CheckDecision, ServeOrders, CallBreaks, FailureArrives,
                      ListArrives, OneArrives, DecisionArrives, Land, LoadFailed
  <2> QED
    BY <2>1, <2>2
<1>3. CASE OthersAct
  BY <1>3, OthersLeavePages DEF FlagTypes
<1>4. CASE UNCHANGED consoleVars
  BY <1>4 DEF FlagTypes, consoleVars
<1> QED
  BY <1>1, <1>2, <1>3, <1>4 DEF OrdersConsoleNext, OthersAct

ShowInv == PagesInv /\ BackInv /\ TruthInv /\ FlagTypes

LEMMA ShowInvStep == ShowInv /\ [OrdersConsoleNext]_consoleVars => ShowInv'
<1> SUFFICES ASSUME ShowInv, [OrdersConsoleNext]_consoleVars PROVE ShowInv'
  OBVIOUS
<1>0. PagesInv /\ BackInv /\ TruthInv /\ FlagTypes
  BY DEF ShowInv
<1>6. PagesInv' /\ BackInv' /\ Remembers
  BY <1>0, PagesInvStep, BackInvStep DEF Remembers
<1>1. ASSUME ConsoleUserActs PROVE TruthInv'
  BY <1>0, <1>6, <1>1, UserTellsNothing
<1>2. ASSUME NEW s \in Slot, ConsoleSettles(s) PROVE TruthInv'
  BY <1>0, <1>6, <1>2, ServedIsTold, BrokenTellsNothing, AnswersTellTruth, CreatedIsTold DEF ConsoleSettles
<1>3. ASSUME OthersAct PROVE TruthInv'
  BY <1>0, <1>6, <1>3, OthersTellNothing
<1>4. ASSUME UNCHANGED consoleVars PROVE TruthInv'
  BY <1>0, <1>6, <1>4, NothingIsTold DEF consoleVars
<1>5. TruthInv'
  BY <1>1, <1>2, <1>3, <1>4 DEF OrdersConsoleNext, OthersAct
<1> QED
  BY <1>0, <1>6, <1>5, FlagTypesStep DEF ShowInv

LEMMA ShowInvInit == OrdersConsoleInit => ShowInv
<1> SUFFICES ASSUME OrdersConsoleInit PROVE ShowInv
  OBVIOUS
<1>1. TruthInv
  <2>1. shown = NoOrder /\ items = <<>> /\ \A s \in Slot : flight[s].answer = NoAnswer
    BY NoCallFields DEF OrdersConsoleInit
  <2> QED
    BY <2>1 DEF TruthInv
<1>2. FlagTypes
  BY DEF OrdersConsoleInit, FlagTypes
<1> QED
  BY <1>1, <1>2, PagesInvInit, BackInvInit DEF ShowInv

LEMMA ShowInvariant == OrdersConsoleSpec => []ShowInv
  BY ShowInvInit, ShowInvStep, PTL DEF OrdersConsoleSpec

\* The orders pages' variables keep their types, whatever the calls do.
THEOREM OrdersPagesTyped == OrdersConsoleSpec => []OrdersConsoleTypeOK
<1>1. ShowInv => OrdersConsoleTypeOK
  <2> SUFFICES ASSUME ShowInv PROVE OrdersConsoleTypeOK
    OBVIOUS
  <2>1. \A s \in Slot : flight[s].op \in {"idle", "list", "one", "create"} \cup Decisions
    BY NoCallFields DEF ShowInv, PagesInv, CallInv
  <2>2. /\ \A i \in DOMAIN items : items[i] \in Row
        /\ shown \in Row \cup {NoOrder}
    BY DEF ShowInv, TruthInv, Told
  <2> QED
    BY <2>1, <2>2 DEF ShowInv, PagesInv, BackInv, FlagTypes, OrdersConsoleTypeOK
<1> QED
  BY <1>1, ShowInvariant, PTL

\* Whatever answers overtake each other, time out or are refused, and whatever a
\* late decision overwrites, no status is on show that the order never had
\* (stores/orders.ts:45, drizzle-order-repository.ts:137).
THEOREM ShownWasOnceTrue == OrdersConsoleSpec => []ShownWasTrue
<1>1. ShowInv => ShownWasTrue
  BY DEF ShowInv, TruthInv, Told, ShownWasTrue
<1> QED
  BY <1>1, ShowInvariant, PTL

=============================================================================
