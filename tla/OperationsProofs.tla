--------------------------- MODULE OperationsProofs ---------------------------
(***************************************************************************)
(* Proofs about the two systems a developer runs beside the product: the   *)
(* development server (DevServer), for any clients and any calls, and the  *)
(* setup of the database (Provisioning), for any number of installers and  *)
(* products and any database to begin with.                                *)
(***************************************************************************)
EXTENDS DevServer, Provisioning, WellFoundedInduction, TLAPS

-----------------------------------------------------------------------------
(* DevServer: the routes *)

\* The table, row by row.
LEMMA RouteRows ==
    /\ DOMAIN Routes = 1..14
    /\ Routes[1] = [path |-> <<"auth", "login">>, methods |-> {"POST"}]
    /\ Routes[2] = [path |-> <<"products">>, methods |-> {"POST", "GET"}]
    /\ Routes[3] = [path |-> <<"products", "semantic-search">>, methods |-> {"POST"}]
    /\ Routes[4] = [path |-> <<"products", Placeholder>>, methods |-> {"GET", "PATCH"}]
    /\ Routes[5] = [path |-> <<"categories">>, methods |-> {"GET", "POST"}]
    /\ Routes[6] = [path |-> <<"products", Placeholder, "movements">>, methods |-> {"POST", "GET"}]
    /\ Routes[7] = [path |-> <<"alerts">>, methods |-> {"GET"}]
    /\ Routes[8] = [path |-> <<"alerts", Placeholder>>, methods |-> {"GET"}]
    /\ Routes[9] = [path |-> <<"orders">>, methods |-> {"POST", "GET"}]
    /\ Routes[10] = [path |-> <<"orders", Placeholder>>, methods |-> {"GET"}]
    /\ Routes[11] = [path |-> <<"orders", Placeholder, "approve">>, methods |-> {"POST"}]
    /\ Routes[12] = [path |-> <<"orders", Placeholder, "reject">>, methods |-> {"POST"}]
    /\ Routes[13] = [path |-> <<"orders", Placeholder, "receive">>, methods |-> {"POST"}]
    /\ Routes[14] = [path |-> <<"health">>, methods |-> {"GET"}]
  BY SMTT(60) DEF Routes

\* The segments of a key of the table are words, but for the second of two, if
\* the method is not POST, and the second of three.
Word == {"auth", "login", "products", "semantic-search", "categories", "movements", "alerts",
         "orders", "approve", "reject", "receive", "health"}

Shaped(k) ==
    /\ k = [method |-> k.method, path |-> k.path] /\ k.path \in Seq(Word \cup {Placeholder})
    /\ \/ Len(k.path) = 1 /\ k.path[1] \in Word
       \/ Len(k.path) = 2 /\ k.path[1] \in Word /\ k.method = "POST" /\ k.path[2] \in Word
       \/ Len(k.path) = 2 /\ k.path[1] \in Word /\ k.method # "POST" /\ k.path[2] = Placeholder
       \/ Len(k.path) = 3 /\ k.path[1] \in Word /\ k.path[2] = Placeholder /\ k.path[3] \in Word

Health == [method |-> "GET", path |-> <<"health">>]

LEMMA PlaceholderIsNoWord == Placeholder \notin Word
  BY DEF Placeholder, Word

LEMMA ShapesMade ==
    ASSUME NEW a \in Word, NEW b \in Word, NEW m
    PROVE  /\ Shaped([method |-> m, path |-> <<a>>])
           /\ Shaped([method |-> "POST", path |-> <<a, b>>])
           /\ m # "POST" => Shaped([method |-> m, path |-> <<a, Placeholder>>])
           /\ Shaped([method |-> m, path |-> <<a, Placeholder, b>>])
<1>1. ASSUME NEW p \in Seq(Word \cup {Placeholder}), NEW n,
             \/ Len(p) = 1 /\ p[1] \in Word
             \/ Len(p) = 2 /\ p[1] \in Word /\ n = "POST" /\ p[2] \in Word
             \/ Len(p) = 2 /\ p[1] \in Word /\ n # "POST" /\ p[2] = Placeholder
             \/ Len(p) = 3 /\ p[1] \in Word /\ p[2] = Placeholder /\ p[3] \in Word
      PROVE  Shaped([method |-> n, path |-> p])
  BY <1>1 DEF Shaped
<1>2. /\ <<a>> \in Seq(Word \cup {Placeholder}) /\ <<a, b>> \in Seq(Word \cup {Placeholder})
      /\ <<a, Placeholder>> \in Seq(Word \cup {Placeholder})
      /\ <<a, Placeholder, b>> \in Seq(Word \cup {Placeholder})
  OBVIOUS
<1>3. Shaped([method |-> m, path |-> <<a>>])
  BY <1>1, <1>2
<1>4. Shaped([method |-> "POST", path |-> <<a, b>>])
  BY <1>1, <1>2
<1>5. m # "POST" => Shaped([method |-> m, path |-> <<a, Placeholder>>])
  BY <1>1, <1>2
<1>6. Shaped([method |-> m, path |-> <<a, Placeholder, b>>])
  BY <1>1, <1>2
<1> QED
  BY <1>3, <1>4, <1>5, <1>6

\* What the handler is wired for, by the number of segments.
LEMMA WiredOne ==
    /\ [method |-> "POST", path |-> <<"products">>] \in Wired
    /\ [method |-> "GET", path |-> <<"products">>] \in Wired
    /\ [method |-> "GET", path |-> <<"categories">>] \in Wired
    /\ [method |-> "POST", path |-> <<"categories">>] \in Wired
    /\ [method |-> "GET", path |-> <<"alerts">>] \in Wired
    /\ [method |-> "POST", path |-> <<"orders">>] \in Wired
    /\ [method |-> "GET", path |-> <<"orders">>] \in Wired
  BY SMTT(60) DEF Wired, Key

LEMMA WiredTwo ==
    /\ [method |-> "POST", path |-> <<"auth", "login">>] \in Wired
    /\ [method |-> "POST", path |-> <<"products", "semantic-search">>] \in Wired
    /\ [method |-> "GET", path |-> <<"products", Placeholder>>] \in Wired
    /\ [method |-> "PATCH", path |-> <<"products", Placeholder>>] \in Wired
    /\ [method |-> "GET", path |-> <<"alerts", Placeholder>>] \in Wired
    /\ [method |-> "GET", path |-> <<"orders", Placeholder>>] \in Wired
  BY SMTT(60) DEF Wired, Key

LEMMA WiredThree ==
    /\ [method |-> "POST", path |-> <<"products", Placeholder, "movements">>] \in Wired
    /\ [method |-> "GET", path |-> <<"products", Placeholder, "movements">>] \in Wired
    /\ [method |-> "POST", path |-> <<"orders", Placeholder, "approve">>] \in Wired
    /\ [method |-> "POST", path |-> <<"orders", Placeholder, "reject">>] \in Wired
    /\ [method |-> "POST", path |-> <<"orders", Placeholder, "receive">>] \in Wired
  BY SMTT(60) DEF Wired, Key

\* The handler has every key of the table but the one the server answers itself.
LEMMA KeysKnown == ASSUME NEW k \in Keys PROVE Shaped(k) /\ (k \in Wired \/ k = Health)
<1>1. PICK i \in 1..14 : \E m \in Routes[i].methods : k = Key(m, Routes[i].path)
  <2>1. DOMAIN Routes = 1..14
    BY RouteRows
  <2> QED
    BY <2>1 DEF Keys
<1>2. PICK m \in Routes[i].methods : k = [method |-> m, path |-> Routes[i].path]
  BY <1>1 DEF Key
<1>3. CASE i = 1
  <2>1. Routes[i] = [path |-> <<"auth", "login">>, methods |-> {"POST"}]
    BY <1>3, RouteRows
  <2>2. m \in {"POST"} /\ k = [method |-> m, path |-> <<"auth", "login">>]
    BY <1>2, <2>1
  <2>3. Shaped(k)
    <3>1. "auth" \in Word /\ "login" \in Word
      BY DEF Word
    <3> QED
      BY <2>2, <3>1, ShapesMade
  <2> QED
    BY <2>2, <2>3, WiredTwo
<1>4. CASE i = 2
  <2>1. Routes[i] = [path |-> <<"products">>, methods |-> {"POST", "GET"}]
    BY <1>4, RouteRows
  <2>2. m \in {"POST", "GET"} /\ k = [method |-> m, path |-> <<"products">>]
    BY <1>2, <2>1
  <2>3. Shaped(k)
    <3>1. "products" \in Word
      BY DEF Word
    <3> QED
      BY <2>2, <3>1, ShapesMade
  <2> QED
    BY <2>2, <2>3, WiredOne
<1>5. CASE i = 3
  <2>1. Routes[i] = [path |-> <<"products", "semantic-search">>, methods |-> {"POST"}]
    BY <1>5, RouteRows
  <2>2. m \in {"POST"} /\ k = [method |-> m, path |-> <<"products", "semantic-search">>]
    BY <1>2, <2>1
  <2>3. Shaped(k)
    <3>1. "products" \in Word /\ "semantic-search" \in Word
      BY DEF Word
    <3> QED
      BY <2>2, <3>1, ShapesMade
  <2> QED
    BY <2>2, <2>3, WiredTwo
<1>6. CASE i = 4
  <2>1. Routes[i] = [path |-> <<"products", Placeholder>>, methods |-> {"GET", "PATCH"}]
    BY <1>6, RouteRows
  <2>2. m \in {"GET", "PATCH"} /\ k = [method |-> m, path |-> <<"products", Placeholder>>]
    BY <1>2, <2>1
  <2>3. Shaped(k)
    <3>1. "products" \in Word
      BY DEF Word
    <3> QED
      BY <2>2, <3>1, ShapesMade
  <2> QED
    BY <2>2, <2>3, WiredTwo
<1>7. CASE i = 5
  <2>1. Routes[i] = [path |-> <<"categories">>, methods |-> {"GET", "POST"}]
    BY <1>7, RouteRows
  <2>2. m \in {"GET", "POST"} /\ k = [method |-> m, path |-> <<"categories">>]
    BY <1>2, <2>1
  <2>3. Shaped(k)
    <3>1. "categories" \in Word
      BY DEF Word
    <3> QED
      BY <2>2, <3>1, ShapesMade
  <2> QED
    BY <2>2, <2>3, WiredOne
<1>8. CASE i = 6
  <2>1. Routes[i] = [path |-> <<"products", Placeholder, "movements">>, methods |-> {"POST", "GET"}]
    BY <1>8, RouteRows
  <2>2. m \in {"POST", "GET"} /\ k = [method |-> m, path |-> <<"products", Placeholder, "movements">>]
    BY <1>2, <2>1
  <2>3. Shaped(k)
    <3>1. "products" \in Word /\ "movements" \in Word
      BY DEF Word
    <3> QED
      BY <2>2, <3>1, ShapesMade
  <2> QED
    BY <2>2, <2>3, WiredThree
<1>9. CASE i = 7
  <2>1. Routes[i] = [path |-> <<"alerts">>, methods |-> {"GET"}]
    BY <1>9, RouteRows
  <2>2. m \in {"GET"} /\ k = [method |-> m, path |-> <<"alerts">>]
    BY <1>2, <2>1
  <2>3. Shaped(k)
    <3>1. "alerts" \in Word
      BY DEF Word
    <3> QED
      BY <2>2, <3>1, ShapesMade
  <2> QED
    BY <2>2, <2>3, WiredOne
<1>10. CASE i = 8
  <2>1. Routes[i] = [path |-> <<"alerts", Placeholder>>, methods |-> {"GET"}]
    BY <1>10, RouteRows
  <2>2. m \in {"GET"} /\ k = [method |-> m, path |-> <<"alerts", Placeholder>>]
    BY <1>2, <2>1
  <2>3. Shaped(k)
    <3>1. "alerts" \in Word
      BY DEF Word
    <3> QED
      BY <2>2, <3>1, ShapesMade
  <2> QED
    BY <2>2, <2>3, WiredTwo
<1>11. CASE i = 9
  <2>1. Routes[i] = [path |-> <<"orders">>, methods |-> {"POST", "GET"}]
    BY <1>11, RouteRows
  <2>2. m \in {"POST", "GET"} /\ k = [method |-> m, path |-> <<"orders">>]
    BY <1>2, <2>1
  <2>3. Shaped(k)
    <3>1. "orders" \in Word
      BY DEF Word
    <3> QED
      BY <2>2, <3>1, ShapesMade
  <2> QED
    BY <2>2, <2>3, WiredOne
<1>12. CASE i = 10
  <2>1. Routes[i] = [path |-> <<"orders", Placeholder>>, methods |-> {"GET"}]
    BY <1>12, RouteRows
  <2>2. m \in {"GET"} /\ k = [method |-> m, path |-> <<"orders", Placeholder>>]
    BY <1>2, <2>1
  <2>3. Shaped(k)
    <3>1. "orders" \in Word
      BY DEF Word
    <3> QED
      BY <2>2, <3>1, ShapesMade
  <2> QED
    BY <2>2, <2>3, WiredTwo
<1>13. CASE i = 11
  <2>1. Routes[i] = [path |-> <<"orders", Placeholder, "approve">>, methods |-> {"POST"}]
    BY <1>13, RouteRows
  <2>2. m \in {"POST"} /\ k = [method |-> m, path |-> <<"orders", Placeholder, "approve">>]
    BY <1>2, <2>1
  <2>3. Shaped(k)
    <3>1. "orders" \in Word /\ "approve" \in Word
      BY DEF Word
    <3> QED
      BY <2>2, <3>1, ShapesMade
  <2> QED
    BY <2>2, <2>3, WiredThree
<1>14. CASE i = 12
  <2>1. Routes[i] = [path |-> <<"orders", Placeholder, "reject">>, methods |-> {"POST"}]
    BY <1>14, RouteRows
  <2>2. m \in {"POST"} /\ k = [method |-> m, path |-> <<"orders", Placeholder, "reject">>]
    BY <1>2, <2>1
  <2>3. Shaped(k)
    <3>1. "orders" \in Word /\ "reject" \in Word
      BY DEF Word
    <3> QED
      BY <2>2, <3>1, ShapesMade
  <2> QED
    BY <2>2, <2>3, WiredThree
<1>15. CASE i = 13
  <2>1. Routes[i] = [path |-> <<"orders", Placeholder, "receive">>, methods |-> {"POST"}]
    BY <1>15, RouteRows
  <2>2. m \in {"POST"} /\ k = [method |-> m, path |-> <<"orders", Placeholder, "receive">>]
    BY <1>2, <2>1
  <2>3. Shaped(k)
    <3>1. "orders" \in Word /\ "receive" \in Word
      BY DEF Word
    <3> QED
      BY <2>2, <3>1, ShapesMade
  <2> QED
    BY <2>2, <2>3, WiredThree
<1>16. CASE i = 14
  <2>1. Routes[i] = [path |-> <<"health">>, methods |-> {"GET"}]
    BY <1>16, RouteRows
  <2>2. m \in {"GET"} /\ k = [method |-> m, path |-> <<"health">>]
    BY <1>2, <2>1
  <2>3. Shaped(k)
    <3>1. "health" \in Word
      BY DEF Word
    <3> QED
      BY <2>2, <3>1, ShapesMade
  <2> QED
    BY <2>2, <2>3 DEF Health
<1> QED
  BY <1>3, <1>4, <1>5, <1>6, <1>7, <1>8, <1>9, <1>10,
     <1>11, <1>12, <1>13, <1>14, <1>15, <1>16

\* No path has two keys of one method.
LEMMA OneKeyFits ==
    ASSUME NEW path \in Seq(Segment), NEW k \in Keys, NEW l \in Keys, k.method = l.method,
           Fits(k.path, path), Fits(l.path, path)
    PROVE  k = l
<1>1. Shaped(k) /\ Shaped(l)
  BY KeysKnown
<1>2. /\ Len(k.path) = Len(path) /\ \A i \in DOMAIN k.path : k.path[i] \in {Placeholder, path[i]}
      /\ Len(l.path) = Len(path) /\ \A i \in DOMAIN l.path : l.path[i] \in {Placeholder, path[i]}
  BY DEF Fits
<1>3. /\ k.path \in Seq(Word \cup {Placeholder}) /\ l.path \in Seq(Word \cup {Placeholder})
      /\ Len(path) \in {1, 2, 3}
  BY <1>1, <1>2 DEF Shaped
<1>4. /\ \A i \in 1..Len(path) : k.path[i] \in {Placeholder, path[i]}
      /\ \A i \in 1..Len(path) : l.path[i] \in {Placeholder, path[i]}
  BY <1>2, <1>3
<1>5. \A i \in 1..Len(path) : k.path[i] \in Word <=> l.path[i] \in Word
  <2>1. CASE Len(path) = 1
    <3>1. k.path[1] \in Word /\ l.path[1] \in Word
      BY <1>1, <1>2, <2>1 DEF Shaped
    <3> QED
      BY <2>1, <3>1
  <2>2. CASE Len(path) = 2
    <3>1. k.path[1] \in Word /\ l.path[1] \in Word
      BY <1>1, <1>2, <2>2 DEF Shaped
    <3>2. k.path[2] \in Word <=> k.method = "POST"
      BY <1>1, <1>2, <2>2, PlaceholderIsNoWord DEF Shaped
    <3>3. l.path[2] \in Word <=> l.method = "POST"
      BY <1>1, <1>2, <2>2, PlaceholderIsNoWord DEF Shaped
    <3> QED
      BY <2>2, <3>1, <3>2, <3>3
  <2>3. CASE Len(path) = 3
    <3>1. k.path[1] \in Word /\ k.path[2] = Placeholder /\ k.path[3] \in Word
      BY <1>1, <1>2, <2>3 DEF Shaped
    <3>2. l.path[1] \in Word /\ l.path[2] = Placeholder /\ l.path[3] \in Word
      BY <1>1, <1>2, <2>3 DEF Shaped
    <3> QED
      BY <2>3, <3>1, <3>2
  <2> QED
    BY <1>3, <2>1, <2>2, <2>3
<1>6. \A i \in 1..Len(path) : k.path[i] = l.path[i]
  <2> SUFFICES ASSUME NEW i \in 1..Len(path) PROVE k.path[i] = l.path[i]
    OBVIOUS
  <2>1. k.path[i] \in Word \cup {Placeholder} /\ l.path[i] \in Word \cup {Placeholder}
    BY <1>2, <1>3
  <2> QED
    BY <2>1, <1>4, <1>5, PlaceholderIsNoWord
<1>7. k.path = l.path
  BY <1>2, <1>3, <1>6
<1> QED
  BY <1>1, <1>7 DEF Shaped

\* Of the routes that fit there is a first.
LEMMA FirstOf ==
    ASSUME NEW fits \in SUBSET Nat, fits # {}
    PROVE  (CHOOSE i \in fits : \A j \in fits : i <= j) \in fits
<1>1. PICK i \in fits : \A j \in fits : ~(<<j, i>> \in OpToRel(<, Nat))
  BY NatLessThanWellFounded, WFMin
<1>2. \A j \in fits : ~(j < i)
  BY <1>1 DEF OpToRel
<1>3. \A j \in fits : i <= j
  BY <1>2
<1> QED
  BY <1>3

\* The route the server picks is the one API Gateway picks, and it is wired.
LEMMA RoutePicked ==
    ASSUME NEW method, NEW path \in Seq(Segment), MatchRoute(method, path) # NoCall
    PROVE  LET key == MatchRoute(method, path)
           IN  /\ key \in Keys /\ key.method = method /\ Fits(key.path, path)
               /\ Gateway(method, path) = {key}
<1> DEFINE fits == {i \in DOMAIN Routes : /\ loaded
                                          /\ method \in Routes[i].methods
                                          /\ PathToRegex(Routes[i].path, path)}
           first == CHOOSE i \in fits : \A j \in fits : i <= j
           key == MatchRoute(method, path)
<1>1. fits # {} /\ key = Key(method, Routes[first].path)
  BY DEF MatchRoute
<1>2. first \in fits
  <2>1. DOMAIN Routes \subseteq Nat
    BY DEF Routes
  <2> QED
    BY <1>1, <2>1, FirstOf
<1>3. first \in DOMAIN Routes /\ method \in Routes[first].methods /\ Fits(Routes[first].path, path)
  BY <1>2 DEF PathToRegex
<1> HIDE DEF fits, first
<1>4. key \in Keys
  BY <1>1, <1>3 DEF Keys
<1>5. key.method = method /\ key.path = Routes[first].path
  BY <1>1 DEF Key
<1> HIDE DEF key
<1>6. Fits(key.path, path)
  BY <1>3, <1>5
<1>7. Gateway(method, path) = {key}
  <2>1. \A l \in Keys : l.method = method /\ Fits(l.path, path) => l = key
    BY <1>4, <1>5, <1>6, OneKeyFits
  <2> QED
    BY <1>4, <1>5, <1>6, <2>1 DEF Gateway
<1> QED
  BY <1>4, <1>5, <1>6, <1>7 DEF key

\* The handler has what the server does not answer itself.
LEMMA PickedIsWired ==
    ASSUME NEW method, NEW path \in Seq(Segment), MatchRoute(method, path) # NoCall,
           Key(method, path) # Key("GET", <<"health">>)
    PROVE  MatchRoute(method, path) \in Wired
<1> DEFINE key == MatchRoute(method, path)
<1>1. key \in Keys /\ key.method = method /\ Fits(key.path, path)
  BY RoutePicked
<1> HIDE DEF key
<1>2. ASSUME key = Health PROVE FALSE
  <2>1. method = "GET" /\ key.path = <<"health">>
    BY <1>1, <1>2 DEF Health
  <2>2. "health" # Placeholder
    BY PlaceholderIsNoWord DEF Word
  <2>3. Len(path) = 1 /\ path[1] = "health"
    BY <1>1, <2>1, <2>2 DEF Fits
  <2>4. path = <<"health">>
    BY <2>3
  <2> QED
    BY <2>1, <2>4 DEF Key
<1> QED
  BY <1>1, <1>2, KeysKnown DEF key

-----------------------------------------------------------------------------
(* DevServer: the requests *)

\* What the server has not answered by itself: under /api/v1, and not the health check.
ForTheHandler(call) ==
    /\ call \in Calls /\ call.path \in Seq(Segment)
    /\ Key(call.method, call.path) # Key("GET", <<"health">>)

\* A request on its way, with the key it was given.
RequestInv(r) ==
    /\ r \in [at : {"none", "reading", "handling", "answered"}, call : Calls \cup {NoCall},
              key : Keys \cup {NoCall}, status : Nat]
    /\ r.at \in {"reading", "handling"} => ForTheHandler(r.call)
    /\ r.at = "handling" => /\ r.key \in Wired
                            /\ Gateway(r.call.method, r.call.path) = {r.key}

\* Exit code 0 was given when every connection was closed.
DevInv ==
    /\ process \in {"loading", "serving", "draining", "ended"}
    /\ exit \in {NoCall, "0", "1", "signal"} /\ loaded \in BOOLEAN
    /\ socket \in [Client -> {"open", "closed"}]
    /\ DOMAIN request = Client /\ \A c \in Client : RequestInv(request[c])
    /\ exit = "0" => process = "ended" /\ \A c \in Client : socket[c] = "closed"

LEMMA AnsweredInv == ASSUME NEW s \in Nat PROVE RequestInv(Answered(s))
  BY DEF RequestInv, Answered, NoRequest

LEMMA NoRequestInv == RequestInv(NoRequest)
  BY DEF RequestInv, NoRequest

LEMMA ArrivedInv ==
    ASSUME NEW call, ForTheHandler(call) PROVE RequestInv(Arrived(call))
  BY DEF RequestInv, Arrived, NoRequest, ForTheHandler

LEMMA StartedInv == ASSUME NEW call \in Calls PROVE RequestInv(StartRequest(call))
<1>1. CASE call.method = "OPTIONS"
  <2>1. StartRequest(call) = Answered(204)
    BY <1>1 DEF StartRequest, Methods
  <2> QED
    BY <2>1, AnsweredInv
<1>2. CASE call.method # "OPTIONS" /\ call.path = Outside
  <2>1. StartRequest(call) = Answered(404)
    BY <1>2, DevServerAssumption DEF StartRequest
  <2> QED
    BY <2>1, AnsweredInv
<1>3. CASE call.method = "GET" /\ call.path = <<"health">> /\ call.path # Outside
  <2>1. StartRequest(call) = Answered(200)
    BY <1>3 DEF StartRequest, Methods, Key
  <2> QED
    BY <2>1, AnsweredInv
<1>4. CASE call.method \notin Methods /\ call.path # Outside
  <2>1. StartRequest(call) = Answered(405)
    BY <1>4 DEF StartRequest, Methods
  <2> QED
    BY <2>1, AnsweredInv
<1>5. CASE /\ call.method \in Methods \ {"OPTIONS"} /\ call.path # Outside
           /\ ~(call.method = "GET" /\ call.path = <<"health">>)
  <2>1. Key(call.method, call.path) # Key("GET", <<"health">>)
    BY <1>5 DEF Key
  <2>2. StartRequest(call) = IF call.body = "large" THEN Answered(413) ELSE Arrived(call)
    BY <1>5, <2>1 DEF StartRequest
  <2>3. call.path \in Seq(Segment)
    BY <1>5, DevServerAssumption DEF Call
  <2> QED
    BY <2>1, <2>2, <2>3, AnsweredInv, ArrivedInv DEF ForTheHandler
<1> QED
  BY <1>1, <1>2, <1>3, <1>4, <1>5

\* A request moves on; the process and the connections stay.
LEMMA RequestMoves ==
    ASSUME DevInv, NEW c \in Client, NEW r, RequestInv(r), request' = [request EXCEPT ![c] = r],
           UNCHANGED <<process, exit, loaded, socket>>
    PROVE  DevInv'
  BY DEF DevInv

LEMMA BodyRead == ASSUME DevInv, NEW c \in Client, ReadBody(c) PROVE DevInv'
<1> DEFINE call == request[c].call
           key == MatchRoute(call.method, call.path)
<1>1. /\ RequestInv(request[c]) /\ request[c].at = "reading"
      /\ UNCHANGED <<process, exit, loaded, socket>>
  BY DEF DevInv, ReadBody
<1>2. ForTheHandler(call)
  BY <1>1 DEF RequestInv
<1>3. request' = [request EXCEPT ![c] =
          CASE call.body = "chunked" -> Answered(413)
            [] call.body # "chunked" /\ key = NoCall -> Answered(404)
            [] call.body # "chunked" /\ key # NoCall ->
                  [request[c] EXCEPT !.at = "handling", !.key = key]]
  BY DEF ReadBody
<1>4. CASE call.body = "chunked"
  <2> DEFINE r == Answered(413)
  <2>1. request' = [request EXCEPT ![c] = r]
    BY <1>3, <1>4
  <2>2. RequestInv(r)
    BY AnsweredInv
  <2> HIDE DEF r
  <2> QED
    BY <1>1, <2>1, <2>2, RequestMoves
<1>5. CASE call.body # "chunked" /\ key = NoCall
  <2> DEFINE r == Answered(404)
  <2>1. request' = [request EXCEPT ![c] = r]
    BY <1>3, <1>5
  <2>2. RequestInv(r)
    BY AnsweredInv
  <2> HIDE DEF r
  <2> QED
    BY <1>1, <2>1, <2>2, RequestMoves
<1>6. CASE call.body # "chunked" /\ key # NoCall
  <2> DEFINE r == [request[c] EXCEPT !.at = "handling", !.key = key]
  <2>1. request' = [request EXCEPT ![c] = r]
    BY <1>3, <1>6
  <2>2. /\ key \in Keys /\ key \in Wired /\ Gateway(call.method, call.path) = {key}
    BY <1>2, <1>6, RoutePicked, PickedIsWired DEF ForTheHandler
  <2> HIDE DEF key
  <2>3. r.at = "handling" /\ r.key = key /\ r.call = call
    BY <1>1 DEF RequestInv
  <2>4. r \in [at : {"none", "reading", "handling", "answered"}, call : Calls \cup {NoCall},
               key : Keys \cup {NoCall}, status : Nat]
    BY <1>1, <2>2 DEF RequestInv
  <2> HIDE DEF r
  <2>5. RequestInv(r)
    BY <1>2, <2>2, <2>3, <2>4 DEF RequestInv
  <2> QED
    BY <1>1, <2>1, <2>5, RequestMoves
<1> QED
  BY <1>4, <1>5, <1>6

LEMMA RequestSteps ==
    ASSUME DevInv, NEW c \in Client,
           \/ RequestComes(c) \/ TargetUnparsable(c) \/ HandlerEnds(c)
           \/ ClientLeaves(c) \/ IdleTimeout(c)
    PROVE  DevInv'
<1>0. \A d \in Client : RequestInv(request[d])
  BY DEF DevInv
<1>1. CASE RequestComes(c)
  <2>1. PICK call \in Calls : request' = [request EXCEPT ![c] = StartRequest(call)]
    BY <1>1 DEF RequestComes
  <2>2. RequestInv(StartRequest(call))
    BY StartedInv
  <2>3. process # "ended" /\ socket' = [socket EXCEPT ![c] = "open"] /\ UNCHANGED <<process, exit, loaded>>
    BY <1>1 DEF RequestComes, MaySend
  <2> QED
    BY <2>1, <2>2, <2>3 DEF DevInv
<1>2. CASE HandlerEnds(c)
  <2>1. PICK status \in {200, 404, 500} : request' = [request EXCEPT ![c] = Answered(status)]
    BY <1>2 DEF HandlerEnds
  <2> DEFINE r == Answered(status)
  <2>2. UNCHANGED <<process, exit, loaded, socket>>
    BY <1>2 DEF HandlerEnds
  <2>3. request' = [request EXCEPT ![c] = r]
    BY <2>1
  <2>4. RequestInv(r)
    BY AnsweredInv
  <2> HIDE DEF r
  <2> QED
    BY <2>2, <2>3, <2>4, RequestMoves
<1>3. CASE ClientLeaves(c)
  <2>1. /\ process # "ended" /\ socket' = [socket EXCEPT ![c] = "closed"] /\ loaded' = loaded
        /\ \/ process' = "ended" /\ exit' = "1"
           \/ UNCHANGED <<process, exit>>
    BY <1>3 DEF ClientLeaves, Runs, Ends
  <2>2. CASE request' = request
    BY <1>0, <2>1, <2>2 DEF DevInv
  <2>3. CASE request' = [request EXCEPT ![c] = IF Busy(c) THEN @ ELSE NoRequest]
    <3> DEFINE r == IF Busy(c) THEN request[c] ELSE NoRequest
    <3>1. RequestInv(r)
      BY <1>0, NoRequestInv
    <3>2. request' = [request EXCEPT ![c] = r]
      BY <2>3
    <3> HIDE DEF r
    <3>3. DOMAIN request' = Client /\ \A d \in Client : RequestInv(request'[d])
      BY <1>0, <3>1, <3>2 DEF DevInv
    <3> QED
      BY <2>1, <3>3 DEF DevInv
  <2> QED
    BY <1>3, <2>2, <2>3 DEF ClientLeaves
<1>4. CASE IdleTimeout(c)
  BY <1>4 DEF IdleTimeout, Runs, DevInv
<1>5. CASE TargetUnparsable(c)
  BY <1>5 DEF TargetUnparsable, MaySend, Ends, DevInv
<1> QED
  BY <1>1, <1>2, <1>3, <1>4, <1>5

LEMMA ProcessSteps ==
    ASSUME DevInv, Boot \/ Signal \/ Close \/ HardCap \/ StartAgain PROVE DevInv'
<1>1. CASE Boot
  BY <1>1 DEF Boot, Ends, DevInv
<1>2. CASE Signal
  BY <1>2 DEF Signal, Ends, DevInv
<1>3. CASE Close
  BY <1>3 DEF Close, Drained, Ends, DevInv
<1>4. CASE HardCap
  BY <1>4 DEF HardCap, Ends, DevInv
<1>5. CASE StartAgain
  BY <1>5, NoRequestInv, DevServerAssumption DEF StartAgain, DevInv
<1> QED
  BY <1>1, <1>2, <1>3, <1>4, <1>5

LEMMA DevInvInit == DevInit => DevInv
  BY NoRequestInv, DevServerAssumption DEF DevInit, DevInv

LEMMA DevInvStep == DevInv /\ [DevNext]_devVars => DevInv'
<1> SUFFICES ASSUME DevInv, [DevNext]_devVars PROVE DevInv'
  OBVIOUS
<1>1. CASE Boot \/ Signal \/ Close \/ HardCap \/ StartAgain
  BY <1>1, ProcessSteps
<1>2. ASSUME NEW c \in Client, ReadBody(c) PROVE DevInv'
  BY <1>2, BodyRead
<1>3. ASSUME NEW c \in Client,
             \/ RequestComes(c) \/ TargetUnparsable(c) \/ HandlerEnds(c)
             \/ ClientLeaves(c) \/ IdleTimeout(c)
      PROVE  DevInv'
  BY <1>3, RequestSteps
<1>4. CASE UNCHANGED devVars
  BY <1>4 DEF devVars, DevInv
<1> QED
  BY <1>1, <1>2, <1>3, <1>4 DEF DevNext

LEMMA DevInvariant == DevSpec => []DevInv
  BY DevInvInit, DevInvStep, PTL DEF DevSpec

\* The server's state keeps its types, for any number of clients and any calls.
THEOREM ServerTyped == DevSpec => []DevTypeOK
<1>1. DevInv => DevTypeOK
  BY DEF DevInv, RequestInv, DevTypeOK
<1> QED
  BY <1>1, DevInvariant, PTL

\* Whatever is requested: the route picked in the order of the table is the one
\* API Gateway picks, and the Lambda has a handler for it (dev-server.ts:249).
THEOREM RoutesLikeTheGateway == DevSpec => []RoutedLikeTheGateway
<1>1. DevInv => RoutedLikeTheGateway
  BY DEF DevInv, RequestInv, RoutedLikeTheGateway
<1> QED
  BY <1>1, DevInvariant, PTL

\* A server that ends with 0 has dropped no client that stayed, however many
\* requests came while it drained (dev-server.ts:652).
THEOREM CleanExitsAnswer == DevSpec => []CleanExitAnsweredAll
<1>1. DevInv => CleanExitAnsweredAll
  BY DEF DevInv, CleanExitAnsweredAll
<1> QED
  BY <1>1, DevInvariant, PTL

-----------------------------------------------------------------------------
(* Provisioning *)

\* A run's place and the journal entry it read.
Places == {"idle", "preflight", "compose", "health", "migrate", "journal", "apply", "seed",
           "retry", "exit0", "exit1"}

RunType == [Installer -> [at : Places, last : 0..3]]

Types ==
    /\ schema \in Schema /\ admin \in BOOLEAN /\ cut \in BOOLEAN
    /\ run \in RunType
    /\ embedding \in [Product -> Nat] /\ copied \in [Product -> Nat]
    /\ latest \in [Product -> Nat] /\ missed \subseteq Product

\* Without tables there is nothing to store in, and nothing to swap.
NoTables ==
    ~schema.tables => /\ schema.column = "none"
                      /\ swap \notin {"add", "copy", "drop", "rename", "index"}
                      /\ embedding = latest

\* What an invocation knows of the column at each statement.
SwapKnows ==
    /\ swap \in {"add", "copy", "drop"} => schema.column = "plain"
    /\ swap = "rename" => schema.column = "none"
    /\ swap \in {"drop", "rename"} => \A p \in Product : p \in missed \/ copied[p] = latest[p]

PInv == Types /\ NoTables /\ SwapKnows /\ EmbeddingSurvivesTheSwap /\ ReadyUnlessCut

-----------------------------------------------------------------------------
\* A migration takes nothing away.
LEMMA AppliedKeeps ==
    ASSUME NEW s \in Schema, NEW tag \in Migrations, NEW last \in 0..3,
           NEW t \in Applied(s, tag, last)
    PROVE  /\ t \in Schema
           /\ s.column # "none" => t.column = s.column
           /\ s.tables => t.tables
           /\ s.description => t.description
           /\ s.column = "none" /\ tag # "embedding" => t.column = "none"
<1>1. CASE ~Due(tag, last)
  BY <1>1 DEF Applied
<1>2. CASE Due(tag, last) /\ tag = "initial"
  BY <1>2 DEF Applied, InitialTables, Schema, Migrations
<1>3. CASE Due(tag, last) /\ tag = "embedding"
  BY <1>3 DEF Applied, EmbeddingColumn, Schema, Migrations, Possible
<1>4. CASE Due(tag, last) /\ tag = "description"
  <2>1. t = [s EXCEPT !.description = TRUE, !.journal = @ \cup {"description"}]
    BY <1>4 DEF Applied, DescriptionColumn
  <2>2. s \in [tables : BOOLEAN, column : {"none", "plain", "vector"}, temp : BOOLEAN,
               description : BOOLEAN, journal : SUBSET Migrations, extension : BOOLEAN]
    BY DEF Schema
  <2>3. t.column = s.column /\ t.tables = s.tables /\ t.description = TRUE
    BY <2>1, <2>2
  <2>4. t \in Schema
    BY <2>1, <2>2 DEF Schema, Migrations
  <2> QED
    BY <2>3, <2>4
<1>5. QED
  BY <1>1, <1>2, <1>3, <1>4 DEF Migrations

\* The column is added to new tables only.
LEMMA MigrationKeeps ==
    ASSUME NEW i \in Installer, Types, ApplyMigrations(i)
    PROVE  /\ schema' \in Schema
           /\ schema.column # "none" => schema'.column = schema.column
           /\ schema.tables => schema'.tables
           /\ schema.description => schema'.description
           /\ schema.tables /\ schema.column = "none" => schema'.column = "none"
           /\ ~schema'.tables => schema' = schema
<1> DEFINE last == run[i].last
<1>1. last \in 0..3 /\ schema \in Schema
  BY DEF Types, RunType
<1>2. PICK s \in Applied(schema, "initial", last) :
        \E t \in Applied(s, "embedding", last) : schema' \in Applied(t, "description", last)
  BY DEF ApplyMigrations
<1>3. PICK t \in Applied(s, "embedding", last) : schema' \in Applied(t, "description", last)
  BY <1>2
<1> HIDE DEF last
<1>4. /\ s \in Schema
      /\ schema.column # "none" => s.column = schema.column
      /\ schema.tables => s.tables
      /\ schema.description => s.description
      /\ schema.column = "none" => s.column = "none"
  BY <1>1, AppliedKeeps DEF Migrations
<1>5. /\ t \in Schema
      /\ s.column # "none" => t.column = s.column
      /\ s.tables => t.tables
      /\ s.description => t.description
  BY <1>1, <1>4, AppliedKeeps DEF Migrations
<1>6. /\ schema' \in Schema
      /\ t.column # "none" => schema'.column = t.column
      /\ t.tables => schema'.tables
      /\ t.description => schema'.description
      /\ t.column = "none" => schema'.column = "none"
  BY <1>1, <1>3, <1>5, AppliedKeeps DEF Migrations
<1>7. CASE last = 3
  <2>1. /\ ~Due("initial", last)
        /\ ~Due("embedding", last)
        /\ ~Due("description", last)
    BY <1>7 DEF Due, When
  <2>2. schema' = schema
    BY <1>2, <1>3, <2>1 DEF Applied
  <2> QED
    BY <1>1, <2>2
<1>8. CASE last # 3
  <2>1. Due("initial", last)
    BY <1>1, <1>8 DEF Due, When
  <2>2. ~schema.tables
    BY <1>2, <2>1 DEF Applied, Possible
  <2>3. s = InitialTables(schema)
    BY <1>2, <2>1 DEF Applied
  <2>4. s.tables
    BY <1>1, <2>3 DEF InitialTables, Schema
  <2> QED
    BY <1>4, <1>5, <1>6, <2>2, <2>4
<1> QED
  BY <1>7, <1>8

\* The latest date in the journal is the rank of a migration, or none.
LEMMA LatestEntry ==
    ASSUME NEW J \in SUBSET Migrations
    PROVE  Max({When[t] : t \in J} \cup {0}) \in 0..3
<1> DEFINE D == {When[t] : t \in J} \cup {0}
<1>1. D \subseteq 0..3 /\ 0 \in D
  BY DEF Migrations, When
<1> HIDE DEF D
<1>2. \E x \in D : \A y \in D : x >= y
  <2>1. CASE 3 \in D
    BY <1>1, <2>1
  <2>2. CASE 3 \notin D /\ 2 \in D
    BY <1>1, <2>2
  <2>3. CASE 3 \notin D /\ 2 \notin D /\ 1 \in D
    BY <1>1, <2>3
  <2>4. CASE 3 \notin D /\ 2 \notin D /\ 1 \notin D
    BY <1>1, <2>4
  <2> QED
    BY <2>1, <2>2, <2>3, <2>4
<1>3. Max(D) \in D
  BY <1>2 DEF Max
<1> QED
  BY <1>1, <1>3 DEF D

-----------------------------------------------------------------------------
LEMMA PInvInit == ProvisioningInit => PInv
<1> SUFFICES ASSUME ProvisioningInit PROVE PInv
  OBVIOUS
<1>1. Types
  <2>1. schema \in Schema
    BY ProvisioningAssumption DEF ProvisioningInit
  <2>2. run \in RunType
    BY DEF ProvisioningInit, RunType, Places, NotRunning
  <2>3. admin \in BOOLEAN /\ cut \in BOOLEAN /\ missed \subseteq Product
    BY DEF ProvisioningInit
  <2>4. None \in [Product -> Nat]
    BY DEF None
  <2> QED
    BY <2>1, <2>2, <2>3, <2>4 DEF ProvisioningInit, Types
<1>2. NoTables /\ SwapKnows
  BY ProvisioningAssumption DEF ProvisioningInit, NoTables, SwapKnows, None
<1>3. EmbeddingSurvivesTheSwap /\ ReadyUnlessCut
  BY DEF ProvisioningInit, EmbeddingSurvivesTheSwap, ReadyUnlessCut, NotRunning
<1> QED
  BY <1>1, <1>2, <1>3 DEF PInv

\* A run that only moves on, and does not end with 0, disturbs nothing.
LEMMA MovingKeeps ==
    ASSUME PInv, NEW i \in Installer, run' \in RunType, run'[i].at # "exit0",
           \A j \in Installer \ {i} : run'[j] = run[j],
           UNCHANGED <<schema, admin, swapping>>
    PROVE  PInv'
<1>1. Types' /\ NoTables' /\ SwapKnows' /\ EmbeddingSurvivesTheSwap'
  BY DEF PInv, Types, NoTables, SwapKnows, EmbeddingSurvivesTheSwap, swapping
<1>2. (\E j \in Installer : run'[j].at = "exit0") => \E j \in Installer : run[j].at = "exit0"
  OBVIOUS
<1>3. ReadyUnlessCut'
  BY <1>2 DEF PInv, ReadyUnlessCut, swapping
<1> QED
  BY <1>1, <1>3 DEF PInv

\* A step of the custom resource touches no run and no migration.
LEMMA RunsKept ==
    ASSUME PInv, UNCHANGED run
    PROVE  /\ run' \in RunType
           /\ (\E i \in Installer : run'[i].at = "exit0")
                => /\ admin /\ schema.description
                   /\ schema.column # "none" \/ swap = "rename" \/ cut
  BY DEF PInv, Types, ReadyUnlessCut

LEMMA PInvStep == PInv /\ [ProvisioningNext]_provisioningVars => PInv'
<1> SUFFICES ASSUME PInv, [ProvisioningNext]_provisioningVars PROVE PInv'
  OBVIOUS
<1> USE DEF PInv
<1>1. ASSUME NEW i \in Installer, InstallerSteps(i) PROVE PInv'
  <2> DEFINE Keeps == /\ run' \in RunType /\ run'[i].at # "exit0"
                      /\ \A j \in Installer \ {i} : run'[j] = run[j]
                      /\ UNCHANGED <<schema, admin, swapping>>
  <2>0. run \in RunType
    BY DEF Types
  <2>1. CASE RunBegins(i)
    <3>1. Keeps
      BY <2>0, <2>1 DEF RunBegins, Moves, RunType, Places
    <3> QED
      BY <3>1, MovingKeeps
  <2>2. CASE Preflight(i)
    <3>1. Keeps
      BY <2>0, <2>2 DEF Preflight, Moves, Exits, NotRunning, RunType, Places
    <3> QED
      BY <3>1, MovingKeeps
  <2>3. CASE ComposeUp(i)
    <3>1. Keeps
      BY <2>0, <2>3 DEF ComposeUp, Moves, Exits, NotRunning, RunType, Places
    <3> QED
      BY <3>1, MovingKeeps
  <2>4. CASE WaitForHealthy(i)
    <3>1. Keeps
      BY <2>0, <2>4 DEF WaitForHealthy, Moves, Exits, NotRunning, RunType, Places
    <3> QED
      BY <3>1, MovingKeeps
  <2>5. CASE MigrateStarts(i)
    <3>1. Keeps
      BY <2>0, <2>5 DEF MigrateStarts, Moves, Exits, NotRunning, RunType, Places
    <3> QED
      BY <3>1, MovingKeeps
  <2>6. CASE ReadJournal(i)
    <3>1. schema.journal \in SUBSET Migrations
      BY DEF Types, Schema
    <3>2. Max({When[t] : t \in schema.journal} \cup {0}) \in 0..3
      BY <3>1, LatestEntry
    <3> DEFINE last == Max({When[t] : t \in schema.journal} \cup {0})
    <3>3. run' = [run EXCEPT ![i] = [at |-> "apply", last |-> last]]
      BY <2>6 DEF ReadJournal
    <3> HIDE DEF last
    <3>4. last \in 0..3
      BY <3>2 DEF last
    <3>5. Keeps
      BY <2>0, <2>6, <3>3, <3>4 DEF ReadJournal, RunType, Places
    <3> QED
      BY <3>5, MovingKeeps
  <2>7. CASE ApplyMigrations(i)
    <3>1. /\ schema' \in Schema
          /\ schema.column # "none" => schema'.column = schema.column
          /\ schema.tables => schema'.tables
          /\ schema.description => schema'.description
          /\ schema.tables /\ schema.column = "none" => schema'.column = "none"
          /\ ~schema'.tables => schema' = schema
      BY <2>7, MigrationKeeps
    <3>2. run' \in RunType /\ UNCHANGED <<admin, swapping>>
      BY <2>0, <2>7 DEF ApplyMigrations, Moves, RunType, Places
    <3>3. Types'
      BY <3>1, <3>2 DEF Types, swapping
    <3>4. NoTables' /\ SwapKnows'
      BY <3>1, <3>2 DEF NoTables, SwapKnows, swapping
    <3>5. EmbeddingSurvivesTheSwap'
      BY <3>1, <3>2 DEF EmbeddingSurvivesTheSwap, NoTables, swapping, Types
    <3>6. (\E j \in Installer : run'[j].at = "exit0") => \E j \in Installer : run[j].at = "exit0"
      BY <2>0, <2>7 DEF ApplyMigrations, Moves, RunType, Places
    <3>7. ReadyUnlessCut'
      BY <3>1, <3>2, <3>6 DEF ReadyUnlessCut, swapping
    <3> QED
      BY <3>3, <3>4, <3>5, <3>7
  <2>8. CASE MigrateFails(i)
    <3>1. Keeps
      BY <2>0, <2>8 DEF MigrateFails, Exits, NotRunning, RunType, Places
    <3> QED
      BY <3>1, MovingKeeps
  <2>9. CASE Seed(i)
    <3>1. run' \in RunType
      BY <2>0, <2>9 DEF Seed, Exits, NotRunning, RunType, Places
    <3>2. Types' /\ NoTables' /\ SwapKnows' /\ EmbeddingSurvivesTheSwap'
      BY <2>9, <3>1 DEF Seed, Types, NoTables, SwapKnows, EmbeddingSurvivesTheSwap, swapping
    <3>3. ReadyUnlessCut'
      BY <2>9 DEF Seed, SeedFits, EveryColumn, ReadyUnlessCut
    <3> QED
      BY <3>2, <3>3
  <2>10. CASE SeedFails(i)
    <3>1. Keeps
      BY <2>0, <2>10 DEF SeedFails, Moves, Exits, NotRunning, RunType, Places
    <3> QED
      BY <3>1, MovingKeeps
  <2>11. CASE Cancelled(i)
    <3>1. Keeps
      BY <2>0, <2>11 DEF Cancelled, Exits, NotRunning, RunType, Places
    <3> QED
      BY <3>1, MovingKeeps
  <2> QED
    BY <1>1, <2>1, <2>2, <2>3, <2>4, <2>5, <2>6, <2>7, <2>8, <2>9, <2>10, <2>11 DEF InstallerSteps
<1>2. CASE ServerBoots
  <2>1. /\ schema' \in Schema /\ schema'.tables = schema.tables
        /\ schema'.column = schema.column /\ schema'.description = schema.description
    BY <1>2 DEF ServerBoots, Types, Schema, Blank
  <2>2. Types' /\ NoTables' /\ SwapKnows' /\ EmbeddingSurvivesTheSwap' /\ ReadyUnlessCut'
    BY <1>2, <2>1 DEF ServerBoots, Types, NoTables, SwapKnows, EmbeddingSurvivesTheSwap,
                      ReadyUnlessCut, swapping
  <2> QED
    BY <2>2
<1>3. CASE ServerStops
  BY <1>3 DEF ServerStops, Types, NoTables, SwapKnows, EmbeddingSurvivesTheSwap,
              ReadyUnlessCut, swapping
<1>4. CASE SwapSteps
  <2>1. CASE Deploys \/ EnableExtension \/ EnsureIndex
    BY <2>1, RunsKept DEF Deploys, EnableExtension, EnsureIndex, AnswersCloudFormation, Types,
            NoTables, SwapKnows, EmbeddingSurvivesTheSwap, ReadyUnlessCut
  <2>2. CASE CheckColumn
    <3>1. /\ swap' = "add" => schema.column = "plain"
          /\ swap' = "index" => schema.column = "vector"
          /\ swap' \in {"idle", "add", "index"}
          /\ swap = "check"
      BY <2>2 DEF CheckColumn, AnswersCloudFormation, Types, Schema
    <3>2. UNCHANGED <<schema, admin, run, embedding, copied, latest, missed, cut>>
      BY <2>2 DEF CheckColumn
    <3> QED
      BY <3>1, <3>2 DEF Types, NoTables, SwapKnows, EmbeddingSurvivesTheSwap, ReadyUnlessCut
  <2>3. CASE AddTemp
    <3>1. /\ schema' \in Schema /\ schema'.tables = schema.tables
          /\ schema'.column = schema.column /\ schema'.description = schema.description
      BY <2>3 DEF AddTemp, Types, Schema
    <3>2. /\ swap = "add" /\ swap' = "copy"
          /\ UNCHANGED <<admin, run, embedding, copied, latest, missed, cut>>
      BY <2>3 DEF AddTemp
    <3> QED
      BY <3>1, <3>2 DEF Types, NoTables, SwapKnows, EmbeddingSurvivesTheSwap, ReadyUnlessCut
  <2>4. CASE CopyToTemp
    <3>1. /\ swap = "copy" /\ swap' = "drop" /\ copied' = embedding
          /\ UNCHANGED <<schema, admin, run, embedding, latest, missed, cut>>
      BY <2>4 DEF CopyToTemp, CopyOf
    <3> QED
      BY <3>1 DEF Types, NoTables, SwapKnows, EmbeddingSurvivesTheSwap, ReadyUnlessCut
  <2>5. CASE DropColumn
    <3>1. /\ schema' \in Schema /\ schema'.tables = schema.tables
          /\ schema'.column = "none" /\ schema'.description = schema.description
      BY <2>5 DEF DropColumn, Types, Schema
    <3>2. /\ swap = "drop" /\ swap' = "rename" /\ embedding' = None
          /\ UNCHANGED <<admin, run, copied, latest, missed, cut>>
      BY <2>5 DEF DropColumn
    <3>3. Types' /\ NoTables' /\ SwapKnows'
      BY <3>1, <3>2 DEF Types, NoTables, SwapKnows, None
    <3>4. EmbeddingSurvivesTheSwap' /\ ReadyUnlessCut'
      BY <3>1, <3>2, RunsKept DEF EmbeddingSurvivesTheSwap, ReadyUnlessCut
    <3> QED
      BY <3>3, <3>4
  <2>6. CASE RenameTemp
    <3>1. /\ schema' \in Schema /\ schema'.tables = schema.tables
          /\ schema'.column = "vector" /\ schema'.description = schema.description
      BY <2>6 DEF RenameTemp, Types, Schema
    <3>2. /\ swap = "rename" /\ swap' = "index" /\ embedding' = copied /\ copied' = None
          /\ UNCHANGED <<admin, run, latest, missed, cut>>
      BY <2>6 DEF RenameTemp
    <3>3. Types' /\ NoTables' /\ SwapKnows'
      BY <3>1, <3>2 DEF Types, NoTables, SwapKnows, None
    <3>4. EmbeddingSurvivesTheSwap' /\ ReadyUnlessCut'
      BY <3>1, <3>2, RunsKept DEF EmbeddingSurvivesTheSwap, ReadyUnlessCut, SwapKnows
    <3> QED
      BY <3>3, <3>4
  <2>7. CASE SwapEnds
    BY <2>7, RunsKept DEF SwapEnds, AnswersCloudFormation, Types, NoTables, SwapKnows,
                EmbeddingSurvivesTheSwap, ReadyUnlessCut
  <2> QED
    BY <1>4, <2>1, <2>2, <2>3, <2>4, <2>5, <2>6, <2>7 DEF SwapSteps
<1>5. ASSUME NEW p \in Product, StoreEmbedding(p) PROVE PInv'
  <2>1. /\ schema.column # "none" /\ schema.tables
        /\ UNCHANGED <<schema, admin, run, swap, copied, cut>>
        /\ embedding' = [embedding EXCEPT ![p] = latest[p] + 1]
        /\ latest' = [latest EXCEPT ![p] = latest[p] + 1]
        /\ missed' = IF swap = "drop" THEN missed \cup {p} ELSE missed \ {p}
    BY <1>5 DEF StoreEmbedding, NoTables
  <2>2. Types' /\ NoTables'
    BY <2>1 DEF Types, NoTables
  <2>3. SwapKnows'
    BY <2>1 DEF SwapKnows, Types
  <2>4. EmbeddingSurvivesTheSwap'
    BY <2>1 DEF EmbeddingSurvivesTheSwap, Types
  <2>5. ReadyUnlessCut'
    BY <2>1 DEF ReadyUnlessCut
  <2> QED
    BY <2>2, <2>3, <2>4, <2>5
<1>6. CASE UNCHANGED provisioningVars
  BY <1>6 DEF provisioningVars, Types, NoTables, SwapKnows, EmbeddingSurvivesTheSwap, ReadyUnlessCut
<1> QED
  BY <1>1, <1>2, <1>3, <1>4, <1>5, <1>6 DEF ProvisioningNext

-----------------------------------------------------------------------------
\* Whatever installers and invocations of the custom resource do, and wherever
\* they end, no embedding is lost but those stored between copy and DROP.
THEOREM SwapKeepsEmbeddings == ProvisioningSpec => []EmbeddingSurvivesTheSwap
<1>1. PInv => EmbeddingSurvivesTheSwap
  BY DEF PInv
<1> QED
  BY <1>1, PInvInit, PInvStep, PTL DEF ProvisioningSpec

\* A run that ended with 0 told the truth, and goes on to, until an invocation
\* of the custom resource is between DROP and RENAME.
THEOREM ToldReadyIsReady == ProvisioningSpec => []ReadyUnlessCut
<1>1. PInv => ReadyUnlessCut
  BY DEF PInv
<1> QED
  BY <1>1, PInvInit, PInvStep, PTL DEF ProvisioningSpec

\* The server, the schema and the columns keep their types.
THEOREM ProvisioningTyped == ProvisioningSpec => []ProvisioningTypeOK
<1> DEFINE Sides == place \in {"local", "stage"} /\ server \in {"off", "starting", "up"}
<1>1. ProvisioningInit => Sides
  BY DEF ProvisioningInit
<1>2. Sides /\ [ProvisioningNext]_provisioningVars => Sides'
  <2> SUFFICES ASSUME Sides, [ProvisioningNext]_provisioningVars PROVE Sides'
    OBVIOUS
  <2>1. ASSUME NEW i \in Installer, InstallerSteps(i) PROVE Sides'
    BY <2>1
       DEF InstallerSteps, RunBegins, Preflight, ComposeUp, WaitForHealthy, MigrateStarts,
           ReadJournal, ApplyMigrations, MigrateFails, Seed, SeedFails, Cancelled
  <2>2. CASE ServerBoots \/ ServerStops
    BY <2>2 DEF ServerBoots, ServerStops
  <2>3. CASE SwapSteps
    BY <2>3
       DEF SwapSteps, Deploys, EnableExtension, CheckColumn, AddTemp, CopyToTemp, DropColumn,
           RenameTemp, EnsureIndex, SwapEnds
  <2>4. ASSUME NEW p \in Product, StoreEmbedding(p) PROVE Sides'
    BY <2>4 DEF StoreEmbedding
  <2>5. CASE UNCHANGED provisioningVars
    BY <2>5 DEF provisioningVars
  <2> QED
    BY <2>1, <2>2, <2>3, <2>4, <2>5 DEF ProvisioningNext
<1>3. PInv /\ Sides => ProvisioningTypeOK
  BY DEF PInv, Types, ProvisioningTypeOK
<1> QED
  BY <1>1, <1>2, <1>3, PInvInit, PInvStep, PTL DEF ProvisioningSpec

=============================================================================
