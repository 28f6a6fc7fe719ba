------------------------------ MODULE DevServer ------------------------------
(***************************************************************************)
(* scripts/dev-server.ts: the local HTTP server that stands for API Gateway *)
(* and Lambda.  It loads the table of routes, answers some requests itself, *)
(* reads the bodies of the others, picks their route, hands the event to    *)
(* the consolidated handler and writes its answer; a signal drains it.  All *)
(* requests share one process, and each has a connection of its own.        *)
(***************************************************************************)
EXTENDS Naturals, Sequences

CONSTANTS
    Client,         \* clients, each with one connection
    Segment,        \* parts of a path after /api/v1, the "{id}" of a template too
    Calls,          \* what clients send: [method, path, body]
    Outside,        \* the path of a request that is not under /api/v1
    NoCall          \* no request, no route, no exit code

Methods == {"GET", "POST", "PUT", "PATCH", "DELETE", "OPTIONS"}

\* large: too much, and Content-Length says so; chunked: too much, and only the
\* bytes that come say so.
Call == [method : Methods \cup {"TRACE"}, path : Seq(Segment) \cup {Outside},
         body : {"none", "small", "large", "chunked"}]

ASSUME DevServerAssumption ==
    /\ Calls \subseteq Call
    /\ Outside \notin Seq(Segment) \cup {<<"health">>}
    /\ NoCall \notin {"0", "1", "signal"}

VARIABLES
    process,        \* the life of the server's process
    exit,           \* its exit code, or the signal that ended it
    loaded,         \* the handler's entry could be imported
    socket,         \* the connection of a client
    request         \* the request on it: where it is, and its answer

devVars == <<process, exit, loaded, socket, request>>

-----------------------------------------------------------------------------
\* The segment of a template that stands for an id.
Placeholder == "{id}"

\* LAMBDAS: the routes, in the order in which they are tried.
Routes == <<
    [path |-> <<"auth", "login">>, methods |-> {"POST"}],
    [path |-> <<"products">>, methods |-> {"POST", "GET"}],
    [path |-> <<"products", "semantic-search">>, methods |-> {"POST"}],
    [path |-> <<"products", Placeholder>>, methods |-> {"GET", "PATCH"}],
    [path |-> <<"categories">>, methods |-> {"GET", "POST"}],
    [path |-> <<"products", Placeholder, "movements">>, methods |-> {"POST", "GET"}],
    [path |-> <<"alerts">>, methods |-> {"GET"}],
    [path |-> <<"alerts", Placeholder>>, methods |-> {"GET"}],
    [path |-> <<"orders">>, methods |-> {"POST", "GET"}],
    [path |-> <<"orders", Placeholder>>, methods |-> {"GET"}],
    [path |-> <<"orders", Placeholder, "approve">>, methods |-> {"POST"}],
    [path |-> <<"orders", Placeholder, "reject">>, methods |-> {"POST"}],
    [path |-> <<"orders", Placeholder, "receive">>, methods |-> {"POST"}],
    [path |-> <<"health">>, methods |-> {"GET"}] >>

\* A route key: the method and the template.
Key(method, path) == [method |-> method, path |-> path]

Keys == UNION {{Key(m, Routes[i].path) : m \in Routes[i].methods} : i \in DOMAIN Routes}

\* ROUTE_MAP: the keys the consolidated handler has a handler for.
Wired ==
         {Key("POST", p) : p \in {<<"auth", "login">>, <<"products", "semantic-search">>}}
    \cup {Key("POST", <<"orders", Placeholder, verb>>) : verb \in {"approve", "reject", "receive"}}
    \cup {Key(m, p) : m \in {"GET", "POST"},
                      p \in {<<"products">>, <<"categories">>, <<"orders">>,
                             <<"products", Placeholder, "movements">>}}
    \cup {Key("GET", p) : p \in {<<"products", Placeholder>>, <<"alerts">>, <<"alerts", Placeholder>>,
                                 <<"orders", Placeholder>>}}
    \cup {Key("PATCH", <<"products", Placeholder>>)}

\* A placeholder stands for one segment.
Fits(template, path) ==
    /\ Len(template) = Len(path)
    /\ \A i \in DOMAIN template : template[i] \in {Placeholder, path[i]}

\* Mutant: a placeholder matches a slash, and with it the segments that follow.
FitsBeyond(template, path) ==
    /\ Len(template) <= Len(path)
    /\ \A i \in DOMAIN template : template[i] \in {Placeholder, path[i]}
    /\ Len(template) < Len(path) => template[Len(template)] = Placeholder

\* pathToRegex, anchored at both ends.
PathToRegex(template, path) == Fits(template, path)

\* matchRoute: the first route that fits.
MatchRoute(method, path) ==
    LET fits == {i \in DOMAIN Routes : /\ loaded
                                       /\ method \in Routes[i].methods
                                       /\ PathToRegex(Routes[i].path, path)}
    IN  IF fits = {} THEN NoCall
        ELSE Key(method, Routes[CHOOSE i \in fits : \A j \in fits : i <= j].path)

-----------------------------------------------------------------------------
NoRequest == [at |-> "none", call |-> NoCall, key |-> NoCall, status |-> 0]

Arrived(call) == [NoRequest EXCEPT !.at = "reading", !.call = call]

\* What is answered no longer matters but for its status.
Answered(status) == [NoRequest EXCEPT !.at = "answered", !.status = status]

DevInit ==
    /\ process = "loading"
    /\ exit = NoCall
    /\ loaded = FALSE
    /\ socket = [c \in Client |-> "closed"]
    /\ request = [c \in Client |-> NoRequest]

Ends(code) == process' = "ended" /\ exit' = code

\* An entry that cannot be imported is skipped with a warning; the port may be
\* taken.
Boot ==
    /\ process = "loading"
    /\ \/ /\ loaded' \in BOOLEAN
          /\ process' = "serving" /\ UNCHANGED exit
       \/ Ends("1") /\ UNCHANGED loaded
    /\ UNCHANGED <<socket, request>>

\* What the server answers by itself as soon as a request arrives.
StartRequest(call) ==
    CASE call.method = "OPTIONS" -> Answered(204)
      [] call.method # "OPTIONS" /\ call.path = Outside -> Answered(404)
      [] call.method = "GET" /\ call.path = <<"health">> -> Answered(200)
      [] call.method \notin Methods /\ call.path # Outside -> Answered(405)
      [] call.method \in Methods \ {"OPTIONS"} /\ call.path # Outside
            /\ Key(call.method, call.path) # Key("GET", <<"health">>) ->
                IF call.body = "large" THEN Answered(413) ELSE Arrived(call)

\* A request may come over a new connection, or over one that was kept.
MaySend(c) ==
    /\ \/ process = "serving" /\ socket[c] = "closed"
       \/ process \in {"serving", "draining"} /\ socket[c] = "open"
    /\ request[c].at \in {"none", "answered"}

RequestComes(c) ==
    /\ MaySend(c)
    /\ \E call \in Calls : request' = [request EXCEPT ![c] = StartRequest(call)]
    /\ socket' = [socket EXCEPT ![c] = "open"]
    /\ UNCHANGED <<process, exit, loaded>>

\* new URL() throws for a target that is no path: nothing catches it, and the
\* process ends.
TargetUnparsable(c) ==
    /\ MaySend(c)
    /\ Ends("1")
    /\ socket' = [socket EXCEPT ![c] = "open"]
    /\ UNCHANGED <<loaded, request>>

Runs == process \in {"serving", "draining"}

\* The body has been read: too much of it, no route, or the handler is called.
ReadBody(c) ==
    /\ Runs /\ request[c].at = "reading"
    /\ LET call == request[c].call
           key == MatchRoute(call.method, call.path)
       IN  request' = [request EXCEPT ![c] =
                CASE call.body = "chunked" -> Answered(413)
                  [] call.body # "chunked" /\ key = NoCall -> Answered(404)
                  [] call.body # "chunked" /\ key # NoCall ->
                        [@ EXCEPT !.at = "handling", !.key = key]]
    /\ UNCHANGED <<process, exit, loaded, socket>>

\* The consolidated handler's answer; 404 for a key that is not wired, and 500
\* for what it throws and for a binary answer. It may also never answer.
HandlerEnds(c) ==
    /\ Runs /\ request[c].at = "handling"
    /\ \E status \in IF request[c].key \in Wired THEN {200, 500} ELSE {404} :
            request' = [request EXCEPT ![c] = Answered(status)]
    /\ UNCHANGED <<process, exit, loaded, socket>>

Busy(c) == request[c].at \in {"reading", "handling"}

\* The client closes its connection; what was read whole goes on. A body cut
\* short rejects the promise that reads it, which nothing catches: the process
\* ends, and every request with it.
ClientLeaves(c) ==
    /\ Runs /\ socket[c] = "open"
    /\ socket' = [socket EXCEPT ![c] = "closed"]
    /\ \/ /\ request[c].at = "reading" /\ request[c].call.body # "none"
          /\ Ends("1") /\ UNCHANGED request
       \/ /\ request' = [request EXCEPT ![c] = IF Busy(c) THEN @ ELSE NoRequest]
          /\ UNCHANGED <<process, exit>>
    /\ UNCHANGED loaded

\* SIGINT or SIGTERM. Before the handlers of boot() are installed it ends the
\* process; a second one while draining is ignored. server.close() lets the
\* idle connections go.
Signal ==
    /\ \/ /\ process = "loading"
          /\ Ends("signal")
          /\ UNCHANGED socket
       \/ /\ process = "serving"
          /\ process' = "draining"
          /\ socket' = [c \in Client |-> IF Busy(c) THEN socket[c] ELSE "closed"]
          /\ UNCHANGED exit
    /\ UNCHANGED <<loaded, request>>

\* Node closes a connection that is idle for keepAliveTimeout.
IdleTimeout(c) ==
    /\ Runs /\ socket[c] = "open" /\ ~Busy(c)
    /\ socket' = [socket EXCEPT ![c] = "closed"]
    /\ UNCHANGED <<process, exit, loaded, request>>

\* Mutant: the process ends without waiting for server.close() to call back.
DrainedAtOnce == process = "draining"

\* server.close() calls back when the last connection is closed.
Drained == process = "draining" /\ \A c \in Client : socket[c] = "closed"

Close ==
    /\ Drained
    /\ Ends("0")
    /\ UNCHANGED <<loaded, socket, request>>

\* Mutant: the timer is set by the callback of server.close().
CapAfterClose ==
    /\ Drained
    /\ Ends("1")
    /\ UNCHANGED <<loaded, socket, request>>

\* The timer of five seconds.
HardCap ==
    /\ process = "draining"
    /\ Ends("1")
    /\ UNCHANGED <<loaded, socket, request>>

\* tsx --watch, or the developer, starts it again.
StartAgain ==
    /\ process = "ended"
    /\ process' = "loading"
    /\ exit' = NoCall
    /\ loaded' = FALSE
    /\ socket' = [c \in Client |-> "closed"]
    /\ request' = [c \in Client |-> NoRequest]

DevNext ==
    \/ Boot \/ Signal \/ Close \/ HardCap \/ StartAgain
    \/ \E c \in Client : \/ RequestComes(c) \/ TargetUnparsable(c)
                         \/ ReadBody(c) \/ HandlerEnds(c)
                         \/ ClientLeaves(c) \/ IdleTimeout(c)

\* The event loop runs its timers.
DevSpec == DevInit /\ [][DevNext]_devVars /\ WF_devVars(HardCap)

-----------------------------------------------------------------------------
\* Types of the variables.
DevTypeOK ==
    /\ process \in {"loading", "serving", "draining", "ended"}
    /\ exit \in {NoCall, "0", "1", "signal"}
    /\ loaded \in BOOLEAN
    /\ socket \in [Client -> {"open", "closed"}]
    /\ \A c \in Client : /\ request[c].at \in {"none", "reading", "handling", "answered"}
                         /\ request[c].call \in Calls \cup {NoCall}
                         /\ request[c].key \in Keys \cup {NoCall}

\* The template API Gateway picks: one that fits and, where it differs from
\* another that fits, has the literal segment first.
Gateway(method, path) ==
    {k \in Keys : /\ k.method = method /\ Fits(k.path, path)
                  /\ \A l \in Keys : l.method = method /\ Fits(l.path, path) /\ l # k =>
                        \E i \in DOMAIN path : /\ l.path[i] = Placeholder /\ k.path[i] # Placeholder
                                               /\ \A j \in 1..(i - 1) : l.path[j] = k.path[j]}

\* A request reaches the handler that API Gateway and the Lambda would give it,
\* though the server tries its routes in the order of the table, placeholders
\* and all (dev-server.ts:249).
RoutedLikeTheGateway ==
    \A c \in Client : request[c].at = "handling" =>
        /\ request[c].key \in Wired
        /\ Gateway(request[c].call.method, request[c].call.path) = {request[c].key}

\* Exit code 0 means that every request whose client stayed was answered, also
\* those that came over kept connections while it drained (dev-server.ts:652).
CleanExitAnsweredAll ==
    exit = "0" => \A c \in Client : Busy(c) => socket[c] = "closed"

\* A signal ends the process, even when a handler never answers and when more
\* requests keep coming over open connections (dev-server.ts:659).
SignalEndsProcess == (process = "draining") ~> (process = "ended")

=============================================================================
