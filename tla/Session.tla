------------------------------- MODULE Session -------------------------------
(***************************************************************************)
(* The administrator's session: tokens signed and verified by the backend  *)
(* (JWT_SECRET and JWT_SECRET_PREVIOUS), the SPA's auth store in each tab,  *)
(* the localStorage the tabs share, the router's guard, and the calls of a *)
(* tab whose answers come back in any order.                               *)
(***************************************************************************)
EXTENDS Naturals, FiniteSets

CONSTANTS
    Tab,            \* tabs of one browser
    Lifetime,       \* seconds a token lives, 24 h as deployed
    Overlap,        \* JWT_OVERLAP_SECONDS, 3600 as deployed: no code reads it
    NoToken,        \* null: nothing stored, no session
    NoSecret,       \* JWT_SECRET_PREVIOUS unset
    EndOfTime,      \* bound: the clock stops here
    MaxTokens,      \* bound: tokens issued
    MaxRotations,   \* bound: changes of the secrets
    MaxCalls        \* bound: calls in flight, all tabs together

ASSUME SessionAssumption ==
    /\ Lifetime \in Nat \ {0} /\ Overlap \in Nat
    /\ EndOfTime \in Nat /\ MaxTokens \in Nat
    /\ MaxRotations \in Nat /\ MaxCalls \in Nat
    /\ NoSecret \notin Nat
    /\ NoToken \notin [id : Nat, key : Nat, exp : Nat]

VARIABLES
    clock,      \* seconds, of the backend and of the browser
    current,    \* JWT_SECRET, numbered by generation
    previous,   \* JWT_SECRET_PREVIOUS
    issued,     \* tokens issued so far, the source of their ids
    memory,     \* auth.token of a tab's store
    storage,    \* mx_token, mx_user and mx_expires_at in localStorage
    page,       \* what a tab shows
    calls,      \* calls whose answer the SPA has not seen
    ended,      \* history: <<tab, token>> of sessions a tab has ended
    rotatedAt   \* history: when the secrets were last rotated

sessionVars == <<clock, current, previous, issued, memory, storage,
                 page, calls, ended, rotatedAt>>

-----------------------------------------------------------------------------
Token == [id : Nat, key : Nat, exp : Nat]

\* A tab loads the application at one of these addresses, or shows a page.
Addresses == {"/", "/login", "/productos"}

Pages == Addresses \cup {"login", "dashboard"}

\* What the SPA tells apart in an answer; a call that is only "sent" has none,
\* and "failed" is any other error, a timeout included.
Status == {"sent", "ok", "unauthorized", "malformed", "failed"}

Call == [tab : Tab, kind : {"login", "api"}, bearer : Token \cup {NoToken},
         status : Status, grant : Token \cup {NoToken}]

SessionInit ==
    /\ clock = 0
    /\ current = 0
    /\ previous = NoSecret
    /\ issued = 0
    /\ memory = [t \in Tab |-> NoToken]
    /\ storage = NoToken
    /\ page \in [Tab -> Addresses]
    /\ calls = {}
    /\ ended = {}
    /\ rotatedAt = 0

\* Mutant: only the current secret is tried.
VerifyCurrent(tok) == tok # NoToken /\ tok.key = current /\ tok.exp > clock

\* verifyJwt: the current secret, then the previous one if there is one.
Verify(tok) ==
    /\ tok # NoToken
    /\ tok.key = current \/ (previous # NoSecret /\ tok.key = previous)
    /\ tok.exp > clock

\* JoseTokenIssuer.issue: signed with the current secret.
Issue == [id |-> issued, key |-> current, exp |-> clock + Lifetime]

-----------------------------------------------------------------------------
\* The backend answers a call; the answer travels back.
ServeApi(c) ==
    /\ c \in calls /\ c.kind = "api" /\ c.status = "sent"
    /\ calls' = (calls \ {c}) \cup
                {[c EXCEPT !.status = IF Verify(c.bearer) THEN "ok" ELSE "unauthorized"]}
    /\ UNCHANGED <<clock, current, previous, issued, memory, storage, page, ended, rotatedAt>>

\* A login is granted, or refused with 401; or the answer is not what the
\* shared schema says.
ServeLoginCall(c) ==
    /\ c \in calls /\ c.kind = "login" /\ c.status = "sent"
    /\ \/ /\ issued < MaxTokens
          /\ calls' = (calls \ {c}) \cup {[c EXCEPT !.status = "ok", !.grant = Issue]}
          /\ issued' = issued + 1
       \/ /\ \E s \in {"unauthorized", "malformed"} :
               calls' = (calls \ {c}) \cup {[c EXCEPT !.status = s]}
          /\ UNCHANGED issued
    /\ UNCHANGED <<clock, current, previous, memory, storage, page, ended, rotatedAt>>

\* No answer within TIMEOUT_MS, no network, or an error answer; retry is 0.
CallFails(c) ==
    /\ c \in calls /\ c.status = "sent"
    /\ calls' = (calls \ {c}) \cup {[c EXCEPT !.status = "failed"]}
    /\ UNCHANGED <<clock, current, previous, issued, memory, storage, page, ended, rotatedAt>>

-----------------------------------------------------------------------------
\* Mutant: logging out leaves the stored keys.
ForgetMemory(t) ==
    /\ memory' = [memory EXCEPT ![t] = NoToken]
    /\ ended' = IF memory[t] = NoToken THEN ended ELSE ended \cup {<<t, memory[t]>>}
    /\ UNCHANGED storage

\* auth.logout().
ClearSession(t) ==
    /\ memory' = [memory EXCEPT ![t] = NoToken]
    /\ storage' = NoToken
    /\ ended' = IF memory[t] = NoToken THEN ended ELSE ended \cup {<<t, memory[t]>>}

\* auth.restore(): what is stored, unless it has expired.
Restored ==
    IF storage # NoToken /\ storage.exp > clock THEN storage ELSE NoToken

\* router.beforeEach, for a page that requires a session.
Guard(tok) == IF tok = NoToken THEN "login" ELSE "dashboard"

\* The redirect of the bare host.
RootRedirect(tok) == IF tok = NoToken THEN "login" ELSE Guard(tok)

\* main.ts. app.use(router) resolves the address, and with it the redirect of
\* the bare host, before restore() has run; the guard runs after it.
Boot(t) ==
    /\ page[t] \in Addresses
    /\ memory' = [memory EXCEPT ![t] = Restored]
    /\ storage' = Restored
    /\ page' = [page EXCEPT ![t] = CASE page[t] = "/" -> RootRedirect(memory[t])
                                      [] page[t] = "/login" -> "login"
                                      [] page[t] = "/productos" -> Guard(Restored)]
    /\ UNCHANGED <<clock, current, previous, issued, calls, ended, rotatedAt>>

\* The user reloads the tab, or opens it anew: its memory and its calls are gone.
Reload(t) ==
    /\ page[t] \notin Addresses
    /\ memory' = [memory EXCEPT ![t] = NoToken]
    /\ \E address \in Addresses : page' = [page EXCEPT ![t] = address]
    /\ calls' = {c \in calls : c.tab # t}
    /\ UNCHANGED <<clock, current, previous, issued, storage, ended, rotatedAt>>

\* A link or the back button: a navigation inside the application.
Browse(t) ==
    /\ page[t] \notin Addresses
    /\ page' = [page EXCEPT ![t] = Guard(memory[t])]
    /\ UNCHANGED <<clock, current, previous, issued, memory, storage, calls, ended, rotatedAt>>

\* http(): the bearer is the token the store holds when the call is sent.
Send(t, kind) ==
    /\ page[t] = IF kind = "login" THEN "login" ELSE "dashboard"
    /\ Cardinality(calls) < MaxCalls
    /\ calls' = calls \cup {[tab |-> t, kind |-> kind, bearer |-> memory[t],
                             status |-> "sent", grant |-> NoToken]}
    /\ UNCHANGED <<clock, current, previous, issued, memory, storage, page, ended, rotatedAt>>

\* handleLogin: the session is stored and the dashboard opens.
LoginAnswered(c) ==
    /\ c \in calls /\ c.kind = "login" /\ c.status = "ok"
    /\ calls' = calls \ {c}
    /\ memory' = [memory EXCEPT ![c.tab] = c.grant]
    /\ storage' = c.grant
    /\ page' = [page EXCEPT ![c.tab] = Guard(c.grant)]
    /\ UNCHANGED <<clock, current, previous, issued, ended, rotatedAt>>

\* loginResponseSchema rejects the body: the session is cleared.
LoginMalformed(c) ==
    /\ c \in calls /\ c.status = "malformed"
    /\ calls' = calls \ {c}
    /\ ClearSession(c.tab)
    /\ UNCHANGED <<clock, current, previous, issued, page, rotatedAt>>

\* Mutant: every error answer is taken for a lost session.
IsUnauthorized(c) == c.status \in {"unauthorized", "failed"}

\* onResponseError looks at the status alone.
Unauthorized(c) == c.status = "unauthorized"

\* 401: the session is cleared and the application loads anew, at /login. The
\* other calls of the tab go with the page.
SessionRefused(c) ==
    /\ c \in calls /\ Unauthorized(c)
    /\ ClearSession(c.tab)
    /\ page' = [page EXCEPT ![c.tab] = "/login"]
    /\ calls' = {d \in calls : d.tab # c.tab}
    /\ UNCHANGED <<clock, current, previous, issued, rotatedAt>>

\* Any other answer is the page's business.
OtherAnswer(c) ==
    /\ c \in calls
    /\ \/ c.kind = "api" /\ c.status = "ok"
       \/ c.status = "failed" /\ ~Unauthorized(c)
    /\ calls' = calls \ {c}
    /\ UNCHANGED <<clock, current, previous, issued, memory, storage, page, ended, rotatedAt>>

\* The "Salir" button: the calls in flight stay in flight.
Logout(t) ==
    /\ page[t] = "dashboard"
    /\ ClearSession(t)
    /\ page' = [page EXCEPT ![t] = "login"]
    /\ UNCHANGED <<clock, current, previous, issued, calls, rotatedAt>>

-----------------------------------------------------------------------------
\* The operator writes a new secret, keeps the old one as the previous, and
\* deploys.
RotateSecret ==
    /\ current < MaxRotations
    /\ previous' = current
    /\ current' = current + 1
    /\ rotatedAt' = clock
    /\ UNCHANGED <<clock, issued, memory, storage, page, calls, ended>>

\* The operator empties JWT_SECRET_PREVIOUS and deploys.
DropPrevious ==
    /\ previous # NoSecret
    /\ previous' = NoSecret
    /\ UNCHANGED <<clock, current, issued, memory, storage, page, calls, ended, rotatedAt>>

SecondPasses ==
    /\ clock < EndOfTime
    /\ clock' = clock + 1
    /\ UNCHANGED <<current, previous, issued, memory, storage, page, calls, ended, rotatedAt>>

SessionNext ==
    \/ \E c \in calls : \/ ServeApi(c) \/ ServeLoginCall(c) \/ CallFails(c)
                        \/ LoginAnswered(c) \/ LoginMalformed(c)
                        \/ SessionRefused(c) \/ OtherAnswer(c)
    \/ \E t \in Tab : \/ Boot(t) \/ Reload(t) \/ Browse(t) \/ Logout(t)
                      \/ \E kind \in {"login", "api"} : Send(t, kind)
    \/ RotateSecret \/ DropPrevious \/ SecondPasses

SessionSpec == SessionInit /\ [][SessionNext]_sessionVars

-----------------------------------------------------------------------------
\* Types of the variables.
SessionTypeOK ==
    /\ clock \in Nat /\ current \in Nat /\ issued \in Nat /\ rotatedAt \in Nat
    /\ previous \in Nat \cup {NoSecret}
    /\ memory \in [Tab -> Token \cup {NoToken}]
    /\ storage \in Token \cup {NoToken}
    /\ page \in [Tab -> Pages]
    /\ calls \subseteq Call
    /\ ended \subseteq Tab \X Token

\* A session a tab has ended, by the button or by a refusal, never comes back
\* to that tab: not from the storage the tabs share, nor from a late answer.
EndedSessionsStayEnded ==
    \A t \in Tab : memory[t] # NoToken => <<t, memory[t]>> \notin ended

\* A token in its lifetime outlives one rotation of the secret: during the overlap
\* it is refused only if the operator has changed the secrets twice, or has dropped
\* the previous one (jwt-middleware.ts:51).
OneRotationIsSeamless ==
    [][\A c \in calls :
            /\ c.kind = "api" /\ c.bearer # NoToken /\ c.bearer.exp > clock
            /\ c.status = "sent" /\ clock <= rotatedAt + Overlap
            /\ [c EXCEPT !.status = "unauthorized"] \in calls' \ calls
        => \/ current > c.bearer.key + 1
           \/ current > c.bearer.key /\ previous = NoSecret
      ]_sessionVars

\* "Outside the window only the current secret verifies." (jwt-middleware.ts:12):
\* once the overlap is over, no call is answered for a token of another secret.
OverlapEnds ==
    [][\A c \in calls :
            /\ c.kind = "api" /\ c.bearer # NoToken /\ c.bearer.key # current
            /\ c.status = "sent"
            /\ [c EXCEPT !.status = "ok"] \in calls' \ calls
        => clock <= rotatedAt + Overlap
      ]_sessionVars

\* A tab loses a token the backend still honours only when its user logs out or
\* leaves the page, or when a 401 or an unreadable login answer reaches that tab:
\* no timeout, refusal of another kind, or other tab takes it away.
SessionLostForAReason ==
    [][\A t \in Tab : memory[t] # NoToken /\ memory'[t] = NoToken
        => \/ page[t] = "dashboard" /\ page'[t] = "login"
           \/ page'[t] \in Addresses /\ storage' = storage
           \/ \E c \in calls \ calls' : c.tab = t /\ c.status \in {"unauthorized", "malformed"}
      ]_sessionVars

=============================================================================
