-------------------------------- MODULE Login --------------------------------
(***************************************************************************)
(* POST /auth/login (backend/src/auth): the limiter that counts failed     *)
(* attempts per address and username in a sliding window, the lookup, the  *)
(* comparison of the password, and the reset of the counter by a success.  *)
(* One action per statement; between two of them any other attempt runs.   *)
(* Beside the attempts the operator's script changes a password, and time  *)
(* passes.                                                                 *)
(***************************************************************************)
EXTENDS Naturals, FiniteSets, Sequences

CONSTANTS
    Client,         \* callers, each with one attempt at a time
    Nobody,         \* no caller
    Ip,             \* addresses
    Calls,          \* what callers send: [origin, typed, password]
    ProxyDepth,     \* TRUSTED_PROXY_DEPTH
    Typed,          \* usernames as a caller may type them
    Username,       \* usernames in lower case
    Lower,          \* toLowerCase() on Typed
    Password,
    NoUser,         \* what findByUsername answers for a missing row
    FirstUsers,     \* the users table at the start
    Threshold,      \* failureThreshold, 5 as deployed
    Window,         \* windowSeconds, 900 as deployed
    MaxTime,        \* bound: the clock stops here
    MaxRows         \* bound: rows in login_attempts

ASSUME LoginAssumption ==
    /\ IsFiniteSet(Client) /\ Nobody \notin Client
    /\ Calls \subseteq [origin : [source : Ip, hops : Seq(Ip)],
                        typed : Typed, password : Password]
    /\ ProxyDepth \in Nat
    /\ Ip # {} /\ Username # {} /\ Password # {}
    /\ Lower \in [Typed -> Username]
    /\ NoUser \notin Password
    /\ FirstUsers \in [Username -> Password \cup {NoUser}]
    /\ Threshold \in Nat \ {0}
    /\ Window \in Nat \ {0}
    /\ MaxTime \in Nat
    /\ MaxRows \in Nat

VARIABLES
    now,            \* the clock of the processes and of the database
    users,          \* users.password_hash by username
    rows,           \* login_attempts with success = false
    step,           \* the statement an attempt awaits
    input,          \* what the attempt asked, and its bucket
    read,           \* the hash findByUsername answered
    reply,          \* what this step answers, and to whom
    told,           \* history: until when the last refusal said to wait, 0 if
                    \* an attempt of the bucket has failed since
    held            \* history: the passwords of the user during the attempt

loginVars == <<now, users, rows, step, input, read, reply, told, held>>

-----------------------------------------------------------------------------
\* The address the limiter counts: the hop the trusted proxies vouch for, the
\* first one when there are fewer hops, the peer when there is none.
PerceivedIp(origin) ==
    LET hops == origin.hops
        peeled == Len(hops) - ProxyDepth
    IN  IF hops = <<>> THEN origin.source
        ELSE hops[IF peeled > 1 THEN peeled ELSE 1]

Bucket == Ip \X Username

\* Attempts are counted per address and username, in lower case.
BucketOf(origin, typed) == <<PerceivedIp(origin), Lower[typed]>>

AttemptRow == [bucket : Bucket, at : Nat, id : Nat]

\* Mutant: the oldest instant of the window is counted, gte for gt.
WindowInclusive(b) ==
    Cardinality({row \in rows : row.bucket = b /\ row.at + Window >= now})

\* count(*) of the failures of a bucket inside the window.
WindowFailures(b) ==
    Cardinality({row \in rows : row.bucket = b /\ row.at + Window > now})

NoReply == [to |-> Nobody, is |-> "none"]

Replies == {"none", "token", "invalid_credentials", "rate_limited", "error"}

Steps == {"idle", "check", "lookup", "compare", "record", "recount", "reset", "issue"}

LoginInput == [bucket : Bucket, username : Username, password : Password]

NoInput == CHOOSE i \in LoginInput : TRUE

LoginInit ==
    /\ now = 1
    /\ users = FirstUsers
    /\ rows = {}
    /\ step = [c \in Client |-> "idle"]
    /\ input = [c \in Client |-> NoInput]
    /\ read = [c \in Client |-> NoUser]
    /\ reply = NoReply
    /\ told = [b \in Bucket |-> 0]
    /\ held = [c \in Client |-> {}]

Advance(c, s) == step' = [step EXCEPT ![c] = s]

\* The attempt is answered and its locals are gone.
Reply(c, a) ==
    /\ Advance(c, "idle")
    /\ reply' = [to |-> c, is |-> a]
    /\ input' = [input EXCEPT ![c] = NoInput]
    /\ read' = [read EXCEPT ![c] = NoUser]
    /\ held' = [held EXCEPT ![c] = {}]

\* The handler: body parsed, address resolved, use case called.
LoginArrive(c) ==
    /\ step[c] = "idle"
    /\ \E call \in Calls :
        input' = [input EXCEPT ![c] = [bucket |-> BucketOf(call.origin, call.typed),
                                       username |-> Lower[call.typed],
                                       password |-> call.password]]
    /\ Advance(c, "check")
    /\ reply' = NoReply
    /\ held' = [held EXCEPT ![c] = {users[input'[c].username]}]
    /\ UNCHANGED <<now, users, rows, read, told>>

\* Mutant: the count is compared with > instead of >=.
OverThreshold(c) == WindowFailures(input[c].bucket) > Threshold

\* The limiter trips at the threshold, before any password is compared.
Blocked(c) == WindowFailures(input[c].bucket) >= Threshold

CheckLimit(c) ==
    /\ step[c] = "check"
    /\ \/ /\ Blocked(c)
          /\ Reply(c, "rate_limited")
          /\ told' = [told EXCEPT ![input[c].bucket] = now + Window]
       \/ /\ ~Blocked(c)
          /\ Advance(c, "lookup")
          /\ reply' = NoReply
          /\ UNCHANGED <<input, read, told, held>>
    /\ UNCHANGED <<now, users, rows>>

FindUser(c) ==
    /\ step[c] = "lookup"
    /\ read' = [read EXCEPT ![c] = users[input[c].username]]
    /\ Advance(c, IF users[input[c].username] = NoUser THEN "record" ELSE "compare")
    /\ reply' = NoReply
    /\ UNCHANGED <<now, users, rows, input, told, held>>

\* Mutant: the comparison is not awaited, and a promise is truthy.
CompareUnawaited(c) ==
    /\ step[c] = "compare"
    /\ Advance(c, "reset")
    /\ reply' = NoReply
    /\ UNCHANGED <<now, users, rows, input, read, told, held>>

\* bcrypt, against the hash read before.
ComparePassword(c) ==
    /\ step[c] = "compare"
    /\ Advance(c, IF read[c] = input[c].password THEN "reset" ELSE "record")
    /\ reply' = NoReply
    /\ UNCHANGED <<now, users, rows, input, read, told, held>>

\* recordFailure: the insert, and then a count whose decision nobody reads.
RecordFailure(c) ==
    /\ step[c] = "record"
    /\ Cardinality(rows) < MaxRows
    /\ rows' = rows \cup {[bucket |-> input[c].bucket, at |-> now,
                         id |-> Cardinality({row \in rows : row.bucket = input[c].bucket})]}
    /\ told' = [told EXCEPT ![input[c].bucket] = 0]
    /\ Advance(c, "recount")
    /\ reply' = NoReply
    /\ UNCHANGED <<now, users, input, read, held>>

Recount(c) ==
    /\ step[c] = "recount"
    /\ Reply(c, "invalid_credentials")
    /\ UNCHANGED <<now, users, rows, told>>

\* The rows recordSuccess deletes: every failure of the bucket, however old.
Forgiven(c) == {row \in rows : row.bucket = input[c].bucket}

ResetFailures(c) ==
    /\ step[c] = "reset"
    /\ rows' = rows \ Forgiven(c)
    /\ Advance(c, "issue")
    /\ reply' = NoReply
    /\ UNCHANGED <<now, users, input, read, told, held>>

IssueToken(c) ==
    /\ step[c] = "issue"
    /\ Reply(c, "token")
    /\ UNCHANGED <<now, users, rows, told>>

\* A statement fails, or the process dies: the caller has a 500 or nothing.
AttemptFails(c) ==
    /\ step[c] # "idle"
    /\ Reply(c, "error")
    /\ UNCHANGED <<now, users, rows, told>>

\* rotate-admin-password.ts: an UPDATE of a user that exists.
RotatePassword ==
    /\ \E u \in Username, p \in Password :
        /\ users[u] # NoUser
        /\ users' = [users EXCEPT ![u] = p]
        /\ held' = [c \in Client |->
                        IF step[c] # "idle" /\ input[c].username = u
                        THEN held[c] \cup {p} ELSE held[c]]
    /\ reply' = NoReply
    /\ UNCHANGED <<now, rows, step, input, read, told>>

ClockTicks ==
    /\ now < MaxTime
    /\ now' = now + 1
    /\ reply' = NoReply
    /\ UNCHANGED <<users, rows, step, input, read, told, held>>

ServeLogin(c) ==
    \/ CheckLimit(c)
    \/ FindUser(c)
    \/ ComparePassword(c)
    \/ RecordFailure(c)
    \/ Recount(c)
    \/ ResetFailures(c)
    \/ IssueToken(c)

LoginNext ==
    \/ \E c \in Client : LoginArrive(c) \/ ServeLogin(c) \/ AttemptFails(c)
    \/ RotatePassword
    \/ ClockTicks

LoginSpec == LoginInit /\ [][LoginNext]_loginVars

-----------------------------------------------------------------------------
\* Types of the variables.
LoginTypeOK ==
    /\ now \in Nat
    /\ users \in [Username -> Password \cup {NoUser}]
    /\ rows \subseteq AttemptRow
    /\ step \in [Client -> Steps]
    /\ input \in [Client -> LoginInput]
    /\ read \in [Client -> Password \cup {NoUser}]
    /\ reply \in [to : Client \cup {Nobody}, is : Replies]
    /\ told \in [Bucket -> Nat]
    /\ held \in [Client -> SUBSET (Password \cup {NoUser})]

\* Attempts that passed the limiter and may still record a failure.
Passed(b) ==
    {c \in Client : /\ input[c].bucket = b
                    /\ step[c] \in {"lookup", "compare", "record"}}

\* However many attempts race past the check before any of them has recorded
\* its failure (login.ts:79 reads, login.ts:92 and 100 write), the failures of
\* one bucket inside one window stay below the threshold plus the number of
\* callers: each caller adds at most one to the count it was let through on.
FailuresWithinBudget ==
    \A b \in Bucket : WindowFailures(b) + Cardinality(Passed(b))
                        <= (Threshold - 1) + Cardinality(Client)

\* Who waits as long as the last refusal said (retryAfterSeconds), while no
\* attempt of the bucket fails, is let through: refused attempts themselves
\* never prolong the block.
HintIsEnough ==
    \A b \in Bucket : told[b] # 0 /\ now >= told[b] => WindowFailures(b) < Threshold

\* A token answers only a password that was the user's at some moment of the
\* attempt, even when the password is rotated between the lookup and the answer.
TokenForTheRightPassword ==
    [][\A c \in Client : step[c] = "issue" /\ reply' = [to |-> c, is |-> "token"]
                            => input[c].password \in held[c]]_loginVars

=============================================================================
