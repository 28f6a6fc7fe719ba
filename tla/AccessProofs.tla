-------------------------------- MODULE AccessProofs --------------------------------
(***************************************************************************)
(* The safety of Login for any number of callers, addresses and usernames, *)
(* any threshold and window, any limit of rows and of time, and passwords  *)
(* rotated at any moment: the limiter's budget and its hint, and that a    *)
(* token answers the right password. And of Session for any number of tabs,*)
(* calls and rotations: a session that a tab has ended stays ended, a token*)
(* outlives one rotation of the secret, and no tab loses its session without*)
(* a reason.                                                               *)
(***************************************************************************)
EXTENDS Login, Session, FiniteSetTheorems, TLAPS

-----------------------------------------------------------------------------
(* Login: types *)

\* The address the limiter counts is one of those that were claimed.
LEMMA PerceivedType ==
    ASSUME NEW origin \in [source : Ip, hops : Seq(Ip)]
    PROVE  PerceivedIp(origin) \in Ip
<1> USE LoginAssumption
<1>1. CASE origin.hops = <<>>
  BY <1>1 DEF PerceivedIp
<1>2. CASE origin.hops # <<>>
  <2>1. Len(origin.hops) \in Nat \ {0}
    BY <1>2
  <2> QED
    BY <1>2, <2>1 DEF PerceivedIp
<1> QED
  BY <1>1, <1>2

\* A call is counted in a bucket of its own.
LEMMA InputType ==
    ASSUME NEW k \in Calls
    PROVE  [bucket |-> BucketOf(k.origin, k.typed), username |-> Lower[k.typed],
            password |-> k.password] \in LoginInput
<1>1. k \in [origin : [source : Ip, hops : Seq(Ip)], typed : Typed, password : Password]
  BY LoginAssumption
<1>2. PerceivedIp(k.origin) \in Ip
  BY <1>1, PerceivedType
<1>3. Lower[k.typed] \in Username
  BY <1>1, LoginAssumption
<1> QED
  BY <1>1, <1>2, <1>3 DEF BucketOf, LoginInput, Bucket

\* There is an input to reset the locals to.
LEMMA NoInputType == NoInput \in LoginInput
<1>1. \E i \in LoginInput : TRUE
  <2>1. PICK ip \in Ip, u \in Username, p \in Password : TRUE
    BY LoginAssumption
  <2>2. [bucket |-> <<ip, u>>, username |-> u, password |-> p] \in LoginInput
    BY DEF LoginInput, Bucket
  <2> QED
    BY <2>2
<1> QED
  BY <1>1 DEF NoInput

\* Every attempt that ends leaves well-typed locals.
LEMMA ReplyType ==
    ASSUME LoginTypeOK, NEW c \in Client, NEW a \in Replies, Reply(c, a)
    PROVE  /\ step' \in [Client -> Steps]
           /\ input' \in [Client -> LoginInput]
           /\ read' \in [Client -> Password \cup {NoUser}]
           /\ reply' \in [to : Client \cup {Nobody}, is : Replies]
           /\ held' \in [Client -> SUBSET (Password \cup {NoUser})]
  BY NoInputType DEF Reply, Advance, LoginTypeOK, Steps

\* The table is finite, or its rows could not be counted.
FiniteTypeOK == LoginTypeOK /\ IsFiniteSet(rows)

LEMMA FiniteTypeStep == FiniteTypeOK /\ [LoginNext]_loginVars => FiniteTypeOK'
<1> SUFFICES ASSUME LoginTypeOK, IsFiniteSet(rows), [LoginNext]_loginVars
             PROVE  FiniteTypeOK'
  BY DEF FiniteTypeOK
<1> USE DEF LoginTypeOK, FiniteTypeOK
<1>0. /\ NoReply \in [to : Client \cup {Nobody}, is : Replies]
      /\ {"rate_limited", "invalid_credentials", "token", "error"} \subseteq Replies
  BY DEF NoReply, Replies
<1>1. ASSUME NEW c \in Client, LoginArrive(c) PROVE FiniteTypeOK'
  <2>1. PICK k \in Calls : input' = [input EXCEPT ![c] =
            [bucket |-> BucketOf(k.origin, k.typed), username |-> Lower[k.typed],
             password |-> k.password]]
    BY <1>1 DEF LoginArrive
  <2>2. input' \in [Client -> LoginInput]
    BY <2>1, InputType
  <2>3. users[input'[c].username] \in Password \cup {NoUser}
    BY <2>2 DEF LoginInput
  <2> QED
    BY <1>0, <1>1, <2>2, <2>3 DEF LoginArrive, Advance, Steps
<1>2. ASSUME NEW c \in Client, CheckLimit(c) PROVE FiniteTypeOK'
  <2>1. input[c].bucket \in Bucket
    BY DEF LoginInput
  <2>2. told' \in [Bucket -> Nat]
    BY <1>2, <2>1, LoginAssumption DEF CheckLimit
  <2> QED
    BY <1>0, <1>2, <2>2, ReplyType DEF CheckLimit, Advance, Steps
<1>3. ASSUME NEW c \in Client, FindUser(c) PROVE FiniteTypeOK'
  <2>1. users[input[c].username] \in Password \cup {NoUser}
    BY DEF LoginInput
  <2> QED
    BY <1>0, <1>3, <2>1 DEF FindUser, Advance, Steps
<1>4. ASSUME NEW c \in Client, ComparePassword(c) PROVE FiniteTypeOK'
  BY <1>0, <1>4 DEF ComparePassword, Advance, Steps
<1>5. ASSUME NEW c \in Client, RecordFailure(c) PROVE FiniteTypeOK'
  <2>1. input[c].bucket \in Bucket
    BY DEF LoginInput
  <2>2. Cardinality({row \in rows : row.bucket = input[c].bucket}) \in Nat
    BY FS_Subset, FS_CardinalityType
  <2>3. rows' \subseteq AttemptRow
    BY <1>5, <2>1, <2>2 DEF RecordFailure, AttemptRow
  <2>4. IsFiniteSet(rows')
    BY <1>5, FS_AddElement DEF RecordFailure
  <2>5. told' \in [Bucket -> Nat]
    BY <1>5, <2>1 DEF RecordFailure
  <2> QED
    BY <1>0, <1>5, <2>3, <2>4, <2>5 DEF RecordFailure, Advance, Steps
<1>6. ASSUME NEW c \in Client, Recount(c) PROVE FiniteTypeOK'
  BY <1>0, <1>6, ReplyType DEF Recount
<1>7. ASSUME NEW c \in Client, ResetFailures(c) PROVE FiniteTypeOK'
  <2>1. rows' \subseteq rows
    BY <1>7 DEF ResetFailures
  <2>2. IsFiniteSet(rows')
    BY <2>1, FS_Subset
  <2> QED
    BY <1>0, <1>7, <2>1, <2>2 DEF ResetFailures, Advance, Steps
<1>8. ASSUME NEW c \in Client, IssueToken(c) PROVE FiniteTypeOK'
  BY <1>0, <1>8, ReplyType DEF IssueToken
<1>9. ASSUME NEW c \in Client, AttemptFails(c) PROVE FiniteTypeOK'
  BY <1>0, <1>9, ReplyType DEF AttemptFails
<1>10. CASE RotatePassword
  BY <1>0, <1>10 DEF RotatePassword
<1>11. CASE ClockTicks
  BY <1>0, <1>11 DEF ClockTicks
<1>12. CASE UNCHANGED loginVars
  BY <1>12 DEF loginVars
<1> QED
  BY <1>1, <1>2, <1>3, <1>4, <1>5, <1>6, <1>7, <1>8, <1>9, <1>10, <1>11, <1>12
     DEF LoginNext, ServeLogin

LEMMA FiniteTypeInit == LoginInit => FiniteTypeOK
<1> USE LoginAssumption
<1>1. NoReply \in [to : Client \cup {Nobody}, is : Replies]
  BY DEF NoReply, Replies
<1> QED
  BY <1>1, NoInputType, FS_EmptySet DEF LoginInit, FiniteTypeOK, LoginTypeOK, Steps

\* The variables of the login always have their types (login.ts:72).
THEOREM LoginTypeCorrect == LoginSpec => []LoginTypeOK
<1>1. FiniteTypeOK => LoginTypeOK
  BY DEF FiniteTypeOK
<1> QED
  BY <1>1, FiniteTypeInit, FiniteTypeStep, PTL DEF LoginSpec

-----------------------------------------------------------------------------
(* The budget *)

\* The failures the limiter counts are rows of the table.
Counted(b) == {row \in rows : row.bucket = b /\ row.at + Window > now}

LEMMA CountedFinite ==
    ASSUME IsFiniteSet(rows), NEW b
    PROVE  /\ IsFiniteSet(Counted(b))
           /\ Cardinality(Counted(b)) \in Nat
           /\ WindowFailures(b) = Cardinality(Counted(b))
<1>1. Counted(b) \in SUBSET rows
  BY DEF Counted
<1> QED
  BY <1>1, FS_Subset, FS_CardinalityType DEF Counted, WindowFailures

LEMMA PassedFinite ==
    ASSUME NEW b
    PROVE  /\ IsFiniteSet(Passed(b))
           /\ Cardinality(Passed(b)) \in Nat
           /\ Cardinality(Client) \in Nat
           /\ Cardinality(Passed(b)) <= Cardinality(Client)
<1>1. Passed(b) \in SUBSET Client
  BY DEF Passed
<1> QED
  BY <1>1, LoginAssumption, FS_Subset, FS_CardinalityType

\* What lets no more failures count and no more attempts pass keeps the budget.
LEMMA BudgetKept ==
    ASSUME FiniteTypeOK, FiniteTypeOK', NEW b \in Bucket, FailuresWithinBudget,
           Counted(b)' \subseteq Counted(b), Passed(b)' \subseteq Passed(b)
    PROVE  WindowFailures(b)' + Cardinality(Passed(b)') <= (Threshold - 1) + Cardinality(Client)
<1> USE DEF FiniteTypeOK
<1>1. /\ Cardinality(Counted(b)') \in Nat
      /\ Cardinality(Counted(b)') <= Cardinality(Counted(b))
      /\ Cardinality(Counted(b)) \in Nat
  BY CountedFinite, FS_Subset, FS_CardinalityType
<1>2. /\ Cardinality(Passed(b)') \in Nat
      /\ Cardinality(Passed(b)') <= Cardinality(Passed(b))
      /\ Cardinality(Passed(b)) \in Nat /\ Cardinality(Client) \in Nat
  BY PassedFinite, FS_Subset, FS_CardinalityType
<1>3. WindowFailures(b) = Cardinality(Counted(b)) /\ WindowFailures(b)' = Cardinality(Counted(b)')
  BY CountedFinite DEF Counted, WindowFailures
<1>4. Cardinality(Counted(b)) + Cardinality(Passed(b)) <= (Threshold - 1) + Cardinality(Client)
  BY <1>3 DEF FailuresWithinBudget
<1> QED
  BY <1>1, <1>2, <1>3, <1>4, LoginAssumption
\* An attempt that is let through finds the count below the threshold.
LEMMA LetThroughKeeps ==
    ASSUME FiniteTypeOK, FiniteTypeOK', NEW c \in Client, NEW b \in Bucket,
           b = input[c].bucket, ~Blocked(c), UNCHANGED <<rows, now>>
    PROVE  WindowFailures(b)' + Cardinality(Passed(b)') <= (Threshold - 1) + Cardinality(Client)
<1> USE DEF FiniteTypeOK
<1>1. WindowFailures(b)' = WindowFailures(b)
  BY DEF WindowFailures
<1>2. WindowFailures(b) \in Nat
  BY CountedFinite
<1>3. WindowFailures(b) <= Threshold - 1
  BY <1>2, LoginAssumption DEF Blocked
<1>4. /\ Cardinality(Passed(b)') \in Nat /\ Cardinality(Client) \in Nat
      /\ Cardinality(Passed(b)') <= Cardinality(Client)
  <2>1. Passed(b)' \in SUBSET Client
    BY DEF Passed
  <2> QED
    BY <2>1, LoginAssumption, FS_Subset, FS_CardinalityType
<1> QED
  BY <1>1, <1>2, <1>3, <1>4, LoginAssumption

\* A failure counts from the moment its attempt no longer passes.
LEMMA RecordKeeps ==
    ASSUME FiniteTypeOK, FiniteTypeOK', NEW c \in Client, NEW b \in Bucket,
           b = input[c].bucket, FailuresWithinBudget, RecordFailure(c)
    PROVE  WindowFailures(b)' + Cardinality(Passed(b)') <= (Threshold - 1) + Cardinality(Client)
<1> USE DEF FiniteTypeOK
<1>1. PICK row : rows' = rows \cup {row}
  BY DEF RecordFailure
<1>2. /\ Cardinality(Counted(b)') \in Nat
      /\ Cardinality(Counted(b)') <= Cardinality(Counted(b)) + 1
      /\ Cardinality(Counted(b)) \in Nat
  <2>1. /\ IsFiniteSet(Counted(b)) /\ Cardinality(Counted(b)) \in Nat
    BY CountedFinite
  <2>2. /\ IsFiniteSet(Counted(b) \cup {row})
        /\ Cardinality(Counted(b) \cup {row}) \in Nat
        /\ Cardinality(Counted(b) \cup {row}) <= Cardinality(Counted(b)) + 1
    <3>1. /\ IsFiniteSet(Counted(b) \cup {row})
          /\ Cardinality(Counted(b) \cup {row}) =
                IF row \in Counted(b) THEN Cardinality(Counted(b)) ELSE Cardinality(Counted(b)) + 1
      BY <2>1, FS_AddElement
    <3> HIDE DEF Counted
    <3> QED
      BY <2>1, <3>1
  <2>3. Counted(b)' \in SUBSET (Counted(b) \cup {row})
    BY <1>1 DEF Counted, RecordFailure
  <2>4. IsFiniteSet(Counted(b)') /\ Cardinality(Counted(b)') <= Cardinality(Counted(b) \cup {row})
    BY <2>2, <2>3, FS_Subset
  <2>5. Cardinality(Counted(b)') \in Nat
    BY <2>4, FS_CardinalityType
  <2> QED
    BY <2>1, <2>2, <2>4, <2>5
<1>3. /\ Cardinality(Passed(b)') \in Nat
      /\ Cardinality(Passed(b)') <= Cardinality(Passed(b)) - 1
      /\ Cardinality(Passed(b)) \in Nat /\ Cardinality(Client) \in Nat
  <2>1. /\ IsFiniteSet(Passed(b)) /\ Cardinality(Passed(b)) \in Nat
        /\ Cardinality(Client) \in Nat
    BY PassedFinite
  <2>2. c \in Passed(b)
    BY DEF RecordFailure, Passed
  <2>3. /\ IsFiniteSet(Passed(b) \ {c})
        /\ Cardinality(Passed(b) \ {c}) = Cardinality(Passed(b)) - 1
    BY <2>1, <2>2, FS_RemoveElement
  <2>4. Passed(b)' \in SUBSET (Passed(b) \ {c})
    BY DEF RecordFailure, Passed, Advance, LoginTypeOK
  <2> QED
    BY <2>1, <2>3, <2>4, FS_Subset, FS_CardinalityType
<1>4. WindowFailures(b) = Cardinality(Counted(b)) /\ WindowFailures(b)' = Cardinality(Counted(b)')
  BY CountedFinite DEF Counted, WindowFailures
<1>5. Cardinality(Counted(b)) + Cardinality(Passed(b)) <= (Threshold - 1) + Cardinality(Client)
  BY <1>4 DEF FailuresWithinBudget
<1> QED
  BY <1>2, <1>3, <1>4, <1>5, LoginAssumption

LEMMA BudgetStep ==
    FiniteTypeOK /\ FailuresWithinBudget /\ [LoginNext]_loginVars => FailuresWithinBudget'
<1> SUFFICES ASSUME FiniteTypeOK, FailuresWithinBudget, [LoginNext]_loginVars,
                    NEW b \in Bucket
             PROVE  WindowFailures(b)' + Cardinality(Passed(b)')
                        <= (Threshold - 1) + Cardinality(Client)
  BY DEF FailuresWithinBudget
<1>0. FiniteTypeOK'
  BY FiniteTypeStep
<1> DEFINE Kept == Counted(b)' \subseteq Counted(b) /\ Passed(b)' \subseteq Passed(b)
           Budget == WindowFailures(b)' + Cardinality(Passed(b)')
                        <= (Threshold - 1) + Cardinality(Client)
<1>1. ASSUME NEW c \in Client, LoginArrive(c) PROVE Kept
  BY <1>1 DEF LoginArrive, Advance, Counted, Passed, FiniteTypeOK, LoginTypeOK
<1>2. ASSUME NEW c \in Client, CheckLimit(c), b # input[c].bucket PROVE Kept
  BY <1>2 DEF CheckLimit, Reply, Advance, Counted, Passed, FiniteTypeOK, LoginTypeOK
<1>3. ASSUME NEW c \in Client, CheckLimit(c), b = input[c].bucket, Blocked(c) PROVE Kept
  BY <1>3 DEF CheckLimit, Reply, Advance, Counted, Passed, FiniteTypeOK, LoginTypeOK
<1>4. ASSUME NEW c \in Client, CheckLimit(c), b = input[c].bucket, ~Blocked(c) PROVE Budget
  BY <1>0, <1>4, LetThroughKeeps DEF CheckLimit
<1>5. ASSUME NEW c \in Client, FindUser(c) PROVE Kept
  BY <1>5 DEF FindUser, Advance, Counted, Passed, FiniteTypeOK, LoginTypeOK
<1>6. ASSUME NEW c \in Client, ComparePassword(c) PROVE Kept
  BY <1>6 DEF ComparePassword, Advance, Counted, Passed, FiniteTypeOK, LoginTypeOK
<1>7. ASSUME NEW c \in Client, RecordFailure(c), b # input[c].bucket PROVE Kept
  BY <1>7 DEF RecordFailure, Advance, Counted, Passed, FiniteTypeOK, LoginTypeOK
<1>8. ASSUME NEW c \in Client, RecordFailure(c), b = input[c].bucket PROVE Budget
  BY <1>0, <1>8, RecordKeeps
<1>9. ASSUME NEW c \in Client, Recount(c) PROVE Kept
  BY <1>9 DEF Recount, Reply, Advance, Counted, Passed, FiniteTypeOK, LoginTypeOK
<1>10. ASSUME NEW c \in Client, ResetFailures(c) PROVE Kept
  BY <1>10 DEF ResetFailures, Advance, Counted, Passed, FiniteTypeOK, LoginTypeOK
<1>11. ASSUME NEW c \in Client, IssueToken(c) PROVE Kept
  BY <1>11 DEF IssueToken, Reply, Advance, Counted, Passed, FiniteTypeOK, LoginTypeOK
<1>12. ASSUME NEW c \in Client, AttemptFails(c) PROVE Kept
  BY <1>12 DEF AttemptFails, Reply, Advance, Counted, Passed, FiniteTypeOK, LoginTypeOK
<1>13. ASSUME RotatePassword PROVE Budget
  <2>1. Kept
    BY <1>13 DEF RotatePassword, Counted, Passed
  <2> QED
    BY <1>0, <2>1, BudgetKept
<1>14. ASSUME ClockTicks PROVE Budget
  <2>1. \A row \in rows : row.at \in Nat
    BY DEF FiniteTypeOK, LoginTypeOK, AttemptRow
  <2>2. Kept
    BY <1>14, <2>1, LoginAssumption DEF ClockTicks, Counted, Passed, FiniteTypeOK, LoginTypeOK
  <2> QED
    BY <1>0, <2>2, BudgetKept
<1>15. ASSUME UNCHANGED loginVars PROVE Budget
  <2>1. Kept
    BY <1>15 DEF loginVars, Counted, Passed
  <2> QED
    BY <1>0, <2>1, BudgetKept
<1>16. Kept => Budget
  BY <1>0, BudgetKept
<1> HIDE DEF Kept, Budget
<1>17. Budget
  BY <1>1, <1>2, <1>3, <1>4, <1>5, <1>6, <1>7, <1>8, <1>9, <1>10, <1>11, <1>12,
     <1>13, <1>14, <1>15, <1>16 DEF LoginNext, ServeLogin
<1> QED
  BY <1>17 DEF Budget

\* However many attempts race past the check, the failures of a bucket inside
\* one window stay below the threshold plus the number of callers (login.ts:79).
THEOREM BudgetHolds == LoginSpec => []FailuresWithinBudget
<1>1. LoginInit => FailuresWithinBudget
  <2> SUFFICES ASSUME LoginInit, NEW b \in Bucket
               PROVE  WindowFailures(b) + Cardinality(Passed(b)) <= (Threshold - 1) + Cardinality(Client)
    BY DEF FailuresWithinBudget
  <2>1. {row \in rows : row.bucket = b /\ row.at + Window > now} = {}
    BY DEF LoginInit
  <2>2. WindowFailures(b) = 0
    BY <2>1, FS_EmptySet DEF WindowFailures
  <2>3. Passed(b) = {}
    BY DEF LoginInit, Passed
  <2>4. Cardinality(Client) \in Nat
    BY LoginAssumption, FS_CardinalityType
  <2> QED
    BY <2>2, <2>3, <2>4, FS_EmptySet, LoginAssumption
<1> QED
  BY <1>1, FiniteTypeInit, FiniteTypeStep, BudgetStep, PTL DEF LoginSpec

-----------------------------------------------------------------------------
(* The hint *)

\* No failure is dated in the future, and once a refusal has said until when to
\* wait, no failure of the bucket is younger than that.
HintInv ==
    /\ \A row \in rows : row.at <= now
    /\ \A b \in Bucket : \A row \in rows :
            told[b] # 0 /\ row.bucket = b => row.at + Window <= told[b]

LEMMA HintStep == FiniteTypeOK /\ HintInv /\ [LoginNext]_loginVars => HintInv'
<1> SUFFICES ASSUME FiniteTypeOK, HintInv, [LoginNext]_loginVars PROVE HintInv'
  OBVIOUS
<1>0. /\ now \in Nat /\ Window \in Nat /\ told \in [Bucket -> Nat]
      /\ \A row \in rows : row.at \in Nat /\ row.bucket \in Bucket
      /\ \A c \in Client : input[c].bucket \in Bucket
  BY LoginAssumption DEF FiniteTypeOK, LoginTypeOK, AttemptRow, LoginInput
<1> DEFINE Quiet == rows' \subseteq rows /\ now' = now /\ told' = told
<1>1. Quiet => HintInv'
  BY DEF HintInv
<1>2. ASSUME NEW c \in Client, CheckLimit(c) PROVE HintInv'
  <2>1. CASE Blocked(c)
    <3>1. /\ UNCHANGED <<rows, now>>
          /\ told' = [told EXCEPT ![input[c].bucket] = now + Window] \/ told' = told
      BY <1>2 DEF CheckLimit
    <3>2. ASSUME NEW b \in Bucket, NEW row \in rows, told'[b] # 0, row.bucket = b
          PROVE  row.at + Window <= told'[b]
      BY <1>0, <3>1, <3>2 DEF HintInv
    <3> QED
      BY <3>1, <3>2 DEF HintInv
  <2>2. CASE ~Blocked(c)
    BY <1>1, <1>2, <2>2 DEF CheckLimit
  <2> QED
    BY <2>1, <2>2
<1>3. ASSUME NEW c \in Client, RecordFailure(c) PROVE HintInv'
  <2> DEFINE row == [bucket |-> input[c].bucket, at |-> now,
                     id |-> Cardinality({r \in rows : r.bucket = input[c].bucket})]
  <2>1. /\ rows' = rows \cup {row}
        /\ row.at = now /\ row.bucket = input[c].bucket
    BY <1>3 DEF RecordFailure
  <2> HIDE DEF row
  <2>2. told' = [told EXCEPT ![input[c].bucket] = 0] /\ now' = now
    BY <1>3 DEF RecordFailure
  <2>3. ASSUME NEW b \in Bucket, NEW r \in rows', told'[b] # 0, r.bucket = b
        PROVE  r.at + Window <= told'[b]
    <3>1. b # input[c].bucket
      BY <1>0, <2>2, <2>3
    <3>2. r \in rows /\ told'[b] = told[b]
      BY <1>0, <2>1, <2>2, <2>3, <3>1
    <3> QED
      BY <2>3, <3>2 DEF HintInv
  <2>4. \A r \in rows' : r.at <= now'
    BY <1>0, <2>1, <2>2 DEF HintInv
  <2> QED
    BY <2>3, <2>4 DEF HintInv
<1>4. CASE ClockTicks
  BY <1>0, <1>4 DEF ClockTicks, HintInv
<1>5. ASSUME NEW c \in Client,
             \/ LoginArrive(c) \/ FindUser(c) \/ ComparePassword(c) \/ Recount(c)
             \/ ResetFailures(c) \/ IssueToken(c) \/ AttemptFails(c)
      PROVE  Quiet
  BY <1>5 DEF LoginArrive, FindUser, ComparePassword, Recount, ResetFailures, IssueToken,
              AttemptFails
<1>6. RotatePassword \/ UNCHANGED loginVars => Quiet
  BY DEF RotatePassword, loginVars
<1> QED
  BY <1>1, <1>2, <1>3, <1>4, <1>5, <1>6 DEF LoginNext, ServeLogin

\* Who waits as long as the last refusal said is let through, unless an attempt
\* of the bucket has failed since (login.ts:82, retryAfterSeconds).
THEOREM HintHolds == LoginSpec => []HintIsEnough
<1>1. LoginInit => HintInv
  BY DEF LoginInit, HintInv
<1>2. FiniteTypeOK /\ HintInv => HintIsEnough
  <2> SUFFICES ASSUME FiniteTypeOK, HintInv, NEW b \in Bucket, told[b] # 0, now >= told[b]
               PROVE  WindowFailures(b) < Threshold
    BY DEF HintIsEnough
  <2>1. /\ now \in Nat /\ Window \in Nat /\ told[b] \in Nat
        /\ \A row \in rows : row.at \in Nat
    BY LoginAssumption DEF FiniteTypeOK, LoginTypeOK, AttemptRow
  <2>2. {row \in rows : row.bucket = b /\ row.at + Window > now} = {}
    BY <2>1 DEF HintInv
  <2>3. WindowFailures(b) = 0
    BY <2>2, FS_EmptySet DEF WindowFailures
  <2> QED
    BY <2>3, LoginAssumption
<1> QED
  BY <1>1, <1>2, FiniteTypeInit, FiniteTypeStep, HintStep, PTL DEF LoginSpec

-----------------------------------------------------------------------------
(* The token *)

\* What an attempt has read, and what it was let through on, was the user's
\* password while it ran.
TokenInv ==
    \A c \in Client :
        /\ step[c] # "idle" => users[input[c].username] \in held[c]
        /\ step[c] = "compare" => read[c] \in held[c]
        /\ step[c] \in {"reset", "issue"} => input[c].password \in held[c]

LEMMA TokenStep == FiniteTypeOK /\ TokenInv /\ [LoginNext]_loginVars => TokenInv'
<1> SUFFICES ASSUME FiniteTypeOK, TokenInv, [LoginNext]_loginVars PROVE TokenInv'
  OBVIOUS
<1> USE DEF TokenInv
<1>0. /\ step \in [Client -> Steps] /\ input \in [Client -> LoginInput]
      /\ read \in [Client -> Password \cup {NoUser}]
      /\ held \in [Client -> SUBSET (Password \cup {NoUser})]
      /\ users \in [Username -> Password \cup {NoUser}]
      /\ \A c \in Client : input[c].username \in Username
  BY DEF FiniteTypeOK, LoginTypeOK, LoginInput
<1>1. ASSUME NEW c \in Client, LoginArrive(c) PROVE TokenInv'
  BY <1>0, <1>1 DEF LoginArrive, Advance
<1>2. ASSUME NEW c \in Client, NEW a, Reply(c, a), UNCHANGED users PROVE TokenInv'
  BY <1>0, <1>2 DEF Reply, Advance
<1>3. ASSUME NEW c \in Client, CheckLimit(c) PROVE TokenInv'
  BY <1>0, <1>2, <1>3 DEF CheckLimit, Advance
<1>4. ASSUME NEW c \in Client, FindUser(c) PROVE TokenInv'
  BY <1>0, <1>4 DEF FindUser, Advance
<1>5. ASSUME NEW c \in Client, ComparePassword(c) PROVE TokenInv'
  BY <1>0, <1>5 DEF ComparePassword, Advance
<1>6. ASSUME NEW c \in Client, RecordFailure(c) PROVE TokenInv'
  BY <1>0, <1>6 DEF RecordFailure, Advance
<1>7. ASSUME NEW c \in Client, ResetFailures(c) PROVE TokenInv'
  BY <1>0, <1>7 DEF ResetFailures, Advance
<1>8. ASSUME NEW c \in Client, Recount(c) \/ IssueToken(c) \/ AttemptFails(c) PROVE TokenInv'
  BY <1>2, <1>8 DEF Recount, IssueToken, AttemptFails
<1>9. CASE RotatePassword
  <2>1. PICK u \in Username, p \in Password :
            /\ users' = [users EXCEPT ![u] = p]
            /\ held' = [c \in Client |-> IF step[c] # "idle" /\ input[c].username = u
                                         THEN held[c] \cup {p} ELSE held[c]]
    BY <1>9 DEF RotatePassword
  <2>2. UNCHANGED <<step, input, read>>
    BY <1>9 DEF RotatePassword
  <2> QED
    BY <1>0, <2>1, <2>2
<1>10. CASE ClockTicks \/ UNCHANGED loginVars
  BY <1>10 DEF ClockTicks, loginVars
<1> QED
  BY <1>1, <1>3, <1>4, <1>5, <1>6, <1>7, <1>8, <1>9, <1>10 DEF LoginNext, ServeLogin

\* A token answers only a password that was the user's at some moment of the
\* attempt (login.ts:96, beside rotate-admin-password.ts).
THEOREM TokenIsDeserved == LoginSpec => TokenForTheRightPassword
<1>1. LoginInit => TokenInv
  BY DEF LoginInit, TokenInv
<1>2. TokenInv /\ [LoginNext]_loginVars
        => [\A c \in Client : step[c] = "issue" /\ reply' = [to |-> c, is |-> "token"]
                => input[c].password \in held[c]]_loginVars
  BY DEF TokenInv
<1> QED
  BY <1>1, <1>2, FiniteTypeInit, FiniteTypeStep, TokenStep, PTL
     DEF LoginSpec, TokenForTheRightPassword

-----------------------------------------------------------------------------
(* Session: types *)

\* Restoring yields what was stored or nothing.
LEMMA RestoredType == SessionTypeOK => Restored \in {storage, NoToken}
  BY DEF Restored

LEMMA IssueType == SessionTypeOK => Issue \in Token
  BY SessionAssumption DEF SessionTypeOK, Issue, Token

\* Logging out empties the tab and the storage, and remembers what it ended.
LEMMA ClearSessionType ==
    ASSUME SessionTypeOK, NEW t \in Tab, ClearSession(t)
    PROVE  /\ memory' \in [Tab -> Token \cup {NoToken}]
           /\ storage' \in Token \cup {NoToken}
           /\ ended' \subseteq Tab \X Token
  BY DEF SessionTypeOK, ClearSession

\* A call keeps its type whatever its answer.
LEMMA AnswerType ==
    ASSUME NEW c \in Call, NEW s \in Status
    PROVE  [c EXCEPT !.status = s] \in Call
  BY DEF Call

LEMMA SessionTypeStep == SessionTypeOK /\ [SessionNext]_sessionVars => SessionTypeOK'
<1> SUFFICES ASSUME SessionTypeOK, [SessionNext]_sessionVars PROVE SessionTypeOK'
  OBVIOUS
<1> USE DEF SessionTypeOK
<1>0. /\ \A c \in calls : c \in Call /\ c.tab \in Tab
      /\ {"sent", "ok", "unauthorized", "malformed", "failed"} = Status
      /\ {"login", "dashboard", "/", "/login", "/productos"} = Pages
  BY DEF Call, Status, Pages, Addresses
<1>1. ASSUME NEW c \in calls, ServeApi(c) PROVE SessionTypeOK'
  BY <1>0, <1>1, AnswerType DEF ServeApi
<1>2. ASSUME NEW c \in calls, ServeLoginCall(c) PROVE SessionTypeOK'
  <2>1. [c EXCEPT !.status = "ok", !.grant = Issue] \in Call
    BY <1>0, IssueType DEF Call
  <2>2. \A s \in {"unauthorized", "malformed"} : [c EXCEPT !.status = s] \in Call
    BY <1>0, AnswerType
  <2> QED
    BY <1>2, <2>1, <2>2 DEF ServeLoginCall
<1>3. ASSUME NEW c \in calls, CallFails(c) PROVE SessionTypeOK'
  BY <1>0, <1>3, AnswerType DEF CallFails
<1>4. ASSUME NEW t \in Tab, Boot(t) PROVE SessionTypeOK'
  <2>1. \A tok : Guard(tok) \in Pages /\ RootRedirect(tok) \in Pages
    BY <1>0 DEF Guard, RootRedirect
  <2>2. Restored \in Token \cup {NoToken}
    BY RestoredType
  <2>3. page' \in [Tab -> Pages]
    BY <1>0, <1>4, <2>1 DEF Boot, Addresses
  <2> QED
    BY <1>4, <2>2, <2>3 DEF Boot
<1>5. ASSUME NEW t \in Tab, Reload(t) PROVE SessionTypeOK'
  BY <1>0, <1>5 DEF Reload, Addresses
<1>6. ASSUME NEW t \in Tab, Browse(t) PROVE SessionTypeOK'
  BY <1>0, <1>6 DEF Browse, Guard
<1>7. ASSUME NEW t \in Tab, NEW kind \in {"login", "api"}, Send(t, kind) PROVE SessionTypeOK'
  <2>1. [tab |-> t, kind |-> kind, bearer |-> memory[t], status |-> "sent",
         grant |-> NoToken] \in Call
    BY <1>0 DEF Call
  <2> QED
    BY <1>7, <2>1 DEF Send
<1>8. ASSUME NEW c \in calls, LoginAnswered(c) PROVE SessionTypeOK'
  <2>1. c.tab \in Tab /\ c.grant \in Token \cup {NoToken}
    BY <1>0 DEF Call
  <2> QED
    BY <1>0, <1>8, <2>1 DEF LoginAnswered, Guard
<1>9. ASSUME NEW c \in calls, LoginMalformed(c) PROVE SessionTypeOK'
  BY <1>0, <1>9, ClearSessionType DEF LoginMalformed
<1>10. ASSUME NEW c \in calls, SessionRefused(c) PROVE SessionTypeOK'
  BY <1>0, <1>10, ClearSessionType DEF SessionRefused
<1>11. ASSUME NEW c \in calls, OtherAnswer(c) PROVE SessionTypeOK'
  BY <1>11 DEF OtherAnswer
<1>12. ASSUME NEW t \in Tab, Logout(t) PROVE SessionTypeOK'
  BY <1>0, <1>12, ClearSessionType DEF Logout
<1>13. CASE RotateSecret \/ DropPrevious \/ SecondPasses \/ UNCHANGED sessionVars
  BY <1>13 DEF RotateSecret, DropPrevious, SecondPasses, sessionVars
<1> QED
  BY <1>1, <1>2, <1>3, <1>4, <1>5, <1>6, <1>7, <1>8, <1>9, <1>10, <1>11, <1>12, <1>13
     DEF SessionNext

\* The variables of the session always have their types (auth.ts:38).
THEOREM SessionTypeCorrect == SessionSpec => []SessionTypeOK
<1>1. SessionInit => SessionTypeOK
  BY DEF SessionInit, SessionTypeOK, Pages
<1> QED
  BY <1>1, SessionTypeStep, PTL DEF SessionSpec

-----------------------------------------------------------------------------
(* What is in flight *)

\* A grant travels with an answered login only; a tab that is loading has no
\* session and no call.
FlightInv ==
    /\ \A c \in calls : /\ c.status = "sent" => c.grant = NoToken
                        /\ c.kind = "login" /\ c.status = "ok" => c.grant # NoToken
    /\ \A t \in Tab : page[t] \in Addresses =>
            memory[t] = NoToken /\ \A c \in calls : c.tab # t

\* A call that gets another answer than a grant keeps what it carried.
LEMMA AnswerFields ==
    ASSUME NEW c \in Call, NEW s \in Status
    PROVE  LET d == [c EXCEPT !.status = s]
           IN  /\ d.tab = c.tab /\ d.kind = c.kind /\ d.bearer = c.bearer
               /\ d.status = s /\ d.grant = c.grant
  BY DEF Call

LEMMA FlightStep ==
    SessionTypeOK /\ FlightInv /\ [SessionNext]_sessionVars => FlightInv'
<1> SUFFICES ASSUME SessionTypeOK, FlightInv, [SessionNext]_sessionVars PROVE FlightInv'
  OBVIOUS
<1> USE DEF FlightInv
<1>0. /\ \A c \in calls : c \in Call /\ c.tab \in Tab
      /\ {"sent", "ok", "unauthorized", "malformed", "failed"} = Status
      /\ memory \in [Tab -> Token \cup {NoToken}] /\ page \in [Tab -> Pages]
      /\ NoToken \notin Token
      /\ "login" \notin Addresses /\ "dashboard" \notin Addresses
  BY SessionAssumption DEF SessionTypeOK, Call, Status, Addresses, Token
<1>1. ASSUME NEW c \in calls, NEW s \in Status \ {"sent"}, ~(c.kind = "login" /\ s = "ok"),
             c.status = "sent", calls' = (calls \ {c}) \cup {[c EXCEPT !.status = s]},
             UNCHANGED <<memory, page>>
      PROVE  FlightInv'
  <2> DEFINE d == [c EXCEPT !.status = s]
  <2>1. d.tab = c.tab /\ d.kind = c.kind /\ d.status = s
    BY <1>0, <1>1, AnswerFields
  <2>2. calls' = (calls \ {c}) \cup {d}
    BY <1>1
  <2> HIDE DEF d
  <2> QED
    BY <1>1, <2>1, <2>2
<1>2. ASSUME NEW c \in calls, ServeApi(c) PROVE FlightInv'
  BY <1>0, <1>1, <1>2 DEF ServeApi
<1>3. ASSUME NEW c \in calls, ServeLoginCall(c) PROVE FlightInv'
  <2>1. CASE calls' = (calls \ {c}) \cup {[c EXCEPT !.status = "ok", !.grant = Issue]}
    <3> DEFINE d == [c EXCEPT !.status = "ok", !.grant = Issue]
    <3>1. d.tab = c.tab /\ d.kind = "login" /\ d.status = "ok" /\ d.grant = Issue
      BY <1>0, <1>3 DEF Call, ServeLoginCall
    <3>2. Issue # NoToken
      BY <1>0, IssueType
    <3>3. calls' = (calls \ {c}) \cup {d} /\ UNCHANGED <<memory, page>>
      BY <1>3, <2>1 DEF ServeLoginCall
    <3> HIDE DEF d
    <3> QED
      BY <3>1, <3>2, <3>3
  <2>2. CASE \E s \in {"unauthorized", "malformed"} :
                calls' = (calls \ {c}) \cup {[c EXCEPT !.status = s]}
    BY <1>0, <1>1, <1>3, <2>2 DEF ServeLoginCall
  <2> QED
    BY <1>3, <2>1, <2>2 DEF ServeLoginCall
<1>4. ASSUME NEW c \in calls, CallFails(c) PROVE FlightInv'
  BY <1>0, <1>1, <1>4 DEF CallFails
<1>5. ASSUME NEW t \in Tab, Boot(t) PROVE FlightInv'
  <2>1. \A tok : Guard(tok) \notin Addresses /\ RootRedirect(tok) \notin Addresses
    BY <1>0 DEF Guard, RootRedirect
  <2>2. page'[t] \notin Addresses
    BY <1>0, <1>5, <2>1 DEF Boot, Addresses
  <2> QED
    BY <1>0, <1>5, <2>2 DEF Boot
<1>6. ASSUME NEW t \in Tab, Reload(t) PROVE FlightInv'
  BY <1>0, <1>6 DEF Reload
<1>7. ASSUME NEW t \in Tab, Browse(t) PROVE FlightInv'
  BY <1>0, <1>7 DEF Browse, Guard
<1>8. ASSUME NEW t \in Tab, NEW kind \in {"login", "api"}, Send(t, kind) PROVE FlightInv'
  BY <1>0, <1>8 DEF Send
<1>9. ASSUME NEW c \in calls, LoginAnswered(c) PROVE FlightInv'
  BY <1>0, <1>9 DEF LoginAnswered, Guard
<1>10. ASSUME NEW c \in calls, LoginMalformed(c) PROVE FlightInv'
  BY <1>0, <1>10 DEF LoginMalformed, ClearSession
<1>11. ASSUME NEW c \in calls, SessionRefused(c) PROVE FlightInv'
  BY <1>0, <1>11 DEF SessionRefused, ClearSession
<1>12. ASSUME NEW c \in calls, OtherAnswer(c) PROVE FlightInv'
  BY <1>12 DEF OtherAnswer
<1>13. ASSUME NEW t \in Tab, Logout(t) PROVE FlightInv'
  BY <1>0, <1>13 DEF Logout, ClearSession
<1>14. CASE RotateSecret \/ DropPrevious \/ SecondPasses \/ UNCHANGED sessionVars
  BY <1>14 DEF RotateSecret, DropPrevious, SecondPasses, sessionVars
<1> QED
  BY <1>2, <1>3, <1>4, <1>5, <1>6, <1>7, <1>8, <1>9, <1>10, <1>11, <1>12, <1>13, <1>14
     DEF SessionNext

LEMMA FlightInit == SessionInit => FlightInv
  BY DEF SessionInit, FlightInv

\* A tab loses its session only by its own logout, reload, 401 or unreadable
\* login (http.ts:64, auth.ts:90).
THEOREM LossHasAReason == SessionSpec => SessionLostForAReason
<1>1. SessionTypeOK /\ FlightInv /\ [SessionNext]_sessionVars
        => [\A t \in Tab : memory[t] # NoToken /\ memory'[t] = NoToken
              => \/ page[t] = "dashboard" /\ page'[t] = "login"
                 \/ page'[t] \in Addresses /\ storage' = storage
                 \/ \E c \in calls \ calls' : c.tab = t /\ c.status \in {"unauthorized", "malformed"}
           ]_sessionVars
  <2> SUFFICES ASSUME SessionTypeOK, FlightInv, SessionNext, NEW t \in Tab,
                      memory[t] # NoToken, memory'[t] = NoToken
               PROVE  \/ page[t] = "dashboard" /\ page'[t] = "login"
                      \/ page'[t] \in Addresses /\ storage' = storage
                      \/ \E c \in calls \ calls' : /\ c.tab = t
                                                  /\ c.status \in {"unauthorized", "malformed"}
    BY DEF sessionVars
  <2>0. memory \in [Tab -> Token \cup {NoToken}] /\ page \in [Tab -> Pages]
    BY DEF SessionTypeOK
  <2>1. ASSUME NEW u \in Tab, Boot(u) PROVE FALSE
    BY <2>0, <2>1 DEF Boot, FlightInv
  <2>2. ASSUME NEW u \in Tab, Reload(u) PROVE page'[t] \in Addresses /\ storage' = storage
    BY <2>0, <2>2 DEF Reload
  <2>3. ASSUME NEW u \in Tab, Logout(u) PROVE page[t] = "dashboard" /\ page'[t] = "login"
    BY <2>0, <2>3 DEF Logout, ClearSession
  <2>4. ASSUME NEW c \in calls, LoginAnswered(c) PROVE FALSE
    BY <2>0, <2>4 DEF LoginAnswered, FlightInv
  <2>5. ASSUME NEW c \in calls, LoginMalformed(c) \/ SessionRefused(c)
        PROVE  c \notin calls' /\ c.tab = t /\ c.status \in {"unauthorized", "malformed"}
    BY <2>0, <2>5 DEF LoginMalformed, SessionRefused, ClearSession, Unauthorized
  <2>6. ASSUME UNCHANGED memory PROVE FALSE
    BY <2>6
  <2> QED
    BY <2>1, <2>2, <2>3, <2>4, <2>5, <2>6
       DEF SessionNext, ServeApi, ServeLoginCall, CallFails, OtherAnswer, Browse, Send,
           RotateSecret, DropPrevious, SecondPasses
<1> QED
  BY <1>1, FlightInit, FlightStep, SessionTypeCorrect, PTL DEF SessionSpec, SessionLostForAReason

-----------------------------------------------------------------------------
(* Sessions that have ended *)

\* A token the browser holds, or has held and ended.
Seen(tok) ==
    \/ tok = storage
    \/ \E t \in Tab : tok = memory[t] \/ <<t, tok>> \in ended

\* Grants in flight are tokens no tab has seen, each of one call; what is held
\* has not ended in any tab that could take it up again.
EndedInv ==
    /\ EndedSessionsStayEnded
    /\ storage # NoToken => \A t \in Tab : <<t, storage>> \notin ended
    /\ \A tok \in Token : Seen(tok) => tok.id < issued
    /\ \A c \in calls : c.grant # NoToken => ~Seen(c.grant) /\ c.grant.id < issued
    /\ \A c, d \in calls : c.grant # NoToken /\ c.grant = d.grant => c = d

\* Calls that end, and a tab that gives up what it holds, disturb nothing.
LEMMA EndedFewer ==
    ASSUME SessionTypeOK, EndedInv, calls' \subseteq calls, issued' = issued,
           NEW t \in Tab,
           \/ ClearSession(t)
           \/ memory' = [memory EXCEPT ![t] = NoToken] /\ UNCHANGED <<storage, ended>>
           \/ UNCHANGED <<memory, storage, ended>>
    PROVE  EndedInv'
<1>0. /\ memory \in [Tab -> Token \cup {NoToken}]
      /\ storage \in Token \cup {NoToken} /\ NoToken \notin Token
      /\ \A c \in calls : c.grant \in Token \cup {NoToken}
  BY SessionAssumption DEF SessionTypeOK, Call, Token
<1>1. \A tok \in Token : Seen(tok)' => Seen(tok)
  BY <1>0 DEF Seen, ClearSession
<1>2. EndedSessionsStayEnded'
  BY <1>0 DEF EndedInv, EndedSessionsStayEnded, ClearSession
<1>3. storage' # NoToken => \A u \in Tab : <<u, storage'>> \notin ended'
  BY <1>0 DEF EndedInv, ClearSession
<1> QED
  BY <1>0, <1>1, <1>2, <1>3 DEF EndedInv

\* An answer without a grant.
LEMMA EndedAnswer ==
    ASSUME SessionTypeOK, EndedInv, FlightInv, NEW c \in calls, c.status = "sent",
           NEW s \in Status, calls' = (calls \ {c}) \cup {[c EXCEPT !.status = s]},
           UNCHANGED <<issued, memory, storage, ended>>
    PROVE  EndedInv'
<1> DEFINE d == [c EXCEPT !.status = s]
<1>1. d.grant = NoToken
  BY AnswerFields DEF FlightInv, SessionTypeOK
<1>2. calls' = (calls \ {c}) \cup {d}
  OBVIOUS
<1> HIDE DEF d
<1> QED
  BY <1>1, <1>2 DEF EndedInv, EndedSessionsStayEnded, Seen

LEMMA EndedStep ==
    SessionTypeOK /\ FlightInv /\ EndedInv /\ [SessionNext]_sessionVars => EndedInv'
<1> SUFFICES ASSUME SessionTypeOK, FlightInv, EndedInv, [SessionNext]_sessionVars
             PROVE  EndedInv'
  OBVIOUS
<1>0. /\ memory \in [Tab -> Token \cup {NoToken}]
      /\ storage \in Token \cup {NoToken} /\ NoToken \notin Token
      /\ \A c \in calls : c \in Call /\ c.tab \in Tab /\ c.grant \in Token \cup {NoToken}
      /\ {"sent", "ok", "unauthorized", "malformed", "failed"} = Status
      /\ issued \in Nat
  BY SessionAssumption DEF SessionTypeOK, Call, Token, Status
<1>1. ASSUME NEW c \in calls, ServeApi(c) \/ CallFails(c) PROVE EndedInv'
  BY <1>0, <1>1, EndedAnswer DEF ServeApi, CallFails
<1>2. ASSUME NEW c \in calls, ServeLoginCall(c) PROVE EndedInv'
  <2>1. CASE \E s \in {"unauthorized", "malformed"} :
                calls' = (calls \ {c}) \cup {[c EXCEPT !.status = s]} /\ issued' = issued
    BY <1>0, <1>2, <2>1, EndedAnswer DEF ServeLoginCall
  <2>2. CASE /\ calls' = (calls \ {c}) \cup {[c EXCEPT !.status = "ok", !.grant = Issue]}
             /\ issued' = issued + 1
    <3> DEFINE d == [c EXCEPT !.status = "ok", !.grant = Issue]
    <3>1. d.grant = Issue /\ Issue \in Token /\ Issue.id = issued
      BY <1>0, IssueType DEF Call, Issue
    <3>2. calls' = (calls \ {c}) \cup {d} /\ UNCHANGED <<memory, storage, ended>>
      BY <1>2, <2>2 DEF ServeLoginCall
    <3> HIDE DEF d
    <3>3. \A tok : Seen(tok)' <=> Seen(tok)
      BY <3>2 DEF Seen
    <3>4. \A tok \in Token : tok.id < issued => tok.id < issued' /\ tok # Issue
      BY <1>0, <2>2, <3>1 DEF Token
    <3>5. ~Seen(Issue)
      BY <3>1, <3>4 DEF EndedInv
    <3>6. \A e \in calls : e.grant # NoToken => e.grant # Issue /\ ~Seen(e.grant) /\ e.grant.id < issued'
      BY <1>0, <3>4 DEF EndedInv
    <3>7. Issue.id < issued'
      BY <1>0, <2>2, <3>1
    <3> QED
      BY <1>0, <3>1, <3>2, <3>3, <3>4, <3>5, <3>6, <3>7 DEF EndedInv, EndedSessionsStayEnded
  <2> QED
    BY <1>2, <2>1, <2>2 DEF ServeLoginCall
<1>3. ASSUME NEW t \in Tab, Boot(t) PROVE EndedInv'
  <2>1. Restored \in {storage, NoToken}
    BY RestoredType
  <2>2. memory' = [memory EXCEPT ![t] = Restored] /\ storage' = Restored /\ UNCHANGED <<issued, calls, ended>>
    BY <1>3 DEF Boot
  <2>3. \A tok \in Token : Seen(tok)' => Seen(tok)
    BY <1>0, <2>1, <2>2 DEF Seen
  <2>4. EndedSessionsStayEnded'
    BY <1>0, <2>1, <2>2 DEF EndedInv, EndedSessionsStayEnded
  <2> QED
    BY <1>0, <2>1, <2>2, <2>3, <2>4 DEF EndedInv
<1>4. ASSUME NEW t \in Tab, Reload(t) PROVE EndedInv'
  <2>1. calls' \subseteq calls
    BY <1>4 DEF Reload
  <2> QED
    BY <1>4, <2>1, EndedFewer DEF Reload
<1>5. ASSUME NEW t \in Tab, NEW kind \in {"login", "api"}, Send(t, kind) PROVE EndedInv'
  <2> DEFINE d == [tab |-> t, kind |-> kind, bearer |-> memory[t], status |-> "sent",
                   grant |-> NoToken]
  <2>1. calls' = calls \cup {d} /\ d.grant = NoToken
    BY <1>5 DEF Send
  <2>2. UNCHANGED <<issued, memory, storage, ended>>
    BY <1>5 DEF Send
  <2> HIDE DEF d
  <2> QED
    BY <2>1, <2>2 DEF EndedInv, EndedSessionsStayEnded, Seen
<1>6. ASSUME NEW c \in calls, LoginAnswered(c) PROVE EndedInv'
  <2>1. c.grant \in Token /\ c.tab \in Tab
    BY <1>0, <1>6 DEF LoginAnswered, FlightInv
  <2>2. /\ memory' = [memory EXCEPT ![c.tab] = c.grant] /\ storage' = c.grant
        /\ calls' = calls \ {c} /\ UNCHANGED <<issued, ended>>
    BY <1>6 DEF LoginAnswered
  <2>3. \A tok \in Token : Seen(tok)' => Seen(tok) \/ tok = c.grant
    BY <1>0, <2>1, <2>2 DEF Seen
  <2>4. ~Seen(c.grant) /\ c.grant.id < issued
    BY <1>0, <2>1 DEF EndedInv
  <2>5. \A t \in Tab : <<t, c.grant>> \notin ended
    BY <2>4 DEF Seen
  <2>6. EndedSessionsStayEnded'
    BY <1>0, <2>1, <2>2, <2>5 DEF EndedInv, EndedSessionsStayEnded
  <2>7. \A d \in calls' : d.grant # NoToken => d.grant # c.grant
    BY <1>0, <2>1, <2>2 DEF EndedInv
  <2>8. \A d \in calls' : d.grant # NoToken => ~Seen(d.grant)' /\ d.grant.id < issued'
    BY <1>0, <2>2, <2>3, <2>7 DEF EndedInv
  <2> QED
    BY <1>0, <2>1, <2>2, <2>3, <2>4, <2>5, <2>6, <2>8 DEF EndedInv
<1>7. ASSUME NEW c \in calls, LoginMalformed(c) \/ SessionRefused(c) PROVE EndedInv'
  <2>1. calls' \subseteq calls /\ ClearSession(c.tab) /\ issued' = issued
    BY <1>7 DEF LoginMalformed, SessionRefused
  <2> QED
    BY <1>0, <2>1, EndedFewer
<1>8. ASSUME NEW c \in calls, OtherAnswer(c) PROVE EndedInv'
  <2>1. calls' \subseteq calls /\ UNCHANGED <<issued, memory, storage, ended>>
    BY <1>8 DEF OtherAnswer
  <2> QED
    BY <1>0, <2>1, EndedFewer
<1>9. ASSUME NEW t \in Tab, Logout(t) PROVE EndedInv'
  BY <1>9, EndedFewer DEF Logout
<1>10. ASSUME UNCHANGED <<issued, memory, storage, calls, ended>> PROVE EndedInv'
  BY <1>10 DEF EndedInv, EndedSessionsStayEnded, Seen
<1>11. ASSUME NEW t \in Tab, Browse(t) PROVE EndedInv'
  BY <1>10, <1>11 DEF Browse
<1>12. CASE RotateSecret \/ DropPrevious \/ SecondPasses \/ UNCHANGED sessionVars
  BY <1>10, <1>12 DEF RotateSecret, DropPrevious, SecondPasses, sessionVars
<1> QED
  BY <1>1, <1>2, <1>3, <1>4, <1>5, <1>6, <1>7, <1>8, <1>9, <1>11, <1>12 DEF SessionNext

\* A session that a tab has ended never comes back to it (auth.ts:50 and 90).
THEOREM EndedForGood == SessionSpec => []EndedSessionsStayEnded
<1>1. SessionInit => EndedInv
  BY SessionAssumption
     DEF SessionInit, EndedInv, EndedSessionsStayEnded, Seen, Token
<1>2. EndedInv => EndedSessionsStayEnded
  BY DEF EndedInv
<1> QED
  BY <1>1, <1>2, FlightInit, FlightStep, EndedStep, SessionTypeCorrect, PTL DEF SessionSpec

-----------------------------------------------------------------------------
(* Rotations *)

\* No token is signed with a secret that is still to come, and the previous
\* secret is the one before the current.
KeyInv ==
    /\ previous # NoSecret => previous = current - 1
    /\ \A c \in calls : /\ c.bearer # NoToken => c.bearer.key <= current
                        /\ c.grant # NoToken => c.grant.key <= current
    /\ \A t \in Tab : memory[t] # NoToken => memory[t].key <= current
    /\ storage # NoToken => storage.key <= current

LEMMA KeyStep == SessionTypeOK /\ KeyInv /\ [SessionNext]_sessionVars => KeyInv'
<1> SUFFICES ASSUME SessionTypeOK, KeyInv, [SessionNext]_sessionVars PROVE KeyInv'
  OBVIOUS
<1> USE DEF KeyInv
<1>0. /\ memory \in [Tab -> Token \cup {NoToken}]
      /\ storage \in Token \cup {NoToken} /\ NoToken \notin Token
      /\ \A c \in calls : /\ c \in Call /\ c.tab \in Tab
                          /\ c.bearer \in Token \cup {NoToken}
                          /\ c.grant \in Token \cup {NoToken}
      /\ {"sent", "ok", "unauthorized", "malformed", "failed"} = Status
      /\ current \in Nat /\ previous \in Nat \cup {NoSecret} /\ NoSecret \notin Nat
      /\ \A tok \in Token : tok.key \in Nat
  BY SessionAssumption DEF SessionTypeOK, Call, Token, Status
<1>1. ASSUME NEW c \in calls, NEW s \in Status,
             calls' = (calls \ {c}) \cup {[c EXCEPT !.status = s]},
             UNCHANGED <<current, previous, memory, storage>>
      PROVE  KeyInv'
  <2> DEFINE d == [c EXCEPT !.status = s]
  <2>1. d.bearer = c.bearer /\ d.grant = c.grant
    BY <1>0, <1>1, AnswerFields
  <2>2. calls' = (calls \ {c}) \cup {d}
    BY <1>1
  <2> HIDE DEF d
  <2> QED
    BY <1>1, <2>1, <2>2
<1>2. ASSUME NEW c \in calls, ServeApi(c) \/ CallFails(c) PROVE KeyInv'
  BY <1>0, <1>1, <1>2 DEF ServeApi, CallFails
<1>3. ASSUME NEW c \in calls, ServeLoginCall(c) PROVE KeyInv'
  <2>1. CASE \E s \in {"unauthorized", "malformed"} :
                calls' = (calls \ {c}) \cup {[c EXCEPT !.status = s]}
    BY <1>0, <1>1, <1>3, <2>1 DEF ServeLoginCall
  <2>2. CASE calls' = (calls \ {c}) \cup {[c EXCEPT !.status = "ok", !.grant = Issue]}
    <3> DEFINE d == [c EXCEPT !.status = "ok", !.grant = Issue]
    <3>1. d.grant = Issue /\ d.bearer = c.bearer /\ Issue.key = current
      BY <1>0 DEF Call, Issue
    <3>2. calls' = (calls \ {c}) \cup {d} /\ UNCHANGED <<current, previous, memory, storage>>
      BY <1>3, <2>2 DEF ServeLoginCall
    <3> HIDE DEF d
    <3> QED
      BY <1>0, <3>1, <3>2
  <2> QED
    BY <1>3, <2>1, <2>2 DEF ServeLoginCall
<1>4. ASSUME NEW t \in Tab, Boot(t) PROVE KeyInv'
  BY <1>0, <1>4, RestoredType DEF Boot
<1>5. ASSUME NEW t \in Tab, Reload(t) PROVE KeyInv'
  BY <1>0, <1>5 DEF Reload
<1>6. ASSUME NEW t \in Tab, NEW kind \in {"login", "api"}, Send(t, kind) PROVE KeyInv'
  <2> DEFINE d == [tab |-> t, kind |-> kind, bearer |-> memory[t], status |-> "sent",
                   grant |-> NoToken]
  <2>1. calls' = calls \cup {d} /\ d.grant = NoToken /\ d.bearer = memory[t]
    BY <1>6 DEF Send
  <2>2. UNCHANGED <<current, previous, memory, storage>>
    BY <1>6 DEF Send
  <2> HIDE DEF d
  <2> QED
    BY <2>1, <2>2
<1>7. ASSUME NEW c \in calls, LoginAnswered(c) PROVE KeyInv'
  BY <1>0, <1>7 DEF LoginAnswered
<1>8. ASSUME NEW c \in calls, LoginMalformed(c) \/ SessionRefused(c) PROVE KeyInv'
  BY <1>0, <1>8 DEF LoginMalformed, SessionRefused, ClearSession
<1>9. ASSUME NEW c \in calls, OtherAnswer(c) PROVE KeyInv'
  BY <1>9 DEF OtherAnswer
<1>10. ASSUME NEW t \in Tab, Logout(t) \/ Browse(t) PROVE KeyInv'
  BY <1>0, <1>10 DEF Logout, Browse, ClearSession
<1>11. CASE RotateSecret \/ DropPrevious
  BY <1>0, <1>11 DEF RotateSecret, DropPrevious
<1>12. CASE SecondPasses \/ UNCHANGED sessionVars
  BY <1>12 DEF SecondPasses, sessionVars
<1> QED
  BY <1>2, <1>3, <1>4, <1>5, <1>6, <1>7, <1>8, <1>9, <1>10, <1>11, <1>12 DEF SessionNext

\* During the overlap a token in its lifetime is refused only after two changes of
\* the secret, or after the previous one was dropped (jwt-middleware.ts:51).
THEOREM RotationIsSeamless == SessionSpec => OneRotationIsSeamless
<1>1. SessionInit => KeyInv
  BY SessionAssumption DEF SessionInit, KeyInv
<1>2. SessionTypeOK /\ KeyInv /\ [SessionNext]_sessionVars
        => [\A c \in calls :
              /\ c.kind = "api" /\ c.bearer # NoToken /\ c.bearer.exp > clock
              /\ c.status = "sent" /\ clock <= rotatedAt + Overlap
              /\ [c EXCEPT !.status = "unauthorized"] \in calls' \ calls
            => \/ current > c.bearer.key + 1
               \/ current > c.bearer.key /\ previous = NoSecret
           ]_sessionVars
  <2> SUFFICES ASSUME SessionTypeOK, KeyInv, SessionNext, NEW c \in calls,
                      c.kind = "api", c.bearer # NoToken, c.bearer.exp > clock,
                      c.status = "sent",
                      [c EXCEPT !.status = "unauthorized"] \in calls' \ calls
               PROVE  \/ current > c.bearer.key + 1
                      \/ current > c.bearer.key /\ previous = NoSecret
    BY DEF sessionVars
  <2> DEFINE refused == [c EXCEPT !.status = "unauthorized"]
  <2>0. /\ calls \subseteq Call /\ c \in Call
        /\ "unauthorized" \in Status /\ "ok" \in Status /\ "malformed" \in Status
        /\ "failed" \in Status
    BY DEF SessionTypeOK, Status
  <2>1. /\ refused.kind = "api" /\ refused.status = "unauthorized"
        /\ refused.bearer = c.bearer /\ refused \in calls' \ calls
    BY <2>0, AnswerFields
  <2>2. ASSUME ~Verify(c.bearer) PROVE \/ current > c.bearer.key + 1
                                       \/ current > c.bearer.key /\ previous = NoSecret
    <3>1. c.bearer \in Token /\ c.bearer.key \in Nat
      BY <2>0 DEF Call, Token
    <3>2. c.bearer.key # current /\ c.bearer.key <= current /\ current \in Nat
      BY <2>2, <3>1 DEF Verify, KeyInv, SessionTypeOK
    <3>3. previous = NoSecret \/ c.bearer.key # current - 1
      BY <2>2 DEF Verify, KeyInv
    <3> QED
      BY <3>1, <3>2, <3>3
  <2>3. ASSUME NEW d \in calls, ServeApi(d) PROVE ~Verify(c.bearer)
    <3>1. refused = [d EXCEPT !.status = IF Verify(d.bearer) THEN "ok" ELSE "unauthorized"]
      BY <2>1, <2>3 DEF ServeApi
    <3>2. ~Verify(d.bearer)
      BY <2>0, <2>1, <3>1, AnswerFields
    <3>3. refused = [d EXCEPT !.status = "unauthorized"]
      BY <3>1, <3>2
    <3>4. [d EXCEPT !.status = "unauthorized"].bearer = d.bearer
      BY <2>0 DEF Call
    <3> HIDE DEF refused
    <3>5. c.bearer = d.bearer
      BY <2>1, <3>3, <3>4
    <3> QED
      BY <3>2, <3>5
  <2>4. ASSUME NEW d \in calls, ServeLoginCall(d) PROVE FALSE
    <3>1. \/ refused = [d EXCEPT !.status = "ok", !.grant = Issue]
          \/ \E s \in {"unauthorized", "malformed"} : refused = [d EXCEPT !.status = s]
      BY <2>1, <2>4 DEF ServeLoginCall
    <3>2. refused.kind = "login"
      BY <2>0, <2>4, <3>1 DEF ServeLoginCall, Call
    <3> QED
      BY <2>1, <3>2
  <2>5. ASSUME NEW d \in calls, CallFails(d) PROVE FALSE
    <3>1. refused = [d EXCEPT !.status = "failed"]
      BY <2>1, <2>5 DEF CallFails
    <3>2. refused.status = "failed"
      BY <2>0, <3>1 DEF Call
    <3> QED
      BY <2>1, <3>2
  <2>6. ASSUME NEW t \in Tab, NEW kind, Send(t, kind) PROVE FALSE
    <3>1. refused = [tab |-> t, kind |-> kind, bearer |-> memory[t], status |-> "sent",
                     grant |-> NoToken]
      BY <2>1, <2>6 DEF Send
    <3> QED
      BY <2>1, <3>1
  <2>7. ASSUME calls' \subseteq calls PROVE FALSE
    BY <2>1, <2>7
  <2>8. ASSUME NEW d \in calls,
               LoginAnswered(d) \/ LoginMalformed(d) \/ SessionRefused(d) \/ OtherAnswer(d)
        PROVE  FALSE
    BY <2>7, <2>8 DEF LoginAnswered, LoginMalformed, SessionRefused, OtherAnswer
  <2>9. ASSUME NEW t \in Tab, Boot(t) \/ Reload(t) \/ Browse(t) \/ Logout(t) PROVE FALSE
    BY <2>7, <2>9 DEF Boot, Reload, Browse, Logout
  <2>10. ASSUME RotateSecret \/ DropPrevious \/ SecondPasses PROVE FALSE
    BY <2>7, <2>10 DEF RotateSecret, DropPrevious, SecondPasses
  <2> HIDE DEF refused
  <2> QED
    BY <2>2, <2>3, <2>4, <2>5, <2>6, <2>8, <2>9, <2>10 DEF SessionNext
<1> QED
  BY <1>1, <1>2, KeyStep, SessionTypeCorrect, PTL DEF SessionSpec, OneRotationIsSeamless

=============================================================================
