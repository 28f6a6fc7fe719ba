---------------------------- MODULE LedgerProofs ----------------------------
(***************************************************************************)
(* What every behaviour of Ledger satisfies, for all sets of products and  *)
(* requests and every MaxInt.                                              *)
(***************************************************************************)
EXTENDS Ledger, TLAPS

-----------------------------------------------------------------------------
(* Lemmas *)

\* What Append does to the rows already there, and to the last one.
LEMMA AppendFacts ==
    ASSUME NEW S, NEW s \in Seq(S), NEW e \in S
    PROVE  /\ Append(s, e) \in Seq(S)
           /\ DOMAIN Append(s, e) = DOMAIN s \cup {Len(s) + 1}
           /\ Len(s) \in Nat /\ DOMAIN s = 1..Len(s)
           /\ Append(s, e)[Len(s) + 1] = e
           /\ \A i \in DOMAIN s : Append(s, e)[i] = s[i] /\ s[i] \in S
  OBVIOUS

\* The rows of the ledger are well typed, one by one.
LEMMA LedgerTypeStep == LedgerTypeOK /\ [LedgerNext]_ledgerVars => LedgerTypeOK'
<1> SUFFICES ASSUME LedgerTypeOK, [LedgerNext]_ledgerVars PROVE LedgerTypeOK'
  OBVIOUS
<1> USE DEF LedgerTypeOK
<1>1. ASSUME NEW p \in Product, NEW amount \in Amount, Open(p, amount)
      PROVE  LedgerTypeOK'
  BY <1>1 DEF Open
<1>2. ASSUME NEW p \in Product, NEW id \in Request, NEW type \in EntryType,
             NEW quantity \in Amount, Post(p, id, type, quantity)
      PROVE  LedgerTypeOK'
  <2> DEFINE after == balance[p] + Signed(type, quantity)
             entry == [id |-> id, type |-> type, quantity |-> quantity, stockAfter |-> after]
  <2>1. after \in Amount
    BY <1>2 DEF Post
  <2>2. entry \in Entry
    BY <2>1 DEF Entry
  <2>3. entries' = [entries EXCEPT ![p] = Append(@, entry)]
    BY <1>2 DEF Post
  <2>4. entries' \in [Product -> Seq(Entry)]
    <3> HIDE DEF entry
    <3>1. Append(entries[p], entry) \in Seq(Entry)
      BY <2>2
    <3> QED
      BY <2>3, <3>1
  <2> QED
    BY <1>2, <2>1, <2>4 DEF Post
<1>3. CASE UNCHANGED ledgerVars
  BY <1>3 DEF ledgerVars
<1> QED
  BY <1>1, <1>2, <1>3 DEF LedgerNext

\* The rows of the ledger always have their types: a balance never leaves
\* 0..MaxInt, an entry never records one that did.
THEOREM LedgerTypeCorrect == LedgerSpec => []LedgerTypeOK
<1>1. LedgerInit => LedgerTypeOK
  BY DEF LedgerInit, LedgerTypeOK
<1> QED
  BY <1>1, LedgerTypeStep, PTL DEF LedgerSpec

-----------------------------------------------------------------------------
(* Reconciliation *)

LEMMA ReconcilesStep ==
    LedgerTypeOK /\ Reconciles /\ [LedgerNext]_ledgerVars => Reconciles'
<1> SUFFICES ASSUME LedgerTypeOK, Reconciles, [LedgerNext]_ledgerVars
             PROVE  Reconciles'
  OBVIOUS
<1> USE DEF LedgerTypeOK
<1>1. ASSUME NEW p \in Product, NEW amount \in Amount, Open(p, amount)
      PROVE  Reconciles'
  BY <1>1 DEF Open, Reconciles, BalanceBefore
<1>2. ASSUME NEW p \in Product, NEW id \in Request, NEW type \in EntryType,
             NEW quantity \in Amount, Post(p, id, type, quantity)
      PROVE  Reconciles'
  <2> DEFINE after == balance[p] + Signed(type, quantity)
             entry == [id |-> id, type |-> type, quantity |-> quantity, stockAfter |-> after]
             n == Len(entries[p])
  <2>1. /\ p \in accounts
        /\ after \in Amount
        /\ balance' = [balance EXCEPT ![p] = after]
        /\ entries' = [entries EXCEPT ![p] = Append(@, entry)]
        /\ UNCHANGED <<accounts, opening>>
    BY <1>2 DEF Post
  <2>2. entry \in Entry
    BY <2>1 DEF Entry
  <2>3. entry.type = type /\ entry.quantity = quantity /\ entry.stockAfter = after
    OBVIOUS
  <2> HIDE DEF entry
  <2>4. /\ n \in Nat
        /\ DOMAIN entries[p] = 1..n
        /\ DOMAIN entries'[p] = 1..(n + 1)
        /\ Len(entries'[p]) = n + 1
        /\ entries'[p][n + 1] = entry
        /\ \A i \in 1..n : entries'[p][i] = entries[p][i]
    BY <2>1, <2>2
  <2>5. \A i \in 1..(n + 1) : BalanceBefore(p, i)' = BalanceBefore(p, i)
    BY <2>1, <2>4 DEF BalanceBefore
  <2>6. balance[p] = BalanceBefore(p, n + 1)
    BY <2>1 DEF Reconciles
  <2>7. \A i \in 1..(n + 1) :
            entries'[p][i].stockAfter =
              BalanceBefore(p, i)' + Signed(entries'[p][i].type, entries'[p][i].quantity)
    <3> TAKE i \in 1..(n + 1)
    <3>1. CASE i = n + 1
      BY <3>1, <2>3, <2>4, <2>5, <2>6
    <3>2. CASE i \in 1..n
      BY <3>2, <2>4, <2>5 DEF Reconciles
    <3> QED
      BY <3>1, <3>2, <2>4
  <2>8. BalanceBefore(p, Len(entries[p]) + 1)' = after
    BY <2>3, <2>4 DEF BalanceBefore
  <2>9. ASSUME NEW q \in Product, q # p
        PROVE  /\ entries'[q] = entries[q] /\ balance'[q] = balance[q]
               /\ \A i : BalanceBefore(q, i)' = BalanceBefore(q, i)
    BY <2>1, <2>9 DEF BalanceBefore
  <2>10. ASSUME NEW q \in Product, q # p
         PROVE  BalanceBefore(q, Len(entries[q]) + 1)' = BalanceBefore(q, Len(entries[q]) + 1)
    BY <2>1, <2>10 DEF BalanceBefore
  <2>11. balance'[p] = after
    BY <2>1
  <2>12. ASSUME NEW q \in Product
         PROVE  /\ \A i \in DOMAIN entries'[q] :
                       entries'[q][i].stockAfter = BalanceBefore(q, i)'
                           + Signed(entries'[q][i].type, entries'[q][i].quantity)
                /\ q \in accounts' => balance'[q] = BalanceBefore(q, Len(entries[q]) + 1)'
                /\ q \notin accounts' => entries'[q] = <<>>
    <3>1. CASE q = p
      BY <3>1, <2>1, <2>4, <2>7, <2>8, <2>11
    <3>2. CASE q # p
      BY <3>2, <2>1, <2>9, <2>10 DEF Reconciles
    <3> QED
      BY <3>1, <3>2
  <2> HIDE DEF after, n
  <2> QED
    BY <2>12 DEF Reconciles
<1>3. CASE UNCHANGED ledgerVars
  BY <1>3 DEF ledgerVars, Reconciles, BalanceBefore
<1> QED
  BY <1>1, <1>2, <1>3 DEF LedgerNext

\* In every state the entries of a product add up from its opening balance to
\* its current one, step by step.
THEOREM LedgerAlwaysReconciles == LedgerSpec => []Reconciles
<1>1. LedgerInit => Reconciles
  <2> SUFFICES ASSUME LedgerInit PROVE Reconciles
    OBVIOUS
  <2>1. ASSUME NEW p \in Product
        PROVE  /\ entries[p] = <<>> /\ DOMAIN entries[p] = {}
               /\ balance[p] = BalanceBefore(p, Len(entries[p]) + 1)
    BY DEF LedgerInit, BalanceBefore
  <2> QED
    BY <2>1 DEF Reconciles
<1> QED
  BY <1>1, ReconcilesStep, LedgerTypeCorrect, PTL DEF LedgerSpec

-----------------------------------------------------------------------------
(* A request is posted at most once *)

LEMMA PostedOnceStep ==
    LedgerTypeOK /\ PostedOnce /\ [LedgerNext]_ledgerVars => PostedOnce'
<1> SUFFICES ASSUME LedgerTypeOK, PostedOnce, [LedgerNext]_ledgerVars
             PROVE  PostedOnce'
  OBVIOUS
<1> USE DEF LedgerTypeOK
<1>1. ASSUME NEW p \in Product, NEW amount \in Amount, Open(p, amount)
      PROVE  PostedOnce'
  BY <1>1 DEF Open, PostedOnce
<1>2. ASSUME NEW p \in Product, NEW id \in Request, NEW type \in EntryType,
             NEW quantity \in Amount, Post(p, id, type, quantity)
      PROVE  PostedOnce'
  <2> DEFINE after == balance[p] + Signed(type, quantity)
             entry == [id |-> id, type |-> type, quantity |-> quantity, stockAfter |-> after]
             n == Len(entries[p])
  <2>1. after \in Amount /\ entries' = [entries EXCEPT ![p] = Append(@, entry)] /\ ~Posted(id)
    BY <1>2 DEF Post
  <2>2. entry \in Entry /\ entry.id = id
    BY <2>1 DEF Entry
  <2> HIDE DEF entry
  <2>3. /\ n \in Nat
        /\ DOMAIN entries[p] = 1..n
        /\ DOMAIN entries'[p] = 1..(n + 1)
        /\ entries'[p][n + 1] = entry
        /\ \A i \in 1..n : entries'[p][i] = entries[p][i]
        /\ \A q \in Product : q # p => entries'[q] = entries[q]
    BY <2>1, <2>2
  <2>4. \A q \in Product : \A i \in DOMAIN entries[q] : entries[q][i].id # id
    BY <2>1 DEF Posted
  <2>5. \A q \in Product : \A i \in DOMAIN entries'[q] :
            \/ i \in DOMAIN entries[q] /\ entries'[q][i] = entries[q][i]
            \/ q = p /\ i = n + 1 /\ entries'[q][i].id = id
    BY <2>2, <2>3
  <2> QED
    BY <2>4, <2>5 DEF PostedOnce
<1>3. CASE UNCHANGED ledgerVars
  BY <1>3 DEF ledgerVars, PostedOnce
<1> QED
  BY <1>1, <1>2, <1>3 DEF LedgerNext

\* No request is ever posted twice.
THEOREM LedgerPostsOnce == LedgerSpec => []PostedOnce
<1>1. LedgerInit => PostedOnce
  BY DEF LedgerInit, PostedOnce
<1> QED
  BY <1>1, PostedOnceStep, LedgerTypeCorrect, PTL DEF LedgerSpec

=============================================================================
