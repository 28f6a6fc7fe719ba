------------------------------- MODULE Ledger -------------------------------
(***************************************************************************)
(* What the inventory promises its readers (ADR-0002, BR-1 and BR-6),      *)
(* whatever statements, locks and connections it takes to keep it: every   *)
(* product has a balance that never leaves 0..MaxInt, and an append-only   *)
(* list of entries in which every request appears at most once.  A posting *)
(* is one indivisible step.  Inventory is shown to implement this module.  *)
(***************************************************************************)
EXTENDS Integers, Sequences

CONSTANTS
    Product,    \* ids of the products that can exist
    Request,    \* ids of the HTTP calls; a posting is made by one of them
    MaxInt      \* largest value of a Postgres int4 column

VARIABLES
    accounts,   \* products that exist
    opening,    \* the balance each product was opened with
    balance,    \* the current balance of each product
    entries     \* the entries posted to each product, oldest first

ledgerVars == <<accounts, opening, balance, entries>>

-----------------------------------------------------------------------------

EntryType == {"ENTRADA", "SALIDA"}

Amount == 0..MaxInt

Entry == [id: Request, type: EntryType, quantity: Amount, stockAfter: Amount]

\* ENTRADA adds to the balance, SALIDA takes from it.
Signed(type, quantity) == IF type = "ENTRADA" THEN quantity ELSE -quantity

\* The balance of p before its i-th entry was posted.
BalanceBefore(p, i) ==
    IF i = 1 THEN opening[p] ELSE entries[p][i - 1].stockAfter

Posted(id) == \E p \in Product : \E i \in DOMAIN entries[p] : entries[p][i].id = id

-----------------------------------------------------------------------------

LedgerTypeOK ==
    /\ accounts \subseteq Product
    /\ opening \in [Product -> Amount]
    /\ balance \in [Product -> Amount]
    /\ entries \in [Product -> Seq(Entry)]

LedgerInit ==
    /\ accounts \subseteq Product
    /\ opening \in [Product -> Amount]
    /\ balance = opening
    /\ entries = [p \in Product |-> <<>>]

Open(p, amount) ==
    /\ p \notin accounts
    /\ accounts' = accounts \cup {p}
    /\ opening' = [opening EXCEPT ![p] = amount]
    /\ balance' = [balance EXCEPT ![p] = amount]
    /\ UNCHANGED entries

Post(p, id, type, quantity) ==
    LET after == balance[p] + Signed(type, quantity) IN
    /\ p \in accounts
    /\ ~Posted(id)
    /\ after \in Amount
    /\ balance' = [balance EXCEPT ![p] = after]
    /\ entries' = [entries EXCEPT ![p] = Append(@,
            [id |-> id, type |-> type, quantity |-> quantity, stockAfter |-> after])]
    /\ UNCHANGED <<accounts, opening>>

LedgerNext ==
    \E p \in Product :
        \/ \E amount \in Amount : Open(p, amount)
        \/ \E id \in Request, type \in EntryType, quantity \in Amount :
               Post(p, id, type, quantity)

LedgerSpec == LedgerInit /\ [][LedgerNext]_ledgerVars

-----------------------------------------------------------------------------

(***************************************************************************)
(* The ledger reconciles: every entry carries the balance before it plus   *)
(* or minus its own quantity, the current balance is the one after the     *)
(* last entry, and a product that was never opened has no entries.  A lost *)
(* update between two movements of one product breaks it.                  *)
(***************************************************************************)
Reconciles ==
    \A p \in Product :
        /\ \A i \in DOMAIN entries[p] :
               entries[p][i].stockAfter =
                   BalanceBefore(p, i) + Signed(entries[p][i].type, entries[p][i].quantity)
        /\ p \in accounts => balance[p] = BalanceBefore(p, Len(entries[p]) + 1)
        /\ p \notin accounts => entries[p] = <<>>

\* No request is posted twice, to one product or to two (a retry, or a second
\* COMMIT of one transaction, would).
PostedOnce ==
    \A p, q \in Product : \A i \in DOMAIN entries[p], j \in DOMAIN entries[q] :
        entries[p][i].id = entries[q][j].id => p = q /\ i = j

=============================================================================
