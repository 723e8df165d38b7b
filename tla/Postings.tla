------------------------------ MODULE Postings ------------------------------
(***************************************************************************)
(* The arithmetic of a double-entry posting: what a posting request is,    *)
(* when PostTransaction accepts it, and what it does to an account row.    *)
(* The amounts of a request are in sub-units, those of a row as stored.    *)
(***************************************************************************)
EXTENDS Money, SequencesExt

DebitNormal == {"asset", "expense"}
CreditNormal == {"liability", "revenue", "equity"}
AccountType == DebitNormal \cup CreditNormal
EntryType == {"debit", "credit"}

\* The sum of the amounts of the entries that satisfy Test.
SumWhere(Test(_), entries) ==
    SumFunction([i \in DOMAIN entries |-> IF Test(entries[i]) THEN entries[i].amount ELSE 0])

Debits(entries) == SumWhere(LAMBDA e : e.kind = "debit", entries)
Credits(entries) == SumWhere(LAMBDA e : e.kind = "credit", entries)

\* The checks PostTransaction makes before it opens a transaction.
WellFormed(entries) ==
    /\ Len(entries) >= 2
    /\ \A e \in ToSet(entries) : e.amount > 0 /\ e.kind \in EntryType
    /\ Debits(entries) = Credits(entries)

AccountsOf(entries) == {e.account : e \in ToSet(entries)}

\* The entry rows a request inserts: the amount as the column keeps it, the
\* currency the request names, or INR.
EntryRow(e) ==
    [account |-> e.account, kind |-> e.kind, amount |-> Stored(e.amount),
     currency |-> IF e.currency = "" THEN "INR" ELSE e.currency]
EntryRows(entries) == [i \in DOMAIN entries |-> EntryRow(entries[i])]

\* Mutant: debits increase every account, whatever its type.
IncreasesByDebit(t, kind) == kind = "debit"

\* The sign an entry has on an account of type t.
Increases(t, kind) == t \in (IF kind = "debit" THEN DebitNormal ELSE CreditNormal)

\* What the entries add to the balance of account a of type t.
Movement(a, t, entries) ==
    SumWhere(LAMBDA e : e.account = a /\ Increases(t, e.kind), entries)
      - SumWhere(LAMBDA e : e.account = a /\ ~Increases(t, e.kind), entries)

\* The balance column of account a of type t, now b, after the entries.
NewBalance(a, t, b, entries) == Stored(b * Scale + Movement(a, t, entries))
=============================================================================
