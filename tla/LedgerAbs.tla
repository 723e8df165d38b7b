----------------------------- MODULE LedgerAbs ------------------------------
(***************************************************************************)
(* What the ledger promises its callers: a posting happens at one instant, *)
(* on the balances of that instant, with its entries and its audit event,  *)
(* or it does not happen at all.  Locks, statements, in-memory rows and    *)
(* rollbacks do not appear here; module Ledger is shown to implement this. *)
(* The arithmetic of a posting is a parameter: Ledger supplies Postings'.  *)
(***************************************************************************)
EXTENDS Integers, Sequences

CONSTANTS
    AccountType, MaxStored,
    WellFormed(_), AccountsOf(_), EntryRows(_), NewBalance(_, _, _, _),
    User, Account, Owner, DefaultType,
    Poster,           \* the request handlers that may post concurrently
    Requests,         \* the bodies a client may post
    CustomTypes,      \* account types a client may ask for
    OpeningBalances,  \* balances a client may put into an account it creates
    NoRequest

VARIABLES
    users,    \* [User -> {"unborn", "live", "deleted"}]
    type,     \* [Account -> AccountType \cup {"unborn", "deleted"}]
    balance,  \* [Account -> Int], the balance column
    opening,  \* [Account -> Int], the balance a row was created with
    ledger,   \* sequence of the committed postings, each its entry rows
    audit,    \* set of audit events, <<entity, id>>
    request,  \* [Poster -> Requests \cup {NoRequest}], what a poster works on
    reply     \* [Poster -> {"none", "201", "400", "500"}]

rows == <<users, type, opening>>
books == <<balance, ledger, audit>>
vars == <<users, type, opening, balance, ledger, audit, request, reply>>

Live(a) == type[a] \in AccountType
RowsOf(u) == {a \in Account : Owner[a] = u /\ Live(a)}

Init ==
    /\ users = [u \in User |-> "unborn"]
    /\ type = [a \in Account |-> "unborn"]
    /\ balance = [a \in Account |-> 0]
    /\ opening = [a \in Account |-> 0]
    /\ ledger = <<>>
    /\ audit = {}
    /\ request = [p \in Poster |-> NoRequest]
    /\ reply = [p \in Poster |-> "none"]

\* A poster takes up a request it has validated.
Ask(p, r) ==
    /\ request[p] = NoRequest
    /\ WellFormed(r)
    /\ request' = [request EXCEPT ![p] = r]
    /\ reply' = [reply EXCEPT ![p] = "none"]
    /\ UNCHANGED <<rows, books>>

\* The whole posting, in one step and on the current balances.  The caller
\* may be told 500 all the same: an answer to COMMIT can be lost.
Post(p, code) ==
    LET r == request[p] IN
    /\ r # NoRequest
    /\ code \in {"201", "500"}
    /\ \A a \in AccountsOf(r) : Live(a)
    /\ balance' = [a \in Account |->
                      IF a \in AccountsOf(r)
                      THEN NewBalance(a, type[a], balance[a], r) ELSE balance[a]]
    /\ \A a \in Account : balance'[a] \in -MaxStored .. MaxStored
    /\ ledger' = Append(ledger, EntryRows(r))
    /\ audit' = audit \cup {<<"ledger_transaction", Len(ledger) + 1>>}
    /\ request' = [request EXCEPT ![p] = NoRequest]
    /\ reply' = [reply EXCEPT ![p] = code]
    /\ UNCHANGED rows

\* A posting that leaves no trace but its answer.
Refuse(p, code) ==
    /\ code \in {"400", "500"}
    /\ request' = [request EXCEPT ![p] = NoRequest]
    /\ reply' = [reply EXCEPT ![p] = code]
    /\ UNCHANGED <<rows, books>>

\* The process dies: no request in progress has any effect or any answer.
Restart ==
    /\ request' = [p \in Poster |-> NoRequest]
    /\ reply' = [p \in Poster |-> "none"]
    /\ UNCHANGED <<rows, books>>

Register(u) ==
    LET created == {a \in Account : Owner[a] = u /\ DefaultType[a] # "custom"} IN
    /\ users[u] = "unborn"
    /\ users' = [users EXCEPT ![u] = "live"]
    /\ type' = [a \in Account |-> IF a \in created THEN DefaultType[a] ELSE type[a]]
    /\ audit' = audit \cup {<<"user", u>>}
    /\ UNCHANGED <<opening, balance, ledger, request, reply>>

CreateAccount(u, a, t, b) ==
    /\ users[u] = "live"
    /\ Owner[a] = u
    /\ DefaultType[a] = "custom"
    /\ type[a] = "unborn"
    /\ type' = [type EXCEPT ![a] = t]
    /\ balance' = [balance EXCEPT ![a] = b]
    /\ opening' = [opening EXCEPT ![a] = b]
    /\ UNCHANGED <<users, ledger, audit, request, reply>>

\* A user goes with its accounts, and only if no entry refers to one.
DeleteUser(u) ==
    /\ users[u] = "live"
    /\ \A n \in DOMAIN ledger : AccountsOf(ledger[n]) \cap RowsOf(u) = {}
    /\ users' = [users EXCEPT ![u] = "deleted"]
    /\ type' = [a \in Account |-> IF a \in RowsOf(u) THEN "deleted" ELSE type[a]]
    /\ audit' = audit \cup {<<"user_deleted", u>>}
    /\ UNCHANGED <<opening, balance, ledger, request, reply>>

Next ==
    \/ \E p \in Poster, r \in Requests : Ask(p, r)
    \/ \E p \in Poster, code \in {"201", "400", "500"} : Post(p, code) \/ Refuse(p, code)
    \/ Restart
    \/ \E u \in User : Register(u) \/ DeleteUser(u)
    \/ \E u \in User, a \in Account, t \in CustomTypes, b \in OpeningBalances :
          CreateAccount(u, a, t, b)

Spec == Init /\ [][Next]_vars
=============================================================================
