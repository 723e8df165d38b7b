------------------------------- MODULE Ledger -------------------------------
(***************************************************************************)
(* LedgerService.PostTransaction, statement by statement, run by several   *)
(* request handlers at once against PostgreSQL (READ COMMITTED), together  *)
(* with the operations that create and delete the account rows it works on *)
(* (Register, CreateAccount, DeleteUser) and the failures it meets: a      *)
(* statement that fails, a COMMIT whose answer is lost, a process crash.   *)
(*                                                                         *)
(* `balance', `ledger' and `audit' are the committed tables.  What an open *)
(* transaction wrote is visible to nobody else, so it is not a variable:   *)
(* pc[p] says which of its statements have run, and Commit publishes them. *)
(***************************************************************************)
EXTENDS Postings

CONSTANTS
    User,
    Account,          \* account ids; ORDER BY id compares them as numbers
    MaxId,            \* the largest id a uuid column holds
    Owner,            \* [Account -> User]
    DefaultType,      \* type of the row Register creates, or "custom"
    Poster,           \* the request handlers that may post concurrently
    Requests,         \* the bodies a client may post
    CustomTypes,      \* account types a client may ask for
    OpeningBalances,  \* balances a client may put into an account it creates
    Currency,         \* currency codes a request may name
    NoRequest,
    MaxPostings       \* bound: no posting starts once this many are committed

ASSUME AccountAssumption == MaxId \in Nat /\ Account \subseteq 0 .. MaxId
ASSUME OwnerAssumption ==
    /\ Owner \in [Account -> User]
    /\ DefaultType \in [Account -> AccountType \cup {"custom"}]
    /\ CustomTypes \subseteq AccountType
    /\ OpeningBalances \subseteq -MaxStored .. MaxStored
\* An entry, of a request or of the table.  Amounts are integers without bound:
\* shopspring/decimal neither rounds nor overflows when it adds.
Entry == [account : Account, kind : STRING, amount : Int, currency : Currency \cup {"", "INR"}]
ASSUME RequestAssumption ==
    /\ Requests \subseteq Seq(Entry)
    /\ NoRequest \notin Requests

VARIABLES
    users,    \* [User -> {"unborn", "live", "deleted"}]
    type,     \* the type of a live row; "unborn" before, "deleted" after
    opening,  \* the balance a row was created with (history)
    balance,  \* the balance column
    ledger,   \* sequence of the committed postings, each its entry rows
    audit,    \* set of audit events, <<entity, id>>
    pc,       \* the statement each poster is to run next
    request,  \* the request it works on
    want,     \* rows its SELECT matched and has not locked yet
    held,     \* rows it has locked (FOR UPDATE)
    mem,      \* the balances of those rows in memory, in sub-units
    reply     \* the status of its last answer

rows == <<users, type, opening>>
books == <<balance, ledger, audit>>
work == <<pc, request, want, held, mem, reply>>
vars == <<users, type, opening, balance, ledger, audit,
          pc, request, want, held, mem, reply>>

Live(a) == type[a] \in AccountType
RowsOf(u) == {a \in Account : Owner[a] = u /\ Live(a)}
\* Mutant: the SELECT takes no locks.
NeverLocked(a) == FALSE

Locked(a) == \E p \in Poster : a \in held[p]

Init ==
    /\ users = [u \in User |-> "unborn"]
    /\ type = [a \in Account |-> "unborn"]
    /\ opening = [a \in Account |-> 0]
    /\ balance = [a \in Account |-> 0]
    /\ ledger = <<>>
    /\ audit = {}
    /\ pc = [p \in Poster |-> "idle"]
    /\ request = [p \in Poster |-> NoRequest]
    /\ want = [p \in Poster |-> {}]
    /\ held = [p \in Poster |-> {}]
    /\ mem = [p \in Poster |-> [a \in Account |-> 0]]
    /\ reply = [p \in Poster |-> "none"]

-----------------------------------------------------------------------------
\* PostTransaction.

\* The transaction of p is over: its locks are released, the caller answered.
End(p, code) ==
    /\ pc' = [pc EXCEPT ![p] = "idle"]
    /\ request' = [request EXCEPT ![p] = NoRequest]
    /\ want' = [want EXCEPT ![p] = {}]
    /\ held' = [held EXCEPT ![p] = {}]
    /\ mem' = [mem EXCEPT ![p] = [a \in Account |-> 0]]
    /\ reply' = [reply EXCEPT ![p] = code]

Rollback(p, code) == End(p, code) /\ UNCHANGED <<rows, books>>

\* A malformed request is refused before any transaction is opened.
Reject(p, r) ==
    /\ pc[p] = "idle"
    /\ ~WellFormed(r)
    /\ Rollback(p, "400")

Submit(p, r) ==
    /\ pc[p] = "idle"
    /\ Len(ledger) < MaxPostings
    /\ WellFormed(r)
    /\ pc' = [pc EXCEPT ![p] = "select"]
    /\ request' = [request EXCEPT ![p] = r]
    /\ reply' = [reply EXCEPT ![p] = "none"]
    /\ UNCHANGED <<rows, books, want, held, mem>>

\* SELECT ... WHERE id IN (...) FOR UPDATE: its snapshot fixes which rows it
\* will lock.
SelectRows(p) ==
    /\ pc[p] = "select"
    /\ pc' = [pc EXCEPT ![p] = "lock"]
    /\ want' = [want EXCEPT ![p] = {a \in AccountsOf(request[p]) : Live(a)}]
    /\ UNCHANGED <<rows, books, request, held, mem, reply>>

\* Mutant: a SELECT without ORDER BY.
AnyRow(p, a) == a \in want[p]

\* The next row in the statement's order (ORDER BY id ASC).
NextRow(p, a) == a \in want[p] /\ \A b \in want[p] : a <= b

\* The row's lock is free: the row is read again as it is now, and dropped
\* from the result if it was deleted in the meantime.
LockRow(p, a) ==
    /\ pc[p] = "lock"
    /\ NextRow(p, a)
    /\ ~Locked(a)
    /\ want' = [want EXCEPT ![p] = @ \ {a}]
    /\ IF Live(a)
       THEN /\ held' = [held EXCEPT ![p] = @ \cup {a}]
            /\ mem' = [mem EXCEPT ![p][a] = balance[a] * Scale]
       ELSE UNCHANGED <<held, mem>>
    /\ UNCHANGED <<rows, books, pc, request, reply>>

\* len(accounts) # len(accountIDs)
MissingRows(p) ==
    /\ pc[p] = "lock"
    /\ want[p] = {}
    /\ held[p] # AccountsOf(request[p])
    /\ Rollback(p, "400")

\* The entries are inserted and the balances computed in memory.
InsertEntries(p) ==
    /\ pc[p] = "lock"
    /\ want[p] = {}
    /\ held[p] = AccountsOf(request[p])
    /\ \A e \in ToSet(request[p]) : Fits(e.amount)
    /\ pc' = [pc EXCEPT ![p] = "persist"]
    /\ mem' = [mem EXCEPT ![p] = [a \in Account |->
                  IF a \in held[p] THEN @[a] + Movement(a, type[a], request[p]) ELSE @[a]]]
    /\ UNCHANGED <<rows, books, request, want, held, reply>>

PersistBalances(p) ==
    /\ pc[p] = "persist"
    /\ \A a \in held[p] : Fits(mem[p][a])
    /\ pc' = [pc EXCEPT ![p] = "audit"]
    /\ UNCHANGED <<rows, books, request, want, held, mem, reply>>

\* A value out of the range of its column fails the INSERT or the UPDATE.
OutOfRange(p) ==
    /\ \/ /\ pc[p] = "lock" /\ want[p] = {} /\ held[p] = AccountsOf(request[p])
          /\ \E e \in ToSet(request[p]) : ~Fits(e.amount)
       \/ pc[p] = "persist" /\ \E a \in held[p] : ~Fits(mem[p][a])
    /\ Rollback(p, "500")

\* Mutant: the event is written outside the transaction.
LogEventAtOnce(p) ==
    /\ pc[p] = "audit"
    /\ pc' = [pc EXCEPT ![p] = "commit"]
    /\ audit' = audit \cup {<<"ledger_transaction", Len(ledger) + 1>>}
    /\ UNCHANGED <<rows, balance, ledger, request, want, held, mem, reply>>

\* AuditService.LogEvent(tx, event), in the same transaction.
LogEvent(p) ==
    /\ pc[p] = "audit"
    /\ pc' = [pc EXCEPT ![p] = "commit"]
    /\ UNCHANGED <<rows, books, request, want, held, mem, reply>>

\* COMMIT publishes the entries, the balances and the event, and releases the
\* locks.  When its answer is lost the caller is told 500 all the same.
Commit(p, code) ==
    /\ pc[p] = "commit"
    /\ code \in {"201", "500"}
    /\ balance' = [a \in Account |-> IF a \in held[p] THEN Stored(mem[p][a]) ELSE balance[a]]
    /\ ledger' = Append(ledger, EntryRows(request[p]))
    /\ audit' = audit \cup {<<"ledger_transaction", Len(ledger) + 1>>}
    /\ End(p, code)
    /\ UNCHANGED rows

\* Any statement, COMMIT included, may fail: gorm rolls back.
Fail(p) == pc[p] # "idle" /\ Rollback(p, "500")

\* The process dies; PostgreSQL rolls back whatever was open.
Crash ==
    /\ pc' = [p \in Poster |-> "idle"]
    /\ request' = [p \in Poster |-> NoRequest]
    /\ want' = [p \in Poster |-> {}]
    /\ held' = [p \in Poster |-> {}]
    /\ mem' = [p \in Poster |-> [a \in Account |-> 0]]
    /\ reply' = [p \in Poster |-> "none"]
    /\ UNCHANGED <<rows, books>>

-----------------------------------------------------------------------------
\* The operations that create and delete account rows.  Each is one
\* transaction, taken at its COMMIT.

\* AuthService.Register: the user, its default accounts, one audit event.
Register(u) ==
    LET created == {a \in Account : Owner[a] = u /\ DefaultType[a] # "custom"} IN
    /\ users[u] = "unborn"
    /\ users' = [users EXCEPT ![u] = "live"]
    /\ type' = [a \in Account |-> IF a \in created THEN DefaultType[a] ELSE type[a]]
    /\ audit' = audit \cup {<<"user", u>>}
    /\ UNCHANGED <<opening, balance, ledger, work>>

\* AccountService.CreateAccount.  The handler binds the body onto the row, so
\* the client chooses the opening balance; no audit event is written.
CreateAccount(u, a, t, b) ==
    /\ users[u] = "live"
    /\ Owner[a] = u
    /\ DefaultType[a] = "custom"
    /\ type[a] = "unborn"
    /\ type' = [type EXCEPT ![a] = t]
    /\ balance' = [balance EXCEPT ![a] = b]
    /\ opening' = [opening EXCEPT ![a] = b]
    /\ UNCHANGED <<users, ledger, audit, work>>

\* UserService.DeleteUser: the accounts go by cascade.  The foreign key of
\* ledger_entries refuses while one has entries, and the cascade waits for
\* the row locks.
DeleteUser(u) ==
    /\ users[u] = "live"
    /\ \A n \in DOMAIN ledger : AccountsOf(ledger[n]) \cap RowsOf(u) = {}
    /\ \A a \in RowsOf(u) : ~Locked(a)
    /\ users' = [users EXCEPT ![u] = "deleted"]
    /\ type' = [a \in Account |-> IF a \in RowsOf(u) THEN "deleted" ELSE type[a]]
    /\ audit' = audit \cup {<<"user_deleted", u>>}
    /\ UNCHANGED <<opening, balance, ledger, work>>

-----------------------------------------------------------------------------
\* The steps a poster takes by itself once it has a request.
Step(p) ==
    \/ SelectRows(p)
    \/ \E a \in Account : LockRow(p, a)
    \/ MissingRows(p)
    \/ InsertEntries(p)
    \/ PersistBalances(p)
    \/ OutOfRange(p)
    \/ LogEvent(p)
    \/ \E code \in {"201", "500"} : Commit(p, code)

Next ==
    \/ \E p \in Poster, r \in Requests : Submit(p, r) \/ Reject(p, r)
    \/ \E p \in Poster : Step(p) \/ Fail(p)
    \/ Crash
    \/ \E u \in User : Register(u) \/ DeleteUser(u)
    \/ \E u \in User, a \in Account, t \in CustomTypes, b \in OpeningBalances :
          CreateAccount(u, a, t, b)

Spec == Init /\ [][Next]_vars

\* A handler goroutine keeps running; a row lock that keeps becoming free is
\* granted in the end, because PostgreSQL queues the waiters of a row.
Fairness == \A p \in Poster : SF_vars(Step(p))

FairSpec == Spec /\ Fairness

-----------------------------------------------------------------------------
\* Properties.

TypeOK ==
    /\ users \in [User -> {"unborn", "live", "deleted"}]
    /\ type \in [Account -> AccountType \cup {"unborn", "deleted"}]
    /\ opening \in [Account -> -MaxStored .. MaxStored]
    /\ balance \in [Account -> -MaxStored .. MaxStored]
    /\ ledger \in Seq(Seq(Entry))
    /\ pc \in [Poster -> {"idle", "select", "lock", "persist", "audit", "commit"}]
    /\ request \in [Poster -> Requests \cup {NoRequest}]
    /\ want \in [Poster -> SUBSET Account]
    /\ held \in [Poster -> SUBSET Account]
    /\ mem \in [Poster -> [Account -> Int]]
    /\ reply \in [Poster -> {"none", "201", "400", "500"}]

\* Row locks: no account row is locked by two open transactions.
LocksExclusive == \A p, q \in Poster : p # q => held[p] \cap held[q] = {}

\* No lost update: as long as a poster holds a row, the balance it has in
\* memory is the committed balance, plus its own entries once it has applied
\* them.  Nothing else may write the column in between.
HeldRowsFresh ==
    \A p \in Poster : \A a \in held[p] :
        /\ Live(a)
        /\ mem[p][a] = balance[a] * Scale
                         + IF pc[p] \in {"persist", "audit", "commit"}
                           THEN Movement(a, type[a], request[p]) ELSE 0

\* A poster waits only for rows above every row it holds.
WaitsAscend == \A p \in Poster : \A a \in held[p], b \in want[p] : a < b

WaitsFor(p, q) == \E a \in want[p] : NextRow(p, a) /\ a \in held[q]

\* Concurrent postings never deadlock on account rows: no set of posters in
\* which each waits for another of the set.  This is what ORDER BY id is for.
NoLockCycle ==
    \A S \in (SUBSET Poster) \ {{}} : \E p \in S : \A q \in S : ~WaitsFor(p, q)

\* What the committed postings add to the balance of account a, together.
Posted(a) == SumFunction([n \in DOMAIN ledger |-> Movement(a, type[a], ledger[n])])

\* The balance column agrees with the entries: what a row was opened with
\* plus every committed entry, with the sign its type gives it.  (Exact as
\* long as requests have at most four decimals: Scale = 1.)
BalancesFollowEntries ==
    \A a \in Account : Live(a) =>
        balance[a] = opening[a] + Posted(a)

\* Debits equal credits over the whole ledger: the balances of the accounts
\* of debit kind and of credit kind moved by the same amount.
TrialBalance ==
    LET moved == [a \in Account |-> balance[a] - opening[a]]
    IN SumFunctionOnSet(moved, {a \in Account : type[a] \in DebitNormal})
         = SumFunctionOnSet(moved, {a \in Account : type[a] \in CreditNormal})

\* Every committed posting has its audit event and every ledger event its
\* posting, whatever fails and whenever the process dies.
PostingsAudited ==
    {event \in audit : event[1] = "ledger_transaction"}
        = {<<"ledger_transaction", n>> : n \in 1 .. Len(ledger)}

\* A committed entry never refers to an account row that is gone, although a
\* user may be deleted while a posting on its accounts is under way.
EntriesReferToLiveAccounts ==
    \A n \in DOMAIN ledger : \A a \in AccountsOf(ledger[n]) : Live(a)

\* Every posting that starts is answered or dies with the process; none waits
\* for a row forever.
EveryPostingEnds == \A p \in Poster : pc[p] # "idle" ~> pc[p] = "idle"

-----------------------------------------------------------------------------
\* What a comment says of the ledger and the code does not ensure.

\* models/ledger_entry.go: every stored transaction has equal debits and
\* credits.  The check is made on the request, before the amounts are rounded
\* to the column's four decimals, entry by entry.
StoredEntriesBalance == \A n \in DOMAIN ledger : Debits(ledger[n]) = Credits(ledger[n])

-----------------------------------------------------------------------------
Abs == INSTANCE LedgerAbs
\* The ledger does what its abstraction says: a posting takes place whole, at
\* its COMMIT, on the balances of that instant, or not at all.
ImplementsLedgerAbs == Abs!Spec
=============================================================================
