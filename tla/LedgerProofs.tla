---------------------------- MODULE LedgerProofs ----------------------------
(***************************************************************************)
(* The ledger for any number of accounts, posters and postings and any     *)
(* scale: its types, mutual exclusion on account rows, the absence of lost *)
(* updates and of deadlocks, that every posting is audited, and that it    *)
(* implements LedgerAbs.  If no amount is finer than the columns hold, the *)
(* balances follow from the entries and the books balance.                 *)
(***************************************************************************)
EXTENDS Ledger, Sums, SequenceTheorems

\* What each statement of PostTransaction may rely on, by the place reached.
Control ==
    \A p \in Poster :
        /\ pc[p] = "idle" <=> request[p] = NoRequest
        /\ pc[p] \in {"idle", "select"} => want[p] = {} /\ held[p] = {}
        /\ pc[p] \in {"persist", "audit", "commit"} =>
              want[p] = {} /\ held[p] = AccountsOf(request[p])
        /\ pc[p] \in {"audit", "commit"} => \A a \in held[p] : Fits(mem[p][a])

\* The account rows of a user exist only while the user does.
OwnersLive == \A a \in Account : Live(a) => users[Owner[a]] = "live"

\* The inductive invariant of the ledger's steps; the entries are accounted
\* for further down.
IInv == TypeOK /\ Control /\ OwnersLive /\ LocksExclusive /\ HeldRowsFresh /\ WaitsAscend

\* Rounding yields an integer.
LEMMA StoredType == ASSUME NEW x \in Int PROVE Stored(x) \in Int
BY ScaleAssumption DEF Stored

\* The rows a request inserts are entry rows, on the accounts it names.
LEMMA EntryRowsType ==
    ASSUME NEW r \in Requests
    PROVE  EntryRows(r) \in Seq(Entry)
<1>1. r \in Seq(Entry)
  BY RequestAssumption DEF Entry
<1>2. ASSUME NEW i \in DOMAIN r
      PROVE EntryRow(r[i]) \in Entry
  <2>1. r[i] \in Entry
    BY <1>1, <1>2
  <2>2. Stored(r[i].amount) \in Int
    BY <2>1, StoredType DEF Entry
  <2> QED
    BY <2>1, <2>2 DEF Entry, EntryRow
<1>3. DOMAIN r = 1 .. Len(r) /\ Len(r) \in Nat
  BY <1>1
<1>4. EntryRows(r) \in [1 .. Len(r) -> Entry]
  BY <1>2, <1>3, Zenon DEF EntryRows
<1> QED
  BY <1>3, <1>4, SeqDef

\* A request names accounts, and no other kind of thing.
LEMMA RequestAccounts == \A r \in Requests : AccountsOf(r) \subseteq Account
<1> SUFFICES ASSUME NEW r \in Requests PROVE AccountsOf(r) \subseteq Account
  OBVIOUS
<1>1. r \in Seq(Entry)
  BY RequestAssumption DEF Entry
<1>2. \A e \in ToSet(r) : e \in Entry
  BY <1>1 DEF ToSet
<1> QED
  BY <1>2 DEF AccountsOf, Entry

\* The initial ledger is well typed.
LEMMA TypeInit == Init => TypeOK
BY MaxStoredAssumption DEF Init, TypeOK

\* The end of a transaction leaves its poster well typed.
LEMMA EndType ==
    ASSUME TypeOK, NEW p \in Poster, NEW code \in {"201", "400", "500"}, End(p, code)
    PROVE  /\ pc' \in [Poster -> {"idle", "select", "lock", "persist", "audit", "commit"}]
           /\ request' \in [Poster -> Requests \cup {NoRequest}]
           /\ want' \in [Poster -> SUBSET Account]
           /\ held' \in [Poster -> SUBSET Account]
           /\ mem' \in [Poster -> [Account -> Int]]
           /\ reply' \in [Poster -> {"none", "201", "400", "500"}]
BY DEF TypeOK, End

\* Rolling a poster back keeps the types.
LEMMA RollbackType ==
    ASSUME TypeOK, NEW p \in Poster, NEW code \in {"400", "500"}, Rollback(p, code)
    PROVE  TypeOK'
<1>1. UNCHANGED <<users, type, opening, balance, ledger>> /\ End(p, code)
  BY DEF Rollback, rows, books
<1> QED
  BY <1>1, EndType DEF TypeOK

\* The two outcomes of locking a row: it is held, or it was found deleted.
LEMMA LockRowCases ==
    ASSUME NEW p \in Poster, NEW a \in Account, LockRow(p, a)
    PROVE  /\ pc[p] = "lock" /\ a \in want[p] /\ \A b \in want[p] : a <= b
           /\ \A q \in Poster : a \notin held[q]
           /\ want' = [want EXCEPT ![p] = @ \ {a}]
           /\ UNCHANGED <<users, type, opening, balance, ledger, audit, pc, request, reply>>
           /\ \/ /\ Live(a)
                 /\ held' = [held EXCEPT ![p] = @ \cup {a}]
                 /\ mem' = [mem EXCEPT ![p] = [@ EXCEPT ![a] = balance[a] * Scale]]
              \/ UNCHANGED <<held, mem>>
BY DEF LockRow, NextRow, Locked, rows, books

\* Locking a row moves it from the wanted ones to the held ones.
LEMMA LockRowSets ==
    ASSUME TypeOK, NEW p \in Poster, NEW a \in Account, LockRow(p, a), NEW q \in Poster
    PROVE  /\ want'[q] \subseteq want[q]
           /\ held'[q] = held[q] \/ (q = p /\ Live(a) /\ held'[q] = held[q] \cup {a})
           /\ q = p => a \notin want'[q]
<1>1. want' = [want EXCEPT ![p] = @ \ {a}] /\ a \in want[p]
  BY LockRowCases
<1>2. want'[q] = IF q = p THEN want[q] \ {a} ELSE want[q]
  BY <1>1 DEF TypeOK
<1>3. CASE Live(a) /\ held' = [held EXCEPT ![p] = @ \cup {a}]
  <2>1. held'[q] = IF q = p THEN held[q] \cup {a} ELSE held[q]
    BY <1>3 DEF TypeOK
  <2> QED
    BY <1>2, <1>3, <2>1
<1>4. CASE held' = held
  BY <1>2, <1>4
<1> QED
  BY <1>3, <1>4, LockRowCases

-----------------------------------------------------------------------------
\* The sums of a posting.

\* What each entry adds to the balance of account a of type t.
Signed(a, t, r) ==
    [i \in DOMAIN r |-> IF r[i].account = a
                        THEN IF Increases(t, r[i].kind) THEN r[i].amount ELSE -r[i].amount
                        ELSE 0]

\* The amounts of the entries of one kind.
OfKind(k, r) == [i \in DOMAIN r |-> IF r[i].kind = k THEN r[i].amount ELSE 0]

\* The entries of a sequence have integer amounts, and there are finitely many.
Summable(r) == IsFiniteSet(DOMAIN r) /\ \A i \in DOMAIN r : r[i].amount \in Int

\* The entries that a body asks for are finitely many and have integer
\* amounts.
LEMMA EntriesSummable == \A r \in Seq(Entry) : Summable(r)
<1> SUFFICES ASSUME NEW r \in Seq(Entry) PROVE Summable(r)
  OBVIOUS
<1>1. DOMAIN r = 1 .. Len(r) /\ Len(r) \in Nat
  OBVIOUS
<1>2. IsFiniteSet(1 .. Len(r))
  BY <1>1, FS_Interval
<1>3. \A i \in DOMAIN r : r[i] \in Entry
  OBVIOUS
<1> QED
  BY <1>1, <1>2, <1>3 DEF Summable, Entry

\* What is added less what is taken away is the sum of the signed amounts.
LEMMA MovementIsSum ==
    ASSUME NEW r, Summable(r), NEW a, NEW t
    PROVE  /\ IntegersOn(Signed(a, t, r), DOMAIN r)
           /\ Movement(a, t, r) = SumFunctionOnSet(Signed(a, t, r), DOMAIN r)
           /\ Movement(a, t, r) \in Int
<1> DEFINE D == DOMAIN r
           Up == [i \in D |-> IF r[i].account = a /\ Increases(t, r[i].kind)
                              THEN r[i].amount ELSE 0]
           Down == [i \in D |-> IF r[i].account = a /\ ~Increases(t, r[i].kind)
                                THEN r[i].amount ELSE 0]
           Net == Signed(a, t, r)
           up == SumFunctionOnSet(Up, D)
           down == SumFunctionOnSet(Down, D)
           net == SumFunctionOnSet(Net, D)
<1>1. /\ IsFiniteSet(D)
      /\ IntegersOn(Up, D) /\ IntegersOn(Down, D) /\ IntegersOn(Net, D)
  BY DEF Summable, IntegersOn, Signed
<1>2. \A i \in D : Up[i] = Net[i] + Down[i]
  BY DEF Summable, Signed
<1>3. DOMAIN Up = D /\ DOMAIN Down = D
  OBVIOUS
<1>4. Movement(a, t, r) = up - down
  BY <1>3 DEF Movement, SumWhere, SumFunction
<1> HIDE DEF Up, Down, Net
<1>5. up = net + down
  BY <1>1, <1>2, SumPlus
<1>6. net \in Int /\ down \in Int
  BY <1>1, SumType
<1> HIDE DEF up, down, net
<1>7. Movement(a, t, r) = net /\ net \in Int
  BY <1>4, <1>5, <1>6
<1> QED
  BY <1>1, <1>7 DEF net, Net

\* Debits and credits add up the entries of their kind.
LEMMA KindSums ==
    \A r : /\ Debits(r) = SumFunctionOnSet(OfKind("debit", r), DOMAIN r)
           /\ Credits(r) = SumFunctionOnSet(OfKind("credit", r), DOMAIN r)
<1> SUFFICES ASSUME NEW r
             PROVE  /\ Debits(r) = SumFunctionOnSet(OfKind("debit", r), DOMAIN r)
                    /\ Credits(r) = SumFunctionOnSet(OfKind("credit", r), DOMAIN r)
  OBVIOUS
<1>1. \A k : DOMAIN OfKind(k, r) = DOMAIN r
  BY DEF OfKind
<1> QED
  BY <1>1 DEF Debits, Credits, SumWhere, SumFunction, OfKind

\* Amounts are added up exactly.
LEMMA MovementType ==
    ASSUME NEW r \in Requests, NEW a, NEW t
    PROVE  Movement(a, t, r) \in Int
<1>1. r \in Seq(Entry)
  BY RequestAssumption DEF Entry
<1> QED
  BY <1>1, EntriesSummable, MovementIsSum

\* A posting does not move the accounts it does not name.
LEMMA MovementElsewhere ==
    ASSUME NEW r, Summable(r), NEW a, a \notin AccountsOf(r), NEW t
    PROVE  Movement(a, t, r) = 0
<1>1. \A i \in DOMAIN r : Signed(a, t, r)[i] = 0
  BY DEF Signed, AccountsOf, ToSet
<1>2. SumFunctionOnSet(Signed(a, t, r), DOMAIN r) = 0
  BY <1>1, SumZero DEF Summable
<1> QED
  BY <1>2, MovementIsSum

\* Every step keeps the types.
LEMMA TypeStep ==
    ASSUME TypeOK, Control, HeldRowsFresh, [Next]_vars
    PROVE  TypeOK'
<1>1. ASSUME NEW p \in Poster, NEW r \in Requests, Submit(p, r) PROVE TypeOK'
  BY <1>1 DEF TypeOK, Submit, rows, books
<1>2. ASSUME NEW p \in Poster, NEW r \in Requests, Reject(p, r) PROVE TypeOK'
  BY <1>2, RollbackType DEF Reject
<1>3. ASSUME NEW p \in Poster, SelectRows(p) PROVE TypeOK'
  <2>1. {a \in AccountsOf(request[p]) : Live(a)} \subseteq Account
    BY <1>3, RequestAccounts DEF SelectRows, TypeOK, Control
  <2> QED
    BY <1>3, <2>1 DEF TypeOK, SelectRows, rows, books
<1>4. ASSUME NEW p \in Poster, NEW a \in Account, LockRow(p, a) PROVE TypeOK'
  <2>1. balance[a] * Scale \in Int
    BY ScaleAssumption DEF TypeOK
  <2>2. CASE Live(a)
    <3>1. mem' = [mem EXCEPT ![p] = [@ EXCEPT ![a] = balance[a] * Scale]]
      BY <1>4, <2>2 DEF LockRow
    <3>2. mem' \in [Poster -> [Account -> Int]]
      BY <2>1, <3>1 DEF TypeOK
    <3>3. /\ want' = [want EXCEPT ![p] = @ \ {a}]
          /\ held' = [held EXCEPT ![p] = @ \cup {a}]
          /\ UNCHANGED <<users, type, opening, balance, ledger, pc, request, reply>>
      BY <1>4, <2>2 DEF LockRow, rows, books
    <3> QED
      BY <3>2, <3>3 DEF TypeOK
  <2>3. CASE ~Live(a)
    BY <1>4, <2>3 DEF TypeOK, LockRow, rows, books
  <2> QED
    BY <2>2, <2>3
<1>5. ASSUME NEW p \in Poster, MissingRows(p) PROVE TypeOK'
  BY <1>5, RollbackType DEF MissingRows
<1>6. ASSUME NEW p \in Poster, InsertEntries(p) PROVE TypeOK'
  <2>1. request[p] \in Requests
    BY <1>6 DEF InsertEntries, TypeOK, Control
  <2>2. \A a \in held[p] : Movement(a, type[a], request[p]) \in Int
    BY <2>1, MovementType
  <2> DEFINE row == [a \in Account |-> IF a \in held[p]
                                       THEN mem[p][a] + Movement(a, type[a], request[p])
                                       ELSE mem[p][a]]
  <2>3. row \in [Account -> Int]
    BY <2>2 DEF TypeOK
  <2>4. mem' = [mem EXCEPT ![p] = row]
    BY <1>6, Zenon DEF InsertEntries
  <2>5. mem' \in [Poster -> [Account -> Int]]
    BY <2>3, <2>4 DEF TypeOK
  <2> QED
    BY <1>6, <2>5 DEF TypeOK, InsertEntries, rows, books
<1>7. ASSUME NEW p \in Poster, PersistBalances(p) PROVE TypeOK'
  BY <1>7 DEF TypeOK, PersistBalances, rows, books
<1>8. ASSUME NEW p \in Poster, OutOfRange(p) PROVE TypeOK'
  BY <1>8, RollbackType DEF OutOfRange
<1>9. ASSUME NEW p \in Poster, LogEvent(p) PROVE TypeOK'
  BY <1>9 DEF TypeOK, LogEvent, rows, books
<1>10. ASSUME NEW p \in Poster, NEW code \in {"201", "500"}, Commit(p, code) PROVE TypeOK'
  <2>1. request[p] \in Requests
    BY <1>10 DEF Commit, TypeOK, Control
  <2>2. ledger' \in Seq(Seq(Entry))
    BY <1>10, <2>1, EntryRowsType DEF Commit, TypeOK
  <2>3. balance' \in [Account -> -MaxStored .. MaxStored]
    BY <1>10 DEF Commit, TypeOK, Control, Fits
  <2>4. End(p, code)
    BY <1>10 DEF Commit
  <2> QED
    BY <1>10, <2>2, <2>3, <2>4, EndType DEF TypeOK, Commit, rows
<1>11. ASSUME NEW p \in Poster, Fail(p) PROVE TypeOK'
  BY <1>11, RollbackType DEF Fail
<1>12. CASE Crash
  BY <1>12 DEF TypeOK, Crash, rows, books
<1>13. ASSUME NEW u \in User, Register(u) PROVE TypeOK'
  BY <1>13, OwnerAssumption DEF TypeOK, Register, work
<1>14. ASSUME NEW u \in User, DeleteUser(u) PROVE TypeOK'
  BY <1>14 DEF TypeOK, DeleteUser, work
<1>15. ASSUME NEW u \in User, NEW a \in Account, NEW t \in CustomTypes,
              NEW b \in OpeningBalances, CreateAccount(u, a, t, b)
       PROVE TypeOK'
  BY <1>15, OwnerAssumption DEF TypeOK, CreateAccount, work
<1>16. CASE UNCHANGED vars
  BY <1>16 DEF TypeOK, vars
<1> QED
  BY <1>1, <1>2, <1>3, <1>4, <1>5, <1>6, <1>7, <1>8, <1>9, <1>10, <1>11, <1>12,
     <1>13, <1>14, <1>15, <1>16 DEF Next, Step

-----------------------------------------------------------------------------
\* Each part of the invariant is kept by every step.

\* Every step keeps what the statements rely on.
LEMMA ControlStep ==
    ASSUME TypeOK, TypeOK', Control, [Next]_vars
    PROVE  Control'
<1> USE RequestAssumption
<1>1. ASSUME NEW p \in Poster, NEW r \in Requests, Submit(p, r) PROVE Control'
  BY <1>1 DEF TypeOK, Control, Submit, rows, books
<1>2. ASSUME NEW p \in Poster, NEW r \in Requests, Reject(p, r) PROVE Control'
  BY <1>2 DEF TypeOK, Control, Reject, Rollback, End, rows, books
<1>3. ASSUME NEW p \in Poster, SelectRows(p) PROVE Control'
  BY <1>3 DEF TypeOK, Control, SelectRows, rows, books
<1>4. ASSUME NEW p \in Poster, NEW a \in Account, LockRow(p, a) PROVE Control'
  BY <1>4 DEF TypeOK, Control, LockRow, rows, books
<1>5. ASSUME NEW p \in Poster, MissingRows(p) PROVE Control'
  BY <1>5 DEF TypeOK, Control, MissingRows, Rollback, End, rows, books
<1>6. ASSUME NEW p \in Poster, InsertEntries(p) PROVE Control'
  BY <1>6 DEF TypeOK, Control, InsertEntries, rows, books
<1>7. ASSUME NEW p \in Poster, PersistBalances(p) PROVE Control'
  BY <1>7 DEF TypeOK, Control, PersistBalances, rows, books
<1>8. ASSUME NEW p \in Poster, OutOfRange(p) PROVE Control'
  BY <1>8 DEF TypeOK, Control, OutOfRange, Rollback, End, rows, books
<1>9. ASSUME NEW p \in Poster, LogEvent(p) PROVE Control'
  BY <1>9 DEF TypeOK, Control, LogEvent, rows, books
<1>10. ASSUME NEW p \in Poster, NEW code \in {"201", "500"}, Commit(p, code) PROVE Control'
  BY <1>10 DEF TypeOK, Control, Commit, End, rows
<1>11. ASSUME NEW p \in Poster, Fail(p) PROVE Control'
  BY <1>11 DEF TypeOK, Control, Fail, Rollback, End, rows, books
<1>12. CASE Crash
  BY <1>12 DEF TypeOK, Control, Crash, rows, books
<1>13. ASSUME NEW u \in User, Register(u) PROVE Control'
  BY <1>13 DEF TypeOK, Control, Register, work
<1>14. ASSUME NEW u \in User, DeleteUser(u) PROVE Control'
  BY <1>14 DEF TypeOK, Control, DeleteUser, work
<1>15. ASSUME NEW u \in User, NEW a \in Account, NEW t \in CustomTypes,
              NEW b \in OpeningBalances, CreateAccount(u, a, t, b) PROVE Control'
  BY <1>15 DEF TypeOK, Control, CreateAccount, work
<1>16. CASE UNCHANGED vars
  BY <1>16 DEF TypeOK, Control, vars
<1> QED
  BY <1>1, <1>2, <1>3, <1>4, <1>5, <1>6, <1>7, <1>8,
     <1>9, <1>10, <1>11, <1>12, <1>13, <1>14, <1>15, <1>16 DEF Next, Step

\* Accounts go when their user does, and none is opened for a deleted user.
LEMMA OwnersLiveStep ==
    ASSUME TypeOK, OwnersLive, [Next]_vars
    PROVE  OwnersLive'
<1> USE OwnerAssumption
<1>1. ASSUME NEW p \in Poster, NEW r \in Requests, Submit(p, r) PROVE OwnersLive'
  BY <1>1 DEF TypeOK, OwnersLive, Live, Submit, rows, books
<1>2. ASSUME NEW p \in Poster, NEW r \in Requests, Reject(p, r) PROVE OwnersLive'
  BY <1>2 DEF TypeOK, OwnersLive, Live, Reject, Rollback, End, rows, books
<1>3. ASSUME NEW p \in Poster, SelectRows(p) PROVE OwnersLive'
  BY <1>3 DEF TypeOK, OwnersLive, Live, SelectRows, rows, books
<1>4. ASSUME NEW p \in Poster, NEW a \in Account, LockRow(p, a) PROVE OwnersLive'
  BY <1>4 DEF TypeOK, OwnersLive, Live, LockRow, rows, books
<1>5. ASSUME NEW p \in Poster, MissingRows(p) PROVE OwnersLive'
  BY <1>5 DEF TypeOK, OwnersLive, Live, MissingRows, Rollback, End, rows, books
<1>6. ASSUME NEW p \in Poster, InsertEntries(p) PROVE OwnersLive'
  BY <1>6 DEF TypeOK, OwnersLive, Live, InsertEntries, rows, books
<1>7. ASSUME NEW p \in Poster, PersistBalances(p) PROVE OwnersLive'
  BY <1>7 DEF TypeOK, OwnersLive, Live, PersistBalances, rows, books
<1>8. ASSUME NEW p \in Poster, OutOfRange(p) PROVE OwnersLive'
  BY <1>8 DEF TypeOK, OwnersLive, Live, OutOfRange, Rollback, End, rows, books
<1>9. ASSUME NEW p \in Poster, LogEvent(p) PROVE OwnersLive'
  BY <1>9 DEF TypeOK, OwnersLive, Live, LogEvent, rows, books
<1>10. ASSUME NEW p \in Poster, NEW code \in {"201", "500"}, Commit(p, code) PROVE OwnersLive'
  BY <1>10 DEF TypeOK, OwnersLive, Live, Commit, End, rows
<1>11. ASSUME NEW p \in Poster, Fail(p) PROVE OwnersLive'
  BY <1>11 DEF TypeOK, OwnersLive, Live, Fail, Rollback, End, rows, books
<1>12. CASE Crash
  BY <1>12 DEF TypeOK, OwnersLive, Live, Crash, rows, books
<1>13. ASSUME NEW u \in User, Register(u) PROVE OwnersLive'
  BY <1>13 DEF TypeOK, OwnersLive, Live, Register, work
<1>14. ASSUME NEW u \in User, DeleteUser(u) PROVE OwnersLive'
  <2>1. ASSUME NEW a \in Account, Live(a)' PROVE Live(a) /\ Owner[a] # u
    BY <1>14, <2>1 DEF DeleteUser, RowsOf, Live, TypeOK, AccountType, DebitNormal, CreditNormal
  <2> QED
    BY <1>14, <2>1 DEF DeleteUser, OwnersLive, TypeOK
<1>15. ASSUME NEW u \in User, NEW a \in Account, NEW t \in CustomTypes,
              NEW b \in OpeningBalances, CreateAccount(u, a, t, b) PROVE OwnersLive'
  BY <1>15 DEF TypeOK, OwnersLive, Live, CreateAccount, work
<1>16. CASE UNCHANGED vars
  BY <1>16 DEF TypeOK, OwnersLive, Live, vars
<1> QED
  BY <1>1, <1>2, <1>3, <1>4, <1>5, <1>6, <1>7, <1>8,
     <1>9, <1>10, <1>11, <1>12, <1>13, <1>14, <1>15, <1>16 DEF Next, Step

\* Every step keeps the locks exclusive.
LEMMA LocksStep ==
    ASSUME TypeOK, LocksExclusive, [Next]_vars
    PROVE  LocksExclusive'
<1>1. ASSUME NEW p \in Poster, NEW r \in Requests, Submit(p, r) PROVE LocksExclusive'
  BY <1>1 DEF TypeOK, LocksExclusive, Submit, rows, books
<1>2. ASSUME NEW p \in Poster, NEW r \in Requests, Reject(p, r) PROVE LocksExclusive'
  BY <1>2 DEF TypeOK, LocksExclusive, Reject, Rollback, End, rows, books
<1>3. ASSUME NEW p \in Poster, SelectRows(p) PROVE LocksExclusive'
  BY <1>3 DEF TypeOK, LocksExclusive, SelectRows, rows, books
<1>4. ASSUME NEW p \in Poster, NEW a \in Account, LockRow(p, a) PROVE LocksExclusive'
  <2>1. ASSUME NEW q \in Poster, NEW r \in Poster, q # r
        PROVE  held'[q] \cap held'[r] = {}
    <3>1. held'[q] = held[q] \/ (q = p /\ held'[q] = held[q] \cup {a})
      BY <1>4, LockRowSets
    <3>2. held'[r] = held[r] \/ (r = p /\ held'[r] = held[r] \cup {a})
      BY <1>4, LockRowSets
    <3>3. a \notin held[q] /\ a \notin held[r] /\ held[q] \cap held[r] = {}
      BY <1>4, <2>1, LockRowCases DEF LocksExclusive
    <3> QED
      BY <2>1, <3>1, <3>2, <3>3
  <2> QED
    BY <2>1 DEF LocksExclusive
<1>5. ASSUME NEW p \in Poster, MissingRows(p) PROVE LocksExclusive'
  BY <1>5 DEF TypeOK, LocksExclusive, MissingRows, Rollback, End, rows, books
<1>6. ASSUME NEW p \in Poster, InsertEntries(p) PROVE LocksExclusive'
  BY <1>6 DEF TypeOK, LocksExclusive, InsertEntries, rows, books
<1>7. ASSUME NEW p \in Poster, PersistBalances(p) PROVE LocksExclusive'
  BY <1>7 DEF TypeOK, LocksExclusive, PersistBalances, rows, books
<1>8. ASSUME NEW p \in Poster, OutOfRange(p) PROVE LocksExclusive'
  BY <1>8 DEF TypeOK, LocksExclusive, OutOfRange, Rollback, End, rows, books
<1>9. ASSUME NEW p \in Poster, LogEvent(p) PROVE LocksExclusive'
  BY <1>9 DEF TypeOK, LocksExclusive, LogEvent, rows, books
<1>10. ASSUME NEW p \in Poster, NEW code \in {"201", "500"}, Commit(p, code) PROVE LocksExclusive'
  BY <1>10 DEF TypeOK, LocksExclusive, Commit, End, rows
<1>11. ASSUME NEW p \in Poster, Fail(p) PROVE LocksExclusive'
  BY <1>11 DEF TypeOK, LocksExclusive, Fail, Rollback, End, rows, books
<1>12. CASE Crash
  BY <1>12 DEF TypeOK, LocksExclusive, Crash, rows, books
<1>13. ASSUME NEW u \in User, Register(u) PROVE LocksExclusive'
  BY <1>13 DEF TypeOK, LocksExclusive, Register, work
<1>14. ASSUME NEW u \in User, DeleteUser(u) PROVE LocksExclusive'
  BY <1>14 DEF TypeOK, LocksExclusive, DeleteUser, work
<1>15. ASSUME NEW u \in User, NEW a \in Account, NEW t \in CustomTypes,
              NEW b \in OpeningBalances, CreateAccount(u, a, t, b) PROVE LocksExclusive'
  BY <1>15 DEF TypeOK, LocksExclusive, CreateAccount, work
<1>16. CASE UNCHANGED vars
  BY <1>16 DEF TypeOK, LocksExclusive, vars
<1> QED
  BY <1>1, <1>2, <1>3, <1>4, <1>5, <1>6, <1>7, <1>8,
     <1>9, <1>10, <1>11, <1>12, <1>13, <1>14, <1>15, <1>16 DEF Next, Step

\* Rows are locked in ascending order, so a poster waits above all it holds.
LEMMA AscendStep ==
    ASSUME TypeOK, Control, WaitsAscend, [Next]_vars
    PROVE  WaitsAscend'
<1> USE AccountAssumption
<1>1. ASSUME NEW p \in Poster, NEW r \in Requests, Submit(p, r) PROVE WaitsAscend'
  BY <1>1 DEF TypeOK, Control, WaitsAscend, Submit, rows, books
<1>2. ASSUME NEW p \in Poster, NEW r \in Requests, Reject(p, r) PROVE WaitsAscend'
  BY <1>2 DEF TypeOK, Control, WaitsAscend, Reject, Rollback, End, rows, books
<1>3. ASSUME NEW p \in Poster, SelectRows(p) PROVE WaitsAscend'
  BY <1>3 DEF TypeOK, Control, WaitsAscend, SelectRows, rows, books
<1>4. ASSUME NEW p \in Poster, NEW a \in Account, LockRow(p, a) PROVE WaitsAscend'
  <2>1. ASSUME NEW q \in Poster, NEW x \in held'[q], NEW y \in want'[q]
        PROVE  x < y
    <3>1. y \in want[q] /\ y \in Account
      BY <1>4, LockRowSets DEF TypeOK
    <3>2. CASE x \in held[q]
      BY <3>1, <3>2 DEF WaitsAscend
    <3>3. CASE x \notin held[q]
      <4>1. q = p /\ x = a
        BY <1>4, <3>3, LockRowSets
      <4>2. a <= y /\ a # y
        BY <1>4, <3>1, <4>1, LockRowSets, LockRowCases
      <4> QED
        BY <3>1, <4>1, <4>2
    <3> QED
      BY <3>2, <3>3
  <2> QED
    BY <2>1 DEF WaitsAscend
<1>5. ASSUME NEW p \in Poster, MissingRows(p) PROVE WaitsAscend'
  BY <1>5 DEF TypeOK, Control, WaitsAscend, MissingRows, Rollback, End, rows, books
<1>6. ASSUME NEW p \in Poster, InsertEntries(p) PROVE WaitsAscend'
  BY <1>6 DEF TypeOK, Control, WaitsAscend, InsertEntries, rows, books
<1>7. ASSUME NEW p \in Poster, PersistBalances(p) PROVE WaitsAscend'
  BY <1>7 DEF TypeOK, Control, WaitsAscend, PersistBalances, rows, books
<1>8. ASSUME NEW p \in Poster, OutOfRange(p) PROVE WaitsAscend'
  BY <1>8 DEF TypeOK, Control, WaitsAscend, OutOfRange, Rollback, End, rows, books
<1>9. ASSUME NEW p \in Poster, LogEvent(p) PROVE WaitsAscend'
  BY <1>9 DEF TypeOK, Control, WaitsAscend, LogEvent, rows, books
<1>10. ASSUME NEW p \in Poster, NEW code \in {"201", "500"}, Commit(p, code) PROVE WaitsAscend'
  BY <1>10 DEF TypeOK, Control, WaitsAscend, Commit, End, rows
<1>11. ASSUME NEW p \in Poster, Fail(p) PROVE WaitsAscend'
  BY <1>11 DEF TypeOK, Control, WaitsAscend, Fail, Rollback, End, rows, books
<1>12. CASE Crash
  BY <1>12 DEF TypeOK, Control, WaitsAscend, Crash, rows, books
<1>13. ASSUME NEW u \in User, Register(u) PROVE WaitsAscend'
  BY <1>13 DEF TypeOK, Control, WaitsAscend, Register, work
<1>14. ASSUME NEW u \in User, DeleteUser(u) PROVE WaitsAscend'
  BY <1>14 DEF TypeOK, Control, WaitsAscend, DeleteUser, work
<1>15. ASSUME NEW u \in User, NEW a \in Account, NEW t \in CustomTypes,
              NEW b \in OpeningBalances, CreateAccount(u, a, t, b) PROVE WaitsAscend'
  BY <1>15 DEF TypeOK, Control, WaitsAscend, CreateAccount, work
<1>16. CASE UNCHANGED vars
  BY <1>16 DEF TypeOK, Control, WaitsAscend, vars
<1> QED
  BY <1>1, <1>2, <1>3, <1>4, <1>5, <1>6, <1>7, <1>8,
     <1>9, <1>10, <1>11, <1>12, <1>13, <1>14, <1>15, <1>16 DEF Next, Step

\* No step changes a row that another poster holds: what is in memory stays
\* fresh.
LEMMA FreshStep ==
    ASSUME TypeOK, TypeOK', Control, OwnersLive, LocksExclusive, HeldRowsFresh, [Next]_vars
    PROVE  HeldRowsFresh'
<1>1. ASSUME NEW p \in Poster, NEW r \in Requests, Submit(p, r) PROVE HeldRowsFresh'
  BY <1>1 DEF TypeOK, Control, OwnersLive, LocksExclusive, HeldRowsFresh, Live, Submit, rows, books
<1>2. ASSUME NEW p \in Poster, NEW r \in Requests, Reject(p, r) PROVE HeldRowsFresh'
  BY <1>2 DEF TypeOK, Control, OwnersLive, LocksExclusive, HeldRowsFresh, Live, Reject, Rollback, End, rows, books
<1>3. ASSUME NEW p \in Poster, SelectRows(p) PROVE HeldRowsFresh'
  BY <1>3 DEF TypeOK, Control, OwnersLive, LocksExclusive, HeldRowsFresh, Live, SelectRows, rows, books
<1>4. ASSUME NEW p \in Poster, NEW a \in Account, LockRow(p, a) PROVE HeldRowsFresh'
  <2>1. ASSUME NEW q \in Poster, NEW x \in held[q]
        PROVE  mem'[q][x] = mem[q][x]
    <3>1. x # a /\ x \in Account
      BY <1>4, <2>1, LockRowCases DEF TypeOK
    <3>2. CASE mem' = [mem EXCEPT ![p] = [@ EXCEPT ![a] = balance[a] * Scale]]
      <4>1. CASE q = p
        BY <3>1, <3>2, <4>1 DEF TypeOK
      <4>2. CASE q # p
        BY <3>2, <4>2 DEF TypeOK
      <4> QED
        BY <4>1, <4>2
    <3> QED
      BY <1>4, <3>2, LockRowCases
  <2>2. ASSUME NEW q \in Poster, NEW x \in held'[q], x \notin held[q]
        PROVE  q = p /\ x = a /\ Live(a) /\ mem'[p][a] = balance[a] * Scale
    BY <1>4, <2>2, LockRowCases DEF TypeOK
  <2>3. balance[a] * Scale \in Int
    BY ScaleAssumption DEF TypeOK
  <2>4. pc[p] = "lock" /\ UNCHANGED <<pc, type, balance, request>>
    BY <1>4, LockRowCases
  <2> QED
    BY <2>1, <2>2, <2>3, <2>4 DEF HeldRowsFresh, Live
<1>5. ASSUME NEW p \in Poster, MissingRows(p) PROVE HeldRowsFresh'
  BY <1>5 DEF TypeOK, Control, OwnersLive, LocksExclusive, HeldRowsFresh, Live, MissingRows, Rollback, End, rows, books
<1>6. ASSUME NEW p \in Poster, InsertEntries(p) PROVE HeldRowsFresh'
  <2>1. ASSUME NEW q \in Poster, NEW x \in held[q], q # p
        PROVE  mem'[q][x] = mem[q][x] /\ pc'[q] = pc[q]
    BY <1>6, <2>1 DEF InsertEntries, TypeOK
  <2>2. ASSUME NEW x \in held[p]
        PROVE  mem'[p][x] = balance[x] * Scale + Movement(x, type[x], request[p])
    <3>1. mem'[p][x] = mem[p][x] + Movement(x, type[x], request[p])
      BY <1>6, <2>2 DEF InsertEntries, TypeOK
    <3>2. mem[p][x] = balance[x] * Scale + 0
      BY <1>6, <2>2 DEF InsertEntries, HeldRowsFresh
    <3>3. balance[x] * Scale \in Int
      BY <2>2, ScaleAssumption DEF TypeOK
    <3> QED
      BY <3>1, <3>2, <3>3
  <2>3. pc'[p] = "persist" /\ UNCHANGED <<held, type, balance, request>>
    BY <1>6 DEF InsertEntries, rows, books, TypeOK
  <2> QED
    BY <2>1, <2>2, <2>3 DEF HeldRowsFresh, Live
<1>7. ASSUME NEW p \in Poster, PersistBalances(p) PROVE HeldRowsFresh'
  BY <1>7 DEF TypeOK, Control, OwnersLive, LocksExclusive, HeldRowsFresh, Live, PersistBalances, rows, books
<1>8. ASSUME NEW p \in Poster, OutOfRange(p) PROVE HeldRowsFresh'
  BY <1>8 DEF TypeOK, Control, OwnersLive, LocksExclusive, HeldRowsFresh, Live, OutOfRange, Rollback, End, rows, books
<1>9. ASSUME NEW p \in Poster, LogEvent(p) PROVE HeldRowsFresh'
  BY <1>9 DEF TypeOK, Control, OwnersLive, LocksExclusive, HeldRowsFresh, Live, LogEvent, rows, books
<1>10. ASSUME NEW p \in Poster, NEW code \in {"201", "500"}, Commit(p, code) PROVE HeldRowsFresh'
  BY <1>10 DEF TypeOK, Control, OwnersLive, LocksExclusive, HeldRowsFresh, Live, Commit, End, rows
<1>11. ASSUME NEW p \in Poster, Fail(p) PROVE HeldRowsFresh'
  BY <1>11 DEF TypeOK, Control, OwnersLive, LocksExclusive, HeldRowsFresh, Live, Fail, Rollback, End, rows, books
<1>12. CASE Crash
  BY <1>12 DEF TypeOK, Control, OwnersLive, LocksExclusive, HeldRowsFresh, Live, Crash, rows, books
<1>13. ASSUME NEW u \in User, Register(u) PROVE HeldRowsFresh'
  BY <1>13 DEF TypeOK, Control, OwnersLive, LocksExclusive, HeldRowsFresh, Live, Register, work
<1>14. ASSUME NEW u \in User, DeleteUser(u) PROVE HeldRowsFresh'
  <2>1. \A q \in Poster : \A x \in held[q] : x \notin RowsOf(u)
    BY <1>14 DEF DeleteUser, Locked
  <2>2. \A q \in Poster : \A x \in held[q] : type'[x] = type[x]
    BY <1>14, <2>1 DEF DeleteUser, TypeOK
  <2> QED
    BY <1>14, <2>2 DEF DeleteUser, HeldRowsFresh, Live, work
<1>15. ASSUME NEW u \in User, NEW a \in Account, NEW t \in CustomTypes,
              NEW b \in OpeningBalances, CreateAccount(u, a, t, b) PROVE HeldRowsFresh'
  <2>1. ~Live(a)
    BY <1>15 DEF CreateAccount, Live, AccountType, DebitNormal, CreditNormal
  <2>2. \A q \in Poster : a \notin held[q]
    BY <2>1 DEF HeldRowsFresh
  <2>3. \A q \in Poster : \A x \in held[q] : type'[x] = type[x] /\ balance'[x] = balance[x]
    BY <1>15, <2>2 DEF CreateAccount, TypeOK
  <2> QED
    BY <1>15, <2>3 DEF CreateAccount, HeldRowsFresh, Live, work
<1>16. CASE UNCHANGED vars
  BY <1>16 DEF TypeOK, Control, OwnersLive, LocksExclusive, HeldRowsFresh, Live, vars
<1> QED
  BY <1>1, <1>2, <1>3, <1>4, <1>5, <1>6, <1>7, <1>8,
     <1>9, <1>10, <1>11, <1>12, <1>13, <1>14, <1>15, <1>16 DEF Next, Step

-----------------------------------------------------------------------------
\* The initial states satisfy the invariant.
LEMMA InvInit == Init => IInv
<1> SUFFICES ASSUME Init PROVE IInv
  OBVIOUS
<1>1. TypeOK
  BY TypeInit
<1>2. \A a \in Account : ~Live(a)
  BY DEF Init, Live, AccountType, DebitNormal, CreditNormal
<1> QED
  BY <1>1, <1>2 DEF Init, IInv, Control, OwnersLive, LocksExclusive, HeldRowsFresh, WaitsAscend

\* Every step preserves the invariant.
LEMMA InvStep == IInv /\ [Next]_vars => IInv'
<1> SUFFICES ASSUME IInv, [Next]_vars PROVE IInv'
  OBVIOUS
<1>1. TypeOK /\ Control /\ OwnersLive /\ LocksExclusive /\ HeldRowsFresh /\ WaitsAscend
  BY DEF IInv
<1>2. TypeOK'
  BY <1>1, TypeStep
<1>3. Control'
  BY <1>1, <1>2, ControlStep
<1>4. OwnersLive'
  BY <1>1, OwnersLiveStep
<1>5. LocksExclusive'
  BY <1>1, LocksStep
<1>6. WaitsAscend'
  BY <1>1, AscendStep
<1>7. HeldRowsFresh'
  BY <1>1, <1>2, FreshStep
<1> QED
  BY <1>2, <1>3, <1>4, <1>5, <1>6, <1>7 DEF IInv

\* The inductive invariant of the ledger holds in every state.
THEOREM Invariance == Spec => []IInv
BY InvInit, InvStep, PTL DEF Spec

\* Every variable of the ledger keeps its type.
THEOREM TypeCorrect == Spec => []TypeOK
BY Invariance, PTL DEF IInv

\* SELECT ... FOR UPDATE gives a row to one transaction at a time.
THEOREM MutualExclusion == Spec => []LocksExclusive
BY Invariance, PTL DEF IInv

\* The balance a posting computes with is still the committed one when it
\* commits: concurrent postings lose no update.
THEOREM NoLostUpdate == Spec => []HeldRowsFresh
BY Invariance, PTL DEF IInv

\* Rows are waited for in ascending order.
THEOREM LockOrder == Spec => []WaitsAscend
BY Invariance, PTL DEF IInv

\* A bounded set of numbers that is not empty has a largest element.
LEMMA Largest ==
    ASSUME NEW T, T \subseteq 0 .. MaxId, T # {}
    PROVE  \E a \in T : \A b \in T : b <= a
<1> DEFINE U == {MaxId - a : a \in T}
<1>1. \A a \in T : a \in Int /\ MaxId - a \in Nat
  BY AccountAssumption
<1>2. U \subseteq Nat
  BY <1>1
<1>3. U # {}
  <2>1. PICK a \in T : TRUE
    OBVIOUS
  <2>2. MaxId - a \in U
    BY <2>1
  <2> QED
    BY <2>2
<1> HIDE DEF U
<1>4. PICK m \in U : \A n \in U : ~(<<n, m>> \in OpToRel(<, Nat))
  BY <1>2, <1>3, NatLessThanWellFounded, WFMin
<1>5. \A n \in U : ~(n < m)
  BY <1>2, <1>4 DEF OpToRel
<1>6. PICK a \in T : m = MaxId - a
  BY DEF U
<1>7. ASSUME NEW b \in T PROVE b <= a
  <2>1. MaxId - b \in U
    BY DEF U
  <2> QED
    BY <1>1, <1>5, <1>6, <2>1, AccountAssumption
<1> QED
  BY <1>6, <1>7

\* Posters that wait for rows in ascending order do not wait in a ring: the
\* one with the highest wanted row would wait below itself.
LEMMA NoCycle == IInv => NoLockCycle
<1> SUFFICES ASSUME IInv, NEW S \in SUBSET Poster, S # {},
                    \A p \in S : \E q \in S : WaitsFor(p, q)
             PROVE  FALSE
  BY DEF NoLockCycle
<1> DEFINE T == {a \in Account : \E p, q \in S : NextRow(p, a) /\ a \in held[q]}
<1>1. T \subseteq 0 .. MaxId
  BY AccountAssumption
<1>2. T # {}
  <2>0. PICK p \in S : TRUE
    OBVIOUS
  <2>1. PICK q \in S : WaitsFor(p, q)
    BY <2>0
  <2>2. PICK a \in want[p] : NextRow(p, a) /\ a \in held[q]
    BY <2>1 DEF WaitsFor
  <2>3. a \in T
    BY <2>2 DEF IInv, TypeOK
  <2> QED
    BY <2>3
<1>3. PICK a \in T : \A b \in T : b <= a
  BY <1>1, <1>2, Largest
<1>4. PICK q \in S : a \in held[q]
  OBVIOUS
<1>5. PICK r \in S : WaitsFor(q, r)
  OBVIOUS
<1>6. PICK b \in want[q] : NextRow(q, b) /\ b \in held[r]
  BY <1>5 DEF WaitsFor
<1>7. b \in T
  BY <1>6 DEF IInv, TypeOK
<1>8. a < b
  BY <1>4, <1>6 DEF IInv, WaitsAscend
<1> QED
  BY <1>1, <1>3, <1>7, <1>8

\* Concurrent postings cannot deadlock on account rows, however many there
\* are and whatever they lock.
THEOREM DeadlockFree == Spec => []NoLockCycle
BY Invariance, NoCycle, PTL

-----------------------------------------------------------------------------
\* Each step of the ledger is a step of its abstraction or changes nothing in it.

\* The ledger starts where the abstract one does.
LEMMA AbsInit == Init => Abs!Init
BY DEF Init, Abs!Init

\* A rollback is a refusal.
LEMMA RollbackRefuses ==
    ASSUME NEW p \in Poster, NEW code \in {"400", "500"}, Rollback(p, code)
    PROVE  Abs!Refuse(p, code)
BY DEF Rollback, End, Abs!Refuse, rows, books, Abs!rows, Abs!books

\* A COMMIT is a whole posting on the balances of that instant.
LEMMA CommitPosts ==
    ASSUME IInv, NEW p \in Poster, NEW code \in {"201", "500"}, Commit(p, code)
    PROVE  Abs!Post(p, code)
<1>1. /\ request[p] \in Requests
      /\ held[p] = AccountsOf(request[p])
      /\ \A a \in held[p] : Live(a) /\ Fits(mem[p][a])
  BY RequestAssumption DEF IInv, TypeOK, Control, HeldRowsFresh, Commit
<1>2. ASSUME NEW a \in held[p]
      PROVE  Stored(mem[p][a]) = NewBalance(a, type[a], balance[a], request[p])
  BY DEF IInv, HeldRowsFresh, Commit, NewBalance
<1>3. balance' = [a \in Account |->
                    IF a \in AccountsOf(request[p])
                    THEN NewBalance(a, type[a], balance[a], request[p]) ELSE balance[a]]
  BY <1>1, <1>2 DEF Commit
<1>4. \A a \in Account : balance'[a] \in -MaxStored .. MaxStored
  BY <1>1 DEF Commit, IInv, TypeOK, Fits
<1>5. \A a \in AccountsOf(request[p]) : Abs!Live(a)
  BY <1>1 DEF Live, Abs!Live
<1> QED
  BY <1>1, <1>3, <1>4, <1>5, RequestAssumption DEF Commit, End, Abs!Post, rows, Abs!rows

\* A step of the ledger is one of the abstract ledger, or nothing.
LEMMA AbsStep == IInv /\ [Next]_vars => [Abs!Next]_(Abs!vars)
<1> SUFFICES ASSUME IInv, [Next]_vars PROVE [Abs!Next]_(Abs!vars)
  OBVIOUS
<1> USE DEF rows, books, work, Abs!rows, Abs!books, Abs!vars
<1>1. ASSUME NEW p \in Poster, NEW r \in Requests, Submit(p, r) PROVE Abs!Ask(p, r)
  BY <1>1 DEF Submit, Abs!Ask, IInv, Control
<1>2. ASSUME NEW p \in Poster, NEW r \in Requests, Reject(p, r) PROVE Abs!Refuse(p, "400")
  BY <1>2, RollbackRefuses DEF Reject
<1>3. ASSUME NEW p \in Poster, SelectRows(p) PROVE UNCHANGED Abs!vars
  BY <1>3 DEF SelectRows
<1>4. ASSUME NEW p \in Poster, NEW a \in Account, LockRow(p, a) PROVE UNCHANGED Abs!vars
  BY <1>4 DEF LockRow
<1>5. ASSUME NEW p \in Poster, MissingRows(p) PROVE Abs!Refuse(p, "400")
  BY <1>5, RollbackRefuses DEF MissingRows
<1>6. ASSUME NEW p \in Poster, InsertEntries(p) PROVE UNCHANGED Abs!vars
  BY <1>6 DEF InsertEntries
<1>7. ASSUME NEW p \in Poster, PersistBalances(p) PROVE UNCHANGED Abs!vars
  BY <1>7 DEF PersistBalances
<1>8. ASSUME NEW p \in Poster, OutOfRange(p) PROVE Abs!Refuse(p, "500")
  BY <1>8, RollbackRefuses DEF OutOfRange
<1>9. ASSUME NEW p \in Poster, LogEvent(p) PROVE UNCHANGED Abs!vars
  BY <1>9 DEF LogEvent
<1>10. ASSUME NEW p \in Poster, NEW code \in {"201", "500"}, Commit(p, code)
       PROVE Abs!Post(p, code)
  BY <1>10, CommitPosts
<1>11. ASSUME NEW p \in Poster, Fail(p) PROVE Abs!Refuse(p, "500")
  BY <1>11, RollbackRefuses DEF Fail
<1>12. CASE Crash
  BY <1>12 DEF Crash, Abs!Restart, Abs!Next
<1>13. ASSUME NEW u \in User, Register(u) PROVE Abs!Register(u)
  BY <1>13 DEF Register, Abs!Register
<1>14. ASSUME NEW u \in User, DeleteUser(u) PROVE Abs!DeleteUser(u)
  BY <1>14 DEF DeleteUser, Abs!DeleteUser, RowsOf, Abs!RowsOf, Live, Abs!Live
<1>15. ASSUME NEW u \in User, NEW a \in Account, NEW t \in CustomTypes,
              NEW b \in OpeningBalances, CreateAccount(u, a, t, b)
       PROVE Abs!CreateAccount(u, a, t, b)
  BY <1>15 DEF CreateAccount, Abs!CreateAccount
<1>16. CASE UNCHANGED vars
  BY <1>16 DEF vars
<1> QED
  BY <1>1, <1>2, <1>3, <1>4, <1>5, <1>6, <1>7, <1>8, <1>9, <1>10, <1>11, <1>12,
     <1>13, <1>14, <1>15, <1>16 DEF Next, Step, Abs!Next

\* A posting is atomic: the statement-level ledger, with its locks, failures
\* and crashes, implements the one-step ledger.
THEOREM Refinement == Spec => ImplementsLedgerAbs
BY Invariance, AbsInit, AbsStep, PTL DEF Spec, ImplementsLedgerAbs, Abs!Spec
-----------------------------------------------------------------------------
\* The committed books: entries, audit events and the rows they refer to.

\* What changes the books or the account rows: four actions, at their COMMIT.
LEMMA BooksChange ==
    ASSUME [Next]_vars
    PROVE  \/ UNCHANGED <<type, opening, balance, ledger, audit>>
           \/ \E p \in Poster, code \in {"201", "500"} : Commit(p, code)
           \/ \E u \in User : Register(u) \/ DeleteUser(u)
           \/ \E u \in User, a \in Account, t \in CustomTypes, b \in OpeningBalances :
                 CreateAccount(u, a, t, b)
<1> USE DEF rows, books
<1>1. ASSUME NEW p \in Poster, NEW r \in Requests, Submit(p, r) \/ Reject(p, r)
      PROVE  UNCHANGED <<type, opening, balance, ledger, audit>>
  BY <1>1 DEF Submit, Reject, Rollback
<1>2. ASSUME NEW p \in Poster, NEW a \in Account, LockRow(p, a)
      PROVE  UNCHANGED <<type, opening, balance, ledger, audit>>
  BY <1>2 DEF LockRow
<1>3. ASSUME NEW p \in Poster,
             SelectRows(p) \/ MissingRows(p) \/ InsertEntries(p) \/ PersistBalances(p)
               \/ OutOfRange(p) \/ LogEvent(p) \/ Fail(p)
      PROVE  UNCHANGED <<type, opening, balance, ledger, audit>>
  BY <1>3 DEF SelectRows, MissingRows, InsertEntries, PersistBalances, OutOfRange, LogEvent,
              Fail, Rollback
<1>4. ASSUME Crash \/ UNCHANGED vars PROVE UNCHANGED <<type, opening, balance, ledger, audit>>
  BY <1>4 DEF Crash, vars
<1> QED
  BY <1>1, <1>2, <1>3, <1>4 DEF Next, Step

\* A commit stores the posting and its event together, and nothing else stores
\* either.
LEMMA AuditedStep ==
    ASSUME TypeOK, PostingsAudited, [Next]_vars
    PROVE  PostingsAudited'
<1> DEFINE Events(log) == {event \in log : event[1] = "ledger_transaction"}
           Ids(k) == {<<"ledger_transaction", n>> : n \in 1 .. k}
<1>0. Events(audit) = Ids(Len(ledger))
  BY DEF PostingsAudited
<1>1. CASE UNCHANGED <<type, opening, balance, ledger, audit>>
  BY <1>1 DEF PostingsAudited
<1>2. ASSUME NEW p \in Poster, NEW code \in {"201", "500"}, Commit(p, code)
      PROVE  PostingsAudited'
  <2> DEFINE e == <<"ledger_transaction", Len(ledger) + 1>>
  <2>1. /\ ledger' = Append(ledger, EntryRows(request[p])) /\ ledger \in Seq(Seq(Entry))
        /\ audit' = audit \cup {e}
    BY <1>2 DEF Commit, TypeOK
  <2>2. Len(ledger') = Len(ledger) + 1 /\ Len(ledger) \in Nat
    BY <2>1
  <2>3. Events(audit') = Events(audit) \cup {e}
    <3>1. e[1] = "ledger_transaction"
      OBVIOUS
    <3> HIDE DEF e
    <3> QED
      BY <2>1, <3>1
  <2>4. \A n : n \in 1 .. Len(ledger') <=> n \in 1 .. Len(ledger) \/ n = Len(ledger) + 1
    BY <2>2
  <2>5. Ids(Len(ledger')) = Ids(Len(ledger)) \cup {e}
    BY <2>4
  <2> QED
    BY <1>0, <2>3, <2>5 DEF PostingsAudited
<1>3. ASSUME NEW u \in User, Register(u) \/ DeleteUser(u) PROVE PostingsAudited'
  <2>1. /\ ledger' = ledger
        /\ audit' = audit \cup {<<"user", u>>} \/ audit' = audit \cup {<<"user_deleted", u>>}
    BY <1>3 DEF Register, DeleteUser
  <2>2. <<"user", u>>[1] # "ledger_transaction" /\ <<"user_deleted", u>>[1] # "ledger_transaction"
    OBVIOUS
  <2>3. Events(audit') = Events(audit)
    BY <2>1, <2>2
  <2> QED
    BY <1>0, <2>1, <2>3 DEF PostingsAudited
<1>4. ASSUME NEW u \in User, NEW a \in Account, NEW t \in CustomTypes, NEW b \in OpeningBalances,
             CreateAccount(u, a, t, b)
      PROVE  PostingsAudited'
  BY <1>4 DEF CreateAccount, PostingsAudited
<1> QED
  BY <1>1, <1>2, <1>3, <1>4, BooksChange

\* No posting without its event and no event without its posting.
THEOREM EveryPostingAudited == Spec => []PostingsAudited
<1>1. Init => PostingsAudited
  BY DEF Init, PostingsAudited
<1>2. TypeOK /\ PostingsAudited /\ [Next]_vars => PostingsAudited'
  BY AuditedStep
<1> QED
  BY <1>1, <1>2, TypeCorrect, PTL DEF Spec

\* Inserting entries changes no account.
LEMMA EntryRowsAccounts ==
    ASSUME NEW r \in Requests
    PROVE  AccountsOf(EntryRows(r)) = AccountsOf(r)
<1>1. DOMAIN EntryRows(r) = DOMAIN r
  BY DEF EntryRows
<1>2. \A i \in DOMAIN r : EntryRows(r)[i].account = r[i].account
  BY DEF EntryRows, EntryRow
<1>3. \A e \in ToSet(EntryRows(r)) : \E i \in DOMAIN r : e.account = r[i].account
  BY <1>1, <1>2 DEF ToSet
<1>4. \A i \in DOMAIN r : EntryRows(r)[i] \in ToSet(EntryRows(r)) /\ r[i] \in ToSet(r)
  BY <1>1 DEF ToSet
<1>5. \A e \in ToSet(r) : \E i \in DOMAIN r : e = r[i]
  BY DEF ToSet
<1>6. AccountsOf(EntryRows(r)) \subseteq AccountsOf(r)
  BY <1>3, <1>4 DEF AccountsOf
<1>7. AccountsOf(r) \subseteq AccountsOf(EntryRows(r))
  BY <1>2, <1>4, <1>5 DEF AccountsOf
<1> QED
  BY <1>6, <1>7

\* Committed entries name accounts.
LEMMA PostedAccounts ==
    ASSUME TypeOK, NEW n \in DOMAIN ledger
    PROVE  AccountsOf(ledger[n]) \subseteq Account
<1>1. ledger[n] \in Seq(Entry)
  BY DEF TypeOK
<1>2. \A e \in ToSet(ledger[n]) : e \in Entry
  BY <1>1 DEF ToSet
<1> QED
  BY <1>2 DEF AccountsOf, Entry

\* Entries are written only for rows that are locked, and a locked row is not
\* deleted.
LEMMA EntriesStep ==
    ASSUME IInv, EntriesReferToLiveAccounts, [Next]_vars
    PROVE  EntriesReferToLiveAccounts'
<1>1. TypeOK /\ Control /\ HeldRowsFresh
  BY DEF IInv
<1>2. CASE UNCHANGED <<type, opening, balance, ledger, audit>>
  BY <1>2 DEF EntriesReferToLiveAccounts, Live
<1>3. ASSUME NEW p \in Poster, NEW code \in {"201", "500"}, Commit(p, code)
      PROVE  EntriesReferToLiveAccounts'
  <2>1. /\ ledger' = Append(ledger, EntryRows(request[p])) /\ ledger \in Seq(Seq(Entry))
        /\ type' = type
    BY <1>1, <1>3 DEF Commit, TypeOK, rows
  <2>2. request[p] \in Requests /\ \A a \in AccountsOf(request[p]) : Live(a)
    BY <1>1, <1>3, RequestAssumption DEF Commit, TypeOK, Control, HeldRowsFresh
  <2>3. \A a \in AccountsOf(EntryRows(request[p])) : Live(a)
    BY <2>2, EntryRowsAccounts
  <2>4. \A n \in DOMAIN ledger' :
           ledger'[n] = EntryRows(request[p]) \/ (n \in DOMAIN ledger /\ ledger'[n] = ledger[n])
    <3>1. EntryRows(request[p]) \in Seq(Entry)
      BY <2>2, EntryRowsType
    <3> QED
      BY <2>1, <3>1
  <2> QED
    BY <2>1, <2>3, <2>4 DEF EntriesReferToLiveAccounts, Live
<1>4. ASSUME NEW u \in User, Register(u) PROVE EntriesReferToLiveAccounts'
  <2>1. ledger' = ledger /\ \A a \in Account : Live(a) => type'[a] \in AccountType
    BY <1>1, <1>4, OwnerAssumption DEF Register, TypeOK, Live
  <2>2. \A n \in DOMAIN ledger : AccountsOf(ledger[n]) \subseteq Account
    BY <1>1, PostedAccounts
  <2> QED
    BY <2>1, <2>2 DEF EntriesReferToLiveAccounts, Live
<1>5. ASSUME NEW u \in User, DeleteUser(u) PROVE EntriesReferToLiveAccounts'
  <2>1. /\ ledger' = ledger
        /\ \A n \in DOMAIN ledger : AccountsOf(ledger[n]) \cap RowsOf(u) = {}
        /\ \A a \in Account : a \notin RowsOf(u) => type'[a] = type[a]
    BY <1>5 DEF DeleteUser
  <2>2. \A n \in DOMAIN ledger : AccountsOf(ledger[n]) \subseteq Account
    BY <1>1, PostedAccounts
  <2> QED
    BY <2>1, <2>2 DEF EntriesReferToLiveAccounts, Live
<1>6. ASSUME NEW u \in User, NEW a \in Account, NEW t \in CustomTypes, NEW b \in OpeningBalances,
             CreateAccount(u, a, t, b)
      PROVE  EntriesReferToLiveAccounts'
  <2>1. ledger' = ledger /\ \A c : Live(c) => c # a
    BY <1>6 DEF CreateAccount, Live, AccountType, DebitNormal, CreditNormal
  <2>2. \A c \in Account : c # a => type'[c] = type[c]
    BY <1>1, <1>6 DEF CreateAccount, TypeOK
  <2>3. \A n \in DOMAIN ledger : AccountsOf(ledger[n]) \subseteq Account
    BY <1>1, PostedAccounts
  <2> QED
    BY <2>1, <2>2, <2>3 DEF EntriesReferToLiveAccounts, Live
<1> QED
  BY <1>2, <1>3, <1>4, <1>5, <1>6, BooksChange

\* No committed entry is ever left on an account row that is gone: a deletion
\* waits for the postings that hold its rows, and is refused after them.
THEOREM NoOrphanedEntries == Spec => []EntriesReferToLiveAccounts
<1>1. Init => EntriesReferToLiveAccounts
  BY DEF Init, EntriesReferToLiveAccounts
<1>2. IInv /\ EntriesReferToLiveAccounts /\ [Next]_vars => EntriesReferToLiveAccounts'
  BY EntriesStep
<1> QED
  BY <1>1, <1>2, Invariance, PTL DEF Spec

-----------------------------------------------------------------------------
\* The books balance, where nothing is rounded: Scale = 1, the case of clients
\* that send at most four decimals.

\* The rows of a posting are summable and hold what the request says.
LEMMA RowsKeepAmounts ==
    ASSUME Scale = 1, NEW r \in Requests
    PROVE  /\ Summable(EntryRows(r))
           /\ \A a, t : Movement(a, t, EntryRows(r)) = Movement(a, t, r)
           /\ Debits(EntryRows(r)) = Debits(r) /\ Credits(EntryRows(r)) = Credits(r)
<1>1. r \in Seq(Entry) /\ Summable(r)
  BY RequestAssumption, EntriesSummable DEF Entry
<1>2. \A x \in Int : Stored(x) = x
  BY DEF Stored
<1>3. /\ DOMAIN EntryRows(r) = DOMAIN r
      /\ \A i \in DOMAIN r : /\ EntryRows(r)[i].account = r[i].account
                             /\ EntryRows(r)[i].kind = r[i].kind
                             /\ EntryRows(r)[i].amount = r[i].amount
  BY <1>1, <1>2 DEF EntryRows, EntryRow, Summable
<1>4. Summable(EntryRows(r))
  BY <1>1, <1>3 DEF Summable
<1>5. ASSUME NEW a, NEW t PROVE Movement(a, t, EntryRows(r)) = Movement(a, t, r)
  <2>1. Signed(a, t, EntryRows(r)) = Signed(a, t, r)
    BY <1>3 DEF Signed
  <2> QED
    BY <1>1, <1>3, <1>4, <2>1, MovementIsSum
<1>6. \A k : OfKind(k, EntryRows(r)) = OfKind(k, r)
  BY <1>3 DEF OfKind
<1>7. \A q : /\ Debits(q) = SumFunctionOnSet(OfKind("debit", q), DOMAIN q)
             /\ Credits(q) = SumFunctionOnSet(OfKind("credit", q), DOMAIN q)
  BY KindSums
<1> QED
  BY <1>3, <1>4, <1>5, <1>6, <1>7

\* Every posting under way passed the checks, and every committed one balances.
Vetted ==
    /\ \A p \in Poster : request[p] # NoRequest => WellFormed(request[p])
    /\ \A n \in DOMAIN ledger :
          /\ Debits(ledger[n]) = Credits(ledger[n])
          /\ \A i \in DOMAIN ledger[n] : ledger[n][i].kind \in EntryType

\* What validation let through is unchanged until the commit.
LEMMA VettedStep ==
    ASSUME Scale = 1, IInv, Vetted, [Next]_vars
    PROVE  Vetted'
<1>1. ASSUME NEW p \in Poster, NEW code, End(p, code), UNCHANGED ledger PROVE Vetted'
  BY <1>1 DEF End, Vetted, IInv, TypeOK
<1>2. ASSUME NEW p \in Poster, NEW r \in Requests, Submit(p, r) PROVE Vetted'
  BY <1>2 DEF Submit, Vetted, IInv, TypeOK, books
<1>3. ASSUME NEW p \in Poster, NEW code \in {"201", "500"}, Commit(p, code) PROVE Vetted'
  <2> DEFINE r == request[p]
  <2>1. /\ r \in Requests /\ WellFormed(r)
        /\ ledger' = Append(ledger, EntryRows(r)) /\ ledger \in Seq(Seq(Entry))
        /\ request' = [request EXCEPT ![p] = NoRequest]
    BY <1>3, RequestAssumption DEF Commit, End, Vetted, IInv, TypeOK, Control
  <2>2. /\ \A n \in DOMAIN ledger' :
              ledger'[n] = EntryRows(r) \/ (n \in DOMAIN ledger /\ ledger'[n] = ledger[n])
    BY <2>1, EntryRowsType
  <2>3. Debits(EntryRows(r)) = Credits(EntryRows(r))
    BY <2>1, RowsKeepAmounts DEF WellFormed
  <2>4. \A i \in DOMAIN EntryRows(r) : EntryRows(r)[i].kind \in EntryType
    BY <2>1 DEF WellFormed, EntryRows, EntryRow, ToSet
  <2>5. \A q \in Poster : request'[q] # NoRequest => request'[q] = request[q]
    BY <2>1 DEF IInv, TypeOK
  <2> HIDE DEF r
  <2> QED
    BY <2>2, <2>3, <2>4, <2>5 DEF Vetted
<1>4. UNCHANGED <<request, ledger>> => Vetted'
  BY DEF Vetted
<1>5. CASE Crash
  BY <1>5 DEF Crash, Vetted, books
<1> QED
  BY <1>1, <1>2, <1>3, <1>4, <1>5 DEF Next, Step, vars, rows, books, work, Reject, Rollback,
     SelectRows, LockRow, MissingRows, InsertEntries, PersistBalances, OutOfRange, LogEvent,
     Fail, Register, DeleteUser, CreateAccount

-----------------------------------------------------------------------------
\* The part of each committed posting in what account a moved by.
Share(a) == [n \in DOMAIN ledger |-> Movement(a, type[a], ledger[n])]

\* They are integers, and Posted adds them up.
LEMMA Shares ==
    ASSUME TypeOK, NEW a
    PROVE  /\ IsFiniteSet(DOMAIN ledger) /\ IntegersOn(Share(a), DOMAIN ledger)
           /\ Posted(a) = SumFunctionOnSet(Share(a), DOMAIN ledger)
           /\ Posted(a) \in Int
<1>1. ledger \in Seq(Seq(Entry)) /\ DOMAIN ledger = 1 .. Len(ledger) /\ Len(ledger) \in Nat
  BY DEF TypeOK
<1>2. IsFiniteSet(DOMAIN ledger)
  BY <1>1, FS_Interval
<1>3. \A n \in DOMAIN ledger : Summable(ledger[n])
  BY <1>1, EntriesSummable
<1>4. IntegersOn(Share(a), DOMAIN ledger)
  BY <1>3, MovementIsSum DEF IntegersOn, Share
<1>5. Posted(a) = SumFunctionOnSet(Share(a), DOMAIN ledger)
  BY DEF Posted, Share, SumFunction
<1> QED
  BY <1>2, <1>4, <1>5, SumType

\* An account without entries was moved by nothing.
LEMMA PostedNothing ==
    ASSUME TypeOK, NEW a, \A n \in DOMAIN ledger : a \notin AccountsOf(ledger[n])
    PROVE  Posted(a) = 0
<1>1. \A n \in DOMAIN ledger : Summable(ledger[n])
  BY EntriesSummable DEF TypeOK
<1>2. \A n \in DOMAIN ledger : Share(a)[n] = 0
  BY <1>1, MovementElsewhere DEF Share
<1> QED
  BY <1>2, Shares, SumZero

\* The same one step later.
LEMMA SharesNext ==
    TypeOK' => \A a : /\ IntegersOn(Share(a)', DOMAIN ledger')
                      /\ Posted(a)' = SumFunctionOnSet(Share(a)', DOMAIN ledger')
                      /\ (\A n \in DOMAIN ledger' : a \notin AccountsOf(ledger'[n])) => Posted(a)' = 0
<1> DEFINE Facts == \A a : /\ IntegersOn(Share(a), DOMAIN ledger)
                           /\ Posted(a) = SumFunctionOnSet(Share(a), DOMAIN ledger)
                           /\ (\A n \in DOMAIN ledger : a \notin AccountsOf(ledger[n]))
                                  => Posted(a) = 0
<1>1. TypeOK => Facts
  BY Shares, PostedNothing
<1> HIDE DEF Facts
<1>2. TypeOK' => Facts'
  BY <1>1, PTL
<1> QED
  BY <1>2 DEF Facts

\* The balance column of every account row, live or not, agrees with the entries.
Booked == \A a \in Account : balance[a] = opening[a] + Posted(a)

\* Every step keeps the books.
LEMMA BookedStep ==
    ASSUME Scale = 1, IInv, IInv', EntriesReferToLiveAccounts, EntriesReferToLiveAccounts',
           Booked, [Next]_vars
    PROVE  Booked'
<1>1. TypeOK /\ TypeOK' /\ Control /\ HeldRowsFresh /\ OwnersLive
  BY DEF IInv
<1>2. CASE UNCHANGED <<type, opening, balance, ledger, audit>>
  BY <1>2 DEF Booked, Posted
<1>3. ASSUME NEW p \in Poster, NEW code \in {"201", "500"}, Commit(p, code)
      PROVE  Booked'
  <2> DEFINE r == request[p]
             n == Len(ledger) + 1
  <2>1. /\ r \in Requests /\ held[p] = AccountsOf(r) /\ held[p] \subseteq Account
        /\ ledger' = Append(ledger, EntryRows(r)) /\ ledger \in Seq(Seq(Entry))
        /\ balance' = [a \in Account |-> IF a \in held[p] THEN Stored(mem[p][a]) ELSE balance[a]]
        /\ UNCHANGED <<type, opening>>
    BY <1>1, <1>3, RequestAssumption DEF Commit, TypeOK, Control, rows
  <2>2. Summable(r)
    BY <2>1, RequestAssumption, EntriesSummable DEF Entry
  <2>3. /\ DOMAIN ledger' = DOMAIN ledger \cup {n} /\ n \notin DOMAIN ledger
        /\ ledger'[n] = EntryRows(r)
        /\ \A k \in DOMAIN ledger : ledger'[k] = ledger[k]
    BY <2>1, EntryRowsType
  <2>4. ASSUME NEW a \in Account PROVE balance'[a] = balance[a] + Movement(a, type[a], r)
    <3>1. Movement(a, type[a], r) \in Int /\ balance[a] \in Int
      BY <1>1, <2>1, MovementType DEF TypeOK
    <3>2. CASE a \in held[p]
      <4>1. mem[p][a] = balance[a] * Scale + Movement(a, type[a], r)
        BY <1>1, <1>3, <3>2 DEF HeldRowsFresh, Commit
      <4>2. \A x \in Int : Stored(x) = x
        BY DEF Stored
      <4> QED
        BY <2>1, <3>1, <3>2, <4>1, <4>2
    <3>3. CASE a \notin held[p]
      BY <2>1, <2>2, <3>1, <3>3, MovementElsewhere
    <3> QED
      BY <3>2, <3>3
  <2>5. ASSUME NEW a \in Account PROVE Posted(a)' = Posted(a) + Movement(a, type[a], r)
    <3> DEFINE S == Share(a)'
               D == DOMAIN ledger
    <3>1. S[n] = Movement(a, type[a], r) /\ \A k \in D : S[k] = Share(a)[k]
      BY <2>1, <2>3, RowsKeepAmounts DEF Share
    <3>2. IntegersOn(S, DOMAIN ledger') /\ Posted(a)' = SumFunctionOnSet(S, DOMAIN ledger')
      BY <1>1, SharesNext
    <3>3. /\ IsFiniteSet(D) /\ IntegersOn(Share(a), D)
          /\ Posted(a) = SumFunctionOnSet(Share(a), D) /\ Posted(a) \in Int
      BY <1>1, Shares
    <3>4. SumFunctionOnSet(S, D) = Posted(a)
      <4> HIDE DEF S, D
      <4> QED
        BY <3>1, <3>3, SumSame
    <3>5. Posted(a)' = S[n] + SumFunctionOnSet(S, D)
      <4>1. IntegersOn(S, D \cup {n}) /\ n \notin D /\ DOMAIN ledger' = D \cup {n}
        BY <2>3, <3>2
      <4> HIDE DEF S, D, n
      <4> QED
        BY <3>2, <3>3, <4>1, SumWith
    <3>6. Movement(a, type[a], r) \in Int
      BY <2>1, MovementType
    <3> HIDE DEF S, D, n, r
    <3> QED
      BY <3>1, <3>3, <3>4, <3>5, <3>6
  <2>6. \A a \in Account : /\ balance[a] \in Int /\ opening[a] \in Int /\ opening'[a] = opening[a]
                           /\ Posted(a) \in Int /\ Movement(a, type[a], r) \in Int
    BY <1>1, <2>1, Shares, MovementType DEF TypeOK
  <2> HIDE DEF r, n
  <2> QED
    BY <2>4, <2>5, <2>6 DEF Booked
<1>4. ASSUME NEW a \in Account, UNCHANGED ledger,
             type'[a] = type[a] \/ ~Live(a) \/ ~Live(a)',
             balance'[a] - opening'[a] = balance[a] - opening[a]
      PROVE  balance'[a] = opening'[a] + Posted(a)'
  <2>1. /\ balance[a] \in Int /\ opening[a] \in Int /\ balance'[a] \in Int /\ opening'[a] \in Int
        /\ Posted(a) \in Int /\ balance[a] = opening[a] + Posted(a)
    BY <1>1, Shares DEF TypeOK, Booked
  <2>2. CASE type'[a] = type[a]
    <3>1. Posted(a)' = Posted(a)
      BY <1>4, <2>2 DEF Posted
    <3> QED
      BY <1>4, <2>1, <3>1
  <2>3. CASE ~Live(a) \/ ~Live(a)'
    <3>1. \A n \in DOMAIN ledger : a \notin AccountsOf(ledger[n])
      BY <1>4, <2>3 DEF EntriesReferToLiveAccounts
    <3>2. Posted(a) = 0
      BY <1>1, <3>1, PostedNothing
    <3>3. Posted(a)' = 0
      BY <1>1, <1>4, <3>1, SharesNext
    <3> QED
      BY <1>4, <2>1, <3>2, <3>3
  <2> QED
    BY <1>4, <2>2, <2>3
<1>5. ASSUME NEW u \in User, Register(u) \/ DeleteUser(u) PROVE Booked'
  <2>1. UNCHANGED <<ledger, balance, opening>>
    BY <1>5 DEF Register, DeleteUser
  <2>2. \A a \in Account : type'[a] = type[a] \/ ~Live(a) \/ ~Live(a)'
    BY <1>1, <1>5 DEF Register, DeleteUser, OwnersLive, Live, AccountType, DebitNormal, CreditNormal
  <2> QED
    BY <1>4, <2>1, <2>2 DEF Booked
<1>6. ASSUME NEW u \in User, NEW c \in Account, NEW t \in CustomTypes, NEW b \in OpeningBalances,
             CreateAccount(u, c, t, b)
      PROVE  Booked'
  <2>1. UNCHANGED ledger /\ ~Live(c)
    BY <1>6 DEF CreateAccount, Live, AccountType, DebitNormal, CreditNormal
  <2>2. \A a \in Account : a # c =>
           type'[a] = type[a] /\ balance'[a] = balance[a] /\ opening'[a] = opening[a]
    BY <1>1, <1>6 DEF CreateAccount, TypeOK
  <2>3. balance'[c] = b /\ opening'[c] = b /\ b \in Int
    BY <1>1, <1>6, OwnerAssumption DEF CreateAccount, TypeOK
  <2>4. balance[c] - opening[c] = 0
    <3>1. Posted(c) = 0
      BY <1>1, <2>1, PostedNothing DEF EntriesReferToLiveAccounts
    <3> QED
      BY <1>1, <3>1 DEF Booked, TypeOK
  <2>5. ASSUME NEW a \in Account PROVE balance'[a] = opening'[a] + Posted(a)'
    BY <1>4, <2>1, <2>2, <2>3, <2>4
  <2> QED
    BY <2>5 DEF Booked
<1> QED
  BY <1>2, <1>3, <1>5, <1>6, BooksChange

\* What the books rest on holds in every state.
THEOREM BooksInvariance ==
    Scale = 1 => (Spec => [](IInv /\ EntriesReferToLiveAccounts /\ Vetted /\ Booked))
<1> SUFFICES ASSUME Scale = 1
             PROVE  Spec => [](IInv /\ EntriesReferToLiveAccounts /\ Vetted /\ Booked)
  OBVIOUS
<1>1. Init => Booked /\ Vetted
  <2>0. Init => Vetted
    BY DEF Init, Vetted
  <2> SUFFICES ASSUME Init, NEW a \in Account PROVE balance[a] = opening[a] + Posted(a)
    BY <2>0 DEF Booked
  <2>1. TypeOK /\ DOMAIN ledger = {}
    BY TypeInit DEF Init
  <2>2. Posted(a) = 0
    BY <2>1, PostedNothing
  <2> QED
    BY <2>2 DEF Init
<1>2. /\ IInv /\ EntriesReferToLiveAccounts /\ Vetted /\ Booked /\ [Next]_vars
      /\ IInv' /\ EntriesReferToLiveAccounts'
      => Booked' /\ Vetted'
  BY BookedStep, VettedStep
<1> QED
  BY <1>1, <1>2, Invariance, NoOrphanedEntries, PTL DEF Spec

\* models/ledger_entry.go: every stored transaction has equal debits and credits.
THEOREM StoredBalance == Scale = 1 => (Spec => []StoredEntriesBalance)
<1> SUFFICES ASSUME Scale = 1 PROVE Spec => []StoredEntriesBalance
  OBVIOUS
<1>1. Vetted => StoredEntriesBalance
  BY DEF Vetted, StoredEntriesBalance
<1> QED
  BY <1>1, BooksInvariance, PTL

\* The balance column agrees with the committed entries, however postings,
\* registrations, deletions, failures and crashes interleave.
THEOREM BalancesAreTheEntries == Scale = 1 => (Spec => []BalancesFollowEntries)
<1> SUFFICES ASSUME Scale = 1 PROVE Spec => []BalancesFollowEntries
  OBVIOUS
<1>1. Booked => BalancesFollowEntries
  BY DEF Booked, BalancesFollowEntries
<1> QED
  BY <1>1, BooksInvariance, PTL

-----------------------------------------------------------------------------
\* Of a posting with entries on the accounts of X: what they add there.
Within(X, r) == [i \in DOMAIN r |-> IF r[i].account \in X
                                    THEN Signed(r[i].account, type[r[i].account], r)[i] ELSE 0]

\* A posting moves the accounts of a set by what its entries on them add.
LEMMA MovedWithin ==
    ASSUME NEW X, IsFiniteSet(X), NEW r, Summable(r)
    PROVE  /\ IntegersOn(Within(X, r), DOMAIN r)
           /\ SumFunctionOnSet([a \in X |-> Movement(a, type[a], r)], X)
                = SumFunctionOnSet(Within(X, r), DOMAIN r)
<1> DEFINE M == [a \in X |-> Signed(a, type[a], r)]
           D == DOMAIN r
           Column(i) == [a \in X |-> M[a][i]]
           Row == [a \in X |-> SumFunctionOnSet(M[a], D)]
           Across == [i \in D |-> SumFunctionOnSet(Column(i), X)]
<1>1. IsFiniteSet(D) /\ \A a \in X : IntegersOn(M[a], D)
  BY MovementIsSum DEF Summable
<1>2. SumFunctionOnSet(Row, X) = SumFunctionOnSet(Across, D)
  <2> HIDE DEF M, D
  <2> QED
    BY <1>1, SumSwap
<1>3. Row = [a \in X |-> Movement(a, type[a], r)]
  BY MovementIsSum
<1>4. ASSUME NEW i \in D PROVE Across[i] = Within(X, r)[i] /\ Across[i] \in Int
  <2> DEFINE b == r[i].account
  <2>1. IntegersOn(Column(i), X)
    BY <1>1 DEF IntegersOn
  <2>2. \A a \in X : a # b => Column(i)[a] = 0
    BY DEF Signed
  <2>3. CASE b \in X
    <3>1. Column(i)[b] = Signed(b, type[b], r)[i] /\ Column(i)[b] \in Int
      BY <2>1, <2>3 DEF IntegersOn
    <3>2. SumFunctionOnSet(Column(i), X) = Column(i)[b]
      <4> HIDE DEF Column, b
      <4> QED
        BY <2>2, <2>3, <3>1, SumOne
    <3> QED
      BY <2>3, <3>1, <3>2 DEF Within
  <2>4. CASE b \notin X
    <3>1. \A a \in X : Column(i)[a] = 0
      BY <2>2, <2>4
    <3>2. SumFunctionOnSet(Column(i), X) = 0
      <4> HIDE DEF Column
      <4> QED
        BY <3>1, SumZero
    <3> QED
      BY <2>4, <3>2 DEF Within
  <2> QED
    BY <2>3, <2>4
<1>5. Across = Within(X, r) /\ IntegersOn(Across, D)
  <2>1. \A i \in D : Across[i] = Within(X, r)[i] /\ Across[i] \in Int
    BY <1>4
  <2>2. Across = [i \in D |-> Across[i]] /\ Within(X, r) = [i \in D |-> Within(X, r)[i]]
    BY DEF Within
  <2> HIDE DEF Across, D
  <2> QED
    BY <2>1, <2>2 DEF IntegersOn
<1> QED
  BY <1>2, <1>3, <1>5

\* The accounts on the two sides of a trial balance.
DebitAccounts == {a \in Account : type[a] \in DebitNormal}
CreditAccounts == {a \in Account : type[a] \in CreditNormal}

\* Each side has finitely many accounts.
LEMMA FiniteAccounts == IsFiniteSet(DebitAccounts) /\ IsFiniteSet(CreditAccounts)
<1>1. IsFiniteSet(0 .. MaxId)
  BY AccountAssumption, FS_Interval
<1>2. DebitAccounts \in SUBSET (0 .. MaxId) /\ CreditAccounts \in SUBSET (0 .. MaxId)
  BY AccountAssumption DEF DebitAccounts, CreditAccounts
<1> QED
  BY <1>1, <1>2, FS_Subset

\* A balanced posting on account rows moves the two sides by the same amount.
LEMMA PostingBalances ==
    ASSUME NEW r, Summable(r), Debits(r) = Credits(r),
           \A i \in DOMAIN r : r[i].kind \in EntryType,
           \A a \in AccountsOf(r) : a \in Account /\ Live(a)
    PROVE  SumFunctionOnSet([a \in DebitAccounts |-> Movement(a, type[a], r)], DebitAccounts)
             = SumFunctionOnSet([a \in CreditAccounts |-> Movement(a, type[a], r)], CreditAccounts)
<1> DEFINE D == DOMAIN r
           InDebit == Within(DebitAccounts, r)
           InCredit == Within(CreditAccounts, r)
           Dr == OfKind("debit", r)
           Cr == OfKind("credit", r)
           Both == [i \in D |-> InDebit[i] + Cr[i]]
           x == SumFunctionOnSet(InDebit, D)
           y == SumFunctionOnSet(InCredit, D)
           z == SumFunctionOnSet(Cr, D)
<1>1. /\ IsFiniteSet(D) /\ IntegersOn(InDebit, D) /\ IntegersOn(InCredit, D)
      /\ IntegersOn(Dr, D) /\ IntegersOn(Cr, D)
  <2>1. IntegersOn(InDebit, D) /\ IntegersOn(InCredit, D)
    BY MovedWithin, FiniteAccounts
  <2>2. IsFiniteSet(D) /\ IntegersOn(Dr, D) /\ IntegersOn(Cr, D)
    BY DEF Summable, IntegersOn, OfKind
  <2> QED
    BY <2>1, <2>2
<1>2. ASSUME NEW i \in D PROVE Both[i] = InDebit[i] + Cr[i] /\ Both[i] = InCredit[i] + Dr[i]
  <2> DEFINE b == r[i].account
  <2>1. b \in Account /\ type[b] \in DebitNormal \cup CreditNormal
    BY DEF AccountsOf, ToSet, Live, AccountType
  <2>2. r[i].kind \in {"debit", "credit"} /\ r[i].amount \in Int
    BY DEF EntryType, Summable
  <2>3. CASE type[b] \in DebitNormal
    <3>1. b \in DebitAccounts /\ b \notin CreditAccounts /\ type[b] \notin CreditNormal
      BY <2>1, <2>3 DEF DebitAccounts, CreditAccounts, DebitNormal, CreditNormal
    <3>2. /\ InCredit[i] = 0
          /\ InDebit[i] = IF r[i].kind = "debit" THEN r[i].amount ELSE -r[i].amount
      BY <2>2, <2>3, <3>1 DEF Within, Signed, Increases
    <3> QED
      BY <2>2, <3>2 DEF OfKind
  <2>4. CASE type[b] \in CreditNormal
    <3>1. b \in CreditAccounts /\ b \notin DebitAccounts /\ type[b] \notin DebitNormal
      BY <2>1, <2>4 DEF DebitAccounts, CreditAccounts, DebitNormal, CreditNormal
    <3>2. /\ InDebit[i] = 0
          /\ InCredit[i] = IF r[i].kind = "debit" THEN -r[i].amount ELSE r[i].amount
      BY <2>2, <2>4, <3>1 DEF Within, Signed, Increases
    <3> QED
      BY <2>2, <3>2 DEF OfKind
  <2> QED
    BY <2>1, <2>3, <2>4
<1>3. SumFunctionOnSet(Dr, D) = z
  BY KindSums
<1>4. SumFunctionOnSet(Both, D) = x + z /\ SumFunctionOnSet(Both, D) = y + SumFunctionOnSet(Dr, D)
  <2>1. /\ \A i \in D : Both[i] = InDebit[i] + Cr[i]
        /\ \A i \in D : Both[i] = InCredit[i] + Dr[i]
    BY <1>2
  <2> HIDE DEF Both, InDebit, InCredit, Dr, Cr, D
  <2> QED
    BY <1>1, <2>1, SumPlus
<1>5. x \in Int /\ y \in Int /\ z \in Int
  <2> HIDE DEF InDebit, InCredit, Cr, D
  <2> QED
    BY <1>1, SumType
<1>6. x = y
  <2> HIDE DEF x, y, z, Both, Dr, D
  <2> QED
    BY <1>3, <1>4, <1>5
<1> QED
  BY <1>6, MovedWithin, FiniteAccounts

\* What the accounts of a set moved by, posting by posting.
LEMMA MovedByPosting ==
    ASSUME TypeOK, Booked, NEW X \in SUBSET Account, IsFiniteSet(X)
    PROVE  SumFunctionOnSet([a \in Account |-> balance[a] - opening[a]], X)
             = SumFunctionOnSet([n \in DOMAIN ledger |->
                   SumFunctionOnSet([a \in X |-> Movement(a, type[a], ledger[n])], X)], DOMAIN ledger)
<1> DEFINE moved == [a \in Account |-> balance[a] - opening[a]]
           M == [a \in X |-> Share(a)]
           D == DOMAIN ledger
           Row == [a \in X |-> SumFunctionOnSet(M[a], D)]
           Across == [n \in D |-> SumFunctionOnSet([a \in X |-> M[a][n]], X)]
<1>1. IsFiniteSet(D) /\ \A a \in X : IntegersOn(M[a], D) /\ Posted(a) = SumFunctionOnSet(M[a], D)
  BY Shares
<1>2. \A a \in X : moved[a] = Row[a] /\ Row[a] \in Int
  BY <1>1, Shares DEF Booked, TypeOK
<1>3. SumFunctionOnSet(moved, X) = SumFunctionOnSet(Row, X)
  <2>1. IntegersOn(Row, X)
    BY <1>2 DEF IntegersOn
  <2>2. \A a \in X : Row[a] = moved[a]
    BY <1>2
  <2> HIDE DEF moved, Row
  <2> QED
    BY <2>1, <2>2, SumSame
<1>4. SumFunctionOnSet(Row, X) = SumFunctionOnSet(Across, D)
  <2> HIDE DEF M, D
  <2> QED
    BY <1>1, SumSwap
<1>5. \A n \in D : [a \in X |-> M[a][n]] = [a \in X |-> Movement(a, type[a], ledger[n])]
  BY DEF Share
<1>6. Across = [n \in D |-> SumFunctionOnSet([a \in X |-> Movement(a, type[a], ledger[n])], X)]
  <2> HIDE DEF M, D
  <2> QED
    BY <1>5
<1> QED
  BY <1>3, <1>4, <1>6

\* Debits equal credits over the whole ledger.
LEMMA TrialHolds ==
    ASSUME TypeOK, Booked, Vetted, EntriesReferToLiveAccounts
    PROVE  TrialBalance
<1>1. ASSUME NEW n \in DOMAIN ledger
      PROVE  SumFunctionOnSet([a \in DebitAccounts |-> Movement(a, type[a], ledger[n])], DebitAccounts)
               = SumFunctionOnSet([a \in CreditAccounts |-> Movement(a, type[a], ledger[n])], CreditAccounts)
  <2>1. Summable(ledger[n])
    BY EntriesSummable DEF TypeOK
  <2>2. \A a \in AccountsOf(ledger[n]) : a \in Account /\ Live(a)
    BY PostedAccounts DEF EntriesReferToLiveAccounts
  <2> QED
    BY <2>1, <2>2, PostingBalances DEF Vetted
<1>2. DebitAccounts \in SUBSET Account /\ CreditAccounts \in SUBSET Account
  BY DEF DebitAccounts, CreditAccounts
<1>3. SumFunctionOnSet([a \in Account |-> balance[a] - opening[a]], DebitAccounts)
        = SumFunctionOnSet([a \in Account |-> balance[a] - opening[a]], CreditAccounts)
  BY <1>1, <1>2, FiniteAccounts, MovedByPosting, Zenon
<1> QED
  BY <1>3 DEF TrialBalance, DebitAccounts, CreditAccounts

\* The books balance: the accounts of debit kind and of credit kind moved by the
\* same amount, whatever interleaves.
THEOREM BooksBalance == Scale = 1 => (Spec => []TrialBalance)
<1> SUFFICES ASSUME Scale = 1 PROVE Spec => []TrialBalance
  OBVIOUS
<1>1. IInv /\ EntriesReferToLiveAccounts /\ Vetted /\ Booked => TrialBalance
  BY TrialHolds DEF IInv
<1> QED
  BY <1>1, BooksInvariance, PTL
=============================================================================
