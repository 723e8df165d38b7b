# Formal models of the finance backend

TLA+ specifications of the Go service in `src/`: a REST API over PostgreSQL with
financial records, a double-entry ledger, rotating refresh tokens, idempotency
keys, access tokens with roles, an audit trail with a transactional outbox, and a
rate limiter. The models describe what the code does, statement by statement where
it matters, including where that differs from what its documentation says. TLC
checks them on small instances; TLAPS proves every invariant and action
property the passing runs check, for all values of the constants or under
hypotheses that section 5 names. Liveness is left to TLC.

Paths below are relative to `src/`.

## 1. Inventory

The service is one process: gin runs a goroutine per request, one goroutine runs
the outbox publisher, one evicts rate-limit entries. All durable state is in
PostgreSQL (READ COMMITTED, gorm). There are no locks in the process except those
of `sync.Map` and `rate.Limiter`; everything else is coordinated by transactions
or not at all.

| Component | Code | State | Operations |
|---|---|---|---|
| Double-entry ledger | `services/ledger_service.go`, `services/account_service.go`, `handlers/ledger_handler.go`, `models/account.go`, `models/ledger_entry.go` | tables `accounts`, `ledger_entries` | PostTransaction, CreateAccount, default accounts at registration; reads |
| Refresh tokens and login | `services/token_service.go`, `services/auth_service.go`, `models/refresh_token.go` | table `refresh_tokens` | login, refresh (rotation), replay detection, logout, cleanup |
| Idempotency | `middleware/idempotency.go`, `models/idempotency_key.go` | table `idempotency_keys` | look up, run the handler, store, cleanup |
| Audit and outbox | `services/audit_service.go`, `services/outbox_publisher.go`, `models/audit_event.go`, `models/outbox_entry.go` | tables `audit_events`, `outbox_entries` (`published_at`) | LogEvent in a transaction; poll, deliver, mark, clean up; shutdown |
| Financial records | `services/record_service.go`, `handlers/record_handler.go`, `models/financial_record.go` | table `financial_records` (soft delete) | create, partial update, soft delete; filtered pages |
| Users | `services/user_service.go`, `services/auth_service.go`, `handlers/user_handler.go` | table `users` (unique e-mail) | register, partial update (role and status among it), physical delete with cascades |
| Access tokens and RBAC | `middleware/auth.go`, `middleware/rbac.go`, `utils/jwt.go`, `routes/routes.go` | none: a signed token with user, role and expiry, held by the client | sign, check, check the role |
| Rate limiter | `middleware/rate_limiter.go` | `sync.Map` of entries, in memory | take a token; evict idle entries |
| Dashboard | `services/dashboard_service.go` | none | three aggregations of the records |
| Pagination | `record_service.go`, `ledger_service.go`, `audit_service.go` | none | count, then fetch one page |
| Wiring, plumbing | `cmd/`, `routes/`, `config/`, `errors/`, `utils/`, `middleware/logger.go` | none | start, shutdown, formatting |

How they interact: the idempotency middleware wraps every mutating request, whose
work is committed by then or not; each service calls `AuditService.LogEvent` with
its own transaction, so an event commits with its change (the login event is the
exception); the publisher reads what they committed, and its round ends by cleaning
the tables of the idempotency keys and the refresh tokens; deleting a user cascades
to accounts, records and tokens, and is refused by the foreign key of
`ledger_entries` once one of its accounts has entries. A login or a refresh signs an
access token with the role in the row of that instant; every later request is decided
on that token alone, among them the requests that change roles.

What is hard, and what makes each component correct:

- **Ledger**: balances are read into memory, changed there and written back as
  absolute values. Correctness rests on `SELECT ... FOR UPDATE ORDER BY id`: the
  lock must cover the whole span (no lost update), the order must exclude deadlock,
  and a posting must take effect whole or not at all whatever fails. Rows may be
  deleted while a posting waits for them.
- **Tokens**: a refresh is a sequence of statements in transactions of their own, some of
  whose errors are ignored. Replays, logouts, deactivations, the cleanup and crashes
  come between any two.
- **Idempotency**: look up, run, store, with nothing that reserves the key.
- **Outbox**: delivery and mark cannot be atomic: at least once, never a phantom, in
  order; the poll sorts by a time that is not the time of commit.
- **Records and users**: the row is read outside the transaction that writes it, and
  an UPDATE that matches nothing is no error; the trail must still tell the truth. A
  registration counts addresses and then inserts one; only the unique index decides.
- **Access tokens**: roles and status are read once per pair of tokens and believed for
  the lifetime of the access token, by the very requests that change them.
- **Reads**: a page is an offset into a list that changes between two requests; each
  panel of the dashboard selects and groups the rows by a query of its own.
- **Rate limiter**: the evictor decides on a value that a request may just be changing.

`PROJECT.json` lists every hazard with its line and the properties that cover it.

## 2. Modules

| Module | What it is |
|---|---|
| `Money` | decimals of a request, and what a `numeric(19,4)` column makes of them |
| `Postings` | arithmetic of a posting on `Money`: well-formedness, stored entries, signs |
| `Ledger` | PostTransaction by several posters, with registration, account creation and user deletion |
| `LedgerAbs` | the promise: a posting is one step on the balances of that instant, or nothing |
| `Sums` | what a sum over a finite set is: lemmas about `SumFunctionOnSet` for the proofs below |
| `LedgerProofs` | inductive invariant, deadlock freedom, refinement `Ledger` => `LedgerAbs`, the books |
| `Tokens` | login, refresh, replay, logout, (de)activation, deletion, expiry, cleanup, crash |
| `TokensProofs` | inductive invariant, ownership of families, finality of a revocation; successors, replays, audited logins, blocked users; what holds if requests do not overlap |
| `Access` | roles and access tokens on top of `Tokens`, with the administrator's requests |
| `AccessProofs` | `Access` implements `Tokens`; lost rights stay lost; extends `TokensProofs` |
| `Idempotency` | the middleware around a handler, with expiry, cleanup, lost operations |
| `IdempotencyProofs` | inductive invariant, faithful and stable replays, a bound on the duplicates |
| `Outbox` | LogEvent, commits and rollbacks, the publisher's loop, cleanups, shutdown / crash |
| `OutboxAbs` | the promise: deliver committed events only, each at least once |
| `OutboxProofs` | inductive invariant, no lost event, repetitions only by faults, order of delivery, refinement of the safety part |
| `Records` | Register, CreateRecord, UpdateRecord, DeleteRecord, UpdateUser, DeleteUser on the rows they share |
| `RecordReads` | the pages of GetRecords and the dashboard, as operators on the state of `Records` |
| `RecordsProofs` | inductive invariant, unique addresses, finality of deletion, truth of answers, the trail, the dashboard, the pages |
| `RateLimiter` | one client's bucket, concurrent requests, the evictor |
| `RateLimiterProofs` | inductive invariant, at most two buckets and the refill per minute |
| `MC*` | values of the constants, requests and symmetries for TLC |

Conventions. A request handler is a model value; `pc` is the next statement it
runs, and its other variables are what it holds in memory, stale or not. What an
open transaction has written is visible to nobody else, so it is not a variable: the
`Commit` action publishes it. `Crash` ends all handlers: uncommitted work is gone,
committed work stays. Definitions whose comment begins with `Mutant:` are plausible
bugs; nothing uses them, but with one of them in the place of the definition it
resembles a property is violated, which shows that the property depends on the code.

### Ledger

`Submit`/`Reject` are the checks before the transaction (`ledger_service.go:41-67`),
`SelectRows` the snapshot of the SELECT, `LockRow` the lock of the next row in id
order. After waiting, READ COMMITTED reads the row again and drops it if it was
deleted, and `MissingRows` is the length comparison that notices. `InsertEntries` and
`PersistBalances` stand for the two loops, `OutOfRange` for a value that does not fit
its column, `Fail` for any other statement that fails, `Commit` for the COMMIT, whose
answer may be lost (`"500"` for a posting that took place). `Register`,
`CreateAccount`, `DeleteUser` are one step each, at their commit; `DeleteUser` waits
for row locks. Money is an integer: `Scale` sub-units make one stored unit of 1/10000,
and `Stored` rounds half away from zero as PostgreSQL does.

### Tokens

One action per statement of `RefreshTokens`: `Present` (hash lookup, expiry and
revocation test), `RevokeFamily` or `CheckUser`, `Issue` (INSERT with a fresh family),
`Find` (read back), `Inherit` (UPDATE of family_id, error ignored), `Retire` (UPDATE of
revoked_at and replaced_by, error ignored), `Answer` (the pair may or may not reach the
client). `Login` goes through `Issue` and `AuditLogin`. `Ignored` says which of the
statements with ignored errors may fail in an instance. `replayed` and `loggedOut` are
history variables.

### Idempotency

`PassOn` (a miss, no key, or a failed lookup), `Replay`, `Handle` (the handler's
committed work), `Store` (INSERT, refused while a row with the key is there, expired or
not), `Cleanup`, `Tick`, `Crash`. `lost` counts lookups and stores that failed or were
never reached. A request with the same key and another body is answered 422, which
changes nothing.

### Outbox

`LogEvent`, `Commit`, `Rollback` are the writers: `created_at` is taken at the INSERT,
rows become visible at the COMMIT, in another order. `Fetch`, `Deliver`, `Mark`,
`MarkFails`, `CleanKeys`, `CleanTokens` are the statements of `processOutbox`. `Crash`
also stands for a shutdown: `main` cancels the publisher and does not wait for it.

### Records

Contents and bodies are functions from columns to values, so that a partial update is
one function laid over another (`Overlay`). `Find` is the SELECT outside the
transaction, `Count` the first statement of a registration, `Write` the INSERT, UPDATE
or DELETE: it waits for the row lock, looks at the row again, and has the address
admitted by the unique index, which waits for another transaction about to give the
same address away (`AddressPending`). `Duplicate` is the unique violation, `Log` and
`Commit` the rest of the transaction, `Refetch` the read after an update. A statement
that matches nothing goes on, and its event is committed. Records are deleted softly,
users physically, and the records with them. The event of a registration tells the role
alone (`EventOf`).

UpdateRecord and UpdateUser hand the client's map to the UPDATE as it is. `Overlay` writes
whatever it names: `Column` rounds an amount as its column does, while the event keeps the
value of the body; `Hides` is a body that sets `deleted_at`, whose COMMIT leaves the record
deleted; the owner of a record is its column `user_id` (`RecordsOf`), which a body may
change (`Gives`). The foreign key then asks for a share of the new owner's key, which
waits for a transaction that deletes that user or changes its address, and the other way
round (`OwnerAdmits`). gorm takes a column's name or the Go field's (`Amount`), of which
validation looks at the former alone: a column of the model stands for both, and whatever
passes one way is in the instances.

### RecordReads

Pure operators: `Selected` the filters, `Orders` all orders PostgreSQL may return for
`ORDER BY date DESC`, `Page` with the clamps of page and size, `GetSummary`,
`GetTrends`, `GetCategoryBreakdown` the three panels. A client that turns a page is two
evaluations of `Page`, before and after a step of `Records`.

### Access

Each action of `Tokens` is taken together with what it does to roles and claims: the
role goes from the row (`AccessLogin`, `AccessCheckUser`) through the handler's memory
(`held`) into the access token of the pair (`claim`, in `AccessIssue`), which has the
number of its refresh token. `Authenticated` is AuthMiddleware, `Authorise` the role
check; `inflight` are administrators' requests past it, whose handlers
(`AccessUpdateUser`, `AccessDeleteUser`, `ActOtherwise`) run later, on whatever the rows
are by then. `Lapse` is the expiry of an access token. The initial roles are arbitrary:
no path of the code makes the first administrator.

### RateLimiter

`Store`/`Load` are the two outcomes of `LoadOrStore`, `Touch` the unsynchronised write
of `lastSeen`, `Allow` the token bucket of `golang.org/x/time/rate` (external), `Look`
and `Evict` the two halves of an eviction. `Tick` is only enabled between operations: a
request takes much less than a tick.

## 3. Runs

All twelve finish within three minutes with two workers; `records_trail` takes longest.

| Run | Instance | Shows |
|---|---|---|
| `ledger_safety` | 2 posters, 2 users, 7 accounts (3 default ones each, 1 custom), 8 requests, 2 committed postings | types, no lost update, balances = opening + entries, trial balance, every posting audited and every ledger event backed by a posting, no entry on a deleted account, refinement of `LedgerAbs` |
| `ledger_liveness` | 3 posters, requests that pairwise share an account in a ring | no cycle of waiting posters; every posting ends |
| `ledger_rounding` | `Scale = 2`, debits of half a stored unit | **violation**: stored entries do not balance |
| `tokens_concurrent` | 1 user, 2 handlers, 3 tokens, two statements may fail | a used token is recognised; a successor is in the family; a dead family stays dead; a blocked user gains no token |
| `tokens_serial` | 2 users, 1 handler, 3 tokens, crashes and expiry, no failed statement | families belong to one user; the lifecycle table of the documentation holds when requests do not overlap |
| `tokens_race_replay` | 2 handlers, 3 tokens, no failure | **violation**: a token escapes the revocation of its family |
| `access` | 1 user, 1 handler, 2 tokens, two statements may fail | rights that are lost stay lost; a demotion that lasts takes effect |
| `idem` | 2 handlers; two bodies with one key and a request without; lifetime 2 ticks of 3; 4 runs; 2 lost operations | replays are faithful and stable; duplicates are bounded by overlap and faults |
| `idem_double_click` | 2 handlers, 1 request, no fault | **violation**: the request is handled twice |
| `outbox` | 3 events, batches of 2, 1 fault | delivery before mark, duplicates only by faults, order, at-least-once, expired rows go |
| `records_trail` | 2 users who want one address, 3 records of one of them in two currencies, which updates give to the other, hide, round or leave without a known type; `Scale = 4`, 2 handlers, 5 events, pages of 1 and 2 | the trail gives the data and the dashboard back; an address has one owner; deletion is final; an update answered with 200 was made; a page turn misses or repeats only what moved |
| `rate_buckets` | bucket of 2, minute of 2 ticks, idle time 2, 6 ticks, 3 entries | at most two buckets and the refill per minute |

Why the bounds are enough to be interesting. Two posters give every conflict on a row,
and one of the requests has three entries and two accounts in common with the others;
three are needed for a ring longer than two, hence the second ledger run. `MaxStored =
6` lets an entry (9), and a balance (4 + 3), overflow. Opening balances differ from
zero, so that absolute and relative writes differ. Three tokens are an old one, its
successor, and the successor of that. Three events and a batch of two make a second
batch, in which a late commit of an early event may turn up. In `idem` a row can expire
and be cleaned within the run. Five events
of the trail are a registration, the creation of all records and a change that meets
them, or fewer rows and several concurrent changes; three dates make two pages of a size
at which a page turn can miss a row, and a page size of 0 is one that is clamped. With
`Scale = 4` its amounts are stored rounded up (22), rounded down (9), as they are (12), as
nothing (1) and below zero (-7); one record can be given to the other user before its
first owner is deleted, or hidden by an update while its owner is. In
`access` two tokens are a pair from before a change of role and the pair from after it;
the user promotes and demotes itself by requests of its own, decided before and run
after any other step. One user, since symmetry is not sound for liveness and two users
make millions of states; that no *other* user's steps give rights back is what
`LostRightsStayLost` proves for any number of users.
In `rate_buckets` the bound is reached.
`CHECK_DEADLOCK FALSE` is used where the clock, the runs or the events are bounded and
the instance really ends.

Fairness. `Ledger!FairSpec` has strong fairness on the steps of each poster: a handler
goroutine keeps running, and a row lock that becomes free again and again is granted in
the end since PostgreSQL queues the waiters of a row. Clients are not assumed to
submit anything. `Outbox!FairSpec` has weak fairness on the publisher alone: its ticker
keeps firing and its loop has no other way out than the end of the process, after which
it is started again; no transaction is assumed to commit. `Access!FairAccessSpec` has weak
fairness on the expiry of each access token (time passes), on the end of each
administrator's request and on the statements of each handler, which wait for nobody;
no client is assumed to log in, refresh or change a role. Nothing is fair elsewhere.

History variables (`opening`, `replayed`, `loggedOut`, `served`, `lost`, `faults`,
`allowed`) are written and never read by a guard, except that `lost` and `faults` bound
the failures of an instance.

## 4. Where the code and its documentation differ

With a counterexample:

1. `ledger_rounding`: `models/ledger_entry.go:20-22` promises that debits and credits
   of every stored transaction balance. The check is made on the request's decimals;
   each amount is then rounded to four decimals by itself, so 0.00005 + 0.00005 against
   0.0001 is stored as 0.0002 against 0.0001.
2. `tokens_race_replay`: README.md:128 promises that a replay revokes all tokens of the
   family. A rotation that has inserted its token and not yet moved it into the family
   escapes, and the token is valid afterwards.
3. `idem_double_click`: README.md:107-111 promises that a retry runs nothing twice, and
   names the user who clicks Pay twice. Two simultaneous requests both miss and both run.

Read in the code, part of the models, without a run of their own:

- Amounts of all currencies are added up in one balance check (`ledger_service.go:59`;
  README.md:27).
- The opening balance of an account is bound from the body of the request
  (`ledger_handler.go:103-117`), so balances exist that no entry explains
  (`BalancesFollowEntries` and `TrialBalance` therefore count from `opening`), and
  CreateAccount writes no audit event (README.md:137).
- The login event is written after the token, in a transaction of its own, and its error
  is ignored (`auth_service.go:137-143`; README.md:137).
- Two overlapping refreshes of one token both succeed and leave two usable tokens; so
  does an ignored error of `Retire` (README.md:127). A logout overlapped by a refresh
  leaves a session (README.md:129). With an ignored error of `Inherit` a successor stays
  outside the family (`models/refresh_token.go:10-14`). `tokens_serial` shows that
  overlap and ignored errors are the only causes.
- An expired idempotency row occupies the primary key until the publisher cleans it up,
  and meanwhile the key caches nothing (README.md:106); any lookup error is a miss
  (`idempotency.go:73`); the lookup names the key alone although line 24 says that keys
  are scoped per user.
- A round without events ends before the cleanup (`outbox_publisher.go:58`).
- An event is written even if the UPDATE matched no row (`audit_service.go:16-17`). Of two
  deletions of one record that overlap the second matches nothing (`record_service.go:242`
  does not look at RowsAffected) and is answered with 200; `UpdateAnswersTrue` therefore
  speaks of updates, which read the row again.
- The amount of a record is `numeric(19,4)` (`financial_record.go:24`) and its event has the
  decimal of the request (`record_service.go:67`, `:208`): a row of 0.0001 whose trail says
  0.00005 (README.md:137 calls the trail always consistent with the data). What is above
  zero when it is checked (`record_service.go:41`, `:183`) may be stored as 0.
  `TrailReplays` and `DashboardFromTrail` round the trail before they compare.
- UpdateRecord passes every key of the body on (`record_service.go:202`). With `deleted_at` a
  record is deleted under an event that says `update`, and answered with 500, as the read
  after it finds nothing; with `user_id` it changes hands. Checks are made of the keys
  `type`, `amount` and `currency` (`record_service.go:157-199`), and gorm takes `Type` and
  `Amount` as well, so that types and amounts are stored which the comment at lines 148-149
  says are validated. (UpdateUser deletes both spellings of the password,
  `user_service.go:47-48`, and checks one of the role.) A record of neither type counts in
  the total of its category and in no other sum of the dashboard. With `id` the primary
  key changes: the event names the new id alone and the answer is 500. This one is not in
  the model (section 6).
- Soft-deleted records vanish with their user by cascade (README.md:592,
  `financial_record.go:23`).
- The idempotency middleware runs before the role check (`routes/routes.go:121-123`; README.md:46
  draws RBAC first), and stores every answer, so that a 403 or a 500 is replayed for
  24 hours.
- A user who was demoted, deactivated or deleted keeps its rights until its access
  token expires, and an administrator may use them to change roles meanwhile
  (`middleware/auth.go:49`); `DemotionIsFinal` and `DemotionTakesEffect` say what holds.
- A registration that loses the race for an address is answered 500, not 409
  (`auth_service.go:77`), and so is an update of an address. Its event tells the role
  only, so the trail does not give back what a user registered with (README.md:137).
- Records are sorted by date alone (`record_service.go:129`): among equal dates the
  pages have no order. `record_handler.go` echoes the page size that was asked for where
  the service has replaced it by another.
- A burst of 100 and a refill of 100 a minute let nearly 200 requests through in one
  minute (`rate_limiter.go:79`, README.md:588); an eviction in use adds up to one more
  bucket in principle, which is the bound `AtMostTwoBuckets` states.

## 5. Theorems

Every theorem is about `Spec` without bounds on the constants: any sets of users,
accounts, posters, requests, events, any scale, batch size, number of tokens or faults.
A hypothesis about the constants stands in the statement of its theorem; it excludes the
causes that section 4 names, and nothing else.

**Sums.** The models add with `SumFunctionOnSet`, which picks the elements of its set in
an order nobody knows. `SumEmpty` and `SumWith` say what it is of the empty set and of one
element more; from them `SumPlus`, `SumSwap` (sums of sums in either order), `SumCount`
and `SumGroups` (a sum by groups). That it does not depend on the order is an induction
over the subsets of a finite set. The library's induction theorems have an operator as a
parameter and cannot be instantiated, so `SubsetInduction` speaks of a set of subsets and
looks at the smallest one outside it.

**LedgerProofs.** `IInv` is `TypeOK`, `Control` (what a poster wants and holds at each
statement, and that computed balances fit once they are persisted), `OwnersLive`,
`LocksExclusive`, `HeldRowsFresh`, `WaitsAscend`. `HeldRowsFresh` alone is not
inductive: it needs that locks are exclusive (no other commit writes the row), that a
held row is not deleted (the cascade waits), and the place a poster has reached.
`TypeCorrect`, `MutualExclusion`, `NoLostUpdate`, `LockOrder` are its parts.
`DeadlockFree`: among the rows somebody in the set waits for and another holds there is
a largest, as ids are bounded by `MaxId`; its holder waits for a larger one
(`WaitsAscend`), which contradicts the choice. `Refinement`: `Commit` maps to
`LedgerAbs!Post`, which holds because the balances in memory are the committed ones plus
the posting's movement; refusals and failures map to `Refuse`, the rest to `Ask` or a
stutter.

`EveryPostingAudited` compares each committed posting with its event: both are appended
by `Commit` alone. `NoOrphanedEntries` follows from `HeldRowsFresh`: a posting commits
under locks on all its rows, which are there, and a deletion waits for those and is
refused once they have entries.

`StoredBalance`, `BalancesAreTheEntries` and `BooksBalance` are proved under `Scale = 1`,
where amounts have the four decimals that are stored; with more of them the first is
refuted by `ledger_rounding`, and rounding is the only cause. `Vetted` carries the check of
the request through to what is stored; `Booked` says that the balance of every row, live
or not, is its opening balance and its entries. A commit adds the movement of its posting
to the balances in memory, which `HeldRowsFresh` makes the committed ones, and its entries
to the ledger, where `SumSwap` turns the sum over entries into one over accounts.
`TrialBalance` is then the sum of `Booked` over the accounts.

**TokensProofs.** `IInv` is `TypeOK`, `Control` and `Ownership`: a family id is the number
of the first token of the family, and every row, and every handler that rotates, agrees
with that token on the owner. From it `FamiliesAreOfOneUser`, with every ignored error
and crash. `RevocationIsFinal` is an action property: from a family whose rows are all
revoked and which nobody is rotating, no step leads to a valid row in it. The premise
that nobody is rotating is exactly what finding 2 violates.

`Links` adds that only tokens that reached a client are presented, that the token a handler
carries is its own until it answers, and that the family it has read is still that of the
old token. `ReplaysRecognised` needs no more. `SuccessorsInherit` is proved under
`"inherit" \notin Ignored` and `SessionsAudited` under
`{"audit", "inherit"} \cap Ignored = {}`: without them the code breaks both, by an error
it ignores. `BlockedGainNothing` is an action property: handlers past the check of
`is_active` are the only ones that still issue a token to a blocked user.

What the README of the service promises of families is proved twice. With overlapping
requests, `ReplaysAreFatal` and `LogoutsAreFatal` say that the families nobody is rotating
are ended by the step. With `Serial` (one handler; the cleanup, the clock, administrators
and crashes still interleave) nobody else is rotating, and as `RevocationIsFinal` keeps
them ended, `ReplayRevokesTheFamily` and `LogoutRevokesTheSessions` are invariants.
`OneUsable` needs `Single`: while a rotation is under way the only usable token of its family
that a client has is the one it was given, and the row it has inserted stays in a family
of its own until it inherits that one. It also needs that `Retire` does not fail unnoticed.

**AccessProofs.** `ComposedTokens`: each step of `Access` is a step of `Tokens` or leaves
its variables alone, so all theorems above hold of the composition. `LostRightsStayLost`:
in `AccessInv` a role is in a handler's memory only between the read and the signature,
and a request past the checks has an administrator's token; hence no step of a user
without rights makes a token with them, and a change of its role is made by another's
request.

**IdempotencyProofs.** `IInv` is `TypeOK`, `Working` (a handler about to store holds the run
that is its own), `Truthful` (a stored row names a run of its key and body, and expires a
lifetime after it at the earliest) and `ReplayFaithful`. `ReplaysAgree` adds that, as long
as a replayed run is younger than a lifetime, its row is still the one under the key: the
primary key refuses another and the cleanup comes later.

`DuplicatesExplained` counts, by the phase a key is in (`Covered`). Before it has a row, each
run is about to be stored or was lost. While its row lives, nobody starts to handle it but
by a lost lookup, so runs and handlers that are still to run are at most the handlers there
are and the losses. Once a lifetime has passed since a run, later runs are not counted.

**OutboxProofs.** `IInv` is `TypeOK` and `Staged` (unwritten, open, stored are disjoint;
fetched rows are stored; delivered rows are stored; marked rows are delivered).
`NothingLost` and `Refinement` (the safety part of `OutboxAbs`) follow.
`RepetitionsPaidFor` counts: deliveries so far plus the events that will be delivered
once more (delivered, not marked, and not just about to be) are at most the faults plus
the events delivered. A delivery of such an event uses up its place, a crash or failed
mark makes at most one, and a batch has no row twice (`Fresh`).
`InOrder` needs `Sorted`: an event that should come before one of the batch has been
delivered or comes before it in the batch. That is the poll's doing, which takes the
oldest unpublished rows; a row committed after the poll was not committed before any row
of the batch, and the property is about events both written and committed first.

**RecordsProofs.** `IInv` is `Shape` (the types, and the trail as a sequence), `Held` (locks
are held by open transactions, on rows that are there, one by each), `Asked` (what a
request knows of its row: if its statement matched nothing the row is deleted, and the
id of a registration is known to nobody else), `Addressed` and `AddressUnique`. The
second half of `AddressUnique`, that open transactions would be admitted by the index,
is what makes the first inductive. `DeletionIsFinal` needs `Held`: an update commits to
a row only under a lock taken while the row was live. `AnswersAreTrue` needs `Asked`.

`TrailGivesDataBack` rests on `Trail`: a statement that matched its row still holds it when
its event is written, and the deletion of a user all the records the user owns by then
(`Secured`); the user to whom an open update gives a record stays (`Sponsored`, which is
`OwnerAdmits`), so that no record outlives its owner (`Owned`); the trail tells of a row's
creation and of its end, by a deletion, by an update that hides it or with the owner it
then had, what its state says (`Told`, by `ErasedNext`); and the last event that sets a
column sets it to what the row has, once it is rounded (`Replayed`). An event of an UPDATE
that matched nothing does no harm, since its row is deleted (`Asked`) and nothing is claimed
of deleted rows but that they are. `DashboardAgrees` takes balance and totals from the trail
by `Replayed`; that the panels agree is arithmetic: each adds the same amounts by groups of
another kind, and a live record is in exactly one group of each, having all of its columns
(`Filled`). Types other than the two that are known, and amounts of any sign, are allowed.
`PageTurnsAreExplained` is a counting argument about two sorted lists. If a page turn
misses a record that stayed where it was sorted, it was after the k rows already read and
is now among the first k; of those k rows, the ones that stayed too still precede it
(`SameOrder`), so there are fewer than k, and the others have left or moved. The records seen
twice mirror it. The hypothesis says that the client turns enough pages to read to the end.

**RateLimiterProofs.** `Past`: no entry was used in the future. `Placed`: which entries the
requests of a tick may be working on, namely the newest and, if that one replaced it in
this very tick, the one before. `Minutes` is a potential argument (`Spent`): the requests of
a minute let through so far, with what the newest entry and the one before it still hold
(`Rest`), are at most two bursts and the refill since the minute began. A fresh entry brings
a bucket of its own only while the entry it replaces, idle for as long as a minute when
the evictor looked at it, has had one for all requests of the minute; a third would need
another such idle time. `TwoBucketsAtMost` is the case in which the buckets are empty.

Assumptions. The named ASSUMEs of the modules: shapes and kinds of the constants; finitely
many events, handlers and records; bodies of a registration with address and role, of a new
record with its owner (`OwnerAssumption`) and all the columns its validation requires
(`RecordAssumption`, which asks of an update no more than a number for an amount and a day
for a date); no body that writes the primary key (`KeyAssumption`); a default page size between one and the largest that is allowed
(`SizeAssumption`); an idle time of the rate limiter's entries that is not below a minute
(`TTLAssumption`; it is ten minutes in the code). TLC evaluates all of them in the runs.

**Only model-checked** is liveness, which is outside what the prover handles:
`EveryPostingEnds`, `ExpiredRowsGo`, `DemotionTakesEffect`, and the fairness of `OutboxAbs`
within `ImplementsAtLeastOnce`.

## 6. Not modelled

- Password hashing, signing and parsing of tokens, hashing of bodies: values.
- Validation of fields: one refusal per operation.
- Updates that write the primary key of a record or user (`KeyAssumption`): rows keep their
  identity in the model. Two spellings of one column in one body. Parts of a day in a date.
- A statement takes its row locks, the index entry and the share of a key in one step.
- Logging, request ids, error values, JSON responses, configuration: no state; status
  codes are in the models where a property is about them.
- GetTransactions and QueryEvents page as GetRecords does, over tables that only grow.
- The exact locks of a cascade: DeleteUser locks all its rows at once. A cascade that
  waits in the middle may deadlock with a posting; PostgreSQL then fails one of them,
  which both models allow (`Fail`).
- Several processes on one database: one publisher polls the outbox.
- Two users with one idempotency key: the rows carry the user and the lookup ignores it,
  but the requests of the runs are of one user; nor does a property speak of a key after
  its first 24 hours.
- `golang.org/x/time/rate`, PostgreSQL and gorm are modelled by what the code relies on:
  a token bucket; row locks, READ COMMITTED, foreign keys, unique indexes and cascades;
  rollback on error.

## 7. Plan

Done, in this order: `Postings`, `Ledger`, `LedgerAbs` and their proofs; `Tokens` and its
proofs; `Outbox`, `OutboxAbs` and their proofs; `Idempotency`; `Records`; `RateLimiter`;
then registration in `Records`, `RecordReads`, `Access`; the proofs of sessions, access,
idempotency keys and records, and of the audit of the ledger; then `Sums`, the books, the
families of requests that do not overlap, the order of delivery, the bound on duplicates,
the trail, the dashboard, the pages and the rate limiter.

Next:

1. Several instances of the publisher on one table.
2. `DeleteUser` as separate statements against `PostTransaction`.
3. An idempotent request composed with a posting: what a client that retries observes,
   with keys of several users and beyond the first lifetime.
