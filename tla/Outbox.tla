------------------------------- MODULE Outbox -------------------------------
(***************************************************************************)
(* AuditService.LogEvent writes an outbox row inside the transaction of    *)
(* the change it records; OutboxPublisher polls the committed rows,        *)
(* delivers them and marks them, one statement each, and then cleans two   *)
(* other tables of expired rows.  Transactions commit in any order, marks  *)
(* and deletes fail, the process crashes or is shut down between two       *)
(* steps and starts again.                                                 *)
(***************************************************************************)
EXTENDS Naturals, Sequences, FiniteSets

CONSTANTS
    Event,
    BatchSize,   \* LIMIT of the poll; 50 in the code
    MaxFaults    \* bound on crashes, and statements that fail

ASSUME BatchSizeAssumption == BatchSize \in Nat \ {0}
ASSUME MaxFaultsAssumption == MaxFaults \in Nat
ASSUME EventAssumption == IsFiniteSet(Event)

Table == {"idempotency_keys", "refresh_tokens"}

VARIABLES
    clock,    \* the newest created_at
    created,  \* [Event -> Nat], created_at; 0 before the row is written
    open,     \* events whose transaction is open
    stored,   \* the committed rows, in the order of their commits
    marked,   \* those with a published_at
    pc,       \* what the publisher does next
    batch,    \* the rows it has fetched and not finished
    out,      \* what it delivered, in order
    stale,    \* the tables with rows that are due for deletion
    faults    \* how many faults there were

vars == <<clock, created, open, stored, marked, pc, batch, out, stale, faults>>

Elements(s) == {s[i] : i \in DOMAIN s}

Init ==
    /\ clock = 0
    /\ created = [e \in Event |-> 0]
    /\ open = {}
    /\ stored = <<>>
    /\ marked = {}
    /\ pc = "waiting"
    /\ batch = <<>>
    /\ out = <<>>
    /\ stale = {}
    /\ faults = 0

publisher == <<marked, pc, batch, out, stale>>
writers == <<clock, created, open, stored>>

-----------------------------------------------------------------------------
\* Business transactions.

\* LogEvent inside an open transaction; created_at is the time of the INSERT,
\* and two INSERTs may carry one time.
LogEvent(e) ==
    /\ created[e] = 0
    /\ clock' \in {clock, clock + 1} \ {0}
    /\ created' = [created EXCEPT ![e] = clock']
    /\ open' = open \cup {e}
    /\ UNCHANGED <<stored, publisher, faults>>

Commit(e) ==
    /\ e \in open
    /\ open' = open \ {e}
    /\ stored' = Append(stored, e)
    /\ UNCHANGED <<clock, created, publisher, faults>>

Rollback(e) ==
    /\ e \in open
    /\ open' = open \ {e}
    /\ UNCHANGED <<clock, created, stored, publisher, faults>>

-----------------------------------------------------------------------------
\* OutboxPublisher.processOutbox.

Pending == Elements(stored) \ marked

\* Mutant: a poll without ORDER BY.
AnyBatches ==
    {b \in UNION {[1 .. n -> Pending] : n \in 0 .. BatchSize} :
        \A i, j \in DOMAIN b : i < j => b[i] # b[j]}

\* The results of the poll: the oldest pending rows, at most BatchSize of
\* them; rows of one time come in any order.
Batches ==
    {b \in UNION {[1 .. n -> Pending] : n \in 0 .. BatchSize} :
        /\ \A i, j \in DOMAIN b : i < j => b[i] # b[j] /\ created[b[i]] <= created[b[j]]
        /\ \A e \in Pending \ Elements(b) :
              /\ Len(b) = BatchSize
              /\ \A i \in DOMAIN b : created[b[i]] <= created[e]}

\* The tick: an empty result ends the round before anything is cleaned.
Fetch ==
    /\ pc = "waiting"
    /\ \E b \in Batches : b # <<>> /\ batch' = b
    /\ pc' = "deliver"
    /\ UNCHANGED <<writers, marked, out, stale, faults>>

\* Mutant: a delivery that fails is taken for done.
DeliverNothing ==
    /\ pc = "deliver"
    /\ pc' = "mark"
    /\ UNCHANGED <<writers, marked, batch, out, stale, faults>>

Deliver ==
    /\ pc = "deliver"
    /\ out' = Append(out, Head(batch))
    /\ pc' = "mark"
    /\ UNCHANGED <<writers, marked, batch, stale, faults>>

\* Mutant: the loop runs once too often.
ProceedTooFar ==
    /\ batch' = Tail(batch)
    /\ pc' = IF Len(batch) > 0 THEN "deliver" ELSE "clean_keys"

\* The next row of the batch, or the cleanups that follow the last one.
Proceed ==
    /\ batch' = Tail(batch)
    /\ pc' = IF Len(batch) > 1 THEN "deliver" ELSE "clean_keys"

\* Mutant: published_at is not set.
MarkNothing ==
    /\ pc = "mark"
    /\ Proceed
    /\ UNCHANGED <<writers, marked, out, stale, faults>>

Mark ==
    /\ pc = "mark"
    /\ marked' = marked \cup {Head(batch)}
    /\ Proceed
    /\ UNCHANGED <<writers, out, stale, faults>>

\* An UPDATE that fails is logged and the loop goes on.
MarkFails ==
    /\ pc = "mark"
    /\ faults < MaxFaults
    /\ faults' = faults + 1
    /\ Proceed
    /\ UNCHANGED <<writers, marked, out, stale>>

\* Mutant: the round ends with the keys.
CleanKeysOnly ==
    /\ pc = "clean_keys"
    /\ pc' = "waiting"
    /\ stale' = stale \ {"idempotency_keys"}
    /\ UNCHANGED <<writers, marked, batch, out, faults>>

CleanKeys ==
    /\ pc = "clean_keys"
    /\ pc' = "clean_tokens"
    /\ \/ stale' = stale \ {"idempotency_keys"} /\ UNCHANGED faults
       \/ faults < MaxFaults /\ faults' = faults + 1 /\ UNCHANGED stale
    /\ UNCHANGED <<writers, marked, batch, out>>

CleanTokens ==
    /\ pc = "clean_tokens"
    /\ pc' = "waiting"
    /\ \/ stale' = stale \ {"refresh_tokens"} /\ UNCHANGED faults
       \/ faults < MaxFaults /\ faults' = faults + 1 /\ UNCHANGED stale
    /\ UNCHANGED <<writers, marked, batch, out>>

-----------------------------------------------------------------------------
\* A day passes for a key, or a week for a revoked token.
Expire(t) ==
    /\ t \notin stale
    /\ stale' = stale \cup {t}
    /\ UNCHANGED <<writers, marked, pc, batch, out, faults>>

\* The process ends, by a crash or by a shutdown, which does not wait for the
\* publisher; open transactions are rolled back and the publisher starts anew.
Crash ==
    /\ faults < MaxFaults
    /\ faults' = faults + 1
    /\ open' = {}
    /\ pc' = "waiting"
    /\ batch' = <<>>
    /\ UNCHANGED <<clock, created, stored, marked, out, stale>>

Publish == Fetch \/ Deliver \/ Mark \/ MarkFails \/ CleanKeys \/ CleanTokens

Next ==
    \/ \E e \in Event : LogEvent(e) \/ Commit(e) \/ Rollback(e)
    \/ Publish
    \/ \E t \in Table : Expire(t)
    \/ Crash

Spec == Init /\ [][Next]_vars

\* The ticker keeps firing and the publisher's loop keeps running.
FairSpec == Spec /\ WF_vars(Publish)

-----------------------------------------------------------------------------
\* Properties.

TypeOK ==
    /\ clock \in Nat
    /\ created \in [Event -> Nat]
    /\ open \subseteq Event
    /\ stored \in Seq(Event)
    /\ marked \subseteq Event
    /\ pc \in {"waiting", "deliver", "mark", "clean_keys", "clean_tokens"}
    /\ batch \in Seq(Event) /\ (pc \in {"deliver", "mark"} <=> batch # <<>>)
    /\ out \in Seq(Event)
    /\ stale \subseteq Table
    /\ faults \in 0 .. MaxFaults

\* An event is marked as published only after it was delivered: no crash and
\* no failed statement loses it.
MarkedWasDelivered == marked \subseteq Elements(out)

\* Each delivery beyond the first is paid for by a crash or a failed mark.
DuplicatesAreFaults == Len(out) - Cardinality(Elements(out)) <= faults

First(e) == CHOOSE i \in DOMAIN out : out[i] = e /\ \A j \in 1 .. i - 1 : out[j] # e

Before(s, e, f) == \E i, j \in DOMAIN s : i < j /\ s[i] = e /\ s[j] = f

\* Of two events, the one that was both written and committed first is
\* delivered first, across batches, failed marks and restarts.
DeliveredInOrder ==
    \A e \in Event, f \in Elements(out) :
        created[e] < created[f] /\ Before(stored, e, f)
            => e \in Elements(out) /\ First(e) < First(f)

AtLeastOnce ==
    INSTANCE OutboxAbs WITH committed <- Elements(stored), delivered <- Elements(out)

\* README, Why Transactional Outbox: at-least-once delivery, and never an event
\* of a change that was rolled back.
ImplementsAtLeastOnce == AtLeastOnce!Spec

\* Expired rows go with the next batch of events, unless a statement fails or
\* the process dies first.  (Not without one: a round that fetches nothing
\* ends before it cleans, so in a system without events they stay.)
ExpiredRowsGo ==
    \A t \in Table, n \in 0 .. MaxFaults :
        t \in stale /\ Pending # {} /\ faults = n ~> t \notin stale \/ faults > n
=============================================================================
