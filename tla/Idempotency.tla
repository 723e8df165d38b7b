---------------------------- MODULE Idempotency ----------------------------
(***************************************************************************)
(* IdempotencyMiddleware: a mutating request with an Idempotency-Key is    *)
(* looked up, handled when it is not found, and its answer stored.  Look   *)
(* up, handler and store are three database operations with nothing that   *)
(* holds them together, so requests with one key interleave, and the key   *)
(* outlives or misses its row when one of the three is lost.               *)
(*                                                                         *)
(* A handled request is an element of `log'; its index stands for the      *)
(* answer it produced.  Time is a clock of coarse ticks, TTL of which are  *)
(* the 24 hours a row lives.                                               *)
(***************************************************************************)
EXTENDS Naturals, Sequences, FiniteSets

CONSTANTS
    Worker,    \* the request handlers
    Request,   \* what clients send: records [user, key, body]
    NoKey,     \* the key of a request without the header
    NoRow,
    NoRequest,
    TTL,       \* lifetime of a row, in ticks
    MaxTime,   \* bound on the clock
    MaxRuns,   \* bound on the requests handled
    MaxFaults  \* bound on the database operations that fail or are never reached

ASSUME WorkerAssumption == IsFiniteSet(Worker)
ASSUME RequestAssumption == \A r \in Request : {"user", "key", "body"} \subseteq DOMAIN r
ASSUME BoundsAssumption == {TTL, MaxTime, MaxRuns, MaxFaults} \subseteq Nat

Key == {r.key : r \in Request} \ {NoKey}

VARIABLES
    now,
    row,     \* [Key -> row or NoRow], the idempotency_keys table
    log,     \* the requests handled, in order: [request, at]
    pc,      \* what a handler does next
    req,     \* the request it works on
    run,     \* the index of its handling in log
    served,  \* history: the answers replayed, [request, run, at]
    lost     \* history: how many lookups and stores went wrong

vars == <<now, row, log, pc, req, run, served, lost>>

Row == [user : {r.user : r \in Request}, body : {r.body : r \in Request},
        run : 1 .. MaxRuns, expires : 0 .. MaxTime + TTL]

ASSUME NoRowAssumption == NoRow \notin Row

Init ==
    /\ now = 0
    /\ row = [k \in Key |-> NoRow]
    /\ log = <<>>
    /\ pc = [w \in Worker |-> "idle"]
    /\ req = [w \in Worker |-> NoRequest]
    /\ run = [w \in Worker |-> 0]
    /\ served = {}
    /\ lost = 0

\* Mutant: a row dies a tick early.
LiveEarly(k) == k \in Key /\ row[k] # NoRow /\ row[k].expires > now + 1

\* What the lookup finds: expires_at > now.
Live(k) == k \in Key /\ row[k] # NoRow /\ row[k].expires > now

\* A keyed request whose row can be inserted: the key is the primary key.
Free(k) == k \in Key /\ row[k] = NoRow

-----------------------------------------------------------------------------
\* One more database operation has failed, or was never reached.
Lose(n) ==
    /\ lost + n <= MaxFaults
    /\ lost' = lost + n

\* The lookup misses, does not take place, or fails, which counts as a miss:
\* on to the handler.
PassOn(w, r) ==
    /\ pc[w] = "idle"
    /\ \/ ~Live(r.key) /\ UNCHANGED lost
       \/ Live(r.key) /\ Lose(1)
    /\ pc' = [pc EXCEPT ![w] = "handle"]
    /\ req' = [req EXCEPT ![w] = r]
    /\ UNCHANGED <<now, row, log, run, served>>

\* Mutant: the body is not compared.
ReplayAnyBody(w, r) ==
    /\ pc[w] = "idle"
    /\ Live(r.key)
    /\ served' = served \cup {[request |-> r, run |-> row[r.key].run, at |-> now]}
    /\ UNCHANGED <<now, row, log, pc, req, run, lost>>

\* The lookup finds the key with this body: its answer is replayed.  With
\* another body the answer is a 422, and nothing changes.
Replay(w, r) ==
    /\ pc[w] = "idle"
    /\ Live(r.key)
    /\ row[r.key].body = r.body
    /\ served' = served \cup {[request |-> r, run |-> row[r.key].run, at |-> now]}
    /\ UNCHANGED <<now, row, log, pc, req, run, lost>>

\* The handler does its work, with whatever result, and writes its answer.
Handle(w) ==
    /\ pc[w] = "handle"
    /\ Len(log) < MaxRuns
    /\ log' = Append(log, [request |-> req[w], at |-> now])
    /\ run' = [run EXCEPT ![w] = Len(log) + 1]
    /\ pc' = [pc EXCEPT ![w] = "store"]
    /\ UNCHANGED <<now, row, req, served, lost>>

Leave(w) ==
    /\ pc' = [pc EXCEPT ![w] = "idle"]
    /\ req' = [req EXCEPT ![w] = NoRequest]
    /\ run' = [run EXCEPT ![w] = 0]

\* Mutant: an upsert.
StoreOver(w) ==
    /\ pc[w] = "store"
    /\ LET r == req[w]
           new == [user |-> r.user, body |-> r.body, run |-> run[w], expires |-> now + TTL]
       IN  row' = [k \in Key |-> IF k = r.key THEN new ELSE row[k]]
    /\ Leave(w)
    /\ UNCHANGED <<now, log, served, lost>>

\* Mutant: the response is not captured, so an empty answer is stored.
StoreEmpty(w) ==
    /\ pc[w] = "store"
    /\ LET r == req[w]
           new == [user |-> r.user, body |-> r.body, run |-> 0, expires |-> now + TTL]
       IN  row' = [k \in Key |-> IF k = r.key /\ Free(k) THEN new ELSE row[k]]
    /\ Leave(w)
    /\ UNCHANGED <<now, log, served, lost>>

\* INSERT of the row, unless the key is there already, expired or not; its
\* error is ignored.
Store(w) ==
    /\ pc[w] = "store"
    /\ LET r == req[w]
           new == [user |-> r.user, body |-> r.body, run |-> run[w], expires |-> now + TTL]
       IN  \/ Free(r.key) /\ row' = [row EXCEPT ![r.key] = new] /\ UNCHANGED lost
           \/ ~Free(r.key) /\ UNCHANGED <<row, lost>>
           \/ Free(r.key) /\ Lose(1) /\ UNCHANGED row
    /\ Leave(w)
    /\ UNCHANGED <<now, log, served>>

-----------------------------------------------------------------------------
\* OutboxPublisher.cleanupExpiredIdempotencyKeys: expires_at < now.
Cleanup ==
    /\ \E k \in Key : row[k] # NoRow /\ row[k].expires < now
    /\ row' = [k \in Key |-> IF row[k] # NoRow /\ row[k].expires < now THEN NoRow ELSE row[k]]
    /\ UNCHANGED <<now, log, pc, req, run, served, lost>>

Tick ==
    /\ now < MaxTime
    /\ now' = now + 1
    /\ UNCHANGED <<row, log, pc, req, run, served, lost>>

\* The process dies; a handler's committed work stays, its answer is not stored.
Crash ==
    /\ Lose(Cardinality({w \in Worker : pc[w] = "store"}))
    /\ pc' = [w \in Worker |-> "idle"]
    /\ req' = [w \in Worker |-> NoRequest]
    /\ run' = [w \in Worker |-> 0]
    /\ UNCHANGED <<now, row, log, served>>

Next ==
    \/ \E w \in Worker, r \in Request : PassOn(w, r) \/ Replay(w, r)
    \/ \E w \in Worker : Handle(w) \/ Store(w)
    \/ Cleanup
    \/ Tick
    \/ Crash

Spec == Init /\ [][Next]_vars

-----------------------------------------------------------------------------
\* Properties.

TypeOK ==
    /\ now \in 0 .. MaxTime
    /\ row \in [Key -> Row \cup {NoRow}]
    /\ log \in Seq([request : Request, at : 0 .. MaxTime]) /\ Len(log) <= MaxRuns
    /\ pc \in [Worker -> {"idle", "handle", "store"}]
    /\ req \in [Worker -> Request \cup {NoRequest}]
    /\ run \in [Worker -> 0 .. MaxRuns]
    /\ served \subseteq [request : Request, run : 1 .. MaxRuns, at : 0 .. MaxTime]
    /\ lost \in 0 .. MaxFaults

\* A replayed answer is the answer to a request with the same key and the
\* same body, whatever the interleaving and whatever is lost.
ReplayFaithful ==
    \A s \in served :
        /\ s.run <= Len(log)
        /\ log[s.run].request.key = s.request.key
        /\ log[s.run].request.body = s.request.body

\* Retries that are replayed within one lifetime of a row all get one answer:
\* concurrent duplicates that finish later do not change what is replayed.
ReplayStable ==
    \A s, t \in served :
        s.request.key = t.request.key /\ s.at <= t.at /\ t.at < log[s.run].at + TTL
            => s.run = t.run

\* The runs of a key between its first run and the end of that run's 24 hours.
FirstRuns(k) ==
    {i \in DOMAIN log :
        /\ log[i].request.key = k
        /\ \A j \in DOMAIN log : log[j].request.key = k => log[i].at < log[j].at + TTL}

\* In the first 24 hours of a key it is handled more often than once only by
\* requests that overlap, each handler once, or because a lookup or a store
\* was lost, each of which costs one more: whoever comes after an answer that
\* was stored gets that answer.
DuplicatesPaidFor ==
    \A k \in Key : Cardinality(FirstRuns(k)) <= Cardinality(Worker) + lost

\* README: a retry with the same key and body runs no duplicate operation for
\* the 24 hours the response is cached.
NoDuplicate ==
    \A i, j \in DOMAIN log :
        /\ i < j
        /\ log[i].request = log[j].request
        /\ log[i].request.key # NoKey
        => log[j].at >= log[i].at + TTL
=============================================================================
