---------------------------- MODULE RateLimiter ----------------------------
(***************************************************************************)
(* RateLimiter: the token bucket of one client IP in the shared map, used  *)
(* by concurrent requests and removed by the eviction goroutine.  The map  *)
(* operations are atomic; what a request or the evictor does between two   *)
(* of them is not.                                                         *)
(*                                                                         *)
(* Time is a clock of coarse ticks, Window of which are the minute in      *)
(* which a bucket refills; a request, or a visit of the evictor, ends in   *)
(* the tick it began in.  The buckets of different IPs share nothing.      *)
(***************************************************************************)
EXTENDS Integers, FiniteSetsExt, Functions

CONSTANTS
    Handler,     \* the requests under way
    Burst,       \* capacity of a bucket: 100
    Refill,      \* tokens a bucket gains in a tick
    Window,      \* ticks in a minute
    TTL,         \* idle ticks after which an entry is evicted
    MaxTime,     \* bound on the clock
    MaxEntries,  \* bound on the entries made
    MaxRequests  \* bound on the requests of a tick

ASSUME RateAssumption ==
    {Burst, Refill, Window} \subseteq Nat \ {0} /\ Refill * Window = Burst
\* entryTTL is ten minutes.
ASSUME TTLAssumption == TTL \in Nat /\ TTL >= Window
ASSUME BoundsAssumption == {MaxTime, MaxEntries, MaxRequests} \subseteq Nat

Entry == 1 .. MaxEntries
Nobody == 0

VARIABLES
    now,
    current,  \* the entry in the map, or Nobody
    made,     \* how many entries were made
    tokens,   \* [Entry -> 0 .. Burst], the bucket at its last use
    used,     \* [Entry -> time of that use]
    seen,     \* [Entry -> lastSeen]
    pc, entry,  \* of each request: its next step, the entry it got
    evicting, \* the entry the evictor found idle, or Nobody
    asked,    \* requests begun in this tick
    allowed   \* history: [time -> requests let through]

vars == <<now, current, made, tokens, used, seen, pc, entry, evicting, asked, allowed>>

Init ==
    /\ now = 0
    /\ current = Nobody
    /\ made = 0
    /\ tokens = [e \in Entry |-> Burst]
    /\ used = [e \in Entry |-> 0]
    /\ seen = [e \in Entry |-> 0]
    /\ pc = [h \in Handler |-> "idle"]
    /\ entry = [h \in Handler |-> Nobody]
    /\ evicting = Nobody
    /\ asked = 0
    /\ allowed = [t \in 0 .. MaxTime |-> 0]

Begin(h) ==
    /\ pc[h] = "idle"
    /\ asked < MaxRequests
    /\ asked' = asked + 1

\* Mutant: Store instead of LoadOrStore.
StoreAnyway(h) ==
    /\ Begin(h)
    /\ made < MaxEntries
    /\ made' = made + 1
    /\ current' = made'
    /\ seen' = [seen EXCEPT ![made'] = now]
    /\ entry' = [entry EXCEPT ![h] = made']
    /\ pc' = [pc EXCEPT ![h] = "allow"]
    /\ UNCHANGED <<now, tokens, used, evicting, allowed>>

\* LoadOrStore finds no entry: the new one, with a full bucket, is stored.
Store(h) ==
    /\ Begin(h)
    /\ current = Nobody
    /\ made < MaxEntries
    /\ made' = made + 1
    /\ current' = made'
    /\ seen' = [seen EXCEPT ![made'] = now]
    /\ entry' = [entry EXCEPT ![h] = made']
    /\ pc' = [pc EXCEPT ![h] = "allow"]
    /\ UNCHANGED <<now, tokens, used, evicting, allowed>>

\* It finds one.
Load(h) ==
    /\ Begin(h)
    /\ current # Nobody
    /\ entry' = [entry EXCEPT ![h] = current]
    /\ pc' = [pc EXCEPT ![h] = "touch"]
    /\ UNCHANGED <<now, current, made, tokens, used, seen, evicting, allowed>>

\* existing.lastSeen = time.Now(), on an entry that may be out of the map.
Touch(h) ==
    /\ pc[h] = "touch"
    /\ seen' = [seen EXCEPT ![entry[h]] = now]
    /\ pc' = [pc EXCEPT ![h] = "allow"]
    /\ UNCHANGED <<now, current, made, tokens, used, entry, evicting, asked, allowed>>

Available(e) == Min({Burst, tokens[e] + (now - used[e]) * Refill})

\* Mutant: an empty bucket lends a token.
AllowOverdrawn(h) ==
    /\ pc[h] = "allow"
    /\ LET e == entry[h] IN
        /\ tokens' = [tokens EXCEPT ![e] = Available(e) - 1]
        /\ used' = [used EXCEPT ![e] = now]
    /\ allowed' = [allowed EXCEPT ![now] = @ + 1]
    /\ pc' = [pc EXCEPT ![h] = "idle"]
    /\ entry' = [entry EXCEPT ![h] = Nobody]
    /\ UNCHANGED <<now, current, made, seen, evicting, asked>>

\* rate.Limiter.Allow takes a token; without one the answer is a 429.
Allow(h) ==
    /\ pc[h] = "allow"
    /\ LET e == entry[h] IN
        \/ /\ Available(e) > 0
           /\ tokens' = [tokens EXCEPT ![e] = Available(e) - 1]
           /\ used' = [used EXCEPT ![e] = now]
           /\ allowed' = [allowed EXCEPT ![now] = @ + 1]
        \/ /\ Available(e) = 0
           /\ UNCHANGED <<tokens, used, allowed>>
    /\ pc' = [pc EXCEPT ![h] = "idle"]
    /\ entry' = [entry EXCEPT ![h] = Nobody]
    /\ UNCHANGED <<now, current, made, seen, evicting, asked>>

-----------------------------------------------------------------------------
\* The evictor reads lastSeen of an entry it met in the map ...
Look ==
    /\ evicting = Nobody
    /\ current # Nobody
    /\ now - seen[current] > TTL
    /\ evicting' = current
    /\ UNCHANGED <<now, current, made, tokens, used, seen, pc, entry, asked, allowed>>

\* ... and deletes the key, whatever has happened to the entry since.
Evict ==
    /\ evicting # Nobody
    /\ current' = Nobody
    /\ evicting' = Nobody
    /\ UNCHANGED <<now, made, tokens, used, seen, pc, entry, asked, allowed>>

Tick ==
    /\ now < MaxTime
    /\ \A h \in Handler : pc[h] = "idle"
    /\ evicting = Nobody
    /\ now' = now + 1
    /\ asked' = 0
    /\ UNCHANGED <<current, made, tokens, used, seen, pc, entry, evicting, allowed>>

Next ==
    \/ \E h \in Handler : Store(h) \/ Load(h) \/ Touch(h) \/ Allow(h)
    \/ Look
    \/ Evict
    \/ Tick

Spec == Init /\ [][Next]_vars

-----------------------------------------------------------------------------
\* Properties.

TypeOK ==
    /\ now \in 0 .. MaxTime
    /\ current \in 0 .. made
    /\ made \in 0 .. MaxEntries
    /\ tokens \in [Entry -> 0 .. Burst]
    /\ used \in [Entry -> 0 .. MaxTime]
    /\ seen \in [Entry -> 0 .. MaxTime]
    /\ pc \in [Handler -> {"idle", "touch", "allow"}]
    /\ entry \in [Handler -> 0 .. made]
    /\ evicting \in 0 .. made
    /\ asked \in 0 .. MaxRequests
    /\ allowed \in [0 .. MaxTime -> Nat]

\* The requests let through in the minute that starts with tick t.
PerMinute(t) ==
    SumFunctionOnSet(allowed, {i \in 0 .. MaxTime : t <= i /\ i < t + Window})

\* Whatever the evictor does while requests are under way, a minute sees at
\* most one bucket more than the one it started with: an entry is evicted in
\* use at most once in a minute, and concurrent first requests share a bucket.
AtMostTwoBuckets ==
    \A t \in 0 .. MaxTime : PerMinute(t) <= 2 * Burst + Refill * (Window - 1)
=============================================================================
