------------------------- MODULE RateLimiterProofs --------------------------
(***************************************************************************)
(* The rate limiter for any number of requests, any bucket and any time:   *)
(* whatever the evictor does while requests are under way, no minute sees  *)
(* more than two buckets and the refill.                                   *)
(***************************************************************************)
EXTENDS RateLimiter, Sums

\* What the clock bounds, and what the future holds.
Past ==
    /\ \A e \in Entry : used[e] <= now /\ seen[e] <= now
    /\ \A i \in 0 .. MaxTime : i > now => allowed[i] = 0

\* A request works on the newest entry or, in the tick in which that one
\* replaced it, on the one before; the map holds the newest entry or none, and
\* while it is being removed nobody is left on the one before.
Placed ==
    /\ current \in {Nobody, made}
    /\ evicting # Nobody => evicting = current
    /\ \A h \in Handler :
          /\ pc[h] = "idle" <=> entry[h] = Nobody
          /\ pc[h] # "idle" => entry[h] \in {made, made - 1}
          /\ pc[h] # "idle" /\ (pc[h] = "allow" \/ entry[h] # made) => seen[made] = now
          /\ pc[h] # "idle" /\ (current = Nobody \/ evicting # Nobody) => entry[h] = made

\* What is left in the entry before the newest, while a request is on it.
Rest ==
    IF \E h \in Handler : pc[h] # "idle" /\ entry[h] # made THEN Available(made - 1) ELSE 0

\* What the requests of the minute that starts with tick t can still have had,
\* as long as it lasts.  Without a request in it the newest entry was not seen;
\* an entry that is removed had one bucket for all of them; and the one that
\* replaced it another.
Spent(t) ==
    t <= now /\ now < t + Window =>
        /\ made = 0 \/ seen[made] < t => PerMinute(t) = 0
        /\ made # 0 /\ (current = Nobody \/ evicting # Nobody) =>
              PerMinute(t) + Available(made) <= Burst + Refill * (now - t)
        /\ made # 0 =>
              PerMinute(t) + Available(made) + Rest <= 2 * Burst + Refill * (now - t)

Minutes == \A t \in 0 .. MaxTime : Spent(t)

IInv == TypeOK /\ Past /\ Placed /\ Minutes /\ AtMostTwoBuckets

-----------------------------------------------------------------------------
\* Buckets.

\* The smaller of two numbers.
LEMMA Smaller == \A a, b \in Int : Min({a, b}) = IF a <= b THEN a ELSE b
<1> SUFFICES ASSUME NEW a \in Int, NEW b \in Int PROVE Min({a, b}) = IF a <= b THEN a ELSE b
  OBVIOUS
<1> DEFINE m == IF a <= b THEN a ELSE b
<1>1. m \in {a, b} /\ \A y \in {a, b} : m <= y
  OBVIOUS
<1>2. \A x \in {a, b} : (\A y \in {a, b} : x <= y) => x = m
  OBVIOUS
<1> QED
  BY <1>1, <1>2, Zenon DEF Min

\* A refill that takes longer gains as much or more.
LEMMA Longer == \A k, m, n \in Nat : m <= n => k * m <= k * n
OBVIOUS

\* What is in a bucket that held n tokens k ticks ago.
LEMMA Filled ==
    \A n \in 0 .. Burst, k \in Nat :
        /\ Min({Burst, n + k * Refill}) = IF Burst <= n + k * Refill THEN Burst ELSE n + k * Refill
        /\ Min({Burst, n + k * Refill}) \in 0 .. Burst
<1> SUFFICES ASSUME NEW n \in 0 .. Burst, NEW k \in Nat
             PROVE  /\ Min({Burst, n + k * Refill})
                          = IF Burst <= n + k * Refill THEN Burst ELSE n + k * Refill
                    /\ Min({Burst, n + k * Refill}) \in 0 .. Burst
  OBVIOUS
<1>1. k * Refill \in Nat /\ Burst \in Nat
  BY RateAssumption
<1> QED
  BY <1>1, Smaller

\* A bucket holds at most a burst, and what it gains with the time since its
\* last use.
LEMMA Bucket ==
    ASSUME TypeOK, Past, NEW e \in Entry
    PROVE  /\ Available(e) \in 0 .. Burst
           /\ Available(e) = IF Burst <= tokens[e] + (now - used[e]) * Refill THEN Burst
                             ELSE tokens[e] + (now - used[e]) * Refill
<1>1. tokens[e] \in 0 .. Burst /\ now - used[e] \in Nat
  BY BoundsAssumption DEF TypeOK, Past
<1> QED
  BY <1>1, Filled DEF Available

\* A bucket that is not used keeps what it has.
LEMMA BucketKept ==
    ASSUME NEW e \in Entry, now' = now, tokens'[e] = tokens[e], used'[e] = used[e]
    PROVE  Available(e)' = Available(e)
BY DEF Available

\* In a tick a bucket gains the refill of a tick at most.
LEMMA BucketGains ==
    ASSUME TypeOK, Past, NEW e \in Entry,
           now' = now + 1, tokens' = tokens, used' = used
    PROVE  Available(e)' <= Available(e) + Refill /\ Available(e)' \in 0 .. Burst
<1> DEFINE k == now - used[e]
<1>0. tokens[e] \in 0 .. Burst /\ now \in Nat /\ used[e] \in Nat /\ used[e] <= now
  BY BoundsAssumption DEF TypeOK, Past
<1>1. tokens[e] \in 0 .. Burst /\ k \in Nat /\ k + 1 \in Nat /\ now' - used'[e] = k + 1
  BY <1>0
<1>2. k * Refill \in Nat /\ (k + 1) * Refill = k * Refill + Refill
      /\ Burst \in Nat /\ Refill \in Nat
  BY <1>1, RateAssumption
<1>3. /\ Available(e) = Min({Burst, tokens[e] + k * Refill})
      /\ Available(e)' = Min({Burst, tokens[e] + (k + 1) * Refill})
  BY <1>1 DEF Available
<1> HIDE DEF k
<1>4. /\ Available(e) = IF Burst <= tokens[e] + k * Refill THEN Burst ELSE tokens[e] + k * Refill
      /\ Available(e)' = IF Burst <= tokens[e] + (k + 1) * Refill THEN Burst
                         ELSE tokens[e] + (k + 1) * Refill
      /\ Available(e)' \in 0 .. Burst
  BY <1>1, <1>3, Filled
<1> QED
  BY <1>1, <1>2, <1>4

\* A request that gets a token takes it from the bucket it works on.
LEMMA BucketTaken ==
    ASSUME TypeOK, Past, NEW e \in Entry, now' = now, Available(e) > 0,
           tokens' = [tokens EXCEPT ![e] = Available(e) - 1],
           used' = [used EXCEPT ![e] = now]
    PROVE  /\ Available(e)' = Available(e) - 1
           /\ \A d \in Entry \ {e} : Available(d)' = Available(d)
<1>1. Available(e) \in 0 .. Burst
  BY Bucket
<1>2. Available(e) - 1 \in 0 .. Burst /\ now \in Nat /\ Burst \in Nat
  <2>1. now \in Nat
    BY BoundsAssumption DEF TypeOK
  <2>2. Burst \in Nat
    BY RateAssumption
  <2> QED
    BY <1>1, <2>1, <2>2
<1>3. tokens'[e] = Available(e) - 1 /\ used'[e] = now
  BY DEF TypeOK
<1>4. \A d \in Entry \ {e} : tokens'[d] = tokens[d] /\ used'[d] = used[d]
  BY DEF TypeOK
<1> DEFINE left == Available(e) - 1
<1>5. Available(e)' = Min({Burst, left + 0 * Refill})
  <2>1. Available(e)' = Min({Burst, tokens'[e] + (now' - used'[e]) * Refill})
    BY DEF Available
  <2>2. now' - used'[e] = 0
    BY <1>2, <1>3
  <2> QED
    BY <1>3, <2>1, <2>2
<1>6. left \in 0 .. Burst
  BY <1>2
<1> HIDE DEF left
<1>7. Available(e)' = left
  <2>1. 0 * Refill = 0
    BY RateAssumption
  <2> QED
    BY <1>2, <1>5, <1>6, <2>1, Filled
<1> QED
  BY <1>4, <1>7, BucketKept DEF left

-----------------------------------------------------------------------------
\* Minutes.

\* The ticks of the minute that starts with tick t.
Ticks(t) == {i \in 0 .. MaxTime : t <= i /\ i < t + Window}

\* What the minutes add up is finite.
LEMMA Minute ==
    ASSUME TypeOK, NEW t
    PROVE  /\ IsFiniteSet(Ticks(t)) /\ IntegersOn(allowed, Ticks(t))
           /\ PerMinute(t) = SumFunctionOnSet(allowed, Ticks(t))
           /\ PerMinute(t) \in Int
<1>1. IsFiniteSet(0 .. MaxTime)
  BY FS_Interval, BoundsAssumption
<1>2. IsFiniteSet(Ticks(t))
  BY <1>1, FS_Subset DEF Ticks
<1>3. IntegersOn(allowed, Ticks(t))
  BY DEF TypeOK, IntegersOn, Ticks
<1>4. PerMinute(t) = SumFunctionOnSet(allowed, Ticks(t))
  BY DEF PerMinute, Ticks
<1> QED
  BY <1>2, <1>3, <1>4, SumType

\* Nothing is let through in the future.
LEMMA MinuteToCome ==
    ASSUME TypeOK, Past, NEW t \in Nat, t > now
    PROVE  PerMinute(t) = 0
<1>1. now \in Nat
  BY BoundsAssumption DEF TypeOK
<1>2. \A i \in Ticks(t) : allowed[i] = 0
  BY <1>1 DEF Past, Ticks
<1> QED
  BY <1>2, Minute, SumZero

\* A request that is let through counts in the minutes that it falls in.
LEMMA MinuteCounts ==
    ASSUME TypeOK, NEW t \in Nat, allowed' = [allowed EXCEPT ![now] = @ + 1]
    PROVE  PerMinute(t)' = IF now \in Ticks(t) THEN PerMinute(t) + 1 ELSE PerMinute(t)
<1> DEFINE One == [i \in 0 .. MaxTime |-> IF i = now THEN 1 ELSE 0]
<1>1. PerMinute(t)' = SumFunctionOnSet(allowed', Ticks(t))
  BY DEF PerMinute, Ticks
<1>2. IsFiniteSet(Ticks(t)) /\ IntegersOn(allowed, Ticks(t)) /\ Ticks(t) \subseteq 0 .. MaxTime
  BY Minute DEF Ticks
<1>3. IntegersOn(One, Ticks(t))
  BY <1>2 DEF IntegersOn
<1>4. \A i \in Ticks(t) : allowed'[i] = allowed[i] + One[i]
  BY <1>2 DEF TypeOK
<1>5. SumFunctionOnSet(allowed', Ticks(t))
        = SumFunctionOnSet(allowed, Ticks(t)) + SumFunctionOnSet(One, Ticks(t))
  <2> HIDE DEF One
  <2> QED
    BY <1>2, <1>3, <1>4, SumPlus
<1>6. CASE now \in Ticks(t)
  <2>1. One[now] = 1 /\ \A i \in Ticks(t) \ {now} : One[i] = 0
    BY <1>2, <1>6
  <2>2. SumFunctionOnSet(One, Ticks(t)) = 1
    <3> HIDE DEF One
    <3> QED
      BY <1>2, <1>6, <2>1, SumOne
  <2> QED
    BY <1>1, <1>5, <1>6, <2>2, Minute
<1>7. CASE now \notin Ticks(t)
  <2>1. \A i \in Ticks(t) : One[i] = 0
    BY <1>2, <1>7
  <2>2. SumFunctionOnSet(One, Ticks(t)) = 0
    <3> HIDE DEF One
    <3> QED
      BY <1>2, <2>1, SumZero
  <2> QED
    BY <1>1, <1>5, <1>7, <2>2, Minute
<1> QED
  BY <1>6, <1>7

\* No other step changes a minute.
LEMMA MinuteKept == ASSUME allowed' = allowed, NEW t PROVE PerMinute(t)' = PerMinute(t)
BY DEF PerMinute

-----------------------------------------------------------------------------
\* Steps.

\* The initial states satisfy the invariant.
LEMMA InvInit == Init => IInv
<1> SUFFICES ASSUME Init PROVE IInv
  OBVIOUS
<1>1. TypeOK
  BY RateAssumption, BoundsAssumption DEF Init, TypeOK, Nobody
<1>2. Past
  BY BoundsAssumption DEF Init, Past, Entry
<1>3. Placed
  BY DEF Init, Placed, Nobody
<1>4. \A t \in 0 .. MaxTime : PerMinute(t) = 0
  <2> SUFFICES ASSUME NEW t \in 0 .. MaxTime PROVE PerMinute(t) = 0
    OBVIOUS
  <2>1. \A i \in Ticks(t) : allowed[i] = 0
    BY DEF Init, Ticks
  <2> QED
    BY <1>1, <2>1, Minute, SumZero
<1>5. Minutes
  BY <1>4 DEF Init, Minutes, Spent
<1>6. AtMostTwoBuckets
  <2>1. 0 <= 2 * Burst + Refill * (Window - 1)
    <3>1. Window - 1 \in Nat /\ Refill \in Nat /\ Burst \in Nat
      BY RateAssumption
    <3> HIDE DEF Init
    <3>2. Refill * (Window - 1) \in Nat
      BY <3>1
    <3> QED
      BY <3>1, <3>2
  <2> QED
    BY <1>4, <2>1 DEF AtMostTwoBuckets
<1> QED
  BY <1>1, <1>2, <1>3, <1>5, <1>6 DEF IInv

\* A request that is under way has an entry that was made.
LEMMA Working ==
    ASSUME TypeOK, Placed, NEW h \in Handler, pc[h] # "idle"
    PROVE  /\ entry[h] \in Entry /\ made \in Entry
           /\ entry[h] = made \/ entry[h] = made - 1
<1>1. /\ entry[h] \in 0 .. made /\ made \in 0 .. MaxEntries /\ MaxEntries \in Nat
  BY BoundsAssumption DEF TypeOK
<1>2. entry[h] # 0 /\ entry[h] \in {made, made - 1}
  BY DEF Placed, Nobody
<1> QED
  BY <1>1, <1>2 DEF Entry

\* Every step keeps the types.
LEMMA TypeStep == TypeOK /\ Past /\ Placed /\ [Next]_vars => TypeOK'
<1> SUFFICES ASSUME TypeOK, Past, Placed, [Next]_vars PROVE TypeOK'
  OBVIOUS
<1>0. now \in Nat /\ made \in Nat /\ 0 .. made \subseteq 0 .. made + 1
  BY BoundsAssumption DEF TypeOK
<1>1. ASSUME NEW h \in Handler, Store(h) PROVE TypeOK'
  <2>1. made' = made + 1 /\ made' \in 0 .. MaxEntries /\ made' \in Entry
    BY <1>0, <1>1, BoundsAssumption DEF Store, Entry, TypeOK
  <2>2. evicting' \in 0 .. made' /\ current' \in 0 .. made'
    BY <1>0, <1>1, <2>1 DEF Store, TypeOK
  <2>3. seen' \in [Entry -> 0 .. MaxTime]
    BY <1>1, <2>1 DEF Store, TypeOK
  <2>4. entry' \in [Handler -> 0 .. made'] /\ pc' \in [Handler -> {"idle", "touch", "allow"}]
    BY <1>0, <1>1, <2>1 DEF Store, TypeOK
  <2>5. asked' \in 0 .. MaxRequests
    BY <1>1, BoundsAssumption DEF Store, Begin, TypeOK
  <2> QED
    BY <1>1, <2>1, <2>2, <2>3, <2>4, <2>5 DEF Store, TypeOK
<1>2. ASSUME NEW h \in Handler, Load(h) PROVE TypeOK'
  BY <1>0, <1>2, BoundsAssumption DEF Load, Begin, TypeOK
<1>3. ASSUME NEW h \in Handler, Touch(h) PROVE TypeOK'
  BY <1>0, <1>3 DEF Touch, TypeOK
<1>4. ASSUME NEW h \in Handler, Allow(h) PROVE TypeOK'
  <2>1. entry[h] \in Entry
    BY <1>4, Working DEF Allow
  <2>2. pc' \in [Handler -> {"idle", "touch", "allow"}] /\ entry' \in [Handler -> 0 .. made']
    BY <1>0, <1>4 DEF Allow, TypeOK, Nobody
  <2>3. CASE /\ Available(entry[h]) > 0
             /\ tokens' = [tokens EXCEPT ![entry[h]] = Available(entry[h]) - 1]
             /\ used' = [used EXCEPT ![entry[h]] = now]
             /\ allowed' = [allowed EXCEPT ![now] = @ + 1]
    <3>1. Available(entry[h]) - 1 \in 0 .. Burst
      BY <2>1, <2>3, Bucket, RateAssumption
    <3>2. tokens' \in [Entry -> 0 .. Burst] /\ used' \in [Entry -> 0 .. MaxTime]
      BY <2>3, <3>1 DEF TypeOK
    <3>3. allowed' \in [0 .. MaxTime -> Nat]
      BY <2>3 DEF TypeOK
    <3> QED
      BY <1>4, <2>2, <3>2, <3>3 DEF Allow, TypeOK
  <2>4. CASE UNCHANGED <<tokens, used, allowed>>
    BY <1>4, <2>2, <2>4 DEF Allow, TypeOK
  <2> QED
    BY <1>4, <2>3, <2>4 DEF Allow
<1>5. CASE Look
  BY <1>5 DEF Look, TypeOK
<1>6. CASE Evict
  BY <1>0, <1>6 DEF Evict, TypeOK, Nobody
<1>7. CASE Tick
  BY <1>0, <1>7, BoundsAssumption DEF Tick, TypeOK
<1>8. CASE UNCHANGED vars
  BY <1>8 DEF vars, TypeOK
<1> QED
  BY <1>1, <1>2, <1>3, <1>4, <1>5, <1>6, <1>7, <1>8 DEF Next

\* Nothing happens later than now.
LEMMA PastStep == TypeOK /\ Past /\ [Next]_vars => Past'
<1> SUFFICES ASSUME TypeOK, Past, [Next]_vars PROVE Past'
  OBVIOUS
<1>0. now \in Nat /\ \A e \in Entry : used[e] \in Nat /\ seen[e] \in Nat
  BY BoundsAssumption DEF TypeOK
<1>1. ASSUME NEW h \in Handler, Store(h) \/ Touch(h) PROVE Past'
  <2>1. /\ \A e \in Entry : seen'[e] = seen[e] \/ seen'[e] = now
        /\ now' = now /\ used' = used /\ allowed' = allowed
    BY <1>1 DEF Store, Touch, TypeOK
  <2> QED
    BY <1>0, <2>1 DEF Past
<1>2. ASSUME NEW h \in Handler, Allow(h) PROVE Past'
  <2>1. /\ \A e \in Entry : used'[e] = used[e] \/ used'[e] = now
        /\ \A i \in 0 .. MaxTime : i # now => allowed'[i] = allowed[i]
        /\ now' = now /\ seen' = seen
    BY <1>2 DEF Allow, TypeOK
  <2> QED
    BY <1>0, <2>1 DEF Past
<1>3. CASE Tick
  BY <1>0, <1>3 DEF Tick, Past
<1>4. CASE UNCHANGED <<now, used, seen, allowed>>
  BY <1>4 DEF Past
<1> QED
  BY <1>1, <1>2, <1>3, <1>4 DEF Next, Load, Look, Evict, vars

\* An entry is removed once a tick at most, for it was not seen in this one.
LEMMA PlacedStep == TypeOK /\ Past /\ Placed /\ [Next]_vars => Placed'
<1> SUFFICES ASSUME TypeOK, Past, Placed, [Next]_vars PROVE Placed'
  OBVIOUS
<1>0. now \in Nat /\ made \in Nat /\ TTL \in Nat /\ TTL > 0
      /\ \A e \in Entry : seen[e] \in Nat
  BY BoundsAssumption, TTLAssumption, RateAssumption DEF TypeOK
<1>1. ASSUME NEW h \in Handler, Store(h) PROVE Placed'
  <2>1. /\ current = Nobody /\ current' = made + 1 /\ made' = made + 1 /\ now' = now
        /\ evicting' = evicting /\ evicting = Nobody
    BY <1>1 DEF Store, Placed
  <2>2. made + 1 \in Entry /\ seen'[made'] = now
    BY <1>0, <1>1, BoundsAssumption DEF Store, Entry, TypeOK
  <2>3. \A k \in Handler : /\ pc'[k] = IF k = h THEN "allow" ELSE pc[k]
                           /\ entry'[k] = IF k = h THEN made + 1 ELSE entry[k]
    BY <1>1, <2>1 DEF Store, TypeOK
  <2>4. \A k \in Handler : pc[k] # "idle" => entry[k] = made
    BY <2>1 DEF Placed
  <2>5. ASSUME NEW k \in Handler
        PROVE  /\ pc'[k] = "idle" <=> entry'[k] = Nobody
               /\ pc'[k] # "idle" => entry'[k] \in {made', made' - 1}
    BY <1>0, <2>1, <2>3, <2>4 DEF Placed, Nobody
  <2>6. current' # Nobody /\ evicting' = Nobody
    BY <1>0, <2>1 DEF Nobody
  <2> QED
    BY <2>1, <2>2, <2>5, <2>6 DEF Placed
<1>2. ASSUME NEW h \in Handler, Load(h) PROVE Placed'
  <2>1. /\ current # Nobody /\ current = made
        /\ UNCHANGED <<now, current, made, seen, evicting>>
    BY <1>2 DEF Load, Placed
  <2>2. \A k \in Handler : /\ pc'[k] = IF k = h THEN "touch" ELSE pc[k]
                           /\ entry'[k] = IF k = h THEN made ELSE entry[k]
    BY <1>2, <2>1 DEF Load, TypeOK
  <2> QED
    BY <1>0, <2>1, <2>2 DEF Placed
<1>3. ASSUME NEW h \in Handler, Touch(h) PROVE Placed'
  <2>1. UNCHANGED <<now, current, made, entry, evicting>> /\ pc[h] = "touch"
    BY <1>3 DEF Touch
  <2>2. \A k \in Handler : pc'[k] = IF k = h THEN "allow" ELSE pc[k]
    BY <1>3 DEF Touch, TypeOK
  <2>3. made \in Entry => seen'[made] = IF entry[h] = made THEN now ELSE seen[made]
    BY <1>3 DEF Touch, TypeOK
  <2>4. made \in Entry
    BY <2>1, Working
  <2>5. seen'[made] = now
    BY <2>1, <2>3, <2>4 DEF Placed
  <2> QED
    BY <1>0, <2>1, <2>2, <2>5 DEF Placed
<1>4. ASSUME NEW h \in Handler, Allow(h) PROVE Placed'
  <2>1. UNCHANGED <<now, current, made, seen, evicting>>
    BY <1>4 DEF Allow
  <2>2. \A k \in Handler : /\ pc'[k] = IF k = h THEN "idle" ELSE pc[k]
                           /\ entry'[k] = IF k = h THEN Nobody ELSE entry[k]
    BY <1>4 DEF Allow, TypeOK
  <2> QED
    BY <2>1, <2>2 DEF Placed
<1>5. CASE Look
  <2>1. /\ current = made /\ made # 0 /\ evicting' = current /\ now - seen[made] > TTL
        /\ UNCHANGED <<now, current, made, seen, pc, entry>>
    BY <1>5 DEF Look, Placed, Nobody
  <2>2. seen[made] # now
    BY <1>0, <2>1 DEF TypeOK, Entry
  <2> QED
    BY <2>1, <2>2 DEF Placed
<1>6. CASE Evict
  BY <1>6 DEF Evict, Placed
<1>7. CASE Tick
  BY <1>7 DEF Tick, Placed
<1>8. CASE UNCHANGED vars
  BY <1>8 DEF vars, Placed
<1> QED
  BY <1>1, <1>2, <1>3, <1>4, <1>5, <1>6, <1>7, <1>8 DEF Next

\* What is left in the entry before the newest is what is left in a bucket.
LEMMA RestIs ==
    ASSUME TypeOK, Past, Placed
    PROVE  /\ Rest \in 0 .. Burst
           /\ \A h \in Handler : pc[h] # "idle" /\ entry[h] # made =>
                 Rest = Available(made - 1) /\ made - 1 \in Entry
<1>1. ASSUME NEW h \in Handler, pc[h] # "idle", entry[h] # made
      PROVE  Rest = Available(made - 1) /\ made - 1 \in Entry
  BY <1>1, Working DEF Rest
<1>2. CASE \E h \in Handler : pc[h] # "idle" /\ entry[h] # made
  BY <1>1, <1>2, Bucket
<1>3. CASE ~\E h \in Handler : pc[h] # "idle" /\ entry[h] # made
  BY <1>3, RateAssumption DEF Rest
<1> QED
  BY <1>1, <1>2, <1>3

\* A step in which no time passes and nobody takes a token, and after which
\* nobody else is on the entry before, leaves what it does not touch.
LEMMA QuietStep ==
    ASSUME TypeOK, Past, Placed, now' = now, made' = made,
           UNCHANGED <<tokens, used, allowed>>,
           \A h \in Handler : pc'[h] # "idle" /\ entry'[h] # made
               => pc[h] # "idle" /\ entry[h] # made
    PROVE  /\ \A t : PerMinute(t)' = PerMinute(t)
           /\ Available(made)' = Available(made)
           /\ Rest' \in Int /\ Rest' <= Rest
<1>1. Available(made)' = Available(made)
  BY DEF Available
<1>2. Available(made - 1)' = Available(made - 1)
  BY DEF Available
<1>3. CASE \E h \in Handler : pc'[h] # "idle" /\ entry'[h] # made
  <2>1. Rest' = Available(made - 1)' /\ Rest = Available(made - 1)
    BY <1>3 DEF Rest
  <2> QED
    BY <1>1, <1>2, <2>1, MinuteKept, RestIs
<1>4. CASE ~\E h \in Handler : pc'[h] # "idle" /\ entry'[h] # made
  BY <1>1, <1>4, MinuteKept, RestIs DEF Rest
<1> QED
  BY <1>3, <1>4

\* What the newest entry is after a step says what is then left.
LEMMA RestNext ==
    ASSUME NEW m, made' = m
    PROVE  Rest' = IF \E h \in Handler : pc'[h] # "idle" /\ entry'[h] # m
                   THEN Available(m - 1)' ELSE 0
BY DEF Rest, Available

\* And what has been spent.
LEMMA SpentNext ==
    ASSUME NEW t, NEW m, made' = m,
           m = 0 \/ seen'[m] < t => PerMinute(t)' = 0,
           m # 0 /\ (current' = Nobody \/ evicting' # Nobody) =>
              PerMinute(t)' + Available(m)' <= Burst + Refill * (now' - t),
           m # 0 => PerMinute(t)' + Available(m)' + Rest' <= 2 * Burst + Refill * (now' - t)
    PROVE  Spent(t)'
BY DEF Spent, Available

\* How many requests were let through since tick t follows from the bounds on
\* the buckets: by taking a token they take it from what is left.
LEMMA MinutesStep == TypeOK /\ Past /\ Placed /\ Minutes /\ [Next]_vars => Minutes'
<1> SUFFICES ASSUME TypeOK, Past, Placed, Minutes, [Next]_vars,
                    NEW t \in 0 .. MaxTime, t <= now', now' < t + Window
             PROVE  Spent(t)'
  BY DEF Minutes, Spent
<1> PICK m : m = made
  OBVIOUS
<1> DEFINE gone == Refill * (now - t)
           P == PerMinute(t)
           A == Available(m)
<1>0. now \in Nat /\ m \in 0 .. MaxEntries /\ MaxEntries \in Nat /\ t \in Nat
  BY BoundsAssumption DEF TypeOK
<1>1. Burst \in Nat /\ Refill \in Nat /\ TTL \in Nat /\ Window \in Nat /\ Window <= TTL
  BY RateAssumption, TTLAssumption
<1>2. gone \in Int /\ Rest \in 0 .. Burst /\ P \in Int
  <2>1. gone \in Int
    BY <1>0, <1>1
  <2> QED
    BY <2>1, RestIs, Minute
<1>3. m # 0 => m \in Entry /\ A \in 0 .. Burst /\ seen[m] \in Nat
  <2> SUFFICES ASSUME m # 0 PROVE m \in Entry /\ A \in 0 .. Burst /\ seen[m] \in Nat
    OBVIOUS
  <2>1. m \in Entry
    BY <1>0 DEF Entry
  <2>2. seen[m] \in Nat
    BY <2>1, BoundsAssumption DEF TypeOK
  <2>3. A \in 0 .. Burst
    BY <2>1, Bucket
  <2> QED
    BY <2>1, <2>2, <2>3
<1>5. ASSUME t <= now, now < t + Window
      PROVE  /\ m = 0 \/ seen[m] < t => P = 0
             /\ m # 0 /\ (current = Nobody \/ evicting # Nobody) => P + A <= Burst + gone
             /\ m # 0 => P + A + Rest <= 2 * Burst + gone
  BY <1>5 DEF Minutes, Spent
<1>6. ASSUME now' = now
      PROVE  gone \in Nat
  <2>1. now - t \in Nat
    BY <1>0, <1>6
  <2> QED
    BY <1>1, <2>1
<1>7. ASSUME NEW h \in Handler, Store(h) PROVE Spent(t)'
  <2>1. /\ current = Nobody /\ current' = m + 1 /\ made' = m + 1 /\ now' = now
        /\ evicting' = evicting /\ evicting = Nobody
        /\ UNCHANGED <<tokens, used, allowed>>
    BY <1>7 DEF Store, Placed
  <2>2. m + 1 \in Entry /\ seen'[m + 1] = now
    BY <1>0, <1>7, <2>1 DEF Store, Entry, TypeOK
  <2>3. \A k \in Handler : /\ pc'[k] = IF k = h THEN "allow" ELSE pc[k]
                           /\ entry'[k] = IF k = h THEN m + 1 ELSE entry[k]
    BY <1>7, <2>1 DEF Store, TypeOK
  <2>4. PerMinute(t)' = P /\ Available(m + 1)' \in 0 .. Burst
    BY <2>1, <2>2, BucketKept, Bucket, MinuteKept
  <2>5. Rest' = 0 \/ (m # 0 /\ Rest' = A)
    <3>1. CASE \E k \in Handler : pc'[k] # "idle" /\ entry'[k] # m + 1
      <4>1. m \in Entry
        BY <2>1, <2>3, <3>1, Working
      <4>2. Rest' = Available(m + 1 - 1)' /\ m + 1 - 1 = m
        BY <1>0, <2>1, <3>1, RestNext
      <4> QED
        BY <1>0, <2>1, <4>1, <4>2, BucketKept DEF Entry
    <3>2. CASE ~\E k \in Handler : pc'[k] # "idle" /\ entry'[k] # m + 1
      BY <2>1, <3>2, RestNext
    <3> QED
      BY <3>1, <3>2
  <2>6. PerMinute(t)' + Available(m + 1)' + Rest' <= 2 * Burst + gone
    BY <1>1, <1>2, <1>3, <1>5, <1>6, <2>1, <2>4, <2>5
  <2>7. current' # Nobody /\ evicting' = Nobody /\ m + 1 # 0 /\ ~(seen'[m + 1] < t)
    BY <1>0, <2>1, <2>2 DEF Nobody
  <2> QED
    BY <2>1, <2>6, <2>7, SpentNext
<1>8. ASSUME UNCHANGED <<now, made, tokens, used, allowed>>,
             current' = Nobody \/ evicting' # Nobody
                => \/ current = Nobody \/ evicting # Nobody
                   \/ now - seen[m] > TTL,
             m # 0 /\ seen[m] >= t => seen'[m] >= t,
             m # 0 => seen'[m] \in Nat,
             \A h \in Handler : pc'[h] # "idle" /\ entry'[h] # m
                 => pc[h] # "idle" /\ entry[h] # m
      PROVE  Spent(t)'
  <2>1. PerMinute(t)' = P /\ Available(m)' = A /\ Rest' \in Int /\ Rest' <= Rest
    <3>1. PerMinute(t)' = P /\ Rest' \in Int /\ Rest' <= Rest
      BY <1>8, QuietStep
    <3> QED
      BY <1>8, <3>1 DEF Available
  <2>2. gone \in Nat
    BY <1>6, <1>8
  <2>3. m = 0 \/ seen'[m] < t => P = 0
    <3>1. m # 0 /\ seen'[m] < t => seen[m] < t
      BY <1>0, <1>3, <1>8
    <3> QED
      BY <1>5, <1>8, <3>1
  <2>4. m # 0 /\ (current' = Nobody \/ evicting' # Nobody) => P + A <= Burst + gone
    <3>1. m # 0 /\ now - seen[m] > TTL => seen[m] < t
      BY <1>0, <1>1, <1>3, <1>8
    <3>2. m # 0 /\ now - seen[m] > TTL => P + A <= Burst + gone
      BY <1>1, <1>2, <1>3, <1>5, <1>8, <2>2, <3>1
    <3> QED
      BY <1>5, <1>8, <3>2
  <2>5. m # 0 => P + A + Rest' <= 2 * Burst + gone
    BY <1>1, <1>2, <1>3, <1>5, <1>8, <2>1
  <2> HIDE DEF P, A
  <2> QED
    BY <1>8, <2>1, <2>3, <2>4, <2>5, SpentNext
<1>9. ASSUME NEW h \in Handler, Load(h) PROVE Spent(t)'
  <2>1. \A k \in Handler : /\ pc'[k] = IF k = h THEN "touch" ELSE pc[k]
                           /\ entry'[k] = IF k = h THEN m ELSE entry[k]
    BY <1>9 DEF Load, Placed, TypeOK
  <2> QED
    BY <1>3, <1>8, <1>9, <2>1 DEF Load
<1>10. ASSUME NEW h \in Handler, Touch(h) PROVE Spent(t)'
  <2>1. \A k \in Handler : pc'[k] # "idle" => pc[k] # "idle"
    BY <1>10 DEF Touch, TypeOK
  <2>2. /\ m # 0 /\ seen[m] >= t => seen'[m] >= t
        /\ m # 0 => seen'[m] \in Nat
    <3>1. m # 0 => seen'[m] = seen[m] \/ seen'[m] = now
      BY <1>3, <1>10 DEF Touch, TypeOK
    <3> QED
      BY <1>0, <1>3, <1>10, <3>1 DEF Touch
  <2> QED
    BY <1>8, <1>10, <2>1, <2>2 DEF Touch
<1>11. ASSUME NEW h \in Handler, Allow(h) PROVE Spent(t)'
  <2> PICK e : e = entry[h]
    OBVIOUS
  <2>1. /\ pc[h] = "allow" /\ e \in Entry /\ m \in Entry /\ (e = m \/ e = m - 1)
        /\ UNCHANGED <<now, current, made, seen, evicting>>
    BY <1>11, Working DEF Allow
  <2>2. \A k \in Handler : pc'[k] # "idle" => pc[k] # "idle" /\ entry'[k] = entry[k]
    BY <1>11 DEF Allow, TypeOK
  <2>3. seen[m] = now
    BY <2>1 DEF Placed
  <2>4. CASE UNCHANGED <<tokens, used, allowed>>
    BY <1>3, <1>8, <2>1, <2>2, <2>4
  <2>5. CASE /\ Available(e) > 0
             /\ tokens' = [tokens EXCEPT ![e] = Available(e) - 1]
             /\ used' = [used EXCEPT ![e] = now]
             /\ allowed' = [allowed EXCEPT ![now] = @ + 1]
    <3>1. PerMinute(t)' = P + 1
      <4>1. now \in Ticks(t)
        BY <2>1 DEF Ticks, TypeOK
      <4> QED
        BY <1>0, <2>5, <4>1, MinuteCounts
    <3>2. /\ Available(e)' = Available(e) - 1
          /\ \A d \in Entry \ {e} : Available(d)' = Available(d)
      BY <2>1, <2>5, BucketTaken
    <3>3. /\ m # 0 /\ t <= now /\ now < t + Window
          /\ Rest \in Int /\ P \in Int /\ gone \in Int /\ A \in Int
      BY <1>0, <1>2, <1>3, <2>1 DEF Entry
    <3>4. \/ Rest' = 0
          \/ /\ \E k \in Handler : pc[k] # "idle" /\ entry[k] # m
             /\ Rest' = Available(m - 1)' /\ Rest = Available(m - 1) /\ m - 1 \in Entry
      BY <2>1, <2>2, RestNext, RestIs
    <3>5. /\ current = Nobody \/ evicting # Nobody => P + A <= Burst + gone
          /\ P + A + Rest <= 2 * Burst + gone
      BY <1>5, <3>3
    <3>6. 2 * Burst + gone \in Int /\ Burst + gone \in Int
      BY <1>1, <3>3
    <3>7. CASE e = m
      <4>1. Available(m)' = A - 1 /\ Rest' \in Int /\ Rest' <= Rest
        BY <1>2, <2>1, <3>2, <3>3, <3>4, <3>7 DEF Entry
      <4>2. PerMinute(t)' + Available(m)' <= P + A
            /\ PerMinute(t)' + Available(m)' + Rest' <= P + A + Rest
        BY <3>1, <3>3, <4>1
      <4>3. ~(seen[m] < t)
        BY <1>0, <2>3, <3>3
      <4> HIDE DEF P, A, gone
      <4>4. /\ current = Nobody \/ evicting # Nobody =>
                 PerMinute(t)' + Available(m)' <= Burst + gone
            /\ PerMinute(t)' + Available(m)' + Rest' <= 2 * Burst + gone
        BY <3>1, <3>3, <3>5, <3>6, <4>1, <4>2
      <4> QED
        BY <2>1, <3>3, <4>3, <4>4, SpentNext DEF gone
    <3>8. CASE e = m - 1
      <4>1. e # m /\ Rest = Available(e)
        <5>1. e # m
          BY <1>0, <3>8
        <5>2. Rest = Available(m - 1)
          BY <2>1, <5>1, RestIs
        <5> QED
          BY <3>8, <5>1, <5>2
      <4>2. Available(m)' = A /\ Rest' \in Int /\ Rest' <= Rest - 1
        BY <2>1, <2>5, <3>2, <3>3, <3>4, <3>8, <4>1
      <4>3. current # Nobody /\ evicting = Nobody
        BY <2>1, <4>1 DEF Placed
      <4>4. PerMinute(t)' + Available(m)' + Rest' <= P + A + Rest
        BY <3>1, <3>3, <4>2
      <4>5. ~(seen[m] < t)
        BY <1>0, <2>3, <3>3
      <4> HIDE DEF P, A, gone
      <4>6. PerMinute(t)' + Available(m)' + Rest' <= 2 * Burst + gone
        BY <3>1, <3>3, <3>5, <3>6, <4>2, <4>4
      <4> QED
        BY <2>1, <3>3, <4>3, <4>5, <4>6, SpentNext DEF gone
    <3> QED
      BY <2>1, <3>7, <3>8
  <2> QED
    BY <1>11, <2>4, <2>5 DEF Allow
<1>12. CASE Look
  BY <1>3, <1>8, <1>12 DEF Look, Placed
<1>13. CASE Evict
  BY <1>3, <1>8, <1>13 DEF Evict
<1>14. CASE Tick
  <2>1. /\ now' = now + 1 /\ \A h \in Handler : pc'[h] = "idle"
        /\ UNCHANGED <<current, made, tokens, used, seen, evicting, allowed>>
    BY <1>14 DEF Tick
  <2>2. PerMinute(t)' = P /\ Rest' = 0
    BY <2>1, RestNext, MinuteKept
  <2>3. m # 0 => Available(m)' <= A + Refill /\ Available(m)' \in 0 .. Burst
    BY <1>3, <2>1, BucketGains
  <2>4. CASE t = now + 1
    <3>1. P = 0
      BY <1>0, <2>4, MinuteToCome
    <3>2. Refill * (now' - t) = 0
      BY <1>1, <1>0, <2>1, <2>4
    <3> QED
      BY <1>1, <2>1, <2>2, <2>3, <3>1, <3>2, SpentNext
  <2>5. CASE t <= now
    <3>1. Refill * (now' - t) = gone + Refill /\ now < t + Window
      BY <1>0, <1>1, <2>1, <2>5
    <3> HIDE DEF gone, P, A
    <3>2. m # 0 => PerMinute(t)' + Available(m)' <= P + A + Refill
      BY <1>1, <1>2, <1>3, <2>2, <2>3
    <3> QED
      BY <1>1, <1>2, <1>3, <1>5, <2>1, <2>2, <2>3, <2>5, <3>1, <3>2, SpentNext
  <2> QED
    BY <1>0, <2>1, <2>4, <2>5
<1>15. CASE UNCHANGED vars
  BY <1>3, <1>8, <1>15 DEF vars
<1> QED
  BY <1>7, <1>9, <1>10, <1>11, <1>12, <1>13, <1>14, <1>15 DEF Next

\* The last tick of a minute leaves its bound, and no later one counts in it.
LEMMA BoundStep ==
    TypeOK /\ Past /\ Placed /\ Minutes /\ AtMostTwoBuckets /\ [Next]_vars => AtMostTwoBuckets'
<1> SUFFICES ASSUME TypeOK, Past, Placed, Minutes, AtMostTwoBuckets, [Next]_vars,
                    NEW t \in 0 .. MaxTime
             PROVE  PerMinute(t)' <= 2 * Burst + Refill * (Window - 1)
  BY DEF AtMostTwoBuckets, PerMinute
<1>1. PerMinute(t) <= 2 * Burst + Refill * (Window - 1)
  BY DEF AtMostTwoBuckets
<1>2. CASE allowed' = allowed
  BY <1>1, <1>2, MinuteKept
<1>3. ASSUME NEW h \in Handler, Allow(h), allowed' # allowed
      PROVE  PerMinute(t)' <= 2 * Burst + Refill * (Window - 1)
  <2> PICK e : e = entry[h]
    OBVIOUS
  <2> PICK m : m = made
    OBVIOUS
  <2>1. /\ pc[h] = "allow" /\ e \in Entry /\ m \in Entry /\ (e = m \/ e = m - 1)
        /\ Available(e) > 0 /\ allowed' = [allowed EXCEPT ![now] = @ + 1]
    BY <1>3, Working DEF Allow
  <2>2. CASE now \notin Ticks(t)
    BY <1>1, <2>1, <2>2, MinuteCounts
  <2>3. CASE now \in Ticks(t)
    <3>1. /\ now \in Nat /\ t \in Nat /\ t <= now /\ now < t + Window
          /\ Window \in Nat /\ Refill \in Nat /\ Burst \in Nat
      BY <2>3, RateAssumption, BoundsAssumption DEF Ticks
    <3>2. PerMinute(t)' = PerMinute(t) + 1
      BY <2>1, <2>3, MinuteCounts
    <3>3. m # 0 /\ PerMinute(t) + Available(m) + Rest <= 2 * Burst + Refill * (now - t)
      BY <2>1, <3>1 DEF Minutes, Spent, Entry
    <3>4. Available(m) + Rest >= 1 /\ Available(m) \in Int /\ Rest \in Int
      <4>1. Available(m) \in 0 .. Burst /\ Available(e) \in 0 .. Burst /\ Rest \in 0 .. Burst
        BY <2>1, Bucket, RestIs
      <4>2. e = m \/ Rest = Available(e)
        <5>1. CASE e # m
          <6>1. Rest = Available(m - 1)
            BY <2>1, <5>1, RestIs
          <6> QED
            BY <2>1, <5>1, <6>1
        <5> QED
          BY <5>1
      <4> QED
        BY <2>1, <3>1, <4>1, <4>2
    <3>5. Refill * (now - t) <= Refill * (Window - 1)
          /\ Refill * (now - t) \in Int /\ Refill * (Window - 1) \in Int
      <4>1. now - t \in Nat /\ Window - 1 \in Nat /\ now - t <= Window - 1
        BY <3>1
      <4> QED
        BY <3>1, <4>1, Longer
    <3>6. PerMinute(t) \in Int
      BY Minute
    <3> QED
      BY <3>1, <3>2, <3>3, <3>4, <3>5, <3>6
  <2> QED
    BY <2>2, <2>3
<1>4. allowed' = allowed \/ \E h \in Handler : Allow(h)
  BY DEF Next, Store, Load, Touch, Look, Evict, Tick, vars
<1> QED
  BY <1>2, <1>3, <1>4

-----------------------------------------------------------------------------
\* The inductive invariant of the rate limiter holds in every state.
THEOREM Invariance == Spec => []IInv
<1>1. IInv /\ [Next]_vars => IInv'
  BY TypeStep, PastStep, PlacedStep, MinutesStep, BoundStep DEF IInv
<1> QED
  BY <1>1, InvInit, PTL DEF Spec

\* The variables of the rate limiter have their types.
THEOREM TypeCorrect == Spec => []TypeOK
BY Invariance, PTL DEF IInv

\* No minute sees more than two buckets and the refill, for any number of
\* requests, entries and evictions: however requests and the evictor interleave,
\* an entry that is evicted in use is replaced once a minute at most.
THEOREM TwoBucketsAtMost == Spec => []AtMostTwoBuckets
BY Invariance, PTL DEF IInv
=============================================================================
