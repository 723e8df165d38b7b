------------------------- MODULE IdempotencyProofs --------------------------
(***************************************************************************)
(* Proofs about Idempotency, for any handlers, requests, lifetimes and     *)
(* numbers of faults: what is replayed is the answer to the same request,  *)
(* all replays within one lifetime agree, and a request is run again only  *)
(* for a reason: an overlap, an expiry or a fault each pay for one run.    *)
(***************************************************************************)
EXTENDS Idempotency, FiniteSetTheorems, TLAPS

\* A handler holds the request it works on, and the run that is its own.
Working ==
    \A w \in Worker :
        /\ pc[w] # "idle" => req[w] \in Request
        /\ pc[w] = "store" => run[w] \in 1 .. Len(log) /\ log[run[w]].request = req[w]

\* A row holds the answer to a request with its key and body, made before now,
\* and lives for a lifetime after it.
Truthful ==
    /\ \A i \in 1 .. Len(log) : log[i].at <= now
    /\ \A k \in Key : row[k] # NoRow =>
          /\ row[k].run \in 1 .. Len(log)
          /\ log[row[k].run].request.key = k
          /\ log[row[k].run].request.body = row[k].body
          /\ log[row[k].run].at + TTL <= row[k].expires

IInv == TypeOK /\ Working /\ Truthful /\ ReplayFaithful

-----------------------------------------------------------------------------
\* What the database holds before anything happened.
LEMMA InitInv == Init => IInv
<1> SUFFICES ASSUME Init PROVE IInv
  OBVIOUS
<1>1. TypeOK
  BY BoundsAssumption DEF Init, TypeOK
<1> QED
  BY <1>1 DEF Init, IInv, Working, Truthful, ReplayFaithful

\* The times in the log are numbers.
LEMMA LogTimes ==
    ASSUME TypeOK
    PROVE  Len(log) \in Nat /\ \A i \in 1 .. Len(log) : log[i].at \in Nat
<1> DEFINE S == [request : Request, at : 0 .. MaxTime]
<1>1. log \in Seq(S)
  BY DEF TypeOK
<1> HIDE DEF S
<1>2. Len(log) \in Nat /\ \A i \in 1 .. Len(log) : log[i] \in S
  BY <1>1
<1>3. \A e \in S : e.at \in Nat
  BY DEF S
<1> QED
  BY <1>2, <1>3

\* One more entry in the log leaves the others as they are.
LEMMA LogGrows ==
    ASSUME TypeOK, NEW e
    PROVE  /\ Len(Append(log, e)) = Len(log) + 1
           /\ Append(log, e)[Len(log) + 1] = e
           /\ \A i \in 1 .. Len(log) : Append(log, e)[i] = log[i]
BY DEF TypeOK

\* What the UPDATE of one row does to the others.
LEMMA StoreEffect ==
    ASSUME IInv, NEW w \in Worker, Store(w)
    PROVE  /\ row' \in [Key -> Row \cup {NoRow}]
           /\ \A k \in Key :
                 \/ row'[k] = row[k]
                 \/ /\ row[k] = NoRow /\ k = req[w].key
                    /\ row'[k].run = run[w] /\ row'[k].body = req[w].body
                    /\ row'[k].expires = now + TTL
<1> DEFINE r == req[w]
           new == [user |-> r.user, body |-> r.body, run |-> run[w], expires |-> now + TTL]
<1>1. r \in Request /\ run[w] \in 1 .. MaxRuns
  BY DEF IInv, TypeOK, Working, Store
<1>2. now + TTL \in 0 .. MaxTime + TTL
  BY BoundsAssumption DEF IInv, TypeOK
<1>3. new \in Row
  BY <1>1, <1>2 DEF Row
<1>4. \/ r.key \in Key /\ row[r.key] = NoRow /\ row' = [row EXCEPT ![r.key] = new]
      \/ row' = row
  BY DEF Store, Free
<1>5. row \in [Key -> Row \cup {NoRow}]
  BY DEF IInv, TypeOK
<1>6. CASE row' = row
  BY <1>5, <1>6
<1>7. CASE r.key \in Key /\ row[r.key] = NoRow /\ row' = [row EXCEPT ![r.key] = new]
  <2>1. row' \in [Key -> Row \cup {NoRow}]
    BY <1>3, <1>5, <1>7
  <2>2. ASSUME NEW k \in Key PROVE row'[k] = IF k = r.key THEN new ELSE row[k]
    BY <1>5, <1>7
  <2> QED
    BY <1>7, <2>1, <2>2
<1> QED
  BY <1>4, <1>6, <1>7

\* A step that leaves the tables and the answers alone.
LEMMA TablesKept ==
    ASSUME IInv, UNCHANGED <<now, row, log, served>>
    PROVE  Truthful' /\ ReplayFaithful'
BY DEF IInv, Truthful, ReplayFaithful

\* Every step keeps the invariant.
LEMMA StepInv == IInv /\ [Next]_vars => IInv'
<1> SUFFICES ASSUME IInv, [Next]_vars PROVE IInv'
  OBVIOUS
<1>1. ASSUME NEW w \in Worker, NEW r \in Request, PassOn(w, r) PROVE IInv'
  <2>1. TypeOK'
    BY <1>1, BoundsAssumption DEF IInv, TypeOK, PassOn, Lose
  <2>2. Working'
    BY <1>1 DEF IInv, TypeOK, Working, PassOn
  <2> QED
    BY <1>1, <2>1, <2>2, TablesKept DEF IInv, PassOn
<1>2. ASSUME NEW w \in Worker, NEW r \in Request, Replay(w, r) PROVE IInv'
  <2>1. r.key \in Key /\ row[r.key] # NoRow /\ row[r.key].body = r.body
    BY <1>2 DEF Replay, Live
  <2>2. /\ row[r.key].run \in 1 .. Len(log)
        /\ log[row[r.key].run].request.key = r.key
        /\ log[row[r.key].run].request.body = r.body
    BY <2>1 DEF IInv, Truthful
  <2> DEFINE s == [request |-> r, run |-> row[r.key].run, at |-> now]
  <2>3. served' = served \cup {s} /\ UNCHANGED <<now, row, log, pc, req, run, lost>>
    BY <1>2 DEF Replay
  <2>4. s \in [request : Request, run : 1 .. MaxRuns, at : 0 .. MaxTime]
    <3>1. row[r.key].run \in 1 .. MaxRuns
      BY <2>2, LogTimes, BoundsAssumption DEF IInv, TypeOK
    <3> QED
      BY <3>1 DEF IInv, TypeOK
  <2>5. TypeOK'
    BY <2>3, <2>4 DEF IInv, TypeOK
  <2>6. ReplayFaithful'
    BY <2>2, <2>3 DEF IInv, ReplayFaithful
  <2> QED
    BY <2>3, <2>5, <2>6 DEF IInv, Working, Truthful
<1>3. ASSUME NEW w \in Worker, Handle(w) PROVE IInv'
  <2> DEFINE e == [request |-> req[w], at |-> now]
  <2>1. /\ pc[w] = "handle" /\ Len(log) < MaxRuns
        /\ log' = Append(log, e)
        /\ run' = [run EXCEPT ![w] = Len(log) + 1]
        /\ pc' = [pc EXCEPT ![w] = "store"]
        /\ UNCHANGED <<now, row, req, served, lost>>
    BY <1>3 DEF Handle
  <2>2. e \in [request : Request, at : 0 .. MaxTime] /\ e.at = now /\ e.request = req[w]
    BY <2>1 DEF IInv, TypeOK, Working
  <2>3. /\ Len(log') = Len(log) + 1
        /\ log'[Len(log) + 1] = e
        /\ \A i \in 1 .. Len(log) : log'[i] = log[i]
    BY <2>1, LogGrows DEF IInv
  <2>4. log' \in Seq([request : Request, at : 0 .. MaxTime]) /\ Len(log') <= MaxRuns /\ Len(log) \in Nat
    BY <2>1, <2>2, <2>3, BoundsAssumption DEF IInv, TypeOK
  <2>5. run' \in [Worker -> 0 .. MaxRuns] /\ pc' \in [Worker -> {"idle", "handle", "store"}]
    BY <2>1, <2>4, BoundsAssumption DEF IInv, TypeOK
  <2>6. TypeOK'
    BY <2>1, <2>4, <2>5 DEF IInv, TypeOK
  <2>7. Working'
    <3> SUFFICES ASSUME NEW v \in Worker
                 PROVE  /\ pc'[v] # "idle" => req'[v] \in Request
                        /\ pc'[v] = "store" => run'[v] \in 1 .. Len(log') /\ log'[run'[v]].request = req'[v]
      BY DEF Working
    <3>1. CASE v = w
      BY <2>1, <2>2, <2>3, <2>4, <3>1 DEF IInv, TypeOK, Working
    <3>2. CASE v # w
      <4>1. pc'[v] = pc[v] /\ run'[v] = run[v] /\ req'[v] = req[v]
        BY <2>1, <3>2 DEF IInv, TypeOK
      <4>2. pc[v] = "store" => run[v] \in 1 .. Len(log) /\ log[run[v]].request = req[v]
        BY DEF IInv, Working
      <4> QED
        BY <2>3, <2>4, <4>1, <4>2 DEF IInv, Working
    <3> QED
      BY <3>1, <3>2
  <2>8. Truthful'
    <3>1. \A i \in 1 .. Len(log') : log'[i].at <= now'
      BY <2>1, <2>2, <2>3, <2>4 DEF IInv, TypeOK, Truthful
    <3>2. \A k \in Key : row'[k] # NoRow =>
             /\ row'[k].run \in 1 .. Len(log')
             /\ log'[row'[k].run] = log[row[k].run]
      BY <2>1, <2>3, <2>4 DEF IInv, Truthful
    <3> QED
      BY <2>1, <3>1, <3>2 DEF IInv, Truthful
  <2>9. ReplayFaithful'
    <3>1. \A s \in served : s.run \in 1 .. Len(log)
      BY <2>4 DEF IInv, TypeOK, ReplayFaithful
    <3> QED
      BY <2>1, <2>3, <2>4, <3>1 DEF IInv, ReplayFaithful
  <2> QED
    BY <2>6, <2>7, <2>8, <2>9 DEF IInv
<1>4. ASSUME NEW w \in Worker, Store(w) PROVE IInv'
  <2>1. /\ pc[w] = "store" /\ pc' = [pc EXCEPT ![w] = "idle"]
        /\ req' = [req EXCEPT ![w] = NoRequest] /\ run' = [run EXCEPT ![w] = 0]
        /\ lost' = lost \/ Lose(1)
        /\ UNCHANGED <<now, log, served>>
    BY <1>4 DEF Store, Leave
  <2>2. lost' \in 0 .. MaxFaults
    BY <2>1, BoundsAssumption DEF IInv, TypeOK, Lose
  <2>3. TypeOK'
    BY <1>4, <2>1, <2>2, StoreEffect, BoundsAssumption DEF IInv, TypeOK
  <2>4. Working'
    BY <2>1 DEF IInv, TypeOK, Working
  <2>5. Truthful'
    <3>1. run[w] \in 1 .. Len(log) /\ log[run[w]].request = req[w] /\ log[run[w]].at <= now
      BY <2>1 DEF IInv, Working, Truthful
    <3>2. \A i \in 1 .. Len(log) : log[i].at \in Nat
      BY LogTimes DEF IInv
    <3>3. TTL \in Nat /\ now \in Nat
      BY BoundsAssumption DEF IInv, TypeOK
    <3> SUFFICES ASSUME NEW k \in Key, row'[k] # NoRow
                 PROVE  /\ row'[k].run \in 1 .. Len(log)
                        /\ log[row'[k].run].request.key = k
                        /\ log[row'[k].run].request.body = row'[k].body
                        /\ log[row'[k].run].at + TTL <= row'[k].expires
      BY <2>1 DEF IInv, Truthful
    <3>4. CASE row'[k] = row[k]
      BY <3>4 DEF IInv, Truthful
    <3>5. CASE /\ row[k] = NoRow /\ k = req[w].key
               /\ row'[k].run = run[w] /\ row'[k].body = req[w].body
               /\ row'[k].expires = now + TTL
      BY <3>1, <3>2, <3>3, <3>5
    <3> QED
      BY <1>4, <3>4, <3>5, StoreEffect
  <2>6. ReplayFaithful'
    BY <2>1 DEF IInv, ReplayFaithful
  <2> QED
    BY <2>3, <2>4, <2>5, <2>6 DEF IInv
<1>5. CASE Cleanup
  <2>1. /\ row' = [k \in Key |-> IF row[k] # NoRow /\ row[k].expires < now THEN NoRow ELSE row[k]]
        /\ UNCHANGED <<now, log, pc, req, run, served, lost>>
    BY <1>5 DEF Cleanup
  <2>2. \A k \in Key : row'[k] = row[k] \/ row'[k] = NoRow
    BY <2>1
  <2>3. TypeOK'
    BY <2>1 DEF IInv, TypeOK
  <2>4. Truthful'
    BY <2>1, <2>2 DEF IInv, Truthful
  <2> QED
    BY <2>1, <2>3, <2>4 DEF IInv, Working, ReplayFaithful
<1>6. CASE Tick
  <2>1. now < MaxTime /\ now' = now + 1 /\ UNCHANGED <<row, log, pc, req, run, served, lost>>
    BY <1>6 DEF Tick
  <2>2. \A i \in 1 .. Len(log) : log[i].at \in Nat
    BY LogTimes DEF IInv
  <2>3. TypeOK'
    BY <2>1, BoundsAssumption DEF IInv, TypeOK
  <2>4. Truthful'
    BY <2>1, <2>2 DEF IInv, TypeOK, Truthful
  <2> QED
    BY <2>1, <2>3, <2>4 DEF IInv, Working, ReplayFaithful
<1>7. CASE Crash
  <2>1. lost' \in 0 .. MaxFaults
    <3> DEFINE S == {w \in Worker : pc[w] = "store"}
    <3>1. lost' <= MaxFaults /\ lost' = lost + Cardinality(S)
      BY <1>7 DEF Crash, Lose
    <3>2. Cardinality(S) \in Nat
      BY WorkerAssumption, FS_Subset, FS_CardinalityType
    <3> QED
      BY <3>1, <3>2, BoundsAssumption DEF IInv, TypeOK
  <2>2. TypeOK'
    BY <1>7, <2>1, BoundsAssumption DEF IInv, TypeOK, Crash
  <2>3. Working'
    BY <1>7 DEF Working, Crash
  <2> QED
    BY <1>7, <2>2, <2>3, TablesKept DEF IInv, Crash
<1>8. CASE UNCHANGED vars
  BY <1>8 DEF vars, IInv, TypeOK, Working, Truthful, ReplayFaithful
<1> QED
  BY <1>1, <1>2, <1>3, <1>4, <1>5, <1>6, <1>7, <1>8 DEF Next

\* The inductive invariant: what is stored was answered, and why a key is free.
THEOREM Invariance == Spec => []IInv
<1> QED
  BY InitInv, StepInv, PTL DEF Spec

\* The variables of the middleware have their types.
THEOREM TypeCorrect == Spec => []TypeOK
<1>1. IInv => TypeOK
  BY DEF IInv
<1> QED
  BY <1>1, Invariance, PTL

\* A replayed answer is the answer to a request with the same key and body.
THEOREM ReplaysAreFaithful == Spec => []ReplayFaithful
<1>1. IInv => ReplayFaithful
  BY DEF IInv
<1> QED
  BY <1>1, Invariance, PTL

-----------------------------------------------------------------------------
\* An answer that was replayed at this instant, or whose lifetime is not over,
\* is still in the table.
Kept ==
    /\ \A s \in served : s.at <= now
    /\ \A s \in served :
          s.at = now \/ now < log[s.run].at + TTL =>
              Live(s.request.key) /\ row[s.request.key].run = s.run

Stable == Kept /\ ReplayStable

\* What has been replayed, and the log it refers to, are as they were.
LEMMA ServedTimes ==
    ASSUME IInv
    PROVE  \A s \in served : /\ s.at \in Nat /\ s.run \in 1 .. Len(log)
                             /\ log[s.run].at \in Nat /\ log[s.run].at <= now
<1>1. ASSUME NEW s \in served PROVE s.at \in Nat /\ s.run \in Nat \ {0}
  BY <1>1 DEF IInv, TypeOK
<1>2. \A s \in served : s.run <= Len(log)
  BY DEF IInv, ReplayFaithful
<1>3. \A s \in served : s.run \in 1 .. Len(log)
  BY <1>1, <1>2, LogTimes DEF IInv
<1> QED
  BY <1>1, <1>3, LogTimes DEF IInv, Truthful

\* Every step keeps what was replayed in the table for its lifetime.
LEMMA StableStep ==
    ASSUME IInv, IInv', Stable, [Next]_vars
    PROVE  Stable'
<1> USE BoundsAssumption
<1>0. now \in Nat /\ TTL \in Nat
  BY DEF IInv, TypeOK
<1>1. ASSUME NEW w \in Worker, NEW r \in Request, PassOn(w, r) PROVE Stable'
  BY <1>1 DEF Stable, Kept, ReplayStable, Live, PassOn
<1>2. ASSUME NEW w \in Worker, NEW r \in Request, Replay(w, r) PROVE Stable'
  <2> DEFINE k == r.key
             new == [request |-> r, run |-> row[k].run, at |-> now]
  <2>1. /\ Live(k) /\ served' = served \cup {new}
        /\ UNCHANGED <<now, row, log>>
    BY <1>2 DEF Replay
  <2>2. Kept'
    BY <1>0, <2>1 DEF Stable, Kept, Live
  <2>3. ASSUME NEW s \in served', NEW t \in served',
               s.request.key = t.request.key, s.at <= t.at, t.at < log[s.run].at + TTL
        PROVE  s.run = t.run
    <3>1. CASE s \in served /\ t \in served
      BY <2>3, <3>1 DEF Stable, ReplayStable
    <3>2. CASE s \in served /\ t = new
      BY <2>3, <3>2 DEF Stable, Kept
    <3>3. CASE s = new /\ t \in served
      <4>1. t.at = now
        BY <1>0, <2>3, <3>3, ServedTimes DEF Stable, Kept
      <4> QED
        BY <2>3, <3>3, <4>1 DEF Stable, Kept
    <3> QED
      BY <2>1, <2>3, <3>1, <3>2, <3>3
  <2> QED
    BY <2>1, <2>2, <2>3 DEF Stable, ReplayStable
<1>3. ASSUME NEW w \in Worker, Handle(w) PROVE Stable'
  <2>1. UNCHANGED <<now, row, served>> /\ log' = Append(log, [request |-> req[w], at |-> now])
    BY <1>3 DEF Handle
  <2>2. \A s \in served : log'[s.run] = log[s.run]
    BY <2>1, ServedTimes, LogGrows DEF IInv
  <2> QED
    BY <2>1, <2>2 DEF Stable, Kept, ReplayStable, Live
<1>4. ASSUME NEW w \in Worker, Store(w) PROVE Stable'
  <2>1. UNCHANGED <<now, log, served>>
    BY <1>4 DEF Store
  <2>2. \A k \in Key : Live(k) => row'[k] = row[k]
    BY <1>4, StoreEffect DEF Live
  <2> QED
    BY <2>1, <2>2 DEF Stable, Kept, ReplayStable, Live
<1>5. CASE Cleanup
  <2>1. /\ row' = [k \in Key |-> IF row[k] # NoRow /\ row[k].expires < now THEN NoRow ELSE row[k]]
        /\ UNCHANGED <<now, log, served>>
    BY <1>5 DEF Cleanup
  <2>2. \A k \in Key : row[k] # NoRow => row[k].expires \in Nat
    BY DEF IInv, TypeOK, Row
  <2>3. \A k \in Key : Live(k) => row'[k] = row[k]
    BY <1>0, <2>1, <2>2 DEF Live
  <2> QED
    BY <2>1, <2>3 DEF Stable, Kept, ReplayStable, Live
<1>6. CASE Tick
  <2>1. now' = now + 1 /\ UNCHANGED <<row, log, served>>
    BY <1>6 DEF Tick
  <2>2. \A k \in Key : row[k] # NoRow =>
           row[k].expires \in Nat /\ log[row[k].run].at + TTL <= row[k].expires
    BY DEF IInv, TypeOK, Row, Truthful
  <2>3. ASSUME NEW s \in served
        PROVE  /\ s.at <= now'
               /\ s.at = now' \/ now' < log[s.run].at + TTL =>
                    Live(s.request.key)' /\ row[s.request.key].run = s.run
    <3>1. s.at \in Nat /\ s.at <= now /\ log[s.run].at \in Nat
      BY ServedTimes DEF Stable, Kept
    <3>2. s.at <= now' /\ s.at # now'
      BY <1>0, <2>1, <3>1
    <3>3. ASSUME now' < log[s.run].at + TTL
          PROVE  Live(s.request.key)' /\ row[s.request.key].run = s.run
      <4> DEFINE k == s.request.key
      <4>1. k \in Key /\ row[k] # NoRow /\ row[k].run = s.run
        BY <1>0, <2>1, <3>1, <3>3 DEF Stable, Kept, Live
      <4>2. row[k].expires > now'
        BY <1>0, <2>1, <2>2, <3>1, <3>3, <4>1
      <4> QED
        BY <2>1, <4>1, <4>2 DEF Live
    <3> QED
      BY <3>2, <3>3
  <2> QED
    BY <2>1, <2>3 DEF Stable, Kept, ReplayStable
<1>7. CASE Crash
  BY <1>7 DEF Stable, Kept, ReplayStable, Live, Crash
<1>8. CASE UNCHANGED vars
  BY <1>8 DEF vars, Stable, Kept, ReplayStable, Live
<1> QED
  BY <1>1, <1>2, <1>3, <1>4, <1>5, <1>6, <1>7, <1>8 DEF Next

\* All replays of a key within the lifetime of the answer give that answer.
THEOREM ReplaysAgree == Spec => []ReplayStable
<1>1. Init => Stable
  BY DEF Init, Stable, Kept, ReplayStable
<1>2. IInv /\ IInv' /\ Stable /\ [Next]_vars => Stable'
  BY StableStep
<1>3. Stable => ReplayStable
  BY DEF Stable
<1> QED
  BY <1>1, <1>2, <1>3, Invariance, PTL DEF Spec

-----------------------------------------------------------------------------
\* Duplicates.

\* The runs of a key, and the handlers that are about to make or to store one.
Runs(k) == {i \in DOMAIN log : log[i].request.key = k}
Handling(k) == {w \in Worker : pc[w] = "handle" /\ req[w].key = k}
Storing(k) == {w \in Worker : pc[w] = "store" /\ req[w].key = k}

\* The lifetime of the key's first answer is over.
Closed(k) == \E j \in Runs(k) : log[j].at + TTL <= now

\* Before a row is there, each run is waiting to be stored or was lost; while
\* it lives, whoever passes it by is a handler of before or a loss; then no
\* run counts any more.
Covered(k) ==
    \/ Closed(k) /\ Cardinality(FirstRuns(k)) <= Cardinality(Worker) + lost
    \/ row[k] = NoRow /\ Cardinality(Runs(k)) <= Cardinality(Storing(k)) + lost
    \/ Live(k) /\ Cardinality(FirstRuns(k)) + Cardinality(Handling(k)) <= Cardinality(Worker) + lost

\* The sets that are counted are finite; a handler does one thing at a time.
LEMMA Counted ==
    ASSUME TypeOK, NEW k
    PROVE  /\ lost \in Nat /\ IsFiniteSet(Worker) /\ Cardinality(Worker) \in Nat
           /\ IsFiniteSet(Runs(k)) /\ Cardinality(Runs(k)) \in Nat
           /\ FirstRuns(k) \subseteq Runs(k)
           /\ IsFiniteSet(FirstRuns(k)) /\ Cardinality(FirstRuns(k)) \in Nat
           /\ Cardinality(FirstRuns(k)) <= Cardinality(Runs(k))
           /\ IsFiniteSet(Handling(k)) /\ Cardinality(Handling(k)) \in Nat
           /\ IsFiniteSet(Storing(k)) /\ Cardinality(Storing(k)) \in Nat
           /\ Cardinality(Handling(k)) + Cardinality(Storing(k)) <= Cardinality(Worker)
<1>1. lost \in Nat /\ Len(log) \in Nat /\ DOMAIN log = 1 .. Len(log)
  BY BoundsAssumption, LogTimes DEF TypeOK
<1>2. IsFiniteSet(Worker) /\ Cardinality(Worker) \in Nat
  BY WorkerAssumption, FS_CardinalityType
<1>3. IsFiniteSet(Runs(k)) /\ Cardinality(Runs(k)) \in Nat
  <2>1. IsFiniteSet(1 .. Len(log))
    BY <1>1, FS_Interval
  <2>2. Runs(k) \subseteq 1 .. Len(log)
    BY <1>1 DEF Runs
  <2> QED
    BY <2>1, <2>2, FS_Subset, FS_CardinalityType
<1>4. FirstRuns(k) \subseteq Runs(k)
  BY DEF FirstRuns, Runs
<1>5. /\ IsFiniteSet(FirstRuns(k)) /\ Cardinality(FirstRuns(k)) \in Nat
      /\ Cardinality(FirstRuns(k)) <= Cardinality(Runs(k))
  BY <1>3, <1>4, FS_Subset, FS_CardinalityType
<1>6. /\ Handling(k) \subseteq Worker /\ Storing(k) \subseteq Worker
      /\ Handling(k) \cap Storing(k) = {}
  BY DEF Handling, Storing
<1>7. /\ IsFiniteSet(Handling(k)) /\ Cardinality(Handling(k)) \in Nat
      /\ IsFiniteSet(Storing(k)) /\ Cardinality(Storing(k)) \in Nat
  BY <1>2, <1>6, FS_Subset, FS_CardinalityType
<1>8. Cardinality(Handling(k) \cup Storing(k)) = Cardinality(Handling(k)) + Cardinality(Storing(k))
  <2>1. Cardinality(Handling(k) \cap Storing(k)) = 0
    BY <1>6, FS_EmptySet
  <2>2. Cardinality(Handling(k) \cup Storing(k))
          = Cardinality(Handling(k)) + Cardinality(Storing(k)) - Cardinality(Handling(k) \cap Storing(k))
    BY <1>7, FS_Union
  <2> QED
    BY <1>7, <2>1, <2>2
<1>9. Cardinality(Handling(k) \cup Storing(k)) <= Cardinality(Worker)
  BY <1>2, <1>6, FS_Subset
<1> QED
  BY <1>1, <1>2, <1>3, <1>4, <1>5, <1>7, <1>8, <1>9

\* What is counted does not change with the clock.
LEMMA RunsKept ==
    ASSUME log' = log, NEW k
    PROVE  Runs(k)' = Runs(k) /\ FirstRuns(k)' = FirstRuns(k)
BY DEF Runs, FirstRuns

\* Steps of requests with other keys, and steps that change nothing here.
LEMMA CoveredElsewhere ==
    ASSUME TypeOK, NEW k, Covered(k),
           Runs(k)' = Runs(k), FirstRuns(k)' = FirstRuns(k), Closed(k) => Closed(k)',
           row'[k] = row[k], now' = now, lost' \in Nat, lost' >= lost,
           Handling(k)' = Handling(k), Storing(k)' = Storing(k)
    PROVE  Covered(k)'
<1>1. Live(k)' = Live(k)
  BY DEF Live
<1> QED
  BY <1>1, Counted DEF Covered

\* A request passes the lookup.
LEMMA CoveredPassOn ==
    ASSUME IInv, NEW k \in Key, Covered(k), NEW w \in Worker, NEW r \in Request, PassOn(w, r)
    PROVE  Covered(k)'
<1>1. /\ pc[w] = "idle" /\ pc' = [pc EXCEPT ![w] = "handle"] /\ req' = [req EXCEPT ![w] = r]
      /\ UNCHANGED <<now, row, log>>
  BY DEF PassOn
<1>2. /\ \A q \in Worker : q # w => pc'[q] = pc[q] /\ req'[q] = req[q]
      /\ pc'[w] = "handle" /\ req'[w] = r
  BY <1>1 DEF IInv, TypeOK
<1>3. lost \in Nat /\ lost' \in Nat /\ lost' >= lost /\ (Live(r.key) => lost' = lost + 1)
  BY Counted DEF PassOn, Lose, IInv
<1>4. Runs(k)' = Runs(k) /\ FirstRuns(k)' = FirstRuns(k) /\ (Closed(k) => Closed(k)')
  <2>1. Runs(k)' = Runs(k) /\ FirstRuns(k)' = FirstRuns(k)
    BY <1>1, RunsKept
  <2> QED
    BY <1>1, <2>1 DEF Closed
<1>5. Storing(k)' = Storing(k)
  BY <1>1, <1>2 DEF Storing
<1>6. CASE r.key # k
  <2>1. Handling(k)' = Handling(k)
    BY <1>1, <1>2, <1>6 DEF Handling
  <2> QED
    BY <1>1, <1>3, <1>4, <1>5, <2>1, CoveredElsewhere DEF IInv
<1>7. CASE r.key = k
  <2>1. Handling(k)' = Handling(k) \cup {w} /\ w \notin Handling(k)
    BY <1>1, <1>2, <1>7 DEF Handling
  <2>2. Cardinality(Handling(k)') = Cardinality(Handling(k)) + 1
    BY <2>1, Counted, FS_AddElement DEF IInv
  <2>3. Live(k)' = Live(k)
    BY <1>1 DEF Live
  <2> QED
    BY <1>1, <1>3, <1>4, <1>5, <1>7, <2>2, <2>3, Counted DEF Covered, IInv
<1> QED
  BY <1>6, <1>7

\* A request is handled: what that adds to the runs of its key.
LEMMA RunsNext ==
    ASSUME IInv, NEW k, NEW w \in Worker, Handle(w)
    PROVE  /\ req[w].key # k => Runs(k)' = Runs(k) /\ FirstRuns(k)' = FirstRuns(k)
           /\ req[w].key = k => /\ Runs(k)' = Runs(k) \cup {Len(log) + 1}
                                /\ Len(log) + 1 \notin Runs(k)
                                /\ FirstRuns(k)' \subseteq FirstRuns(k) \cup {Len(log) + 1}
                                /\ Closed(k) => FirstRuns(k)' \subseteq FirstRuns(k)
           /\ Closed(k) => Closed(k)'
<1> DEFINE e == [request |-> req[w], at |-> now]
           n == Len(log) + 1
<1>1. log' = Append(log, e) /\ now' = now /\ e.request = req[w] /\ e.at = now
  BY DEF Handle
<1>2. /\ n \in Nat \ {0} /\ DOMAIN log = 1 .. n - 1
      /\ log'[n] = e /\ \A i \in 1 .. n - 1 : log'[i] = log[i] /\ log[i].at \in Nat
  BY <1>1, LogTimes, LogGrows DEF IInv, TypeOK
<1>3. DOMAIN log' = 1 .. n
  BY <1>1 DEF IInv, TypeOK
<1> HIDE DEF e, n
<1>4. \A i \in DOMAIN log' : i \in DOMAIN log \/ i = n
  BY <1>2, <1>3
<1>5. \A i \in DOMAIN log : i \in DOMAIN log' /\ i # n
  BY <1>2, <1>3
<1>6. n \in DOMAIN log'
  BY <1>2, <1>3
<1>7. now \in Nat /\ TTL \in Nat
  BY BoundsAssumption DEF IInv, TypeOK
<1>8. CASE req[w].key # k
  <2>1. Runs(k)' = Runs(k)
    BY <1>1, <1>2, <1>4, <1>5, <1>8 DEF Runs
  <2>2. FirstRuns(k)' = FirstRuns(k)
    BY <1>1, <1>2, <1>4, <1>5, <1>8 DEF FirstRuns
  <2> QED
    BY <1>1, <1>2, <1>8, <2>1, <2>2 DEF Closed, Runs
<1>9. CASE req[w].key = k
  <2>1. Runs(k)' = Runs(k) \cup {n} /\ n \notin Runs(k)
    BY <1>1, <1>2, <1>4, <1>5, <1>6, <1>9 DEF Runs
  <2>2. FirstRuns(k)' \subseteq FirstRuns(k) \cup {n}
    BY <1>1, <1>2, <1>4, <1>5 DEF FirstRuns
  <2>3. ASSUME Closed(k) PROVE n \notin FirstRuns(k)' /\ Closed(k)'
    <3>1. PICK j \in DOMAIN log : log[j].request.key = k /\ log[j].at + TTL <= now
      BY <2>3 DEF Closed, Runs
    <3>2. j \in DOMAIN log' /\ log'[j] = log[j] /\ log[j].at \in Nat
      BY <1>2, <1>5, <3>1
    <3>3. ~(log'[n].at < log'[j].at + TTL)
      BY <1>1, <1>2, <1>7, <3>1, <3>2
    <3> QED
      BY <1>1, <2>1, <3>1, <3>2, <3>3 DEF FirstRuns, Closed, Runs
  <2> QED
    BY <1>9, <2>1, <2>2, <2>3 DEF n
<1> QED
  BY <1>8, <1>9

\* A request is handled.
LEMMA CoveredHandle ==
    ASSUME IInv, NEW k \in Key, Covered(k), NEW w \in Worker, Handle(w)
    PROVE  Covered(k)'
<1>1. /\ pc[w] = "handle" /\ pc' = [pc EXCEPT ![w] = "store"]
      /\ UNCHANGED <<now, row, req, lost>>
  BY DEF Handle
<1>2. /\ \A q \in Worker : q # w => pc'[q] = pc[q]
      /\ pc'[w] = "store"
  BY <1>1 DEF IInv, TypeOK
<1>3. CASE req[w].key # k
  <2>1. Handling(k)' = Handling(k) /\ Storing(k)' = Storing(k)
    BY <1>1, <1>2, <1>3 DEF Handling, Storing
  <2>2. lost' \in Nat /\ lost' >= lost
    BY <1>1, Counted DEF IInv
  <2> QED
    BY <1>1, <1>3, <2>1, <2>2, RunsNext, CoveredElsewhere DEF IInv
<1>4. CASE req[w].key = k
  <2> DEFINE n == Len(log) + 1
  <2>1. /\ Handling(k)' = Handling(k) \ {w} /\ w \in Handling(k)
        /\ Storing(k)' = Storing(k) \cup {w} /\ w \notin Storing(k)
    BY <1>1, <1>2, <1>4 DEF Handling, Storing
  <2>2. /\ Cardinality(Handling(k)') = Cardinality(Handling(k)) - 1
        /\ Cardinality(Storing(k)') = Cardinality(Storing(k)) + 1
    <3>1. IsFiniteSet(Handling(k)) /\ IsFiniteSet(Storing(k))
      BY Counted DEF IInv
    <3>2. Cardinality(Handling(k) \ {w}) = Cardinality(Handling(k)) - 1
      BY <2>1, <3>1, FS_RemoveElement
    <3>3. Cardinality(Storing(k) \cup {w}) = Cardinality(Storing(k)) + 1
      BY <2>1, <3>1, FS_AddElement
    <3> QED
      BY <2>1, <3>2, <3>3
  <2>3. Cardinality(Runs(k)') = Cardinality(Runs(k)) + 1
    BY <1>4, RunsNext, Counted, FS_AddElement DEF IInv
  <2>4. /\ Cardinality(FirstRuns(k)') \in Nat
        /\ Cardinality(FirstRuns(k)') <= Cardinality(FirstRuns(k)) + 1
    <3>1. /\ IsFiniteSet(FirstRuns(k) \cup {n})
          /\ Cardinality(FirstRuns(k) \cup {n}) \in {Cardinality(FirstRuns(k)), Cardinality(FirstRuns(k)) + 1}
      BY Counted, FS_AddElement DEF IInv
    <3>2. /\ IsFiniteSet(FirstRuns(k)')
          /\ Cardinality(FirstRuns(k)') <= Cardinality(FirstRuns(k) \cup {n})
      BY <1>4, <3>1, RunsNext, FS_Subset
    <3>3. Cardinality(FirstRuns(k)') \in Nat /\ Cardinality(FirstRuns(k)) \in Nat
      BY <3>2, Counted, FS_CardinalityType DEF IInv
    <3> QED
      BY <3>1, <3>2, <3>3
  <2>5. Closed(k) => /\ Closed(k)'
                     /\ Cardinality(FirstRuns(k)') <= Cardinality(FirstRuns(k))
    BY <1>4, RunsNext, Counted, FS_Subset DEF IInv
  <2>6. Live(k)' = Live(k) /\ row'[k] = row[k] /\ lost' = lost
    BY <1>1 DEF Live
  <2> HIDE DEF n
  <2> QED
    BY <2>2, <2>3, <2>4, <2>5, <2>6, Counted DEF Covered, IInv
<1> QED
  BY <1>3, <1>4

\* An answer is stored, or not.
LEMMA CoveredStore ==
    ASSUME IInv, NEW k \in Key, Covered(k), NEW w \in Worker, Store(w)
    PROVE  Covered(k)'
<1> DEFINE r == req[w]
           new == [user |-> r.user, body |-> r.body, run |-> run[w], expires |-> now + TTL]
<1>1. /\ pc[w] = "store" /\ Leave(w) /\ UNCHANGED <<now, log, served>>
      /\ \/ Free(r.key) /\ row' = [row EXCEPT ![r.key] = new] /\ UNCHANGED lost
         \/ ~Free(r.key) /\ UNCHANGED <<row, lost>>
         \/ Free(r.key) /\ Lose(1) /\ UNCHANGED row
  BY DEF Store
<1>2. /\ \A q \in Worker : q # w => pc'[q] = pc[q] /\ req'[q] = req[q]
      /\ pc'[w] = "idle"
  BY <1>1 DEF Leave, IInv, TypeOK
<1>3. lost \in Nat /\ lost' \in Nat /\ lost' >= lost
  BY <1>1, Counted DEF Lose, IInv
<1>4. Runs(k)' = Runs(k) /\ FirstRuns(k)' = FirstRuns(k) /\ (Closed(k) => Closed(k)')
  <2>1. Runs(k)' = Runs(k) /\ FirstRuns(k)' = FirstRuns(k)
    BY <1>1, RunsKept
  <2> QED
    BY <1>1, <2>1 DEF Closed
<1>5. Handling(k)' = Handling(k)
  BY <1>1, <1>2 DEF Handling
<1>6. CASE r.key # k
  <2>1. Storing(k)' = Storing(k)
    BY <1>1, <1>2, <1>6 DEF Storing
  <2>2. row'[k] = row[k]
    BY <1>1, <1>6 DEF IInv, TypeOK
  <2> QED
    BY <1>1, <1>3, <1>4, <1>5, <2>1, <2>2, CoveredElsewhere DEF IInv
<1>7. CASE r.key = k
  <2>1. Storing(k)' = Storing(k) \ {w} /\ w \in Storing(k)
    BY <1>1, <1>2, <1>7 DEF Storing
  <2>2. Cardinality(Storing(k)') = Cardinality(Storing(k)) - 1
    <3>1. IsFiniteSet(Storing(k))
      BY Counted DEF IInv
    <3> QED
      BY <2>1, <3>1, FS_RemoveElement
  <2>3. CASE Closed(k) /\ Cardinality(FirstRuns(k)) <= Cardinality(Worker) + lost
    BY <1>3, <1>4, <2>3, Counted DEF Covered, IInv
  <2>4. CASE Live(k) /\ Cardinality(FirstRuns(k)) + Cardinality(Handling(k)) <= Cardinality(Worker) + lost
    <3>1. row' = row /\ lost' = lost
      BY <1>1, <1>7, <2>4 DEF Free, Live
    <3>2. Live(k)'
      BY <1>1, <2>4, <3>1 DEF Live
    <3> QED
      BY <1>4, <1>5, <2>4, <3>1, <3>2 DEF Covered
  <2>5. CASE row[k] = NoRow /\ Cardinality(Runs(k)) <= Cardinality(Storing(k)) + lost
    <3>1. Free(k)
      BY <2>5 DEF Free
    <3>2. CASE Lose(1) /\ UNCHANGED row
      <4>1. lost' = lost + 1 /\ row'[k] = NoRow
        BY <2>5, <3>2 DEF Lose
      <4> QED
        BY <1>3, <1>4, <2>2, <2>5, <4>1, Counted DEF Covered, IInv
    <3>3. CASE row' = [row EXCEPT ![k] = new] /\ UNCHANGED lost
      <4>1. Cardinality(FirstRuns(k)) + Cardinality(Handling(k)) <= Cardinality(Worker) + lost
        BY <2>5, Counted DEF IInv
      <4>2. now \in Nat /\ TTL \in Nat
        BY BoundsAssumption DEF IInv, TypeOK
      <4>3. row'[k] = new /\ row'[k] # NoRow /\ row'[k].expires = now + TTL
        <5>1. row'[k] = new
          BY <3>3 DEF IInv, TypeOK
        <5>2. r \in Request /\ run[w] \in 1 .. MaxRuns
          BY <1>1, LogTimes, BoundsAssumption DEF IInv, TypeOK, Working
        <5>3. new \in Row
          BY <4>2, <5>2, BoundsAssumption DEF Row, IInv, TypeOK
        <5> QED
          BY <5>1, <5>3, NoRowAssumption
      <4>4. CASE TTL > 0
        <5>1. Live(k)'
          BY <1>1, <4>2, <4>3, <4>4 DEF Live
        <5> QED
          BY <1>4, <1>5, <3>3, <4>1, <5>1 DEF Covered
      <4>5. CASE TTL = 0
        <5>1. run[w] \in Runs(k) /\ log[run[w]].at \in Nat /\ log[run[w]].at <= now
          BY <1>1, <1>7, LogTimes DEF IInv, Working, Truthful, Runs, TypeOK
        <5>2. Closed(k)'
          BY <1>1, <1>4, <4>2, <4>5, <5>1 DEF Closed
        <5> QED
          BY <1>4, <1>5, <3>3, <4>1, <5>2, Counted DEF Covered, IInv
      <4> QED
        BY <4>2, <4>4, <4>5
    <3> QED
      BY <1>1, <1>7, <3>1, <3>2, <3>3
  <2> QED
    BY <2>3, <2>4, <2>5 DEF Covered
<1> QED
  BY <1>6, <1>7

\* Every step leaves the runs of every key covered.
LEMMA CoveredStep ==
    ASSUME IInv, NEW k \in Key, Covered(k), [Next]_vars
    PROVE  Covered(k)'
<1>1. ASSUME NEW w \in Worker, NEW r \in Request, Replay(w, r) PROVE Covered(k)'
  <2>1. UNCHANGED <<now, row, log, pc, req, run, lost>>
    BY <1>1 DEF Replay
  <2> QED
    BY <2>1 DEF Covered, Closed, Runs, FirstRuns, Storing, Handling, Live
<1>2. CASE Cleanup
  <2>1. /\ row'[k] = IF row[k] # NoRow /\ row[k].expires < now THEN NoRow ELSE row[k]
        /\ UNCHANGED <<now, log, pc, req, run, lost>>
    BY <1>2 DEF Cleanup
  <2>2. /\ Runs(k)' = Runs(k) /\ FirstRuns(k)' = FirstRuns(k) /\ Closed(k)' = Closed(k)
        /\ Storing(k)' = Storing(k) /\ Handling(k)' = Handling(k)
    BY <2>1 DEF Closed, Runs, FirstRuns, Storing, Handling
  <2>3. Live(k) => row'[k] = row[k] /\ Live(k)'
    <3>1. ASSUME Live(k) PROVE row[k].expires > now /\ row[k] # NoRow /\ k \in Key
      BY <3>1 DEF Live
    <3>2. now \in Nat /\ (row[k] # NoRow => row[k].expires \in Nat)
      BY BoundsAssumption DEF IInv, TypeOK, Row
    <3> QED
      BY <2>1, <3>1, <3>2 DEF Live
  <2>4. row[k] = NoRow => row'[k] = NoRow
    BY <2>1
  <2> QED
    BY <2>1, <2>2, <2>3, <2>4 DEF Covered
<1>3. CASE Tick
  <2>1. now' = now + 1 /\ UNCHANGED <<row, log, pc, req, run, lost>>
    BY <1>3 DEF Tick
  <2>2. /\ Runs(k)' = Runs(k) /\ FirstRuns(k)' = FirstRuns(k)
        /\ Storing(k)' = Storing(k) /\ Handling(k)' = Handling(k)
    BY <2>1 DEF Runs, FirstRuns, Storing, Handling
  <2>3. now \in Nat /\ TTL \in Nat /\ \A j \in Runs(k) : log[j].at \in Nat
    <3>1. now \in Nat /\ TTL \in Nat /\ DOMAIN log = 1 .. Len(log)
      BY BoundsAssumption DEF IInv, TypeOK
    <3>2. \A j \in 1 .. Len(log) : log[j].at \in Nat
      BY LogTimes DEF IInv
    <3> QED
      BY <3>1, <3>2 DEF Runs
  <2>4. Closed(k) => Closed(k)'
    BY <2>1, <2>2, <2>3 DEF Closed
  <2>5. ASSUME Live(k), ~Live(k)' PROVE Closed(k)'
    <3>1. row[k] # NoRow /\ row[k].expires <= now' /\ row[k].expires \in Nat
      <4>1. row[k] # NoRow /\ row[k] \in Row
        BY <2>5 DEF Live, IInv, TypeOK
      <4>2. row[k].expires \in Nat
        BY <4>1, BoundsAssumption DEF Row
      <4> QED
        BY <2>1, <2>3, <2>5, <4>1, <4>2 DEF Live
    <3>2. row[k].run \in Runs(k) /\ log[row[k].run].at + TTL <= row[k].expires
      BY <3>1, LogTimes DEF IInv, Truthful, Runs, TypeOK
    <3>3. log[row[k].run].at + TTL <= now'
      BY <2>1, <2>3, <3>1, <3>2
    <3> QED
      BY <2>1, <2>2, <3>2, <3>3 DEF Closed
  <2> QED
    BY <2>1, <2>2, <2>4, <2>5, Counted DEF Covered, IInv
<1>4. CASE Crash
  <2> DEFINE S == {w \in Worker : pc[w] = "store"}
  <2>1. /\ lost' = lost + Cardinality(S) /\ UNCHANGED <<now, row, log>>
        /\ \A w \in Worker : pc'[w] = "idle"
    BY <1>4 DEF Crash, Lose
  <2>2. /\ Runs(k)' = Runs(k) /\ FirstRuns(k)' = FirstRuns(k) /\ Closed(k)' = Closed(k)
        /\ Live(k)' = Live(k) /\ row'[k] = row[k]
    BY <2>1 DEF Closed, Runs, FirstRuns, Live
  <2>3. Storing(k)' = {} /\ Handling(k)' = {}
    BY <2>1 DEF Storing, Handling
  <2>4. Cardinality(S) \in Nat /\ Cardinality(Storing(k)) <= Cardinality(S)
    <3>1. S \subseteq Worker /\ Storing(k) \subseteq S
      BY DEF Storing
    <3> QED
      BY <3>1, WorkerAssumption, FS_Subset, FS_CardinalityType
  <2> HIDE DEF S
  <2>5. Cardinality(Storing(k)') = 0 /\ Cardinality(Handling(k)') = 0
    BY <2>3, FS_EmptySet
  <2> QED
    BY <2>1, <2>2, <2>4, <2>5, Counted DEF Covered, IInv
<1>5. CASE UNCHANGED vars
  <2>1. UNCHANGED <<now, row, log, pc, req, run, lost>>
    BY <1>5 DEF vars
  <2> QED
    BY <2>1 DEF Covered, Closed, Runs, FirstRuns, Storing, Handling, Live
<1> QED
  BY <1>1, <1>2, <1>3, <1>4, <1>5, CoveredPassOn, CoveredHandle, CoveredStore DEF Next

\* In the first lifetime of a key it is handled once, and once more for each
\* other handler that overlaps and for each lookup or store that was lost.
THEOREM DuplicatesExplained == Spec => []DuplicatesPaidFor
<1> DEFINE AllCovered == \A k \in Key : Covered(k)
<1>1. Init => AllCovered
  <2> SUFFICES ASSUME Init, NEW k \in Key PROVE Covered(k)
    OBVIOUS
  <2>1. Runs(k) = {} /\ Storing(k) = {} /\ lost = 0 /\ row[k] = NoRow
    BY DEF Init, Runs, Storing
  <2> QED
    BY <2>1, FS_EmptySet DEF Covered
<1>2. IInv /\ AllCovered /\ [Next]_vars => AllCovered'
  BY CoveredStep
<1>3. IInv /\ AllCovered => DuplicatesPaidFor
  <2> SUFFICES ASSUME IInv, NEW k \in Key, Covered(k)
               PROVE  Cardinality(FirstRuns(k)) <= Cardinality(Worker) + lost
    BY DEF DuplicatesPaidFor
  <2> QED
    BY Counted DEF Covered, IInv
<1> QED
  BY <1>1, <1>2, <1>3, Invariance, PTL DEF Spec
=============================================================================
